------------------------- MODULE PlanningDataProofs -------------------------
(***************************************************************************)
(* Proofs about PlanningData for any workbooks, masters, keys, lots and    *)
(* threads, any cycle month and any bounds.                                *)
(***************************************************************************)
EXTENDS PlanningData, FiniteSetTheorems, SequenceTheorems, TLAPS

-----------------------------------------------------------------------------
(* The operators of the model *)

LEMMA LeastNatural ==
    ASSUME NEW S, S \subseteq Nat, S # {}
    PROVE  \E n \in S : \A m \in S : n <= m
<1> DEFINE R == OpToRel(<, Nat)
<1>1. \E x \in S : \A y \in S : ~(<<y, x>> \in R)
  BY NatLessThanWellFounded, WFMin
<1>2. \A x, y \in Nat : <<y, x>> \in R <=> y < x
  BY DEF OpToRel
<1> HIDE DEF R
<1>3. PICK x \in S : \A y \in S : ~(<<y, x>> \in R)
  BY <1>1
<1>4. \A y \in S : ~(y < x)
  BY <1>2, <1>3
<1>5. QED
  BY <1>4

LEMMA MinIsLeast ==
    ASSUME NEW S, S \subseteq Nat, S # {}
    PROVE  Min(S) \in S /\ \A m \in S : Min(S) <= m
BY LeastNatural DEF Min

\* Lots are ordered by product and date: some lot comes first.
LEMMA NextLotIsLeft ==
    ASSUME NEW t \in Thread, job[t].left \subseteq Lot, job[t].left # {}
    PROVE  NextLot(t) \in job[t].left
<1> DEFINE left == job[t].left
           First(l) == \A k \in left : l[1] < k[1] \/ (l[1] = k[1] /\ l[2] <= k[2])
<1>1. \A l \in left : l[1] \in Nat /\ l[2] \in Nat /\ l = <<l[1], l[2]>>
  BY PlanningDataAssumption DEF Lot
<1>2. PICK p \in {l[1] : l \in left} : \A q \in {l[1] : l \in left} : p <= q
  BY <1>1, LeastNatural
<1>3. {l[2] : l \in {k \in left : k[1] = p}} # {}
  BY <1>2
<1>4. PICK d \in {l[2] : l \in {k \in left : k[1] = p}} :
        \A e \in {l[2] : l \in {k \in left : k[1] = p}} : d <= e
  BY <1>1, <1>3, LeastNatural
<1>5. PICK l \in left : l[1] = p /\ l[2] = d
  BY <1>4
<1>6. First(l)
  BY <1>1, <1>2, <1>4, <1>5
<1>7. NextLot(t) = CHOOSE k \in left : First(k)
  BY DEF NextLot
<1>8. QED
  BY <1>6, <1>7

\* The period of a preview that may be committed is that of its workbook,
\* whatever masters it was made with: every row of it is valid.
LEMMA PeriodOfWorkbook ==
    ASSUME NEW s \in Source, KindOf[s] # "INCOMING",
           NEW p \in Previews[s], CommitAllowed(KindOf[s], p),
           NEW q \in Previews[s], CommitAllowed(KindOf[s], q)
    PROVE  p.from = q.from /\ p.to = q.to
<1> DEFINE file == ContentOf[s]
           Months == {r.cells["month"] : r \in file.rows}
<1>1. PICK m \in Masters : p = Preview(KindOf[s], file, m)
  BY DEF Previews
<1>2. PICK n \in Masters : q = Preview(KindOf[s], file, n)
  BY DEF Previews
<1>3. KindOf[s] \in {"INVENTORY", "ACTUAL"}
  BY PlanningDataAssumption
<1>4. CASE KindOf[s] = "INVENTORY"
  BY <1>1, <1>2, <1>4 DEF Preview, InventoryPreview
<1>5. CASE KindOf[s] = "ACTUAL"
  <2>1. ASSUME NEW k, ActualPreview(file, k).errors = {}
        PROVE  /\ ActualPreview(file, k).from = IF Months = {} THEN Blank ELSE Min(Months)
               /\ ActualPreview(file, k).to = IF Months = {} THEN Blank ELSE Max(Months)
    <3> DEFINE valid == {ActualRow(r, k) :
                            r \in {x \in file.rows : ActualFindings(x, k) = {}}}
               months == {r.month : r \in valid}
    <3>1. ActualPreview(file, k) =
            [errors |-> Found("ACTUAL_SALES_NO_DATA_ROWS", file.rows = {})
                            \cup UNION {ActualFindings(r, k) : r \in file.rows},
             rows |-> valid,
             from |-> IF months = {} THEN Blank ELSE Min(months),
             to |-> IF months = {} THEN Blank ELSE Max(months)]
      BY DEF ActualPreview
    <3>2. UNION {ActualFindings(r, k) : r \in file.rows} = {}
      <4>1. ActualPreview(file, k).errors =
                Found("ACTUAL_SALES_NO_DATA_ROWS", file.rows = {})
                    \cup UNION {ActualFindings(r, k) : r \in file.rows}
        BY <3>1
      <4>2. QED
        BY <2>1, <4>1
    <3>3. \A r \in file.rows : ActualFindings(r, k) = {}
      BY <3>2
    <3>4. \A r \in file.rows : ActualRow(r, k).month = r.cells["month"]
      BY DEF ActualRow
    <3>5. months = Months
      BY <3>3, <3>4
    <3> HIDE DEF valid, months, Months
    <3>6. QED
      BY <3>1, <3>5
  <2>2. p = ActualPreview(file, m) /\ q = ActualPreview(file, n)
    BY <1>1, <1>2, <1>5 DEF Preview
  <2>3. p.errors = {} /\ q.errors = {}
    BY DEF CommitAllowed
  <2>4. QED
    BY <2>1, <2>2, <2>3
<1>6. QED
  BY <1>3, <1>4, <1>5

-----------------------------------------------------------------------------
(* Rounding *)

LEMMA DivMod ==
    ASSUME NEW a \in Int, NEW b \in Nat \ {0}
    PROVE  a \div b \in Int /\ a % b \in 0 .. (b - 1) /\ a = (b * (a \div b)) + (a % b)
OBVIOUS

LEMMA RoundedHalfUp ==
    ASSUME NEW a \in Nat
    PROVE  LET h == Fine * ((2 * a + Fine) \div (2 * Fine))
           IN  h \in Int /\ Near(h, a, 1) /\ (a % Fine = 0 => h = a)
<1> DEFINE d == (2 * a + Fine) \div (2 * Fine)
           m == (2 * a + Fine) % (2 * Fine)
           h == Fine * d
<1>1. Fine \in Nat \ {0}
  BY FineAssumption
<1>2. d \in Int /\ m \in 0 .. (2 * Fine - 1) /\ 2 * a + Fine = (2 * Fine) * d + m
  <2>1. 2 * a + Fine \in Int /\ 2 * Fine \in Nat \ {0}
    BY <1>1
  <2>2. QED
    BY <2>1, DivMod
<1> HIDE DEF d, m
<1>3. h \in Int /\ (2 * Fine) * d = 2 * h
  BY <1>1, <1>2
<1>4. 2 * a + Fine = 2 * h + m
  BY <1>2, <1>3
<1> HIDE DEF h
<1>5. 2 * (h - a) = Fine - m
  BY <1>1, <1>2, <1>3, <1>4
<1>6. Near(h, a, 1)
  BY <1>1, <1>2, <1>3, <1>5 DEF Near
<1>7. ASSUME a % Fine = 0 PROVE h = a
  <2> DEFINE e == a \div Fine
  <2>1. e \in Int /\ a = Fine * e
    BY <1>1, <1>7, DivMod
  <2> HIDE DEF e
  <2>2. h - a = Fine * (d - e)
    BY <1>1, <1>2, <2>1 DEF h
  <2>3. d - e = 0
    <3>1. d - e >= 1 => Fine * (d - e) >= Fine
      BY <1>1, <1>2, <2>1
    <3>2. d - e <= -1 => Fine * (d - e) <= -Fine
      BY <1>1, <1>2, <2>1
    <3>3. QED
      BY <1>1, <1>2, <1>5, <2>1, <2>2, <3>1, <3>2
  <2>4. QED
    BY <1>1, <1>3, <2>1, <2>2, <2>3
<1>8. QED
  BY <1>3, <1>6, <1>7 DEF h, d

\* Whole thousandths are the multiples of Fine.
LEMMA Multiple ==
    ASSUME NEW e \in Int
    PROVE  (Fine * e) % Fine = 0
<1> DEFINE a == Fine * e
           d == a \div Fine
           r == a % Fine
<1>1. Fine \in Nat \ {0} /\ a \in Int
  BY FineAssumption
<1>2. d \in Int /\ r \in 0 .. (Fine - 1) /\ a = (Fine * d) + r
  BY <1>1, DivMod
<1> HIDE DEF d, r
<1>3. r = Fine * (e - d)
  BY <1>1, <1>2
<1>4. e - d >= 1 => Fine * (e - d) >= Fine
  BY <1>1, <1>2
<1>5. e - d <= -1 => Fine * (e - d) <= -Fine
  BY <1>1, <1>2
<1>6. r = 0
  BY <1>1, <1>2, <1>3, <1>4, <1>5
<1>7. QED
  BY <1>6 DEF r

LEMMA WholeAdds ==
    ASSUME NEW a \in Int, NEW b \in Int, a % Fine = 0, b % Fine = 0
    PROVE  (a + b) % Fine = 0 /\ (-a) % Fine = 0
<1> DEFINE d == a \div Fine
           e == b \div Fine
<1>1. d \in Int /\ e \in Int /\ a = Fine * d /\ b = Fine * e
  BY FineAssumption, DivMod
<1> HIDE DEF d, e
<1>2. a + b = Fine * (d + e) /\ -a = Fine * (-d)
  BY <1>1, FineAssumption
<1>3. d + e \in Int /\ -d \in Int
  BY <1>1
<1>4. QED
  BY <1>2, <1>3, Multiple

\* Rounding moves a quantity by half a thousandth at most, a whole one not at all.
LEMMA RoundedNear ==
    ASSUME NEW q \in Int
    PROVE  Rounded(q) \in Int /\ Near(Rounded(q), q, 1) /\ (q % Fine = 0 => Rounded(q) = q)
<1>1. CASE q >= 0
  BY <1>1, RoundedHalfUp DEF Rounded
<1>2. CASE ~(q >= 0)
  <2> DEFINE a == -q
             h == Fine * ((2 * a + Fine) \div (2 * Fine))
  <2>1. a \in Nat
    BY <1>2
  <2>2. 2 * a + Fine = Fine - 2 * q
    BY FineAssumption
  <2>3. Rounded(q) = -h
    BY <1>2, <2>2 DEF Rounded
  <2>4. h \in Int /\ Near(h, a, 1) /\ (a % Fine = 0 => h = a)
    BY <2>1, RoundedHalfUp
  <2>5. q % Fine = 0 => a % Fine = 0
    BY WholeAdds
  <2> HIDE DEF h
  <2>6. QED
    BY <2>3, <2>4, <2>5, FineAssumption DEF Near
<1>3. QED
  BY <1>1, <1>2

LEMMA NearAdds ==
    ASSUME NEW a \in Int, NEW b \in Int, NEW c \in Int, NEW n \in Nat, NEW k \in Nat,
           Near(a, b, n), Near(c, b, k)
    PROVE  Near(a, c, n + k)
<1>1. Fine * (n + k) = Fine * n + Fine * k /\ Fine * n \in Int /\ Fine * k \in Int
  BY FineAssumption
<1>2. Fine * (n + k) \in Int
  BY FineAssumption
<1> DEFINE x == Fine * n
           y == Fine * k
           z == Fine * (n + k)
<1>3. z = x + y /\ x \in Int /\ y \in Int /\ 2 * (a - b) <= x /\ 2 * (b - a) <= x
      /\ 2 * (c - b) <= y /\ 2 * (b - c) <= y
  BY <1>1 DEF Near
<1> HIDE DEF x, y, z
<1>4. 2 * (a - c) <= z /\ 2 * (c - a) <= z
  BY <1>3
<1>5. QED
  BY <1>4 DEF Near, z

-----------------------------------------------------------------------------
(* Sums *)

\* g gives the sum of the weights w of every part of S.
Adds(g, w, S) ==
    /\ g \in [SUBSET S -> Int]
    /\ g[{}] = 0
    /\ \A T \in SUBSET S : \A x \in T : w[x] \in Int /\ g[T] = w[x] + g[T \ {x}]

\* h takes some element away at a time.
TakesAway(h, w, S) ==
    /\ h[{}] = 0
    /\ \A T \in SUBSET S : T # {} => \E x \in T : h[T] = w[x] + h[T \ {x}]

\* What the library sums: it takes the elements away in an order it chooses.
SumOver(w, S) ==
    CHOOSE g : g = [s \in SUBSET S |->
        IF s = {} THEN 0 ELSE w[CHOOSE x \in s : TRUE] + g[s \ {CHOOSE x \in s : TRUE}]]

\* Any way to take the elements away one by one gives the same sum.
LEMMA OneSum ==
    ASSUME NEW S, IsFiniteSet(S), NEW w, NEW g, Adds(g, w, S), NEW h, TakesAway(h, w, S)
    PROVE  \A T \in SUBSET S : h[T] = g[T]
<1> DEFINE Bad == {n \in Nat : \E T \in SUBSET S : Cardinality(T) = n /\ h[T] # g[T]}
<1>1. ASSUME Bad # {} PROVE FALSE
  <2>1. PICK n \in Bad : \A m \in Bad : n <= m
    BY <1>1, LeastNatural
  <2>2. PICK T \in SUBSET S : Cardinality(T) = n /\ h[T] # g[T]
    BY <2>1
  <2>3. T # {} /\ IsFiniteSet(T)
    BY <2>2, FS_Subset DEF Adds, TakesAway
  <2>4. PICK x \in T : h[T] = w[x] + h[T \ {x}]
    BY <2>3 DEF TakesAway
  <2> DEFINE U == T \ {x}
  <2>5. U \in SUBSET S /\ Cardinality(U) = n - 1 /\ n - 1 \in Nat
    <3>1. IsFiniteSet(U) /\ Cardinality(U) = n - 1
      BY <2>2, <2>3, FS_RemoveElement
    <3>2. QED
      BY <3>1, FS_CardinalityType
  <2>6. g[T] = w[x] + g[U]
    BY DEF Adds
  <2> HIDE DEF U
  <2>7. h[U] # g[U]
    BY <2>2, <2>4, <2>6 DEF U
  <2>8. n - 1 \in Bad
    BY <2>5, <2>7
  <2>9. n <= n - 1 /\ n \in Nat
    BY <2>1, <2>8
  <2>10. QED
    BY <2>9
<1>2. ASSUME NEW T \in SUBSET S PROVE h[T] = g[T]
  <2>1. Cardinality(T) \in Nat
    BY FS_Subset, FS_CardinalityType
  <2>2. QED
    BY <1>1, <2>1
<1>3. QED
  BY <1>2

LEMMA SumsExist ==
    ASSUME NEW S, IsFiniteSet(S), NEW w, \A x \in S : w[x] \in Int
    PROVE  \E g : Adds(g, w, S)
<1> DEFINE Has(T) == \E g : Adds(g, w, T)
           Bad == {n \in Nat : \E T \in SUBSET S : Cardinality(T) = n /\ ~Has(T)}
<1>1. Has({})
  <2>1. Adds([T \in SUBSET {} |-> 0], w, {})
    BY DEF Adds
  <2>2. QED
    BY <2>1
<1>2. ASSUME NEW T \in SUBSET S, NEW y \in T, Has(T \ {y}) PROVE Has(T)
  <2> DEFINE U == T \ {y}
  <2>1. PICK u : Adds(u, w, U)
    BY <1>2
  <2> DEFINE g == [R \in SUBSET T |-> IF y \in R THEN w[y] + u[R \ {y}] ELSE u[R]]
  <2>2. w[y] \in Int /\ \A R \in SUBSET U : u[R] \in Int
    BY <2>1 DEF Adds
  <2>3. \A R \in SUBSET T : R \ {y} \in SUBSET U /\ (y \notin R => R \in SUBSET U)
    OBVIOUS
  <2>4. g \in [SUBSET T -> Int]
    BY <2>2, <2>3
  <2>5. g[{}] = 0
    BY <2>1 DEF Adds
  <2>6. ASSUME NEW R \in SUBSET T, NEW x \in R PROVE g[R] = w[x] + g[R \ {x}]
    <3>1. w[x] \in Int /\ R \ {x} \in SUBSET T
      OBVIOUS
    <3>2. CASE x = y
      BY <3>1, <3>2
    <3>3. CASE x # y /\ y \notin R
      BY <2>1, <2>3, <3>1, <3>3 DEF Adds
    <3>4. CASE x # y /\ y \in R
      <4> DEFINE Q == (R \ {y}) \ {x}
      <4>1. u[R \ {y}] = w[x] + u[Q]
        <5>1. R \ {y} \in SUBSET U /\ x \in R \ {y}
          BY <2>3, <3>4
        <5>2. QED
          BY <2>1, <5>1 DEF Adds
      <4>2. g[R] = w[y] + u[R \ {y}]
        BY <3>4
      <4>3. g[R \ {x}] = w[y] + u[Q]
        <5>1. y \in R \ {x} /\ (R \ {x}) \ {y} = Q
          BY <3>4
        <5>2. QED
          BY <3>1, <5>1
      <4>4. Q \in SUBSET U
        BY <2>3
      <4> HIDE DEF Q, g
      <4>5. u[Q] \in Int
        BY <2>2, <4>4
      <4>6. QED
        BY <2>2, <3>1, <4>1, <4>2, <4>3, <4>5
    <3>5. QED
      BY <3>2, <3>3, <3>4
  <2>7. \A R \in SUBSET T : \A x \in R : w[x] \in Int
    OBVIOUS
  <2> HIDE DEF g
  <2>8. Adds(g, w, T)
    BY <2>4, <2>5, <2>6, <2>7 DEF Adds
  <2>9. QED
    BY <2>8
<1> HIDE DEF Has
<1>3. ASSUME Bad # {} PROVE FALSE
  <2>1. PICK n \in Bad : \A m \in Bad : n <= m
    BY <1>3, LeastNatural
  <2>2. PICK T \in SUBSET S : Cardinality(T) = n /\ ~Has(T)
    BY <2>1
  <2>3. IsFiniteSet(T) /\ T # {}
    BY <1>1, <2>2, FS_Subset
  <2>4. PICK y \in T : TRUE
    BY <2>3
  <2>5. Cardinality(T \ {y}) = n - 1 /\ n - 1 \in Nat
    <3>1. IsFiniteSet(T \ {y}) /\ Cardinality(T \ {y}) = n - 1
      BY <2>2, <2>3, FS_RemoveElement
    <3>2. QED
      BY <3>1, FS_CardinalityType
  <2>6. T \ {y} \in SUBSET S /\ ~Has(T \ {y})
    BY <1>2, <2>2
  <2>7. n - 1 \in Bad
    BY <2>5, <2>6
  <2>8. n <= n - 1 /\ n \in Nat
    BY <2>1, <2>7
  <2>9. QED
    BY <2>8
<1>4. Cardinality(S) \in Nat
  BY FS_CardinalityType
<1>5. Has(S)
  BY <1>3, <1>4
<1>6. QED
  BY <1>5 DEF Has

LEMMA SumsOfParts ==
    ASSUME NEW S, NEW w, NEW g, Adds(g, w, S), NEW T \in SUBSET S
    PROVE  Adds([R \in SUBSET T |-> g[R]], w, T)
<1> DEFINE h == [R \in SUBSET T |-> g[R]]
<1>1. \A R \in SUBSET T : R \in SUBSET S /\ h[R] = g[R]
  OBVIOUS
<1>2. h \in [SUBSET T -> Int]
  BY <1>1 DEF Adds
<1>3. h[{}] = 0
  BY <1>1 DEF Adds
<1>4. \A R \in SUBSET T : \A x \in R : w[x] \in Int /\ h[R] = w[x] + h[R \ {x}]
  <2>1. SUFFICES ASSUME NEW R \in SUBSET T, NEW x \in R
                 PROVE  w[x] \in Int /\ h[R] = w[x] + h[R \ {x}]
    OBVIOUS
  <2>2. R \ {x} \in SUBSET T
    OBVIOUS
  <2> HIDE DEF h
  <2>3. QED
    BY <1>1, <2>2 DEF Adds
<1> HIDE DEF h
<1>5. Adds(h, w, T)
  BY <1>2, <1>3, <1>4 DEF Adds
<1>6. QED
  BY <1>5 DEF h

\* The sum of the library is the sum.
LEMMA SumOverAdds ==
    ASSUME NEW S, IsFiniteSet(S), NEW w, NEW g, Adds(g, w, S)
    PROVE  SumOver(w, S)[S] = g[S]
<1> DEFINE Def(h) == [s \in SUBSET S |->
               IF s = {} THEN 0 ELSE w[CHOOSE x \in s : TRUE] + h[s \ {CHOOSE x \in s : TRUE}]]
           iter == CHOOSE h : h = Def(h)
<1>1. g = Def(g)
  <2>1. ASSUME NEW s \in SUBSET S, s # {}
        PROVE  g[s] = w[CHOOSE x \in s : TRUE] + g[s \ {CHOOSE x \in s : TRUE}]
    <3>1. (CHOOSE x \in s : TRUE) \in s
      BY <2>1
    <3>2. QED
      BY <3>1 DEF Adds
  <2>2. g[{}] = 0 /\ g = [s \in SUBSET S |-> g[s]]
    BY DEF Adds
  <2>3. \A s \in SUBSET S : g[s] = Def(g)[s]
    BY <2>1, <2>2
  <2>4. QED
    BY <2>2, <2>3
<1>2. iter = Def(iter)
  <2> HIDE DEF Def
  <2>1. QED
    BY <1>1
<1>3. \A s \in SUBSET S : iter[s] = Def(iter)[s]
  <2> HIDE DEF Def
  <2>1. QED
    BY <1>2
<1> HIDE DEF iter
<1>4. iter[{}] = 0
  BY <1>3
<1>5. \A T \in SUBSET S : T # {} => \E x \in T : iter[T] = w[x] + iter[T \ {x}]
  BY <1>3
<1>6. TakesAway(iter, w, S)
  BY <1>4, <1>5 DEF TakesAway
<1>7. \A T \in SUBSET S : iter[T] = g[T]
  BY <1>6, OneSum
<1>8. QED
  BY <1>7 DEF iter, SumOver

IsField(w, S, f) == \A r \in S : w[r] = r[f]

\* The same for the sum of a field of rows.
LEMMA SumOfAdds ==
    ASSUME NEW S, IsFiniteSet(S), NEW f, NEW w, IsField(w, S, f), NEW g, Adds(g, w, S)
    PROVE  SumOf(S, f) = g[S]
<1> DEFINE Def(h) == [s \in SUBSET S |->
               IF s = {} THEN 0 ELSE (CHOOSE x \in s : TRUE)[f] + h[s \ {CHOOSE x \in s : TRUE}]]
           iter == CHOOSE h : h = Def(h)
<1>1. g = Def(g)
  <2>1. ASSUME NEW s \in SUBSET S, s # {}
        PROVE  g[s] = (CHOOSE x \in s : TRUE)[f] + g[s \ {CHOOSE x \in s : TRUE}]
    <3>1. (CHOOSE x \in s : TRUE) \in s
      BY <2>1
    <3>2. QED
      BY <3>1 DEF Adds, IsField
  <2>2. g[{}] = 0 /\ g = [s \in SUBSET S |-> g[s]]
    BY DEF Adds
  <2>3. \A s \in SUBSET S : g[s] = Def(g)[s]
    BY <2>1, <2>2
  <2>4. QED
    BY <2>2, <2>3
<1>2. iter = Def(iter)
  <2> HIDE DEF Def
  <2>1. QED
    BY <1>1
<1>3. \A s \in SUBSET S : iter[s] = Def(iter)[s]
  <2> HIDE DEF Def
  <2>1. QED
    BY <1>2
<1> HIDE DEF iter
<1>4. iter[{}] = 0
  BY <1>3
<1>5. \A T \in SUBSET S : T # {} => \E x \in T : iter[T] = w[x] + iter[T \ {x}]
  BY <1>3 DEF IsField
<1>6. TakesAway(iter, w, S)
  BY <1>4, <1>5 DEF TakesAway
<1>7. \A T \in SUBSET S : iter[T] = g[T]
  BY <1>6, OneSum
<1>8. QED
  BY <1>7 DEF iter, SumOf, MapThenSumSet, MapThenFoldSet

LEMMA DisjointSums ==
    ASSUME NEW S, IsFiniteSet(S), NEW w, NEW g, Adds(g, w, S),
           NEW A \in SUBSET S, NEW B \in SUBSET S, A \cap B = {}
    PROVE  g[A \cup B] = g[A] + g[B]
<1> DEFINE h == [R \in SUBSET B |-> g[A \cup R] - g[A]]
<1>1. IsFiniteSet(B)
  BY FS_Subset
<1>2. g[A] \in Int /\ g[B] \in Int /\ g[A \cup B] \in Int
  BY DEF Adds
<1>3. h[{}] = 0
  <2>1. A \cup {} = A
    OBVIOUS
  <2>2. QED
    BY <1>2, <2>1
<1>4. ASSUME NEW T \in SUBSET B, NEW x \in T PROVE h[T] = w[x] + h[T \ {x}]
  <2>1. A \cup T \in SUBSET S /\ x \in A \cup T /\ (A \cup T) \ {x} = A \cup (T \ {x})
    OBVIOUS
  <2>2. g[A \cup T] = w[x] + g[A \cup (T \ {x})] /\ w[x] \in Int
        /\ g[A \cup (T \ {x})] \in Int
    BY <2>1 DEF Adds
  <2>3. T \ {x} \in SUBSET B
    OBVIOUS
  <2>4. QED
    BY <1>2, <2>2, <2>3
<1> DEFINE b == [R \in SUBSET B |-> g[R]]
<1>5. Adds(b, w, B) /\ b[B] = g[B]
  BY SumsOfParts
<1> HIDE DEF b
<1>6. h[B] = g[A \cup B] - g[A]
  OBVIOUS
<1> HIDE DEF h
<1>7. TakesAway(h, w, B)
  BY <1>3, <1>4 DEF TakesAway
<1>8. \A T \in SUBSET B : h[T] = b[T]
  BY <1>1, <1>5, <1>7, OneSum
<1>9. QED
  BY <1>2, <1>5, <1>6, <1>8

\* v sums up the elements of S with each key.
GroupSums(v, g, S, key, K) == \A k \in K : v[k] = g[{r \in S : key[r] = k}]

\* The sums of groups add up to the sum of what is grouped.
LEMMA GroupedSums ==
    ASSUME NEW S, IsFiniteSet(S), NEW w, NEW g, Adds(g, w, S), NEW key, NEW K,
           NEW v, GroupSums(v, g, S, key, K)
    PROVE  \E sum : Adds(sum, v, K) /\ sum[K] = g[{r \in S : key[r] \in K}]
<1> DEFINE In(J) == {r \in S : key[r] \in J}
           h == [J \in SUBSET K |-> g[In(J)]]
<1>1. \A J \in SUBSET K : h[J] = g[In(J)] /\ In(J) \in SUBSET S
  OBVIOUS
<1>2. h \in [SUBSET K -> Int]
  BY <1>1 DEF Adds
<1>3. h[{}] = 0
  <2>1. In({}) = {}
    OBVIOUS
  <2>2. h[{}] = g[In({})]
    BY <1>1
  <2>3. QED
    BY <2>1, <2>2 DEF Adds
<1>4. ASSUME NEW J \in SUBSET K, NEW k \in J
      PROVE  v[k] \in Int /\ h[J] = v[k] + h[J \ {k}]
  <2>1. v[k] = g[In({k})]
    <3>1. In({k}) = {r \in S : key[r] = k}
      OBVIOUS
    <3> HIDE DEF In
    <3>2. QED
      BY <3>1 DEF GroupSums
  <2>2. /\ In({k}) \in SUBSET S /\ In(J \ {k}) \in SUBSET S
        /\ In({k}) \cap In(J \ {k}) = {} /\ In({k}) \cup In(J \ {k}) = In(J)
    OBVIOUS
  <2>3. J \ {k} \in SUBSET K
    OBVIOUS
  <2> HIDE DEF In, h
  <2>4. g[In(J)] = g[In({k})] + g[In(J \ {k})]
    <3>1. \A A, B \in SUBSET S : A \cap B = {} => g[A \cup B] = g[A] + g[B]
      BY DisjointSums
    <3>2. QED
      BY <2>2, <3>1
  <2>5. v[k] \in Int
    BY <2>1, <2>2 DEF Adds
  <2>6. QED
    BY <1>1, <2>1, <2>3, <2>4, <2>5
<1>5. h[K] = g[{r \in S : key[r] \in K}]
  OBVIOUS
<1> HIDE DEF h
<1>6. Adds(h, v, K)
  BY <1>2, <1>3, <1>4 DEF Adds
<1>7. QED
  BY <1>5, <1>6

LEMMA SumOfPart ==
    ASSUME NEW S, IsFiniteSet(S), NEW f, NEW w, IsField(w, S, f),
           NEW g, Adds(g, w, S), NEW T \in SUBSET S
    PROVE  SumOf(T, f) = g[T]
<1> DEFINE h == [R \in SUBSET T |-> g[R]]
<1>1. IsFiniteSet(T)
  BY FS_Subset
<1>2. Adds(h, w, T)
  BY SumsOfParts
<1>3. h[T] = g[T]
  OBVIOUS
<1>4. IsField(w, T, f)
  BY DEF IsField
<1> HIDE DEF h
<1>5. SumOf(T, f) = h[T]
  BY <1>1, <1>2, <1>4, SumOfAdds
<1>6. QED
  BY <1>3, <1>5

\* h sums up a field of the rows with each key of a finite set.
GroupedBy(h, S, f, key, K) ==
    /\ IsFiniteSet(S) /\ IsFiniteSet(K)
    /\ \A r \in S : r[f] \in Int /\ key[r] \in K
    /\ \A k \in K : h[k] = SumOf({r \in S : key[r] = k}, f)

\* The sums of the groups add up to the sum of the rows, whatever they are
\* grouped by.
LEMMA SumOfGroups ==
    ASSUME NEW S, NEW f, NEW key, NEW K, NEW h, GroupedBy(h, S, f, key, K)
    PROVE  \E sum : Adds(sum, h, K) /\ sum[K] = SumOf(S, f)
<1> DEFINE w == [r \in S |-> r[f]]
<1>1. IsFiniteSet(S)
  BY DEF GroupedBy
<1>2. IsField(w, S, f) /\ \A r \in S : w[r] \in Int
  BY DEF GroupedBy, IsField
<1> HIDE DEF w
<1>3. PICK g : Adds(g, w, S)
  BY <1>1, <1>2, SumsExist
<1>4. ASSUME NEW T \in SUBSET S PROVE SumOf(T, f) = g[T]
  BY <1>1, <1>2, <1>3, SumOfPart
<1>5. GroupSums(h, g, S, key, K)
  <2>1. \A k \in K : {r \in S : key[r] = k} \in SUBSET S
    OBVIOUS
  <2>2. QED
    BY <1>4, <2>1 DEF GroupedBy, GroupSums
<1>6. PICK sum : Adds(sum, h, K) /\ sum[K] = g[{r \in S : key[r] \in K}]
  BY <1>1, <1>3, <1>5, GroupedSums
<1>7. {r \in S : key[r] \in K} = S
  BY DEF GroupedBy
<1>8. SumOf(S, f) = g[S]
  BY <1>4
<1>9. QED
  BY <1>6, <1>7, <1>8

\* The weights v are those of w, rounded.
Rounds(v, w, S) == \A x \in S : w[x] \in Int /\ v[x] = Rounded(w[x])

WholeWeights(w, S) == \A x \in S : w[x] % Fine = 0

LEMMA NearStep ==
    ASSUME NEW a \in Int, NEW b \in Int, NEW c \in Int, NEW d \in Int, NEW n \in Nat,
           Near(a, b, 1), Near(c, d, n)
    PROVE  Near(a + c, b + d, n + 1)
<1> DEFINE x == Fine * n
           z == Fine * (n + 1)
<1>1. /\ Fine \in Int /\ x \in Int /\ z = x + Fine
      /\ 2 * (a - b) <= Fine /\ 2 * (b - a) <= Fine /\ 2 * (c - d) <= x /\ 2 * (d - c) <= x
  BY FineAssumption DEF Near
<1> HIDE DEF x, z
<1>2. 2 * ((a + c) - (b + d)) <= z /\ 2 * ((b + d) - (a + c)) <= z
  BY <1>1
<1>3. QED
  BY <1>2 DEF Near, z

\* The sum of rounded weights is theirs, but for as many roundings.
LEMMA RoundedSums ==
    ASSUME NEW S, IsFiniteSet(S), NEW w, NEW g, Adds(g, w, S), NEW v, Rounds(v, w, S),
           NEW h, Adds(h, v, S)
    PROVE  /\ Near(h[S], g[S], Cardinality(S))
           /\ WholeWeights(w, S) => h[S] = g[S] /\ g[S] % Fine = 0
<1> DEFINE whole == WholeWeights(w, S)
           Good(T) == /\ Near(h[T], g[T], Cardinality(T))
                      /\ whole => h[T] = g[T] /\ g[T] % Fine = 0
           Bad == {n \in Nat : \E T \in SUBSET S : Cardinality(T) = n /\ ~Good(T)}
<1>1. Good({})
  <2>1. h[{}] = 0 /\ g[{}] = 0 /\ Cardinality({}) = 0
    BY FS_EmptySet DEF Adds
  <2>2. 0 % Fine = 0 /\ Near(0, 0, 0)
    <3>1. Fine * 0 = 0 /\ 0 \in Int
      BY FineAssumption
    <3>2. (Fine * 0) % Fine = 0
      BY <3>1, Multiple
    <3>3. QED
      BY <3>1, <3>2 DEF Near
  <2>3. QED
    BY <2>1, <2>2
<1>2. ASSUME NEW T \in SUBSET S, NEW x \in T, Good(T \ {x}) PROVE Good(T)
  <2> DEFINE U == T \ {x}
  <2>1. IsFiniteSet(T)
    BY FS_Subset
  <2>2. Cardinality(U) \in Nat /\ Cardinality(T) = Cardinality(U) + 1
    <3>1. IsFiniteSet(U) /\ Cardinality(U) = Cardinality(T) - 1
      BY <2>1, FS_RemoveElement
    <3>2. Cardinality(U) \in Nat /\ Cardinality(T) \in Nat
      BY <2>1, <3>1, FS_CardinalityType
    <3>3. QED
      BY <3>1, <3>2
  <2>3. /\ h[T] = v[x] + h[U] /\ g[T] = w[x] + g[U]
        /\ v[x] \in Int /\ w[x] \in Int /\ h[U] \in Int /\ g[U] \in Int
    BY DEF Adds
  <2>4. Near(v[x], w[x], 1) /\ (w[x] % Fine = 0 => v[x] = w[x])
    BY RoundedNear DEF Rounds
  <2>5. whole => w[x] % Fine = 0
    BY DEF WholeWeights
  <2> HIDE DEF U, whole
  <2>6. Near(h[U], g[U], Cardinality(U)) /\ (whole => h[U] = g[U] /\ g[U] % Fine = 0)
    BY <1>2 DEF U
  <2>7. Near(h[T], g[T], Cardinality(T))
    BY <2>2, <2>3, <2>4, <2>6, NearStep
  <2>8. whole => h[T] = g[T] /\ g[T] % Fine = 0
    BY <2>3, <2>4, <2>5, <2>6, WholeAdds
  <2>9. QED
    BY <2>7, <2>8
<1> HIDE DEF Good
<1>3. ASSUME Bad # {} PROVE FALSE
  <2>1. PICK n \in Bad : \A m \in Bad : n <= m
    BY <1>3, LeastNatural
  <2>2. PICK T \in SUBSET S : Cardinality(T) = n /\ ~Good(T)
    BY <2>1
  <2>3. T # {} /\ IsFiniteSet(T)
    BY <1>1, <2>2, FS_Subset
  <2>4. PICK x \in T : TRUE
    BY <2>3
  <2>5. Cardinality(T \ {x}) = n - 1 /\ n - 1 \in Nat
    <3>1. IsFiniteSet(T \ {x}) /\ Cardinality(T \ {x}) = n - 1
      BY <2>2, <2>3, FS_RemoveElement
    <3>2. QED
      BY <3>1, FS_CardinalityType
  <2>6. T \ {x} \in SUBSET S /\ ~Good(T \ {x})
    BY <1>2, <2>2
  <2>7. n - 1 \in Bad
    BY <2>5, <2>6
  <2>8. n <= n - 1 /\ n \in Nat
    BY <2>1, <2>7
  <2>9. QED
    BY <2>8
<1>4. Cardinality(S) \in Nat
  BY FS_CardinalityType
<1>5. Good(S)
  BY <1>3, <1>4
<1>6. QED
  BY <1>5 DEF Good

\* v gives the quantities as their column holds them.
IsStored(v, S, f) == \A r \in S : v[r] = Rounded(r[f])

LEMMA StoredSumAdds ==
    ASSUME NEW S, IsFiniteSet(S), NEW f, NEW v, IsStored(v, S, f), NEW g, Adds(g, v, S)
    PROVE  StoredSum(S, f) = g[S]
<1> DEFINE Def(h) == [s \in SUBSET S |->
               IF s = {} THEN 0
               ELSE Rounded((CHOOSE x \in s : TRUE)[f]) + h[s \ {CHOOSE x \in s : TRUE}]]
           iter == CHOOSE h : h = Def(h)
<1>1. g = Def(g)
  <2>1. ASSUME NEW s \in SUBSET S, s # {}
        PROVE  g[s] = Rounded((CHOOSE x \in s : TRUE)[f]) + g[s \ {CHOOSE x \in s : TRUE}]
    <3>1. (CHOOSE x \in s : TRUE) \in s
      BY <2>1
    <3>2. QED
      BY <3>1 DEF Adds, IsStored
  <2>2. g[{}] = 0 /\ g = [s \in SUBSET S |-> g[s]]
    BY DEF Adds
  <2>3. \A s \in SUBSET S : g[s] = Def(g)[s]
    BY <2>1, <2>2
  <2>4. QED
    BY <2>2, <2>3
<1>2. iter = Def(iter)
  <2> HIDE DEF Def
  <2>1. QED
    BY <1>1
<1>3. \A s \in SUBSET S : iter[s] = Def(iter)[s]
  <2> HIDE DEF Def
  <2>1. QED
    BY <1>2
<1> HIDE DEF iter
<1>4. iter[{}] = 0
  BY <1>3
<1>5. \A T \in SUBSET S : T # {} => \E x \in T : iter[T] = v[x] + iter[T \ {x}]
  BY <1>3 DEF IsStored
<1>6. TakesAway(iter, v, S)
  BY <1>4, <1>5 DEF TakesAway
<1>7. \A T \in SUBSET S : iter[T] = g[T]
  BY <1>6, OneSum
<1>8. QED
  BY <1>7 DEF iter, StoredSum, MapThenSumSet, MapThenFoldSet

LEMMA StoredSumOfPart ==
    ASSUME NEW S, IsFiniteSet(S), NEW f, NEW v, IsStored(v, S, f),
           NEW g, Adds(g, v, S), NEW T \in SUBSET S
    PROVE  StoredSum(T, f) = g[T]
<1> DEFINE h == [R \in SUBSET T |-> g[R]]
<1>1. IsFiniteSet(T)
  BY FS_Subset
<1>2. Adds(h, v, T)
  BY SumsOfParts
<1>3. h[T] = g[T]
  OBVIOUS
<1>4. IsStored(v, T, f)
  BY DEF IsStored
<1> HIDE DEF h
<1>5. StoredSum(T, f) = h[T]
  BY <1>1, <1>2, <1>4, StoredSumAdds
<1>6. QED
  BY <1>3, <1>5

Numbers(S, f) == \A r \in S : r[f] \in Int

\* The stored rows add up to what the workbook's do, but for their roundings.
LEMMA StoredSumIsNear ==
    ASSUME NEW S, IsFiniteSet(S), NEW f, Numbers(S, f)
    PROVE  /\ SumOf(S, f) \in Int /\ StoredSum(S, f) \in Int
           /\ Near(StoredSum(S, f), SumOf(S, f), Cardinality(S))
           /\ Whole(S, f) => StoredSum(S, f) = SumOf(S, f) /\ SumOf(S, f) % Fine = 0
<1> DEFINE w == [r \in S |-> r[f]]
           v == [r \in S |-> Rounded(r[f])]
<1>1. IsField(w, S, f) /\ IsStored(v, S, f) /\ Rounds(v, w, S)
  BY DEF IsField, IsStored, Rounds, Numbers
<1>2. (\A r \in S : w[r] \in Int) /\ (\A r \in S : v[r] \in Int)
  BY RoundedNear DEF Numbers
<1>3. Whole(S, f) => WholeWeights(w, S)
  BY DEF Whole, WholeWeights
<1> HIDE DEF w, v
<1>4. PICK g : Adds(g, w, S)
  BY <1>2, SumsExist
<1>5. PICK h : Adds(h, v, S)
  BY <1>2, SumsExist
<1>6. SumOf(S, f) = g[S] /\ StoredSum(S, f) = h[S]
  BY <1>1, <1>4, <1>5, SumOfAdds, StoredSumAdds
<1>7. g[S] \in Int /\ h[S] \in Int
  BY <1>4, <1>5 DEF Adds
<1>8. /\ Near(h[S], g[S], Cardinality(S))
      /\ WholeWeights(w, S) => h[S] = g[S] /\ g[S] % Fine = 0
  BY <1>1, <1>4, <1>5, RoundedSums
<1>9. QED
  BY <1>3, <1>6, <1>7, <1>8

\* The stored sums of groups add up to the sum of the rows, but for as many
\* roundings as there are groups.
LEMMA RoundedGroups ==
    ASSUME NEW S, NEW f, NEW key, NEW K, NEW h, GroupedBy(h, S, f, key, K),
           NEW v, \A k \in K : v[k] = Rounded(h[k])
    PROVE  \E sum : /\ Adds(sum, v, K)
                    /\ Near(sum[K], SumOf(S, f), Cardinality(K))
                    /\ Whole(S, f) => sum[K] = SumOf(S, f)
<1>1. IsFiniteSet(S) /\ IsFiniteSet(K) /\ \A k \in K : h[k] = SumOf({r \in S : key[r] = k}, f)
  BY DEF GroupedBy
<1>2. \E g : Adds(g, h, K) /\ g[K] = SumOf(S, f)
  BY SumOfGroups
<1>3. PICK g : Adds(g, h, K) /\ g[K] = SumOf(S, f)
  BY <1>2
<1>4. ASSUME NEW k \in K
      PROVE  h[k] \in Int /\ (Whole(S, f) => h[k] % Fine = 0)
  <2> DEFINE T == {r \in S : key[r] = k}
  <2>1. T \subseteq S
    OBVIOUS
  <2>2. Numbers(T, f) /\ (Whole(S, f) => Whole(T, f))
    BY DEF Numbers, Whole, GroupedBy
  <2>3. h[k] = SumOf(T, f)
    BY <1>1
  <2> HIDE DEF T
  <2>4. IsFiniteSet(T)
    BY <1>1, <2>1, FS_Subset
  <2>5. SumOf(T, f) \in Int /\ (Whole(T, f) => SumOf(T, f) % Fine = 0)
    BY <2>2, <2>4, StoredSumIsNear
  <2>6. QED
    BY <2>2, <2>3, <2>5
<1>5. Rounds(v, h, K) /\ (Whole(S, f) => WholeWeights(h, K))
  BY <1>4 DEF Rounds, WholeWeights
<1>6. \A k \in K : v[k] \in Int
  BY <1>4, RoundedNear
<1>7. PICK sum : Adds(sum, v, K)
  BY <1>1, <1>6, SumsExist
<1>8. /\ Near(sum[K], g[K], Cardinality(K))
      /\ WholeWeights(h, K) => sum[K] = g[K]
  BY <1>1, <1>3, <1>5, <1>7, RoundedSums
<1>9. QED
  BY <1>3, <1>5, <1>7, <1>8

IsBalance(w, S, F) == \A s \in S : w[s] = F[s].qty["ending"]

\* The sum of a balance of SKU facts.
LEMMA SkuSums ==
    ASSUME NEW S, IsFiniteSet(S), NEW F, NEW w, IsBalance(w, S, F), NEW g, Adds(g, w, S)
    PROVE  MapThenSumSet(LAMBDA s : F[s].qty["ending"], S) = g[S]
<1> DEFINE Def(h) == [s \in SUBSET S |->
               IF s = {} THEN 0
               ELSE F[CHOOSE x \in s : TRUE].qty["ending"] + h[s \ {CHOOSE x \in s : TRUE}]]
           iter == CHOOSE h : h = Def(h)
<1>1. g = Def(g)
  <2>1. ASSUME NEW s \in SUBSET S, s # {}
        PROVE  g[s] = F[CHOOSE x \in s : TRUE].qty["ending"] + g[s \ {CHOOSE x \in s : TRUE}]
    <3>1. (CHOOSE x \in s : TRUE) \in s
      BY <2>1
    <3>2. QED
      BY <3>1 DEF Adds, IsBalance
  <2>2. g[{}] = 0 /\ g = [s \in SUBSET S |-> g[s]]
    BY DEF Adds
  <2>3. \A s \in SUBSET S : g[s] = Def(g)[s]
    BY <2>1, <2>2
  <2>4. QED
    BY <2>2, <2>3
<1>2. iter = Def(iter)
  <2> HIDE DEF Def
  <2>1. QED
    BY <1>1
<1>3. \A s \in SUBSET S : iter[s] = Def(iter)[s]
  <2> HIDE DEF Def
  <2>1. QED
    BY <1>2
<1> HIDE DEF iter
<1>4. TakesAway(iter, w, S)
  <2>1. iter[{}] = 0
    BY <1>3
  <2>2. \A T \in SUBSET S : T # {} => \E x \in T : iter[T] = w[x] + iter[T \ {x}]
    BY <1>3 DEF IsBalance
  <2>3. QED
    BY <2>1, <2>2 DEF TakesAway
<1>5. \A T \in SUBSET S : iter[T] = g[T]
  BY <1>4, OneSum
<1>6. QED
  BY <1>5 DEF iter, MapThenSumSet, MapThenFoldSet

-----------------------------------------------------------------------------
(* The life of a lot *)

\* Versions of different months can be put in the order of their months.
LEMMA MonthOrderExists ==
    ASSUME NEW sel, NEW keys, IsFiniteSet(keys),
           \A k \in keys : sel[k].month \in Nat,
           \A k, l \in keys : sel[k].month = sel[l].month => k = l
    PROVE  \E s \in [1 .. Cardinality(keys) -> keys] :
              \A i, j \in DOMAIN s : i < j => sel[s[i]].month < sel[s[j]].month
<1> DEFINE Ordered(S) ==
              \E s \in [1 .. Cardinality(S) -> S] :
                 \A i, j \in DOMAIN s : i < j => sel[s[i]].month < sel[s[j]].month
           Bad == {n \in Nat : \E S \in SUBSET keys : Cardinality(S) = n /\ ~Ordered(S)}
<1>1. ASSUME NEW S \in SUBSET keys, IsFiniteSet(S), NEW k \in S,
             \A l \in S : sel[k].month <= sel[l].month, Ordered(S \ {k})
      PROVE  Ordered(S)
  <2> DEFINE n == Cardinality(S)
             U == S \ {k}
  <2>1. n \in Nat \ {0} /\ Cardinality(U) = n - 1
    BY <1>1, FS_CardinalityType, FS_RemoveElement, FS_EmptySet
  <2>2. PICK u \in [1 .. n - 1 -> U] :
            \A i, j \in DOMAIN u : i < j => sel[u[i]].month < sel[u[j]].month
    BY <1>1, <2>1
  <2> DEFINE s == [i \in 1 .. n |-> IF i = 1 THEN k ELSE u[i - 1]]
  <2> HIDE DEF n
  <2>3. \A i \in 2 .. n : i - 1 \in DOMAIN u /\ u[i - 1] \in U
    BY <2>1, <2>2
  <2>4. s \in [1 .. n -> S]
    BY <2>1, <2>3
  <2>5. \A l \in U : sel[k].month < sel[l].month
    <3>1. \A l \in U : l \in keys /\ k \in keys /\ l # k
      BY <1>1
    <3>2. \A l \in U : sel[l].month # sel[k].month
      BY <3>1
    <3>3. QED
      BY <1>1, <3>1, <3>2
  <2>6. ASSUME NEW i \in 1 .. n, NEW j \in 1 .. n, i < j
        PROVE  sel[s[i]].month < sel[s[j]].month
    <3>1. j \in 2 .. n /\ s[j] = u[j - 1]
      BY <2>1, <2>6
    <3>2. CASE i = 1
      BY <2>3, <2>5, <3>1, <3>2
    <3>3. CASE i # 1
      <4>1. i \in 2 .. n /\ s[i] = u[i - 1] /\ i - 1 < j - 1
        BY <2>1, <2>6, <3>3
      <4>2. QED
        BY <2>2, <2>3, <3>1, <4>1
    <3>4. QED
      BY <3>2, <3>3
  <2>7. DOMAIN s = 1 .. n
    OBVIOUS
  <2> HIDE DEF s
  <2>8. QED
    BY <2>4, <2>6, <2>7 DEF n
<1>2. Ordered({})
  <2>1. [i \in 1 .. 0 |-> 0] \in [1 .. 0 -> {}]
    OBVIOUS
  <2>2. QED
    BY <2>1, FS_EmptySet
<1>3. ASSUME Bad # {} PROVE FALSE
  <2>1. PICK n \in Bad : \A m \in Bad : n <= m
    BY <1>3, LeastNatural
  <2>2. PICK S \in SUBSET keys : Cardinality(S) = n /\ ~Ordered(S)
    BY <2>1
  <2> HIDE DEF Ordered
  <2>3. IsFiniteSet(S) /\ n \in Nat /\ S # {}
    BY <1>2, <2>1, <2>2, FS_Subset
  <2>4. PICK k \in S : \A l \in S : sel[k].month <= sel[l].month
    <3> DEFINE M == {sel[l].month : l \in S}
    <3>1. M \subseteq Nat /\ M # {}
      BY <2>3
    <3> HIDE DEF M
    <3>2. PICK p \in M : \A q \in M : p <= q
      BY <3>1, LeastNatural
    <3>3. QED
      BY <3>2 DEF M
  <2>5. Cardinality(S \ {k}) = n - 1 /\ n - 1 \in Nat
    <3>1. IsFiniteSet(S \ {k}) /\ Cardinality(S \ {k}) = n - 1
      BY <2>2, <2>3, FS_RemoveElement
    <3>2. QED
      BY <3>1, FS_CardinalityType
  <2>6. Ordered(S \ {k})
    <3>1. ~Ordered(S \ {k}) => n - 1 \in Bad
      BY <2>5
    <3> HIDE DEF Bad
    <3>2. QED
      BY <2>1, <2>3, <3>1
  <2>7. Ordered(S)
    BY <1>1, <2>3, <2>4, <2>6
  <2>8. QED
    BY <2>2, <2>7
<1>4. Cardinality(keys) \in Nat
  BY FS_CardinalityType
<1> HIDE DEF Ordered
<1>5. Ordered(keys)
  BY <1>3, <1>4
<1>6. QED
  BY <1>5 DEF Ordered

LEMMA MonthOrder ==
    ASSUME NEW sel, NEW keys, IsFiniteSet(keys),
           \A k \in keys : sel[k].month \in Nat,
           \A k, l \in keys : sel[k].month = sel[l].month => k = l
    PROVE  LET n == Cardinality(keys)
               s == InMonthOrder(sel, keys)
           IN  /\ s \in [1 .. n -> keys]
               /\ \A i, j \in 1 .. n : i < j => sel[s[i]].month < sel[s[j]].month
               /\ \A k \in keys : \E i \in 1 .. n : s[i] = k
<1> DEFINE n == Cardinality(keys)
           s == InMonthOrder(sel, keys)
<1>1. s \in [1 .. n -> keys] /\ \A i, j \in DOMAIN s : i < j => sel[s[i]].month < sel[s[j]].month
  BY MonthOrderExists DEF InMonthOrder
<1>2. n \in Nat
  BY FS_CardinalityType
<1> HIDE DEF s, n
<1>3. \A i, j \in 1 .. n : s[i] = s[j] => i = j
  <2>1. SUFFICES ASSUME NEW i \in 1 .. n, NEW j \in 1 .. n, s[i] = s[j], i # j PROVE FALSE
    OBVIOUS
  <2>2. s[i] \in keys /\ sel[s[i]].month \in Nat /\ DOMAIN s = 1 .. n
    BY <1>1
  <2>3. CASE i < j
    BY <1>1, <2>1, <2>2, <2>3
  <2>4. CASE j < i
    BY <1>1, <2>1, <2>2, <2>4
  <2>5. QED
    BY <1>2, <2>1, <2>3, <2>4
<1>4. s \in Injection(1 .. n, keys)
  BY <1>1, <1>3 DEF Injection, IsInjective
<1>5. Cardinality(1 .. n) = n
  BY <1>2, FS_Interval
<1>6. s \in Surjection(1 .. n, keys)
  BY <1>4, <1>5, FS_Injection DEF n
<1>7. \A k \in keys : \E i \in 1 .. n : s[i] = k
  BY <1>6 DEF Surjection
<1>8. QED
  BY <1>1, <1>7 DEF s, n

\* The minimum is the only least element.
LEMMA LeastIsMin ==
    ASSUME NEW S, S \subseteq Nat, NEW n \in S, \A m \in S : n <= m
    PROVE  Min(S) = n
<1> DEFINE m == Min(S)
<1>1. m \in S /\ \A k \in S : m <= k
  BY MinIsLeast
<1> HIDE DEF m
<1>2. m \in Nat /\ n \in Nat /\ m <= n /\ n <= m
  BY <1>1
<1>3. QED
  BY <1>2 DEF m

InOrder(M, n) == M \in [1 .. n -> Nat] /\ \A i, j \in 1 .. n : i < j => M[i] < M[j]

Values(M, R) == {M[i] : i \in R}

\* Of the months M, those that begin a rest of the months that all lie in Z.
RestIn(M, n, Z) ==
    {m \in Values(M, 1 .. n) : \A p \in Values(M, 1 .. n) : p >= m => p \in Values(M, Z)}

\* Months in order: the least of some of them is that of the first, and the
\* months from which on all are in Z begin after the last that is not.
LEMMA MonthsInOrder ==
    ASSUME NEW n \in Nat \ {0}, NEW M, InOrder(M, n), NEW Z \in SUBSET (1 .. n)
    PROVE  /\ \A R \in SUBSET (1 .. n) : R # {} =>
                 Min(R) \in R /\ Min(Values(M, R)) = M[Min(R)]
           /\ Min(Values(M, 1 .. n)) = M[1]
           /\ RestIn(M, n, Z) = {} <=> n \notin Z
           /\ \A b \in 1 .. n : b .. n \subseteq Z /\ (b = 1 \/ b - 1 \notin Z) =>
                 Min(RestIn(M, n, Z)) = M[b]
<1> DEFINE month == {M[i] : i \in 1 .. n}
           ends == {M[i] : i \in Z}
           empty == {m \in month : \A p \in month : p >= m => p \in ends}
<1>1. M \in [1 .. n -> Nat] /\ \A i, j \in 1 .. n : M[i] <= M[j] <=> i <= j
  BY DEF InOrder
<1>2. ASSUME NEW R \in SUBSET (1 .. n), R # {}
      PROVE  Min(R) \in R /\ Min({M[i] : i \in R}) = M[Min(R)]
  <2> DEFINE S == {M[i] : i \in R}
             r == Min(R)
  <2>1. R \subseteq Nat
    OBVIOUS
  <2>2. r \in R /\ \A i \in R : r <= i
    BY <1>2, <2>1, MinIsLeast
  <2> HIDE DEF r
  <2>3. S \subseteq Nat /\ M[r] \in S /\ \A m \in S : M[r] <= m
    BY <1>1, <2>2
  <2> HIDE DEF S
  <2>4. Min(S) = M[r]
    BY <2>3, LeastIsMin
  <2>5. QED
    BY <2>2, <2>4 DEF S, r
<1>3. Min(month) = M[1]
  <2>1. month \subseteq Nat /\ M[1] \in month /\ \A m \in month : M[1] <= m
    BY <1>1
  <2> HIDE DEF month
  <2>2. QED
    BY <2>1, LeastIsMin
<1>4. \A i \in 1 .. n : M[i] \in ends <=> i \in Z
  <2>1. SUFFICES ASSUME NEW i \in 1 .. n, NEW j \in Z, M[i] = M[j] PROVE i = j
    OBVIOUS
  <2>2. j \in 1 .. n /\ M[i] <= M[j] /\ M[j] <= M[i] /\ i \in Int /\ j \in Int
    BY <1>1, <2>1
  <2>3. QED
    BY <1>1, <2>2
<1> HIDE DEF ends
<1>5. \A i \in 1 .. n : M[i] \in empty <=> i .. n \subseteq Z
  <2>1. ASSUME NEW i \in 1 .. n, M[i] \in empty, NEW j \in i .. n PROVE j \in Z
    <3>1. j \in 1 .. n /\ i <= j
      OBVIOUS
    <3>2. M[j] \in month /\ M[j] >= M[i]
      BY <1>1, <3>1
    <3>3. QED
      BY <1>4, <2>1, <3>1, <3>2
  <2>2. ASSUME NEW i \in 1 .. n, i .. n \subseteq Z PROVE M[i] \in empty
    <3>1. ASSUME NEW j \in 1 .. n, M[j] >= M[i] PROVE M[j] \in ends
      <4>1. M[i] <= M[j]
        BY <3>1
      <4>2. j \in i .. n
        BY <1>1, <4>1
      <4>3. QED
        BY <1>4, <2>2, <4>2
    <3>2. QED
      BY <3>1
  <2>3. QED
    BY <2>1, <2>2
<1>6. \A m \in empty : \E i \in 1 .. n : m = M[i]
  OBVIOUS
<1>7. empty \subseteq Nat
  BY <1>1
<1> HIDE DEF empty
<1>8. empty = {} <=> n \notin Z
  <2>1. ASSUME n \in Z PROVE empty # {}
    <3>1. n \in 1 .. n /\ n .. n \subseteq Z
      BY <2>1
    <3>2. QED
      BY <1>5, <3>1
  <2>2. ASSUME empty # {} PROVE n \in Z
    <3>1. PICK i \in 1 .. n : M[i] \in empty
      BY <1>6, <2>2
    <3>2. n \in i .. n
      OBVIOUS
    <3>3. QED
      BY <1>5, <3>1, <3>2
  <2>3. QED
    BY <2>1, <2>2
<1>9. ASSUME NEW b \in 1 .. n, b .. n \subseteq Z, b = 1 \/ b - 1 \notin Z
      PROVE  Min(empty) = M[b]
  <2>1. M[b] \in empty
    BY <1>5, <1>9
  <2>2. ASSUME NEW m \in empty PROVE M[b] <= m
    <3>1. PICK i \in 1 .. n : m = M[i]
      BY <1>6
    <3>2. i .. n \subseteq Z
      BY <1>5, <3>1
    <3>3. b <= i
      <4>1. SUFFICES ASSUME i < b PROVE FALSE
        OBVIOUS
      <4>2. b # 1 /\ b - 1 \in i .. n
        BY <4>1
      <4>3. QED
        BY <1>9, <3>2, <4>2
    <3>4. QED
      BY <1>1, <3>1, <3>3
  <2>3. QED
    BY <1>7, <2>1, <2>2, LeastIsMin
<1>10. QED
  BY <1>2, <1>3, <1>8, <1>9 DEF RestIn, Values, empty, ends

\* Going back from i while the one before is in Z ends somewhere.
LEMMA GoingBackEnds ==
    ASSUME NEW n \in Nat, NEW Z
    PROVE  \E f : f = [i \in 1 .. n |-> IF i > 1 /\ i - 1 \in Z THEN f[i - 1] ELSE i]
<1> DEFINE Starts(i) == {j \in 1 .. i : j .. (i - 1) \subseteq Z}
           f == [i \in 1 .. n |-> Min(Starts(i))]
<1>1. \A i \in 1 .. n : Starts(i) \subseteq Nat /\ i \in Starts(i)
  OBVIOUS
<1>2. \A i \in 1 .. n : Min(Starts(i)) \in Starts(i) /\ \A j \in Starts(i) : Min(Starts(i)) <= j
  <2>1. SUFFICES ASSUME NEW i \in 1 .. n
                 PROVE  Min(Starts(i)) \in Starts(i) /\ \A j \in Starts(i) : Min(Starts(i)) <= j
    OBVIOUS
  <2>2. Starts(i) \subseteq Nat /\ Starts(i) # {}
    BY <1>1
  <2> HIDE DEF Starts
  <2>3. QED
    BY <2>2, MinIsLeast
<1>3. ASSUME NEW i \in 1 .. n
      PROVE  f[i] = IF i > 1 /\ i - 1 \in Z THEN f[i - 1] ELSE i
  <2>1. CASE i > 1 /\ i - 1 \in Z
    <3>1. i - 1 \in 1 .. n
      BY <2>1
    <3>2. Min(Starts(i - 1)) \in Starts(i)
      <4> DEFINE m == Min(Starts(i - 1))
      <4>1. m \in Starts(i - 1)
        BY <1>2, <3>1
      <4> HIDE DEF m
      <4>2. m \in 1 .. i /\ m .. (i - 1) \subseteq Z
        BY <2>1, <4>1
      <4>3. QED
        BY <4>2 DEF m
    <3>3. \A j \in Starts(i) : Min(Starts(i - 1)) <= j
      <4> DEFINE m == Min(Starts(i - 1))
      <4>1. m \in 1 .. (i - 1) /\ \A j \in Starts(i - 1) : m <= j
        BY <1>2, <3>1
      <4> HIDE DEF m
      <4>2. SUFFICES ASSUME NEW j \in Starts(i) PROVE m <= j
        BY DEF m
      <4>3. CASE j = i
        BY <4>1, <4>3
      <4>4. CASE j # i
        <5>1. j \in Starts(i - 1)
          BY <4>2, <4>4
        <5>2. QED
          BY <4>1, <5>1
      <4>5. QED
        BY <4>3, <4>4
    <3>4. Starts(i) \subseteq Nat
      OBVIOUS
    <3> HIDE DEF Starts
    <3>5. Min(Starts(i)) = Min(Starts(i - 1))
      BY <3>2, <3>3, <3>4, LeastIsMin
    <3>6. QED
      BY <2>1, <3>1, <3>5
  <2>2. CASE ~(i > 1 /\ i - 1 \in Z)
    <3>1. \A j \in Starts(i) : i <= j
      <4>1. SUFFICES ASSUME NEW j \in Starts(i), j < i PROVE FALSE
        OBVIOUS
      <4>2. i - 1 \in j .. (i - 1) /\ i > 1
        BY <4>1
      <4>3. QED
        BY <2>2, <4>1, <4>2
    <3>2. Starts(i) \subseteq Nat /\ i \in Starts(i)
      BY <1>1
    <3> HIDE DEF Starts
    <3>3. Min(Starts(i)) = i
      BY <3>1, <3>2, LeastIsMin
    <3>4. QED
      BY <2>2, <3>3
  <2>3. QED
    BY <2>1, <2>2
<1>4. f = [i \in 1 .. n |-> f[i]]
  OBVIOUS
<1> HIDE DEF f
<1>5. f = [i \in 1 .. n |-> IF i > 1 /\ i - 1 \in Z THEN f[i - 1] ELSE i]
  BY <1>3, <1>4
<1>6. QED
  BY <1>5

\* Where it ends.
LEMMA GoingBack ==
    ASSUME NEW n \in Nat, NEW Z, NEW f,
           f = [i \in 1 .. n |-> IF i > 1 /\ i - 1 \in Z THEN f[i - 1] ELSE i],
           NEW i \in 1 .. n
    PROVE  f[i] \in 1 .. i /\ f[i] .. (i - 1) \subseteq Z /\ (f[i] = 1 \/ f[i] - 1 \notin Z)
<1> DEFINE Good(j) == f[j] \in 1 .. j /\ f[j] .. (j - 1) \subseteq Z /\ (f[j] = 1 \/ f[j] - 1 \notin Z)
           Bad == {j \in 1 .. n : ~Good(j)}
<1>1. \A j \in 1 .. n : f[j] = IF j > 1 /\ j - 1 \in Z THEN f[j - 1] ELSE j
  OBVIOUS
<1>2. ASSUME Bad # {} PROVE FALSE
  <2>1. Bad \subseteq Nat
    OBVIOUS
  <2>2. PICK j \in Bad : \A k \in Bad : j <= k
    <3> HIDE DEF Bad
    <3>1. QED
      BY <1>2, <2>1, LeastNatural
  <2>3. j \in 1 .. n /\ ~Good(j)
    BY <2>2
  <2>4. CASE j > 1 /\ j - 1 \in Z
    <3>1. j - 1 \in 1 .. n /\ f[j] = f[j - 1]
      BY <1>1, <2>3, <2>4
    <3>2. Good(j - 1)
      <4>1. ~(j - 1 \in Bad)
        <5> HIDE DEF Bad
        <5>1. QED
          BY <2>2, <2>3
      <4>2. QED
        BY <3>1, <4>1
    <3>3. QED
      BY <2>3, <2>4, <3>1, <3>2
  <2>5. CASE ~(j > 1 /\ j - 1 \in Z)
    BY <1>1, <2>3, <2>5
  <2>6. QED
    BY <2>4, <2>5
<1>3. Good(i)
  BY <1>2
<1>4. QED
  BY <1>3

\* A lot is sold out from where its months at zero begin that last to the end.
LEMMA TerminalMonth ==
    ASSUME NEW n \in Nat \ {0}, NEW obs, Len(obs) = n
    PROVE  LET Z == {i \in 1 .. n : obs[i].qty["ending"] = 0}
           IN  /\ n \notin Z => TerminalSoldOutMonth(obs) = NoMonth
               /\ n \in Z => \E b \in 1 .. n :
                                /\ b .. n \subseteq Z /\ (b = 1 \/ b - 1 \notin Z)
                                /\ TerminalSoldOutMonth(obs) = obs[b].month
<1> DEFINE Z == {i \in 1 .. n : obs[i].qty["ending"] = 0}
           Back(f) == f = [i \in 1 .. n |-> IF i > 1 /\ obs[i - 1].qty["ending"] = 0
                                            THEN f[i - 1] ELSE i]
           BackZ(f) == f = [i \in 1 .. n |-> IF i > 1 /\ i - 1 \in Z THEN f[i - 1] ELSE i]
           back == CHOOSE f : Back(f)
<1>1. TerminalSoldOutMonth(obs) =
        IF obs[n].qty["ending"] = 0 THEN obs[back[n]].month ELSE NoMonth
  BY DEF TerminalSoldOutMonth
<1>2. n \in Z <=> obs[n].qty["ending"] = 0
  OBVIOUS
<1>3. ASSUME NEW f PROVE Back(f) <=> BackZ(f)
  <2>1. \A i \in 1 .. n : i > 1 => (i - 1 \in Z <=> obs[i - 1].qty["ending"] = 0)
    OBVIOUS
  <2> HIDE DEF Z
  <2>2. [i \in 1 .. n |-> IF i > 1 /\ obs[i - 1].qty["ending"] = 0 THEN f[i - 1] ELSE i]
        = [i \in 1 .. n |-> IF i > 1 /\ i - 1 \in Z THEN f[i - 1] ELSE i]
    BY <2>1
  <2>3. QED
    BY <2>2
<1>4. \E f : BackZ(f)
  <2> HIDE DEF Z
  <2>1. QED
    BY GoingBackEnds
<1>5. BackZ(back)
  <2> HIDE DEF Back, BackZ
  <2>1. QED
    BY <1>3, <1>4
<1> HIDE DEF back, Z
<1>6. back[n] \in 1 .. n /\ back[n] .. (n - 1) \subseteq Z /\ (back[n] = 1 \/ back[n] - 1 \notin Z)
  <2>1. n \in Nat /\ n \in 1 .. n
    OBVIOUS
  <2>2. QED
    BY <1>5, <2>1, GoingBack
<1>7. n \in Z => back[n] .. n \subseteq Z
  BY <1>6
<1>8. QED
  BY <1>1, <1>2, <1>6, <1>7 DEF Z

\* What the versions that are the sources of a lot say of its life.
LifeIs(sel, lot, sources, v) ==
    LET month == {sel[k].month : k \in sources}
        ends == {sel[k].month : k \in {s \in sources : SumOf(LotRows(sel[s], lot), "ending") = 0}}
        receipts ==
            {sel[k].month : k \in {s \in sources : SumOf(LotRows(sel[s], lot), "receipt") > 0}}
        empty == {m \in month : \A n \in month : n >= m => n \in ends}
        old == \E k \in sources :
                  sel[k].month = Min(month) /\ SumOf(LotRows(sel[k], lot), "opening") > 0
    IN  /\ v.soldOut = IF empty = {} THEN NoMonth ELSE Min(empty)
        /\ v.inbound = IF old THEN NoMonth ELSE Min(receipts)
        /\ ~old => receipts # {}
        /\ v.state = "SOLD_OUT" <=> empty # {}
        /\ v.state = "PRE_EXISTING" <=> old /\ empty = {}

LEMMA LifeOfLot ==
    ASSUME NEW sel, IsFiniteSet(DOMAIN sel), \A k \in DOMAIN sel : sel[k].month \in Nat,
           Selectable(sel), NEW lot \in LotsOf(sel), HasLife(Observations(sel, lot))
    PROVE  LifeIs(sel, lot, SourcesOf(sel, lot), Lifecycle(Observations(sel, lot)))
<1> DEFINE keys == SourcesOf(sel, lot)
           n == Cardinality(keys)
           s == InMonthOrder(sel, keys)
           obs == Observations(sel, lot)
           v == Lifecycle(obs)
           Qty(k, f) == SumOf(LotRows(sel[k], lot), f)
<1>1. keys \subseteq DOMAIN sel /\ keys # {} /\ IsFiniteSet(keys)
  <2>1. keys \subseteq DOMAIN sel
    BY DEF SourcesOf
  <2>2. keys # {}
    <3>1. PICK k \in DOMAIN sel : \E r \in Planning(sel[k].rows) : lot = LotOf(r)
      BY DEF LotsOf
    <3>2. k \in keys
      BY <3>1 DEF SourcesOf, LotRows
    <3>3. QED
      BY <3>2
  <2>3. QED
    BY <2>1, <2>2, FS_Subset
<1>2. n \in Nat \ {0}
  BY <1>1, FS_CardinalityType, FS_EmptySet
<1>3. \A k \in keys : sel[k].month \in Nat
  BY <1>1
<1>4. \A k, l \in keys : sel[k].month = sel[l].month => k = l
  BY <1>1 DEF Selectable
<1>5. /\ s \in [1 .. n -> keys]
      /\ \A i, j \in 1 .. n : i < j => sel[s[i]].month < sel[s[j]].month
      /\ \A k \in keys : \E i \in 1 .. n : s[i] = k
  <2> HIDE DEF keys
  <2>1. QED
    BY <1>1, <1>3, <1>4, MonthOrder
<1>6. obs = [i \in 1 .. n |-> [month |-> sel[s[i]].month,
                               qty |-> Balances(LotRows(sel[s[i]], lot))]]
  BY <1>5 DEF Observations
<1> HIDE DEF keys, n, s, obs
<1>7. Len(obs) = n /\ DOMAIN obs = 1 .. n
  BY <1>2, <1>6
<1>8. \A i \in 1 .. n : /\ obs[i].month = sel[s[i]].month
                        /\ obs[i].qty["ending"] = Qty(s[i], "ending")
                        /\ obs[i].qty["opening"] = Qty(s[i], "opening")
                        /\ obs[i].qty["receipt"] = Qty(s[i], "receipt")
  BY <1>6 DEF Balances, Balance
<1> DEFINE M == [i \in 1 .. n |-> sel[s[i]].month]
           Z == {i \in 1 .. n : obs[i].qty["ending"] = 0}
           R == {i \in 1 .. n : obs[i].qty["receipt"] > 0}
           month == {sel[k].month : k \in keys}
           ends == {sel[k].month : k \in {x \in keys : Qty(x, "ending") = 0}}
           receipts == {sel[k].month : k \in {x \in keys : Qty(x, "receipt") > 0}}
           empty == {m \in month : \A p \in month : p >= m => p \in ends}
           old == \E k \in keys : sel[k].month = Min(month) /\ Qty(k, "opening") > 0
<1> HIDE DEF Qty
<1>9. InOrder(M, n) /\ M \in [1 .. n -> Nat]
  BY <1>3, <1>5 DEF InOrder
<1>10. /\ month = Values(M, 1 .. n)
       /\ ends = Values(M, Z)
       /\ receipts = Values(M, R)
  <2>1. \A i \in 1 .. n : s[i] \in keys /\ M[i] = sel[s[i]].month
    BY <1>5
  <2>2. \A i \in Z : i \in 1 .. n /\ Qty(s[i], "ending") = 0
    BY <1>8
  <2>3. \A i \in R : i \in 1 .. n /\ Qty(s[i], "receipt") > 0
    BY <1>8
  <2>4. \A k \in keys : \E i \in 1 .. n : s[i] = k /\ M[i] = sel[k].month
    BY <1>5, <2>1
  <2>5. \A k \in keys : Qty(k, "ending") = 0 => \E i \in Z : M[i] = sel[k].month
    BY <1>8, <2>4
  <2>6. \A k \in keys : Qty(k, "receipt") > 0 => \E i \in R : M[i] = sel[k].month
    BY <1>8, <2>4
  <2> HIDE DEF M, Z, R
  <2>7. month = Values(M, 1 .. n)
    BY <2>1, <2>4 DEF Values
  <2>8. ends = Values(M, Z)
    BY <2>1, <2>2, <2>5 DEF Values
  <2>9. receipts = Values(M, R)
    BY <2>1, <2>3, <2>6 DEF Values
  <2>10. QED
    BY <2>7, <2>8, <2>9
<1>11. Z \in SUBSET (1 .. n) /\ R \in SUBSET (1 .. n)
  OBVIOUS
<1>12. PreExisting(obs) <=> Qty(s[1], "opening") > 0
  BY <1>2, <1>8 DEF PreExisting
<1>13. FirstReceiptMonth(obs) = IF R = {} THEN NoMonth ELSE obs[Min(R)].month
  BY <1>7 DEF FirstReceiptMonth
<1>14. /\ n \notin Z => TerminalSoldOutMonth(obs) = NoMonth
       /\ n \in Z => \E b \in 1 .. n :
                        /\ b .. n \subseteq Z /\ (b = 1 \/ b - 1 \notin Z)
                        /\ TerminalSoldOutMonth(obs) = obs[b].month
  BY <1>2, <1>7, TerminalMonth
<1>15. \A i \in 1 .. n : obs[i].month = M[i] /\ M[i] \in Nat
  BY <1>8, <1>9
<1>16. empty = RestIn(M, n, Z)
  <2> HIDE DEF month, ends, M, Z, R
  <2>1. QED
    BY <1>10 DEF RestIn
<1>17. s[1] \in keys /\ M[1] = sel[s[1]].month
  BY <1>2, <1>5
<1> HIDE DEF M, Z, R, empty
<1>18. /\ R # {} => Min(R) \in R /\ Min(Values(M, R)) = M[Min(R)]
       /\ Min(Values(M, 1 .. n)) = M[1]
       /\ empty = {} <=> n \notin Z
       /\ \A b \in 1 .. n : b .. n \subseteq Z /\ (b = 1 \/ b - 1 \notin Z) =>
             Min(empty) = M[b]
  BY <1>2, <1>9, <1>11, <1>16, MonthsInOrder
<1>19. old <=> PreExisting(obs)
  <2>1. Min(month) = sel[s[1]].month
    BY <1>10, <1>17, <1>18
  <2> HIDE DEF month
  <2>2. QED
    BY <1>4, <1>12, <1>17, <2>1
<1>20. TerminalSoldOutMonth(obs) = IF empty = {} THEN NoMonth ELSE Min(empty)
  <2>1. CASE n \notin Z
    BY <1>14, <1>18, <2>1
  <2>2. CASE n \in Z
    <3>1. PICK b \in 1 .. n : /\ b .. n \subseteq Z /\ (b = 1 \/ b - 1 \notin Z)
                              /\ TerminalSoldOutMonth(obs) = obs[b].month
      BY <1>14, <2>2
    <3>2. Min(empty) = M[b]
      BY <1>18, <3>1
    <3>3. QED
      BY <1>15, <1>18, <2>2, <3>1, <3>2
  <2>3. QED
    BY <2>1, <2>2
<1>21. TerminalSoldOutMonth(obs) # NoMonth <=> empty # {}
  <2>1. n \in Z => TerminalSoldOutMonth(obs) \in Nat
    BY <1>14, <1>15
  <2>2. QED
    BY <1>14, <1>18, <2>1, PlanningDataAssumption
<1>22. ~PreExisting(obs) => R # {} /\ FirstReceiptMonth(obs) = Min(receipts) /\ receipts # {}
  <2>1. SUFFICES ASSUME ~PreExisting(obs)
                 PROVE  R # {} /\ FirstReceiptMonth(obs) = Min(receipts) /\ receipts # {}
    OBVIOUS
  <2>2. R # {}
    BY <1>13, <2>1 DEF HasLife, obs
  <2>3. Min(R) \in 1 .. n /\ obs[Min(R)].month = M[Min(R)]
    BY <1>11, <1>15, <1>18, <2>2
  <2>4. Values(M, R) # {}
    BY <2>2 DEF Values
  <2> HIDE DEF receipts
  <2>5. QED
    BY <1>10, <1>13, <1>18, <2>2, <2>3, <2>4
<1> DEFINE sold == TerminalSoldOutMonth(obs)
           pre == PreExisting(obs)
           first == FirstReceiptMonth(obs)
<1>23. /\ v.soldOut = sold
       /\ v.inbound = IF pre THEN NoMonth ELSE first
       /\ v.state = IF sold # NoMonth THEN "SOLD_OUT"
                    ELSE IF pre THEN "PRE_EXISTING" ELSE "ACTIVE"
  BY DEF Lifecycle
<1> HIDE DEF v, old, receipts
<1>24. /\ v.soldOut = IF empty = {} THEN NoMonth ELSE Min(empty)
       /\ v.inbound = IF old THEN NoMonth ELSE Min(receipts)
       /\ ~old => receipts # {}
       /\ v.state = "SOLD_OUT" <=> empty # {}
       /\ v.state = "PRE_EXISTING" <=> old /\ empty = {}
  BY <1>19, <1>20, <1>21, <1>22, <1>23
<1>25. QED
  BY <1>24 DEF LifeIs, empty, month, ends, receipts, old, Qty, v, keys, obs

LEMMA LifeTyped ==
    ASSUME NEW sel, IsFiniteSet(DOMAIN sel), \A k \in DOMAIN sel : sel[k].month \in Nat,
           Selectable(sel), NEW lot \in LotsOf(sel), HasLife(Observations(sel, lot))
    PROVE  Lifecycle(Observations(sel, lot)) \in
              [state : {"SOLD_OUT", "PRE_EXISTING", "ACTIVE"}, inbound : Nat \cup {NoMonth},
               soldOut : Nat \cup {NoMonth}, consumption : Int]
<1> DEFINE keys == SourcesOf(sel, lot)
           v == Lifecycle(Observations(sel, lot))
           month == {sel[k].month : k \in keys}
           ends == {sel[k].month : k \in {s \in keys : SumOf(LotRows(sel[s], lot), "ending") = 0}}
           receipts ==
              {sel[k].month : k \in {s \in keys : SumOf(LotRows(sel[s], lot), "receipt") > 0}}
           empty == {m \in month : \A n \in month : n >= m => n \in ends}
           old == \E k \in keys :
                     sel[k].month = Min(month) /\ SumOf(LotRows(sel[k], lot), "opening") > 0
<1>1. /\ v.soldOut = IF empty = {} THEN NoMonth ELSE Min(empty)
      /\ v.inbound = IF old THEN NoMonth ELSE Min(receipts)
      /\ ~old => receipts # {}
  BY LifeOfLot DEF LifeIs
<1>2. \A k \in keys : sel[k].month \in Nat
  BY DEF SourcesOf
<1> HIDE DEF keys
<1>3. empty \subseteq Nat /\ receipts \subseteq Nat
  BY <1>2
<1> HIDE DEF empty, receipts, old
<1>4. v.soldOut \in Nat \cup {NoMonth} /\ v.inbound \in Nat \cup {NoMonth}
  BY <1>1, <1>3, MinIsLeast
<1>5. v = [state |-> v.state, inbound |-> v.inbound, soldOut |-> v.soldOut,
           consumption |-> IF v.inbound # NoMonth /\ v.soldOut # NoMonth
                           THEN v.soldOut - v.inbound + 1 ELSE 0]
  BY DEF Lifecycle
<1>6. v.state \in {"SOLD_OUT", "PRE_EXISTING", "ACTIVE"}
  BY DEF Lifecycle
<1> HIDE DEF v
<1>7. QED
  BY <1>4, <1>5, <1>6 DEF v

-----------------------------------------------------------------------------
(* The rows of an inventory *)

InventoryRows ==
    [no : Nat, sku : Sku, product : Product, date : Date,
     status : {"PLANNING_AVAILABLE", "IN_TRANSIT", "NON_SELLABLE"},
     opening : Nat, receipt : Int, issue : Int, ending : Nat]

\* What a preview finds no fault with has its type.
LEMMA InventoryTyping ==
    ASSUME NEW s \in Source, KindOf[s] = "INVENTORY", NEW p \in Previews[s]
    PROVE  p.from \in Nat /\ p.to = p.from /\ p.rows \subseteq InventoryRows
<1> DEFINE file == ContentOf[s]
<1>1. PICK m \in Masters : p = InventoryPreview(file, m)
  BY DEF Previews, Preview
<1>2. /\ p.from = file.month /\ p.to = file.month
      /\ p.rows = {InventoryRow(r, m, file.policy) :
                      r \in {q \in file.rows : InventoryFindings(q, m, file.policy) = {}}}
  BY <1>1 DEF InventoryPreview
<1>3. /\ file.month \in Nat
      /\ \A w \in DOMAIN file.policy :
            file.policy[w] \in {"PLANNING_AVAILABLE", "IN_TRANSIT", "NON_SELLABLE"}
      /\ \A r \in file.rows :
            /\ r.no \in Nat
            /\ {"sku", "date", "warehouse"} \cup Balance \subseteq DOMAIN r.cells
            /\ r.cells["date"] \in Date \cup {Blank, Garbled}
            /\ \A f \in Balance : r.cells[f] \in Int \cup {Blank, Garbled}
  BY ContentAssumption
<1>4. /\ m.known \subseteq Sku
      /\ \A x \in m.known : m.productOf[x] \in Product \cup {NoProduct}
  BY ContentAssumption
<1> HIDE DEF file
<1>5. ASSUME NEW r \in file.rows, InventoryFindings(r, m, file.policy) = {}
      PROVE  InventoryRow(r, m, file.policy) \in InventoryRows
  <2> DEFINE v == InventoryValues(r)
  <2>1. /\ InventoryRowFindings(r, m) = {}
        /\ Found("INVENTORY_WAREHOUSE_SCOPE_UNCLASSIFIED",
                 r.cells["warehouse"] \notin DOMAIN file.policy) = {}
    BY <1>5 DEF InventoryFindings
  <2>2. r.cells["warehouse"] \in DOMAIN file.policy
    BY <2>1 DEF Found
  <2>3. /\ \A f \in DOMAIN v : v[f] # Garbled /\ v[f] # Blank
        /\ ~Negative(v, "opening") /\ ~Negative(v, "ending")
        /\ v["sku"] \notin {Blank, Garbled} => v["sku"] \in m.active
        /\ v["sku"] \in m.active => ActiveMapping(m, v["sku"])
    <3>1. /\ Found("INVENTORY_VALUE_INVALID", \E f \in DOMAIN v : v[f] = Garbled) = {}
          /\ Found("INVENTORY_REQUIRED_FIELD_MISSING", \E f \in DOMAIN v : v[f] = Blank) = {}
          /\ Found("INVENTORY_BALANCE_QUANTITY_NEGATIVE",
                   Negative(v, "opening") \/ Negative(v, "ending")) = {}
          /\ Found("INVENTORY_ACTIVE_SKU_NOT_FOUND",
                   v["sku"] \notin {Blank, Garbled} /\ v["sku"] \notin m.active) = {}
          /\ Found("INVENTORY_VALID_PRODUCT_NOT_FOUND",
                   v["sku"] \in m.active /\ ~ActiveMapping(m, v["sku"])) = {}
      <4> HIDE DEF v
      <4>1. InventoryRowFindings(r, m) = 
                Found("INVENTORY_VALUE_INVALID", \E f \in DOMAIN v : v[f] = Garbled)
                  \cup Found("INVENTORY_REQUIRED_FIELD_MISSING", \E f \in DOMAIN v : v[f] = Blank)
                  \cup Found("INVENTORY_BALANCE_QUANTITY_NEGATIVE",
                             Negative(v, "opening") \/ Negative(v, "ending"))
                  \cup Found("INVENTORY_BALANCE_MISMATCH", Unbalanced(v))
                  \cup Found("INVENTORY_ACTIVE_SKU_NOT_FOUND",
                             v["sku"] \notin {Blank, Garbled} /\ v["sku"] \notin m.active)
                  \cup Found("INVENTORY_VALID_PRODUCT_NOT_FOUND",
                             v["sku"] \in m.active /\ ~ActiveMapping(m, v["sku"]))
        BY DEF InventoryRowFindings, v
      <4>2. QED
        BY <2>1, <4>1
    <3> HIDE DEF v
    <3>2. QED
      BY <3>1 DEF Found
  <2>4. DOMAIN v = DOMAIN r.cells /\ \A f \in DOMAIN v : v[f] = InventoryValue(f, r.cells[f])
    BY DEF InventoryValues
  <2>5. {"sku", "date", "warehouse"} \cup Balance \subseteq DOMAIN v
    BY <1>3, <2>4
  <2> HIDE DEF v
  <2>6. ASSUME NEW f \in Balance PROVE v[f] \in Int
    <3>1. r.cells[f] \in Int \cup {Blank, Garbled} /\ v[f] # Garbled
      BY <1>3, <2>3, <2>5
    <3>2. CASE r.cells[f] = Blank
      BY <2>4, <2>5, <3>2 DEF InventoryValue, Balance
    <3>3. CASE r.cells[f] # Blank
      <4>1. v[f] = r.cells[f]
        BY <2>4, <2>5, <3>3 DEF InventoryValue, Balance
      <4>2. QED
        BY <3>1, <3>3, <4>1
    <3>4. QED
      BY <3>2, <3>3
  <2>7. v["opening"] \in Nat /\ v["ending"] \in Nat /\ v["receipt"] \in Int /\ v["issue"] \in Int
    <3>1. {"opening", "receipt", "issue", "ending"} = Balance
      BY DEF Balance
    <3>2. v["opening"] >= 0 /\ v["ending"] >= 0
      BY <2>3, <2>5, <2>6, <3>1 DEF Negative
    <3>3. QED
      BY <2>6, <3>1, <3>2
  <2>8. v["date"] \in Date
    <3>1. "date" \notin Balance
      BY DEF Balance
    <3>2. v["date"] = IF r.cells["date"] = Blank THEN Garbled ELSE r.cells["date"]
      BY <2>4, <2>5, <3>1 DEF InventoryValue
    <3>3. QED
      BY <1>3, <2>3, <2>5, <3>2
  <2>9. v["sku"] \in Sku /\ m.productOf[v["sku"]] \in Product
    BY <1>4, <2>3, <2>5 DEF ActiveMapping, HasProduct
  <2>10. v["warehouse"] = r.cells["warehouse"]
    <3>1. "warehouse" \notin Balance
      BY DEF Balance
    <3>2. QED
      BY <2>4, <2>5, <3>1 DEF InventoryValue
  <2>11. InventoryRow(r, m, file.policy) =
            [no |-> r.no, sku |-> v["sku"], product |-> m.productOf[v["sku"]],
             date |-> v["date"], status |-> file.policy[v["warehouse"]],
             opening |-> v["opening"], receipt |-> v["receipt"],
             issue |-> v["issue"], ending |-> v["ending"]]
    BY DEF InventoryRow, v
  <2>12. QED
    BY <1>3, <2>2, <2>7, <2>8, <2>9, <2>10, <2>11 DEF InventoryRows
<1>6. QED
  BY <1>2, <1>3, <1>5

-----------------------------------------------------------------------------
(* What a preview adds up to *)

LEMMA FiniteImage ==
    ASSUME NEW T, IsFiniteSet(T), NEW f
    PROVE  IsFiniteSet({f[x] : x \in T})
<1>1. [x \in T |-> f[x]] \in Surjection(T, {f[x] : x \in T})
  BY DEF Surjection
<1>2. QED
  BY <1>1, FS_Surjection

\* Rows come from the rows of a workbook.
LEMMA RowsAreFinite ==
    ASSUME NEW s \in Source, NEW p \in Previews[s]
    PROVE  IsFiniteSet(p.rows)
<1> DEFINE file == ContentOf[s]
<1>1. PICK m \in Masters : p = Preview(KindOf[s], file, m)
  BY DEF Previews
<1>2. \A T \in SUBSET file.rows : IsFiniteSet(T)
  BY ContentAssumption, FS_Subset
<1>3. ASSUME NEW T \in SUBSET file.rows, NEW f PROVE IsFiniteSet({f[x] : x \in T})
  <2>1. IsFiniteSet(T)
    BY <1>2
  <2>2. QED
    BY <2>1, FiniteImage
<1>4. KindOf[s] \in {"INVENTORY", "ACTUAL", "INCOMING"}
  BY PlanningDataAssumption
<1> HIDE DEF file
<1>5. CASE KindOf[s] = "INVENTORY"
  <2> DEFINE T == {q \in file.rows : InventoryFindings(q, m, file.policy) = {}}
             f == [r \in T |-> InventoryRow(r, m, file.policy)]
  <2>1. p.rows = {InventoryRow(r, m, file.policy) : r \in T}
    BY <1>1, <1>5 DEF Preview, InventoryPreview
  <2>2. T \in SUBSET file.rows /\ \A r \in T : f[r] = InventoryRow(r, m, file.policy)
    OBVIOUS
  <2> HIDE DEF T, f
  <2>3. p.rows = {f[r] : r \in T}
    BY <2>1, <2>2
  <2>4. QED
    BY <1>3, <2>2, <2>3
<1>6. CASE KindOf[s] = "ACTUAL"
  <2> DEFINE T == {q \in file.rows : ActualFindings(q, m) = {}}
             f == [r \in T |-> ActualRow(r, m)]
  <2>1. p.rows = {ActualRow(r, m) : r \in T}
    BY <1>1, <1>6 DEF Preview, ActualPreview
  <2>2. T \in SUBSET file.rows /\ \A r \in T : f[r] = ActualRow(r, m)
    OBVIOUS
  <2> HIDE DEF T, f
  <2>3. p.rows = {f[r] : r \in T}
    BY <2>1, <2>2
  <2>4. QED
    BY <1>3, <2>2, <2>3
<1>7. CASE KindOf[s] = "INCOMING"
  <2> DEFINE T == {q \in file.rows : IncomingFindings(file, q, m) = {}}
             f == [r \in T |-> IncomingRow(file, r, m)]
  <2>1. p.rows = {IncomingRow(file, r, m) : r \in T}
    BY <1>1, <1>7 DEF Preview, IncomingPreview
  <2>2. T \in SUBSET file.rows /\ \A r \in T : f[r] = IncomingRow(file, r, m)
    OBVIOUS
  <2> HIDE DEF T, f
  <2>3. p.rows = {f[r] : r \in T}
    BY <2>1, <2>2
  <2>4. QED
    BY <1>3, <2>2, <2>3
<1>8. QED
  BY <1>4, <1>5, <1>6, <1>7

\* The rows of an inventory balance, and one set of masters gives their products.
LEMMA InventoryBalances ==
    ASSUME NEW s \in Source, KindOf[s] = "INVENTORY", NEW p \in Previews[s]
    PROVE  /\ \A r \in p.rows : r.opening + r.receipt - r.issue = r.ending
           /\ \E product : \A r \in p.rows : r.product = product[r.sku]
<1> DEFINE file == ContentOf[s]
<1>1. PICK m \in Masters : p = InventoryPreview(file, m)
  BY DEF Previews, Preview
<1>2. p.rows = {InventoryRow(r, m, file.policy) :
                   r \in {q \in file.rows : InventoryFindings(q, m, file.policy) = {}}}
  BY <1>1 DEF InventoryPreview
<1>3. \A r \in file.rows : Balance \subseteq DOMAIN r.cells
  BY ContentAssumption
<1> HIDE DEF file
<1>4. ASSUME NEW r \in file.rows, InventoryFindings(r, m, file.policy) = {}
      PROVE  LET v == InventoryValues(r)
             IN  v["opening"] + v["receipt"] - v["issue"] = v["ending"]
  <2> DEFINE v == InventoryValues(r)
  <2>1. InventoryRowFindings(r, m) = {}
    BY <1>4 DEF InventoryFindings
  <2>2. /\ Found("INVENTORY_VALUE_INVALID", \E f \in DOMAIN v : v[f] = Garbled) = {}
        /\ Found("INVENTORY_BALANCE_MISMATCH", Unbalanced(v)) = {}
    BY <2>1 DEF InventoryRowFindings
  <2>3. Balance \subseteq DOMAIN v
    BY <1>3 DEF InventoryValues
  <2> HIDE DEF v
  <2>4. (\A f \in DOMAIN v : v[f] # Garbled) /\ ~Unbalanced(v)
    BY <2>2 DEF Found
  <2>5. v["opening"] + v["receipt"] - v["issue"] = v["ending"]
    BY <2>3, <2>4 DEF Unbalanced
  <2>6. QED
    BY <2>5 DEF v
<1>5. \A r \in file.rows :
         LET row == InventoryRow(r, m, file.policy)
             v == InventoryValues(r)
         IN  /\ row.opening = v["opening"] /\ row.receipt = v["receipt"]
             /\ row.issue = v["issue"] /\ row.ending = v["ending"]
             /\ row.product = m.productOf[row.sku]
  BY DEF InventoryRow
<1>6. \A r \in p.rows : r.opening + r.receipt - r.issue = r.ending
  BY <1>2, <1>4, <1>5
<1>7. \A r \in p.rows : r.product = m.productOf[r.sku]
  BY <1>2, <1>5
<1>8. QED
  BY <1>6, <1>7

InventoryAddsUp(version, p) ==
    LET total == version.facts.product[p]["ending"]
        mine == {r \in Planning(version.rows) : r.product = p}
        skus == {r.sku : r \in mine}
        whole == Whole(mine, "ending")
    IN  /\ Agree(EndingOfSkus(version, p), total, Cardinality(skus) + 1, whole)
        /\ Agree(StoredSum(mine, "ending"), total, Cardinality(mine) + 1, whole)
        /\ whole => DOMAIN Remaining(version, p) # {}

\* The facts of an inventory agree with each other and with its rows.
LEMMA InventoryFactsAddUp ==
    ASSUME NEW version, IsFiniteSet(version.rows), version.facts = InventoryFacts(version.rows),
           \A r \in version.rows : r.ending \in Int,
           NEW product, \A r \in version.rows : r.product = product[r.sku],
           NEW p \in DOMAIN version.facts.product
    PROVE  InventoryAddsUp(version, p)
<1> DEFINE facts == version.facts
           stock == Planning(version.rows)
           mine == {r \in stock : r.product = p}
           Of(s) == {r \in stock : r.sku = s}
           skus == {s \in DOMAIN facts.sku : facts.sku[s].product = p}
<1>1. /\ DOMAIN facts.sku = {r.sku : r \in stock}
      /\ \A s \in DOMAIN facts.sku :
            /\ \E r \in Of(s) : facts.sku[s].product = r.product
            /\ facts.sku[s].qty["ending"] = Rounded(SumOf(Of(s), "ending"))
  <2> DEFINE bySku == Grouped(stock, [r \in stock |-> r.sku])
  <2>1. DOMAIN bySku = {r.sku : r \in stock} /\ \A s \in DOMAIN bySku : bySku[s] = Of(s)
    BY DEF Grouped
  <2>2. facts.sku = [s \in DOMAIN bySku |->
                       [product |-> (CHOOSE r \in bySku[s] : TRUE).product,
                        qty |-> StoredBalances(bySku[s])]]
    BY DEF InventoryFacts
  <2>3. DOMAIN facts.sku = DOMAIN bySku
    BY <2>2
  <2>4. ASSUME NEW s \in DOMAIN bySku
        PROVE  /\ \E r \in Of(s) : facts.sku[s].product = r.product
               /\ facts.sku[s].qty["ending"] = Rounded(SumOf(Of(s), "ending"))
    <3> DEFINE S == bySku[s]
    <3>1. S = Of(s) /\ Of(s) # {}
      BY <2>1
    <3> HIDE DEF bySku, facts
    <3>2. facts.sku[s].product = (CHOOSE r \in S : TRUE).product /\ facts.sku[s].qty = StoredBalances(S)
      BY <2>2
    <3> HIDE DEF S, Of
    <3>3. (CHOOSE r \in S : TRUE) \in S
      BY <3>1
    <3>4. StoredBalances(S)["ending"] = Rounded(SumOf(S, "ending"))
      BY DEF StoredBalances, Balances, Balance
    <3>5. QED
      BY <3>1, <3>2, <3>3, <3>4
  <2> HIDE DEF bySku, Of, facts
  <2>5. QED
    BY <2>1, <2>3, <2>4
<1>2. /\ \E r \in stock : r.product = p
      /\ facts.product[p]["ending"] = Rounded(SumOf(mine, "ending"))
  <2> DEFINE byProduct == Grouped(stock, [r \in stock |-> r.product])
  <2>1. /\ DOMAIN byProduct = {r.product : r \in stock}
        /\ \A q \in DOMAIN byProduct : byProduct[q] = {r \in stock : r.product = q}
    BY DEF Grouped
  <2>2. facts.product = [q \in DOMAIN byProduct |-> StoredBalances(byProduct[q])]
    BY DEF InventoryFacts
  <2>3. p \in DOMAIN facts.product
    OBVIOUS
  <2> HIDE DEF byProduct, facts
  <2>4. p \in DOMAIN byProduct /\ facts.product[p] = StoredBalances(byProduct[p])
    BY <2>2, <2>3
  <2>5. byProduct[p] = mine
    BY <2>1, <2>4
  <2> HIDE DEF mine
  <2>6. StoredBalances(mine)["ending"] = Rounded(SumOf(mine, "ending"))
    BY DEF StoredBalances, Balances, Balance
  <2>7. QED
    BY <2>1, <2>4, <2>5, <2>6
<1>3. \A r \in stock : r \in version.rows
  BY DEF Planning
<1>4. IsFiniteSet(stock) /\ IsFiniteSet(mine)
  BY <1>3, FS_Subset
<1> HIDE DEF facts, stock
<1>5. \A s \in DOMAIN facts.sku : facts.sku[s].product = product[s]
  <2>1. SUFFICES ASSUME NEW s \in DOMAIN facts.sku PROVE facts.sku[s].product = product[s]
    OBVIOUS
  <2>2. PICK r \in Of(s) : facts.sku[s].product = r.product
    BY <1>1
  <2>3. QED
    BY <1>1, <1>3, <2>2
<1>6. skus = {r.sku : r \in mine}
  BY <1>1, <1>3, <1>5
<1>7. skus # {}
  BY <1>2, <1>6
<1>8. IsFiniteSet(skus)
  <2> DEFINE f == [r \in mine |-> r.sku]
  <2>1. skus = {f[r] : r \in mine}
    BY <1>6
  <2> HIDE DEF f, skus, mine
  <2>2. QED
    BY <1>4, <2>1, FiniteImage
<1> DEFINE key == [r \in mine |-> r.sku]
           h == [s \in skus |-> SumOf(Of(s), "ending")]
           v == [s \in skus |-> facts.sku[s].qty["ending"]]
           total == SumOf(mine, "ending")
<1>9. GroupedBy(h, mine, "ending", key, skus)
  <2>1. \A r \in mine : r["ending"] \in Int /\ key[r] \in skus
    BY <1>3, <1>6
  <2>2. ASSUME NEW s \in skus PROVE h[s] = SumOf({r \in mine : key[r] = s}, "ending")
    <3>1. {r \in mine : key[r] = s} = Of(s)
      BY <1>3, <1>5
    <3>2. h[s] = SumOf(Of(s), "ending")
      OBVIOUS
    <3>3. QED
      BY <3>1, <3>2
  <2> HIDE DEF h, key, skus, mine
  <2>3. QED
    BY <1>4, <1>8, <2>1, <2>2 DEF GroupedBy
<1>10. IsBalance(v, skus, facts.sku)
  BY DEF IsBalance
<1>11. ASSUME NEW s \in skus PROVE v[s] = Rounded(h[s])
  <2>1. s \in DOMAIN facts.sku /\ v[s] = facts.sku[s].qty["ending"] /\ h[s] = SumOf(Of(s), "ending")
    OBVIOUS
  <2> HIDE DEF v, h, Of
  <2>2. QED
    BY <1>1, <2>1
<1>12. Numbers(mine, "ending")
  BY <1>3 DEF Numbers
<1>13. mine # {}
  BY <1>2
<1>14. Cardinality(mine) \in Nat /\ Cardinality(skus) \in Nat
  <2> HIDE DEF mine, skus
  <2>1. QED
    BY <1>4, <1>8, FS_CardinalityType
<1> HIDE DEF h, v, key, skus, mine
<1>15. \E sum : /\ Adds(sum, v, skus) /\ Near(sum[skus], total, Cardinality(skus))
                /\ Whole(mine, "ending") => sum[skus] = total
  BY <1>9, <1>11, RoundedGroups
<1>16. PICK sum : /\ Adds(sum, v, skus) /\ Near(sum[skus], total, Cardinality(skus))
                  /\ Whole(mine, "ending") => sum[skus] = total
  BY <1>15
<1>17. EndingOfSkus(version, p) = sum[skus] /\ sum[skus] \in Int
  <2>1. MapThenSumSet(LAMBDA s : facts.sku[s].qty["ending"], skus) = sum[skus]
    BY <1>8, <1>10, <1>16, SkuSums
  <2>2. sum[skus] \in Int
    BY <1>16 DEF Adds
  <2>3. QED
    BY <2>1, <2>2 DEF EndingOfSkus, facts, skus
<1>18. /\ total \in Int /\ StoredSum(mine, "ending") \in Int
       /\ Near(StoredSum(mine, "ending"), total, Cardinality(mine))
       /\ Whole(mine, "ending") => StoredSum(mine, "ending") = total /\ total % Fine = 0
  BY <1>4, <1>12, StoredSumIsNear
<1> HIDE DEF total
<1>19. Near(Rounded(total), total, 1) /\ Rounded(total) \in Int
       /\ (Whole(mine, "ending") => Rounded(total) = total)
  BY <1>18, RoundedNear
<1>20. facts.product[p]["ending"] = Rounded(total)
  BY <1>2 DEF total
<1>21. Agree(sum[skus], Rounded(total), Cardinality(skus) + 1, Whole(mine, "ending"))
  BY <1>14, <1>16, <1>17, <1>18, <1>19, NearAdds DEF Agree
<1>22. Agree(StoredSum(mine, "ending"), Rounded(total), Cardinality(mine) + 1, Whole(mine, "ending"))
  BY <1>14, <1>18, <1>19, NearAdds DEF Agree
<1>23. ASSUME Whole(mine, "ending") PROVE DOMAIN Remaining(version, p) # {}
  <2>1. Reconciled(version, p)
    <3>1. EndingOfSkus(version, p) = facts.product[p]["ending"]
      BY <1>16, <1>17, <1>19, <1>20, <1>23
    <3>2. p \in DOMAIN version.facts.product
      OBVIOUS
    <3>3. QED
      BY <1>7, <3>1, <3>2 DEF Reconciled, EndingOfSkus, facts, skus
  <2>2. StoredSum(mine, "ending") = version.facts.product[p]["ending"]
    BY <1>18, <1>19, <1>20, <1>23 DEF facts
  <2>3. Remaining(version, p) =
          [lot \in {LotOf(r) : r \in mine} |->
              StoredSum(Grouped(mine, [r \in mine |-> LotOf(r)])[lot], "ending")]
    BY <2>1, <2>2 DEF Remaining, Grouped, mine, stock
  <2>4. QED
    BY <1>13, <2>3
<1>24. {r.sku : r \in mine} = skus /\ mine = {r \in Planning(version.rows) : r.product = p}
  BY <1>6 DEF mine, stock
<1>25. QED
  BY <1>17, <1>20, <1>21, <1>22, <1>23, <1>24 DEF InventoryAddsUp, facts

\* The totals of sales by channel and by production date add up to the rows.
SalesAddUp(facts, rows) ==
    LET dated == {r \in rows : r.date # NoDate}
    IN  /\ Agree(MapThenSumSet(LAMBDA g : facts.channel[g], DOMAIN facts.channel),
                 StoredSum(rows, "qty"),
                 Cardinality(DOMAIN facts.channel) + Cardinality(rows), Whole(rows, "qty"))
        /\ Agree(MapThenSumSet(LAMBDA g : facts.production[g], DOMAIN facts.production),
                 StoredSum(dated, "qty"),
                 Cardinality(DOMAIN facts.production) + Cardinality(dated), Whole(dated, "qty"))

LEMMA ActualFactsAddUp ==
    ASSUME NEW rows, IsFiniteSet(rows), \A r \in rows : r.qty \in Int
    PROVE  SalesAddUp(ActualFacts(rows), rows)
<1> DEFINE Totals(S, key) ==
              [k \in DOMAIN Grouped(S, key) |-> Rounded(SumOf(Grouped(S, key)[k], "qty"))]
<1>1. ASSUME NEW S \in SUBSET rows, NEW key
      PROVE  Agree(SumOver(Totals(S, key), DOMAIN Totals(S, key))[DOMAIN Totals(S, key)],
                   StoredSum(S, "qty"),
                   Cardinality(DOMAIN Totals(S, key)) + Cardinality(S), Whole(S, "qty"))
  <2> DEFINE K == {key[r] : r \in S}
             v == Totals(S, key)
             h == [k \in K |-> SumOf({r \in S : key[r] = k}, "qty")]
  <2>1. IsFiniteSet(S)
    BY FS_Subset
  <2>2. DOMAIN v = K /\ \A k \in K : v[k] = Rounded(h[k])
    BY DEF Grouped
  <2>3. \A r \in S : r["qty"] \in Int /\ key[r] \in K
    OBVIOUS
  <2>4. IsFiniteSet(K)
    BY <2>1, FiniteImage
  <2>5. \A k \in K : h[k] = SumOf({r \in S : key[r] = k}, "qty")
    OBVIOUS
  <2> HIDE DEF h, v, K, Totals
  <2>6. GroupedBy(h, S, "qty", key, K)
    BY <2>1, <2>3, <2>4, <2>5 DEF GroupedBy
  <2>7. \E sum : /\ Adds(sum, v, K) /\ Near(sum[K], SumOf(S, "qty"), Cardinality(K))
                 /\ Whole(S, "qty") => sum[K] = SumOf(S, "qty")
    BY <2>2, <2>6, RoundedGroups
  <2>8. PICK sum : /\ Adds(sum, v, K) /\ Near(sum[K], SumOf(S, "qty"), Cardinality(K))
                   /\ Whole(S, "qty") => sum[K] = SumOf(S, "qty")
    BY <2>7
  <2>9. SumOver(v, K)[K] = sum[K] /\ sum[K] \in Int
    <3>1. sum[K] \in Int
      BY <2>8 DEF Adds
    <3>2. QED
      BY <2>4, <2>8, <3>1, SumOverAdds
  <2>10. /\ SumOf(S, "qty") \in Int /\ StoredSum(S, "qty") \in Int
         /\ Near(StoredSum(S, "qty"), SumOf(S, "qty"), Cardinality(S))
         /\ Whole(S, "qty") => StoredSum(S, "qty") = SumOf(S, "qty")
    BY <2>1, <2>3, StoredSumIsNear DEF Numbers
  <2>11. Cardinality(S) \in Nat /\ Cardinality(K) \in Nat
    BY <2>1, <2>4, FS_CardinalityType
  <2>12. Agree(sum[K], StoredSum(S, "qty"), Cardinality(K) + Cardinality(S), Whole(S, "qty"))
    BY <2>8, <2>9, <2>10, <2>11, NearAdds DEF Agree
  <2>13. QED
    BY <2>2, <2>9, <2>12 DEF v
<1> DEFINE facts == ActualFacts(rows)
           dated == {r \in rows : r.date # NoDate}
           channel == [r \in rows |-> <<r.channel, r.product, r.month>>]
           production == [r \in dated |-> <<r.product, r.date, r.month>>]
<1>2. facts.channel = Totals(rows, channel) /\ facts.production = Totals(dated, production)
  BY DEF ActualFacts
<1>3. rows \in SUBSET rows /\ dated \in SUBSET rows
  OBVIOUS
<1> HIDE DEF facts, dated, channel, production, Totals
<1>4. /\ Agree(SumOver(facts.channel, DOMAIN facts.channel)[DOMAIN facts.channel],
               StoredSum(rows, "qty"),
               Cardinality(DOMAIN facts.channel) + Cardinality(rows), Whole(rows, "qty"))
      /\ Agree(SumOver(facts.production, DOMAIN facts.production)[DOMAIN facts.production],
               StoredSum(dated, "qty"),
               Cardinality(DOMAIN facts.production) + Cardinality(dated), Whole(dated, "qty"))
  BY <1>1, <1>2, <1>3
<1>5. QED
  BY <1>4 DEF SalesAddUp, SumOver, MapThenSumSet, MapThenFoldSet, facts, dated

\* What the page places before, in and after its months and under no date is
\* the supply of the product.
SupplyAddsUp(lines, p, first) ==
    LET placed == IncomingPlaces(lines, p, first)
        beyond == {l \in PageLines(lines, p) : l.eta # NoDate /\ l.eta > first + 3}
    IN  Agree(placed.unscheduled + placed.overdue + StoredSum(beyond, "qty")
                 + MapThenSumSet(LAMBDA n : placed.scheduled[n], 0 .. 3),
              SumOf(PageLines(lines, p), "qty"), Cardinality(PageLines(lines, p)),
              Whole(PageLines(lines, p), "qty"))

LEMMA PlacesAddUp ==
    ASSUME NEW lines, IsFiniteSet(lines), NEW first \in Nat, NEW p,
           \A l \in lines : (l.qty # Blank => l.qty \in Int) /\ (l.eta # NoDate => l.eta \in Int)
    PROVE  SupplyAddsUp(lines, p, first)
<1> DEFINE mine == PageLines(lines, p)
           arriving == {l \in mine : l.eta # NoDate}
           none == {l \in mine : l.eta = NoDate}
           before == {l \in arriving : l.eta < first}
           shown == {l \in arriving : first <= l.eta /\ l.eta <= first + 3}
           beyond == {l \in mine : l.eta # NoDate /\ l.eta > first + 3}
           rest == shown \cup beyond
           w == [l \in mine |-> Rounded(l.qty)]
           scheduled == [n \in 0 .. 3 |-> StoredSum({l \in arriving : l.eta = first + n}, "qty")]
           key == [l \in shown |-> l.eta - first]
<1>1. \A l \in mine : l \in lines /\ l.qty \in Int /\ (l.eta # NoDate => l.eta \in Int)
  BY DEF PageLines
<1>2. IsFiniteSet(mine)
  BY FS_Subset DEF PageLines
<1>3. LET placed == IncomingPlaces(lines, p, first)
      IN  /\ placed.unscheduled = StoredSum(none, "qty")
          /\ placed.overdue = StoredSum(before, "qty")
          /\ placed.scheduled = scheduled
  BY DEF IncomingPlaces
<1> HIDE DEF mine
<1>4. /\ none \in SUBSET mine /\ before \in SUBSET mine /\ shown \in SUBSET mine
      /\ beyond \in SUBSET mine /\ rest \in SUBSET mine
  OBVIOUS
<1>5. /\ mine = none \cup arriving /\ none \cap arriving = {} /\ arriving \in SUBSET mine
      /\ arriving = before \cup rest /\ before \cap rest = {}
      /\ rest = shown \cup beyond /\ shown \cap beyond = {}
  BY <1>1
<1>6. IsStored(w, mine, "qty") /\ \A l \in mine : w[l] \in Int
  BY <1>1, RoundedNear DEF IsStored
<1>7. /\ IsFiniteSet(0 .. 3)
      /\ \A l \in shown : key[l] \in 0 .. 3
      /\ \A n \in 0 .. 3 : scheduled[n] = StoredSum({l \in shown : key[l] = n}, "qty")
  <2>1. IsFiniteSet(0 .. 3)
    <3>1. 0 \in Int /\ 3 \in Int
      OBVIOUS
    <3>2. QED
      BY <3>1, FS_Interval, Zenon
  <2>2. ASSUME NEW l \in shown PROVE key[l] \in 0 .. 3
    <3>1. l.eta \in Int /\ key[l] = l.eta - first /\ first <= l.eta /\ l.eta <= first + 3
      BY <1>1
    <3> HIDE DEF key
    <3>2. QED
      BY <1>1, <3>1
  <2>3. ASSUME NEW n \in 0 .. 3
        PROVE  scheduled[n] = StoredSum({l \in shown : key[l] = n}, "qty")
    <3>1. {l \in shown : key[l] = n} = {l \in arriving : l.eta = first + n}
      BY <1>1
    <3>2. scheduled[n] = StoredSum({l \in arriving : l.eta = first + n}, "qty")
      OBVIOUS
    <3>3. QED
      BY <3>1, <3>2
  <2> HIDE DEF shown, scheduled, key
  <2>4. QED
    BY <2>1, <2>2, <2>3
<1> HIDE DEF arriving, none, before, shown, beyond, rest, w, scheduled, key
<1>8. PICK g : Adds(g, w, mine)
  BY <1>2, <1>6, SumsExist
<1>9. ASSUME NEW T \in SUBSET mine PROVE StoredSum(T, "qty") = g[T] /\ g[T] \in Int
  <2>1. StoredSum(T, "qty") = g[T]
    BY <1>2, <1>6, <1>8, StoredSumOfPart
  <2>2. QED
    BY <1>8, <2>1 DEF Adds
<1>10. ASSUME NEW A \in SUBSET mine, NEW B \in SUBSET mine, A \cap B = {}
       PROVE  g[A \cup B] = g[A] + g[B]
  BY <1>2, <1>8, <1>10, DisjointSums
<1>11. SumOver(scheduled, 0 .. 3)[0 .. 3] = StoredSum(shown, "qty")
  <2> DEFINE part == [R \in SUBSET shown |-> g[R]]
  <2>1. Adds(part, w, shown) /\ IsFiniteSet(shown)
    <3>1. shown \in SUBSET mine
      BY <1>4
    <3>2. IsFiniteSet(shown)
      BY <1>2, <3>1, FS_Subset
    <3>3. Adds(part, w, shown)
      BY <1>8, <3>1, SumsOfParts
    <3>4. QED
      BY <3>2, <3>3
  <2>2. \A R \in SUBSET shown : part[R] = StoredSum(R, "qty")
    BY <1>4, <1>9
  <2> HIDE DEF part
  <2>3. GroupSums(scheduled, part, shown, key, 0 .. 3)
    BY <1>7, <2>2 DEF GroupSums
  <2>4. \E sum : /\ Adds(sum, scheduled, 0 .. 3)
                 /\ sum[0 .. 3] = part[{l \in shown : key[l] \in 0 .. 3}]
    BY <2>1, <2>3, GroupedSums
  <2>5. PICK sum : /\ Adds(sum, scheduled, 0 .. 3)
                   /\ sum[0 .. 3] = part[{l \in shown : key[l] \in 0 .. 3}]
    BY <2>4
  <2>6. {l \in shown : key[l] \in 0 .. 3} = shown
    BY <1>7
  <2>7. SumOver(scheduled, 0 .. 3)[0 .. 3] = sum[0 .. 3]
    BY <1>7, <2>5, SumOverAdds
  <2>8. QED
    BY <2>2, <2>5, <2>6, <2>7
<1>12. MapThenSumSet(LAMBDA n : scheduled[n], 0 .. 3) = StoredSum(shown, "qty")
  BY <1>11 DEF SumOver, MapThenSumSet, MapThenFoldSet
<1>13. StoredSum(mine, "qty") =
          StoredSum(none, "qty") + StoredSum(before, "qty") + StoredSum(beyond, "qty") + StoredSum(shown, "qty")
  <2>1. /\ g[mine] = g[none] + g[arriving] /\ g[arriving] = g[before] + g[rest]
        /\ g[rest] = g[shown] + g[beyond]
    <3>1. g[none \cup arriving] = g[none] + g[arriving]
      <4>1. none \in SUBSET mine /\ arriving \in SUBSET mine /\ none \cap arriving = {}
        BY <1>4, <1>5
      <4>2. QED
        BY <1>10, <4>1, Zenon
    <3>2. g[before \cup rest] = g[before] + g[rest]
      <4>1. before \in SUBSET mine /\ rest \in SUBSET mine /\ before \cap rest = {}
        BY <1>4, <1>5
      <4>2. QED
        BY <1>10, <4>1, Zenon
    <3>3. g[shown \cup beyond] = g[shown] + g[beyond]
      <4>1. shown \in SUBSET mine /\ beyond \in SUBSET mine /\ shown \cap beyond = {}
        BY <1>4, <1>5
      <4>2. QED
        BY <1>10, <4>1, Zenon
    <3>4. QED
      BY <1>5, <3>1, <3>2, <3>3
  <2>2. /\ g[none] \in Int /\ g[before] \in Int /\ g[shown] \in Int /\ g[beyond] \in Int
        /\ StoredSum(mine, "qty") = g[mine] /\ StoredSum(none, "qty") = g[none]
        /\ StoredSum(before, "qty") = g[before] /\ StoredSum(shown, "qty") = g[shown]
        /\ StoredSum(beyond, "qty") = g[beyond]
    BY <1>4, <1>9
  <2>3. QED
    BY <2>1, <2>2
<1>14. /\ SumOf(mine, "qty") \in Int /\ StoredSum(mine, "qty") \in Int
       /\ Near(StoredSum(mine, "qty"), SumOf(mine, "qty"), Cardinality(mine))
       /\ Whole(mine, "qty") => StoredSum(mine, "qty") = SumOf(mine, "qty")
  BY <1>1, <1>2, StoredSumIsNear DEF Numbers
<1>15. Agree(StoredSum(mine, "qty"), SumOf(mine, "qty"), Cardinality(mine), Whole(mine, "qty"))
  BY <1>14 DEF Agree
<1>16. /\ StoredSum(none, "qty") \in Int /\ StoredSum(before, "qty") \in Int
       /\ StoredSum(beyond, "qty") \in Int /\ StoredSum(shown, "qty") \in Int
  BY <1>4, <1>9
<1>17. StoredSum(none, "qty") + StoredSum(before, "qty") + StoredSum(beyond, "qty")
          + MapThenSumSet(LAMBDA n : scheduled[n], 0 .. 3) = StoredSum(mine, "qty")
  BY <1>12, <1>13, <1>16
<1>18. QED
  BY <1>3, <1>15, <1>17 DEF SupplyAddsUp, mine, beyond

\* The total of a product is that of its supply.
LEMMA TotalOfProduct ==
    ASSUME NEW rows, NEW p \in DOMAIN ProductTotals(rows)
    PROVE  ProductTotals(rows)[p] = SumOf(PageLines(rows, p), "qty")
<1> DEFINE supply == FutureSupply(rows)
           byProduct == Grouped(supply, [r \in supply |-> r.product])
<1>1. ProductTotals(rows) = [q \in DOMAIN byProduct |-> SumOf(byProduct[q], "qty")]
  BY DEF ProductTotals
<1>2. p \in DOMAIN byProduct
  BY <1>1
<1>3. byProduct[p] = PageLines(rows, p)
  BY <1>2 DEF Grouped, FutureSupply, PageLines
<1> HIDE DEF byProduct
<1>4. QED
  BY <1>1, <1>2, <1>3

\* Quantities and dates of arrival are numbers where there are any.
LEMMA QuantitiesAreNumbers ==
    ASSUME NEW s \in Source, NEW p \in Previews[s]
    PROVE  /\ KindOf[s] = "ACTUAL" => \A r \in p.rows : r.qty \in Int
           /\ KindOf[s] = "INCOMING" =>
                 \A r \in p.rows :
                     (r.qty # Blank => r.qty \in Int) /\ (r.eta # NoDate => r.eta \in Int)
<1> DEFINE file == ContentOf[s]
<1>1. PICK m \in Masters : p = Preview(KindOf[s], file, m)
  BY DEF Previews
<1>2. ASSUME KindOf[s] = "ACTUAL" PROVE \A r \in p.rows : r.qty \in Int
  <2>1. p.rows = {ActualRow(r, m) : r \in {q \in file.rows : ActualFindings(q, m) = {}}}
    BY <1>1, <1>2 DEF Preview, ActualPreview
  <2>2. ASSUME NEW r \in file.rows, ActualFindings(r, m) = {}
        PROVE  ActualRow(r, m).qty \in Int
    <3>1. r.cells["qty"] \in Int \cup {Blank, Garbled}
      BY <1>2, <2>2, ContentAssumption
    <3>2. Found("ACTUAL_SALES_VALUE_INVALID",
                r.cells["qty"] \in {Blank, Garbled} \/ r.cells["sku"] = Garbled) = {}
      BY <2>2 DEF ActualFindings
    <3>3. r.cells["qty"] \notin {Blank, Garbled}
      BY <3>2 DEF Found
    <3>4. ActualRow(r, m).qty = r.cells["qty"]
      BY DEF ActualRow
    <3>5. QED
      BY <3>1, <3>3, <3>4
  <2> HIDE DEF file
  <2>3. QED
    BY <2>1, <2>2
<1>3. ASSUME KindOf[s] = "INCOMING"
      PROVE  \A r \in p.rows :
                (r.qty # Blank => r.qty \in Int) /\ (r.eta # NoDate => r.eta \in Int)
  <2>1. p.rows = {IncomingRow(file, r, m) :
                    r \in {q \in file.rows : IncomingFindings(file, q, m) = {}}}
    BY <1>1, <1>3 DEF Preview, IncomingPreview
  <2>2. ASSUME NEW r \in file.rows, IncomingFindings(file, r, m) = {}
        PROVE  LET row == IncomingRow(file, r, m)
               IN  (row.qty # Blank => row.qty \in Int) /\ (row.eta # NoDate => row.eta \in Int)
    <3>1. \A f \in {"qty", "eta"} : r.cells[f] \in Int \cup {Blank, Garbled}
      BY <1>3, <2>2, ContentAssumption
    <3>2. /\ Found("INCOMING_QUANTITY_INVALID",
                   Garbled \in {r.cells["qty"], OrderQty(file, r)}) = {}
          /\ Found("INCOMING_ETA_INVALID", r.cells["eta"] = Garbled) = {}
      BY <2>2 DEF IncomingFindings
    <3>3. r.cells["qty"] # Garbled /\ r.cells["eta"] # Garbled
      BY <3>2 DEF Found
    <3>4. /\ IncomingRow(file, r, m).qty = r.cells["qty"]
          /\ IncomingRow(file, r, m).eta =
                IF r.cells["eta"] = Blank THEN NoDate ELSE r.cells["eta"]
      BY DEF IncomingRow
    <3>5. QED
      BY <3>1, <3>3, <3>4
  <2> HIDE DEF file
  <2>3. QED
    BY <2>1, <2>2
<1>4. QED
  BY <1>2, <1>3

-----------------------------------------------------------------------------
(* Imports that overlap *)

\* What a workbook may be committed as.
Committable(s) ==
    {p \in Previews[s] : KindOf[s] # "INCOMING" /\ CommitAllowed(KindOf[s], p)}

\* A committed version has the period of its workbook and the facts of its rows,
\* and its transaction
\* began before any version that is still to come was committed.
VersionInv(k) ==
    /\ versions[k].source \in Source
    /\ \E p \in Committable(versions[k].source) :
            /\ versions[k].from = p.from /\ versions[k].to = p.to
            /\ versions[k].rows = p.rows
            /\ versions[k].facts = Facts(KindOf[versions[k].source], p.rows)
    /\ Key \ Committed \subseteq versions[k].unseen /\ versions[k].unseen \subseteq Key

\* So is it for a transaction under way, which has found no version of its
\* workbook but those committed since it began.
CheckInv(t) ==
    job[t] # NoJob /\ job[t].stage = "CHECKED" =>
        /\ job[t].source \in Source
        /\ job[t].preview \in Committable(job[t].source)
        /\ Key \ Committed \subseteq job[t].unseen /\ job[t].unseen \subseteq Key
        /\ \A k \in Committed : versions[k].source = job[t].source => k \in job[t].unseen

PairInv ==
    \A k, l \in Committed :
        k # l /\ versions[k].source = versions[l].source =>
            k \in versions[l].unseen /\ l \in versions[k].unseen

ImportInv ==
    /\ DOMAIN versions = Key
    /\ DOMAIN job = Thread
    /\ \A k \in Committed : VersionInv(k)
    /\ \A t \in Thread : CheckInv(t)
    /\ PairInv

LEMMA ImportInit == Init => ImportInv
BY DEF Init, ImportInv, Committed, VersionInv, CheckInv, PairInv

\* Steps of jobs that commit no version and look for no duplicates.
LEMMA ImportStays ==
    ASSUME ImportInv, versions' = versions, DOMAIN job' = Thread,
           \A t \in Thread : job'[t] # NoJob /\ job'[t].stage = "CHECKED" => job'[t] = job[t]
    PROVE  ImportInv'
<1>1. Committed' = Committed
  BY DEF Committed
<1>2. \A k \in Committed : VersionInv(k)'
  BY <1>1 DEF ImportInv, VersionInv, Committable, Previews
<1>3. \A t \in Thread : CheckInv(t)'
  BY <1>1 DEF ImportInv, CheckInv, Committable, Previews
<1>4. PairInv'
  BY <1>1 DEF ImportInv, PairInv
<1>5. QED
  BY <1>1, <1>2, <1>3, <1>4 DEF ImportInv

LEMMA ImportChecks ==
    ASSUME ImportInv, NEW t \in Thread, NEW k \in Key, NEW s \in Source, NEW p \in Previews[s],
           CheckDuplicates(t, s, p, k)
    PROVE  ImportInv'
<1> DEFINE new == [stage |-> "CHECKED", source |-> s, preview |-> p,
                   key |-> k, unseen |-> Key \ Committed]
<1>1. /\ versions' = versions /\ job' = [job EXCEPT ![t] = new] /\ DOMAIN job = Thread
      /\ SameSource(s, p) = {} /\ p \in Committable(s)
  BY DEF CheckDuplicates, ImportInv, Committable
<1>2. Committed' = Committed
  BY <1>1 DEF Committed
<1>3. \A l \in Committed : VersionInv(l)'
  BY <1>1, <1>2 DEF ImportInv, VersionInv, Committable, Previews
<1>4. ASSUME NEW l \in Committed PROVE versions[l].source # s
  <2>1. SUFFICES ASSUME versions[l].source = s PROVE FALSE
    OBVIOUS
  <2>2. PICK q \in Committable(s) : versions[l].from = q.from /\ versions[l].to = q.to
    BY <2>1 DEF ImportInv, VersionInv
  <2>3. p.from = q.from /\ p.to = q.to
    BY <1>1, <2>2, PeriodOfWorkbook DEF Committable
  <2>4. QED
    BY <1>1, <2>1, <2>2, <2>3 DEF SameSource
<1>5. ASSUME NEW u \in Thread PROVE CheckInv(u)'
  <2>1. CASE u = t
    <3>1. job'[t] = new
      BY <1>1
    <3>2. \A l \in Committed : versions[l].source # job'[t].source
      BY <1>4, <3>1
    <3>3. QED
      BY <1>1, <1>2, <2>1, <3>1, <3>2 DEF CheckInv, Committable, Previews
  <2>2. CASE u # t
    <3>1. job'[u] = job[u]
      BY <1>1, <2>2
    <3>2. QED
      BY <1>1, <1>2, <3>1 DEF ImportInv, CheckInv, Committable, Previews
  <2>3. QED
    BY <2>1, <2>2
<1>6. PairInv'
  BY <1>1, <1>2 DEF ImportInv, PairInv
<1>7. DOMAIN job' = Thread /\ DOMAIN versions' = Key
  BY <1>1 DEF ImportInv
<1>8. QED
  BY <1>2, <1>3, <1>5, <1>6, <1>7 DEF ImportInv

LEMMA ImportCommits ==
    ASSUME ImportInv, NEW t \in Thread, CommitVersion(t)
    PROVE  ImportInv'
<1> DEFINE j == job[t]
           new == [source |-> j.source, from |-> j.preview.from, to |-> j.preview.to,
                   rows |-> j.preview.rows, facts |-> Facts(KindOf[j.source], j.preview.rows),
                   unseen |-> j.unseen]
<1>1. /\ j # NoJob /\ j.stage = "CHECKED" /\ j.key \notin Committed
      /\ versions' = [versions EXCEPT ![j.key] = new]
      /\ job' = [job EXCEPT ![t] = NoJob]
      /\ DOMAIN job = Thread /\ DOMAIN versions = Key
  BY DEF CommitVersion, ImportInv
<1>2. /\ j.source \in Source /\ j.preview \in Committable(j.source)
      /\ Key \ Committed \subseteq j.unseen /\ j.unseen \subseteq Key
      /\ \A k \in Committed : versions[k].source = j.source => k \in j.unseen
  BY <1>1 DEF ImportInv, CheckInv
<1>3. \A k \in Committed : versions'[k] = versions[k] /\ k \in Key /\ k # j.key
  BY <1>1 DEF Committed
<1>4. Committed \subseteq Committed' /\ Committed' \subseteq Committed \cup {j.key}
      /\ Committed' \subseteq Key
  BY <1>1 DEF Committed
<1>5. ASSUME NEW k \in Committed', k = j.key
      PROVE  versions'[k].source = j.source /\ versions'[k].from = j.preview.from
             /\ versions'[k].to = j.preview.to /\ versions'[k].unseen = j.unseen
             /\ versions'[k].rows = j.preview.rows
             /\ versions'[k].facts = Facts(KindOf[j.source], j.preview.rows)
             /\ k \in Key \ Committed
  BY <1>1, <1>4, <1>5
<1>6. ASSUME NEW k \in Committed' PROVE VersionInv(k)'
  <2>1. CASE k = j.key
    <3>1. \E p \in Committable(j.source) :
              /\ versions'[k].from = p.from /\ versions'[k].to = p.to
              /\ versions'[k].rows = p.rows
              /\ versions'[k].facts = Facts(KindOf[j.source], p.rows)
      BY <1>2, <1>5, <2>1
    <3>2. QED
      BY <1>2, <1>4, <1>5, <2>1, <3>1 DEF VersionInv, Committable, Previews
  <2>2. CASE k # j.key
    <3>1. k \in Committed /\ versions'[k] = versions[k]
      BY <1>3, <1>4, <2>2
    <3>2. VersionInv(k)
      BY <3>1 DEF ImportInv
    <3>3. QED
      BY <1>4, <3>1, <3>2 DEF VersionInv, Committable, Previews
  <2>3. QED
    BY <2>1, <2>2
<1>7. ASSUME NEW u \in Thread PROVE CheckInv(u)'
  <2>1. SUFFICES ASSUME job'[u] # NoJob, job'[u].stage = "CHECKED"
                 PROVE  /\ job'[u].source \in Source
                        /\ job'[u].preview \in Committable(job'[u].source)
                        /\ Key \ Committed' \subseteq job'[u].unseen /\ job'[u].unseen \subseteq Key
                        /\ \A k \in Committed' : versions'[k].source = job'[u].source =>
                                k \in job'[u].unseen
    BY DEF CheckInv, Committable, Previews
  <2>2. u # t /\ job'[u] = job[u]
    BY <1>1, <2>1
  <2>3. CheckInv(u) /\ job[u] # NoJob /\ job[u].stage = "CHECKED"
    BY <2>1, <2>2 DEF ImportInv
  <2>4. ASSUME NEW k \in Committed', versions'[k].source = job[u].source
        PROVE  k \in job[u].unseen
    <3>1. CASE k = j.key
      BY <1>5, <2>3, <3>1 DEF CheckInv
    <3>2. CASE k # j.key
      BY <1>3, <1>4, <2>3, <2>4, <3>2 DEF CheckInv
    <3>3. QED
      BY <3>1, <3>2
  <2>5. QED
    BY <1>4, <2>2, <2>3, <2>4 DEF CheckInv
<1>8. PairInv'
  <2>1. SUFFICES ASSUME NEW k \in Committed', NEW l \in Committed', k # l,
                        versions'[k].source = versions'[l].source
                 PROVE  k \in versions'[l].unseen /\ l \in versions'[k].unseen
    BY DEF PairInv
  <2>2. ASSUME NEW x \in Committed', NEW y \in Committed', x = j.key, y # j.key,
               versions'[x].source = versions'[y].source
        PROVE  x \in versions'[y].unseen /\ y \in versions'[x].unseen
    <3>1. y \in Committed /\ versions'[y] = versions[y] /\ x \in Key \ Committed
      BY <1>3, <1>4, <1>5, <2>2
    <3>2. x \in versions[y].unseen
      BY <3>1 DEF ImportInv, VersionInv
    <3>3. y \in j.unseen
      BY <1>2, <1>5, <2>2, <3>1
    <3>4. QED
      BY <1>5, <2>2, <3>1, <3>2, <3>3
  <2>3. CASE k # j.key /\ l # j.key
    BY <1>3, <1>4, <2>1, <2>3 DEF ImportInv, PairInv
  <2>4. QED
    BY <2>1, <2>2, <2>3
<1>9. DOMAIN job' = Thread /\ DOMAIN versions' = Key
  BY <1>1
<1>10. QED
  BY <1>6, <1>7, <1>8, <1>9 DEF ImportInv

LEMMA ImportStep == ImportInv /\ [Next]_vars => ImportInv'
<1> SUFFICES ASSUME ImportInv, [Next]_vars PROVE ImportInv'
  OBVIOUS
<1>1. ASSUME NEW t \in Thread, NEW k \in Key, NEW s \in Source, NEW p \in Previews[s],
             CheckDuplicates(t, s, p, k)
      PROVE  ImportInv'
  BY <1>1, ImportChecks
<1>2. ASSUME NEW t \in Thread, CommitVersion(t) PROVE ImportInv'
  BY <1>2, ImportCommits
<1>3. ASSUME versions' = versions, DOMAIN job' = Thread,
             \A t \in Thread : job'[t] # NoJob /\ job'[t].stage = "CHECKED" => job'[t] = job[t]
      PROVE  ImportInv'
  BY <1>3, ImportStays
<1>4. DOMAIN job = Thread
  BY DEF ImportInv
<1>5. ASSUME versions' = versions, job' = job PROVE ImportInv'
  BY <1>3, <1>4, <1>5
<1>6. ASSUME NEW k \in Key, NEW s \in Source, NEW p \in Previews[s], CommitIncoming(s, p, k)
      PROVE  ImportInv'
  BY <1>5, <1>6 DEF CommitIncoming
<1>7. ASSUME NEW t \in Thread, NEW keys \in SUBSET Key, CalculateAndPersist(t, keys)
      PROVE  ImportInv'
  <2>1. PICK j : job' = [job EXCEPT ![t] = j] /\ j.stage = "PERSISTING" /\ versions' = versions
    BY <1>7 DEF CalculateAndPersist
  <2>2. QED
    BY <1>3, <1>4, <2>1
<1>8. ASSUME NEW t \in Thread, PersistNext(t) PROVE ImportInv'
  <2>1. PICK l, n : /\ job' = [job EXCEPT ![t].left = l, ![t].new = n]
                    /\ job[t].stage = "PERSISTING" /\ versions' = versions
    BY <1>8 DEF PersistNext, Persisting
  <2>2. \A u \in Thread \ {t} : job'[u] = job[u]
    BY <1>4, <2>1
  <2>3. job'[t] = [job[t] EXCEPT !.left = l, !.new = n]
    BY <1>4, <2>1
  <2>4. job'[t].stage = job[t].stage
    BY <2>3
  <2>5. DOMAIN job' = Thread
    BY <1>4, <2>1
  <2>6. QED
    BY <1>3, <2>1, <2>2, <2>4, <2>5
<1>9. ASSUME NEW t \in Thread, CommitPersist(t) \/ EndJob(t) PROVE ImportInv'
  <2>1. job' = [job EXCEPT ![t] = NoJob] /\ versions' = versions
    BY <1>9 DEF CommitPersist, EndJob
  <2>2. QED
    BY <1>3, <1>4, <2>1
<1>10. ASSUME NEW keys \in SUBSET Key, ChooseInventories(keys) PROVE ImportInv'
  BY <1>5, <1>10 DEF ChooseInventories
<1>11. CASE StampLock \/ CommitLock
  BY <1>5, <1>11 DEF StampLock, CommitLock
<1>12. CASE UNCHANGED vars
  BY <1>5, <1>12 DEF vars
<1>13. QED
  BY <1>1, <1>2, <1>6, <1>7, <1>8, <1>9, <1>10, <1>11, <1>12 DEF Next

-----------------------------------------------------------------------------
(* Results *)

\* What was committed stays as it is.
Stable == \A k \in Committed : k \in Committed' /\ versions'[k] = versions[k]

LEMMA VersionsAreStable == ImportInv /\ [Next]_vars => Stable
<1> SUFFICES ASSUME ImportInv, [Next]_vars PROVE Stable
  OBVIOUS
<1>1. ASSUME versions' = versions PROVE Stable
  BY <1>1 DEF Stable, Committed
<1>2. ASSUME NEW t \in Thread, CommitVersion(t) PROVE Stable
  <2>1. PICK k, v : k \notin Committed /\ versions' = [versions EXCEPT ![k] = v]
    BY <1>2 DEF CommitVersion
  <2>2. DOMAIN versions = Key
    BY DEF ImportInv
  <2>3. ASSUME NEW l \in Committed PROVE versions'[l] = versions[l] /\ l \in Key
    BY <2>1, <2>2 DEF Committed
  <2>4. QED
    BY <2>3 DEF Stable, Committed
<1>3. CASE ~ \E t \in Thread : CommitVersion(t)
  BY <1>1, <1>3 DEF Next, CheckDuplicates, CommitIncoming, CalculateAndPersist, PersistNext,
     CommitPersist, EndJob, ChooseInventories, StampLock, CommitLock, vars
<1>4. QED
  BY <1>2, <1>3

LEMMA InventoriesAreStable ==
    ASSUME Stable
    PROVE  Inventories \subseteq Inventories' /\ \A k \in Inventories : versions'[k] = versions[k]
BY DEF Stable, Inventories

\* r is what some calculation made of a lot.
Derived(lot, r) ==
    \E keys \in SUBSET Key :
        /\ keys \subseteq Inventories /\ Selectable(Selection(keys))
        /\ lot \in LotsOf(Selection(keys)) /\ HasLife(Observations(Selection(keys), lot))
        /\ r.values = Lifecycle(Observations(Selection(keys), lot))
        /\ r.sources = SourcesOf(Selection(keys), lot)

LEMMA DerivedStays ==
    ASSUME Stable, NEW lot, NEW r, Derived(lot, r)
    PROVE  Derived(lot, r)'
<1>1. PICK keys \in SUBSET Key :
        /\ keys \subseteq Inventories /\ Selectable(Selection(keys))
        /\ lot \in LotsOf(Selection(keys)) /\ HasLife(Observations(Selection(keys), lot))
        /\ r.values = Lifecycle(Observations(Selection(keys), lot))
        /\ r.sources = SourcesOf(Selection(keys), lot)
  BY DEF Derived
<1>2. keys \subseteq Inventories' /\ Selection(keys)' = Selection(keys)
  BY <1>1, InventoriesAreStable DEF Selection
<1>3. QED
  BY <1>1, <1>2 DEF Derived

\* A row as it is stored under number n of a lot.
Row(lot, n, r) ==
    /\ r = [no |-> n, values |-> r.values, sources |-> r.sources, late |-> r.late, seen |-> r.seen]
    /\ r.late \in BOOLEAN /\ r.seen \in Nat
    /\ Derived(lot, r) /\ Storable(r.values)

Same(r, q) == r.values = q.values /\ r.sources = q.sources

\* The stored revisions of a lot; one that repeats the one before was written
\* by a transaction that began before that was committed.
LotInv(lot) ==
    /\ \E S : revisions[lot] \in Seq(S)
    /\ \A i \in DOMAIN revisions[lot] : \A r : r = revisions[lot][i] => Row(lot, i, r)
    /\ \A i \in 2 .. Len(revisions[lot]) :
          Same(revisions[lot][i], revisions[lot][i - 1]) => revisions[lot][i].seen < i - 1

\* r may be the next revision of a lot.
NextRow(lot, r) ==
    LET n == Len(revisions[lot]) IN
      /\ Row(lot, n + 1, r)
      /\ n > 0 /\ Same(r, revisions[lot][n]) => r.seen < n

\* A transaction holds the lots of its new rows, which remain the next ones.
Transaction(j) ==
    /\ j = [stage |-> "PERSISTING", results |-> j.results, left |-> j.left, seen |-> j.seen,
            new |-> j.new]
    /\ DOMAIN j.results \subseteq Lot /\ j.left \subseteq DOMAIN j.results
    /\ \A lot \in DOMAIN j.results : Derived(lot, j.results[lot])
    /\ j.seen \in [Lot -> Nat]
    /\ DOMAIN j.new \subseteq DOMAIN j.results \ j.left
    /\ \A lot \in DOMAIN j.new : NextRow(lot, j.new[lot])

PersistInv ==
    /\ DOMAIN revisions = Lot
    /\ \A lot \in Lot : LotInv(lot)
    /\ \A t \in Thread : \A j : j = job[t] /\ Persisting(t) => Transaction(j)
    /\ \A t, u \in Thread : t # u => Held(t) \cap Held(u) = {}

LEMMA PersistInit == Init => PersistInv
<1> SUFFICES ASSUME Init PROVE PersistInv
  OBVIOUS
<1>1. DOMAIN revisions = Lot /\ \A lot \in Lot : revisions[lot] = <<>>
  BY DEF Init
<1>2. \A t \in Thread : ~Persisting(t)
  BY DEF Init, Persisting
<1>3. ASSUME NEW lot \in Lot PROVE LotInv(lot)
  <2>1. revisions[lot] \in Seq({}) /\ Len(revisions[lot]) = 0
    BY <1>1, EmptySeq
  <2>2. DOMAIN revisions[lot] = {}
    BY <2>1, LenProperties
  <2>3. QED
    BY <2>1, <2>2 DEF LotInv
<1>4. QED
  BY <1>1, <1>2, <1>3 DEF PersistInv, Held

LEMMA RowStays ==
    ASSUME Stable, NEW lot, NEW n, NEW r, Row(lot, n, r)
    PROVE  Row(lot, n, r)'
BY DerivedStays DEF Row

LEMMA NextRowStays ==
    ASSUME Stable, NEW lot, NEW r, NextRow(lot, r), revisions'[lot] = revisions[lot]
    PROVE  NextRow(lot, r)'
BY RowStays DEF NextRow, Same

LEMMA LotStays ==
    ASSUME Stable, NEW lot, LotInv(lot), revisions'[lot] = revisions[lot]
    PROVE  LotInv(lot)'
BY RowStays DEF LotInv, Same

\* Steps of others, as far as the lots a transaction holds stay as they are.
LEMMA TransactionStays ==
    ASSUME Stable, NEW j, Transaction(j),
           \A lot \in DOMAIN j.new : revisions'[lot] = revisions[lot]
    PROVE  Transaction(j)'
<1>1. \A lot \in DOMAIN j.results : Derived(lot, j.results[lot])'
  <2>1. SUFFICES ASSUME NEW lot \in DOMAIN j.results PROVE Derived(lot, j.results[lot])'
    OBVIOUS
  <2>2. PICK r : r = j.results[lot]
    OBVIOUS
  <2>3. Derived(lot, r)
    BY <2>2 DEF Transaction
  <2>4. Derived(lot, r)'
    BY <2>3, DerivedStays
  <2>5. QED
    BY <2>2, <2>4
<1>2. \A lot \in DOMAIN j.new : NextRow(lot, j.new[lot])'
  <2>1. SUFFICES ASSUME NEW lot \in DOMAIN j.new PROVE NextRow(lot, j.new[lot])'
    OBVIOUS
  <2>2. PICK r : r = j.new[lot]
    OBVIOUS
  <2>3. NextRow(lot, r)
    BY <2>2 DEF Transaction
  <2>4. NextRow(lot, r)'
    BY <2>3, NextRowStays
  <2>5. QED
    BY <2>2, <2>4
<1>3. QED
  BY <1>1, <1>2 DEF Transaction

\* Steps that append nothing, and leave the transactions that go on alone.
LEMMA PersistStays ==
    ASSUME Stable, PersistInv, revisions' = revisions,
           \A t \in Thread : Persisting(t)' => job'[t] = job[t]
    PROVE  PersistInv'
<1>1. \A t \in Thread : Persisting(t)' => Persisting(t)
  BY DEF Persisting
<1>2. \A t \in Thread : Held(t)' \subseteq Held(t)
  BY <1>1 DEF Held
<1>3. \A lot \in Lot : LotInv(lot)'
  BY LotStays DEF PersistInv
<1>4. ASSUME NEW t \in Thread, NEW j, j = job'[t], Persisting(t)' PROVE Transaction(j)'
  <2>1. j = job[t] /\ Persisting(t)
    BY <1>1, <1>4
  <2>2. Transaction(j)
    BY <2>1 DEF PersistInv
  <2>3. QED
    BY <2>2, TransactionStays
<1>5. QED
  BY <1>2, <1>3, <1>4 DEF PersistInv

\* What is calculated from a selection of inventories concerns lots.
LEMMA LotsAreLots ==
    ASSUME ImportInv, NEW keys, keys \subseteq Inventories
    PROVE  LotsOf(Selection(keys)) \subseteq Lot
<1>1. SUFFICES ASSUME NEW k \in keys, NEW x \in Planning(Selection(keys)[k].rows)
               PROVE  LotOf(x) \in Lot
  <2>1. DOMAIN Selection(keys) = keys
    BY DEF Selection
  <2>2. QED
    BY <2>1 DEF LotsOf
<1>2. k \in Committed /\ KindOf[versions[k].source] = "INVENTORY"
  BY DEF Inventories
<1>3. PICK p \in Committable(versions[k].source) : versions[k].rows = p.rows
  BY <1>2 DEF ImportInv, VersionInv
<1>4. versions[k].source \in Source /\ p \in Previews[versions[k].source]
  BY <1>2, <1>3 DEF ImportInv, VersionInv, Committable
<1>5. p.rows \subseteq InventoryRows
  BY <1>2, <1>4, InventoryTyping
<1>6. x \in versions[k].rows
  BY <1>1 DEF Planning, Selection
<1>7. x.product \in Product /\ x.date \in Date
  BY <1>3, <1>5, <1>6 DEF InventoryRows
<1>8. QED
  BY <1>7 DEF LotOf, Lot

LEMMA CalculateKeeps ==
    ASSUME Stable, ImportInv, PersistInv, NEW t \in Thread, NEW keys \in SUBSET Key,
           CalculateAndPersist(t, keys)
    PROVE  PersistInv'
<1> DEFINE results == Lifecycles(Selection(keys))
           j == [stage |-> "PERSISTING", results |-> results, left |-> DOMAIN results,
                 seen |-> [lot \in Lot |-> Len(revisions[lot])],
                 new |-> [lot \in {} |-> NoVersion]]
<1>1. /\ keys \subseteq Inventories /\ Selectable(Selection(keys))
      /\ job' = [job EXCEPT ![t] = j] /\ DOMAIN job = Thread
      /\ versions' = versions /\ revisions' = revisions
  BY DEF CalculateAndPersist, ImportInv
<1>2. ASSUME NEW lot \in DOMAIN results
      PROVE  lot \in Lot /\ Derived(lot, results[lot])
  <2>1. /\ lot \in LotsOf(Selection(keys)) /\ HasLife(Observations(Selection(keys), lot))
        /\ results[lot] = [values |-> Lifecycle(Observations(Selection(keys), lot)),
                           sources |-> SourcesOf(Selection(keys), lot)]
    BY DEF Lifecycles
  <2>2. results[lot].values = Lifecycle(Observations(Selection(keys), lot))
        /\ results[lot].sources = SourcesOf(Selection(keys), lot)
    BY <2>1
  <2> HIDE DEF results
  <2>3. Derived(lot, results[lot])
    BY <1>1, <2>1, <2>2 DEF Derived
  <2>4. QED
    BY <1>1, <2>1, <2>3, LotsAreLots
<1> HIDE DEF results
<1>3. \A lot \in Lot : Len(revisions[lot]) \in Nat
  BY LenProperties DEF PersistInv, LotInv
<1>4. Transaction(j)
  <2>1. DOMAIN j.new = {}
    OBVIOUS
  <2>2. j.seen \in [Lot -> Nat]
    BY <1>3
  <2>3. /\ DOMAIN j.results \subseteq Lot /\ j.left = DOMAIN j.results
        /\ \A lot \in DOMAIN j.results : Derived(lot, j.results[lot])
    BY <1>2
  <2>4. j = [stage |-> "PERSISTING", results |-> j.results, left |-> j.left,
             seen |-> j.seen, new |-> j.new]
    OBVIOUS
  <2> HIDE DEF j
  <2>5. QED
    BY <2>1, <2>2, <2>3, <2>4 DEF Transaction
<1>5. \A u \in Thread \ {t} : job'[u] = job[u] /\ Persisting(u)' = Persisting(u)
  BY <1>1 DEF Persisting
<1>6. \A u \in Thread : Held(u)' \subseteq Held(u)
  <2>1. job'[t] = j /\ j.left = DOMAIN j.results
    BY <1>1
  <2>2. Held(t)' = {}
    <3> HIDE DEF j
    <3>1. QED
      BY <2>1 DEF Held
  <2>3. ASSUME NEW u \in Thread \ {t} PROVE Held(u)' = Held(u)
    BY <1>5 DEF Held
  <2>4. QED
    BY <2>2, <2>3
<1>7. \A lot \in Lot : LotInv(lot)'
  BY <1>1, LotStays DEF PersistInv
<1>8. ASSUME NEW u \in Thread, NEW x, x = job'[u], Persisting(u)' PROVE Transaction(x)'
  <2>1. CASE u = t
    <3>1. PICK y : y = j
      OBVIOUS
    <3>2. x = y
      BY <1>1, <1>8, <2>1, <3>1
    <3>3. Transaction(y)
      BY <1>4, <3>1
    <3>4. QED
      BY <1>1, <3>2, <3>3, TransactionStays
  <2>2. CASE u # t
    <3>1. x = job[u] /\ Persisting(u)
      BY <1>5, <1>8, <2>2
    <3>2. Transaction(x)
      BY <3>1 DEF PersistInv
    <3>3. QED
      BY <1>1, <3>2, TransactionStays
  <2>3. QED
    BY <2>1, <2>2
<1>9. QED
  BY <1>1, <1>6, <1>7, <1>8 DEF PersistInv

\* What PersistNext makes of the next result, if it is not stored already, may
\* be the next revision of its lot.
LEMMA AppendedRowIsNext ==
    ASSUME PersistInv, NEW lot \in Lot, NEW result, NEW seen \in Nat,
           Derived(lot, result), Storable(result.values), ~AlreadyStored(result, lot, seen)
    PROVE  NextRow(lot, AppendedRow(result, lot, seen))
<1> DEFINE n == Len(revisions[lot])
           r == AppendedRow(result, lot, seen)
<1>1. n \in Nat
  BY LenProperties DEF PersistInv, LotInv
<1>2. Late(cycle.status) \in BOOLEAN
  BY DEF Late
<1>3. r = [no |-> n + 1, values |-> result.values, sources |-> result.sources,
           late |-> Late(cycle.status), seen |-> seen]
  BY DEF AppendedRow
<1>4. r.values = result.values /\ r.sources = result.sources /\ r.late = Late(cycle.status)
      /\ r.seen = seen
  BY <1>3
<1>5. Derived(lot, r)
  BY <1>4 DEF Derived
<1> HIDE DEF r, n
<1>6. Row(lot, n + 1, r)
  BY <1>2, <1>3, <1>4, <1>5 DEF Row
<1>7. ASSUME n > 0, Same(r, revisions[lot][n]), ~(r.seen < n) PROVE FALSE
  <2>1. n <= seen
    BY <1>1, <1>4, <1>7
  <2>2. revisions[lot][n].values = result.values /\ result.sources = revisions[lot][n].sources
    BY <1>4, <1>7 DEF Same
  <2>3. QED
    BY <1>7, <2>1, <2>2 DEF AlreadyStored, n
<1>8. QED
  BY <1>6, <1>7 DEF NextRow, n, r

LEMMA PersistNextKeeps ==
    ASSUME Stable, ImportInv, PersistInv, NEW t \in Thread, PersistNext(t)
    PROVE  PersistInv'
<1> DEFINE j == job[t]
           lot == NextLot(t)
           result == j.results[lot]
           row == AppendedRow(result, lot, j.seen[lot])
           stored == AlreadyStored(result, lot, j.seen[lot])
           new == IF stored THEN j.new
                  ELSE [l \in DOMAIN j.new \cup {lot} |-> IF l = lot THEN row ELSE j.new[l]]
           after == [stage |-> "PERSISTING", results |-> j.results, left |-> j.left \ {lot},
                     seen |-> j.seen, new |-> new]
<1>1. /\ Persisting(t) /\ j.left # {} /\ \A u \in Thread \ {t} : lot \notin Held(u)
      /\ stored \/ Storable(result.values)
      /\ job' = [job EXCEPT ![t].left = j.left \ {lot}, ![t].new = new]
      /\ revisions' = revisions /\ DOMAIN job = Thread
  BY DEF PersistNext, ImportInv
<1>2. Transaction(j)
  BY <1>1 DEF PersistInv
<1>3. lot \in j.left /\ lot \in Lot
  <2>1. j.left \subseteq Lot
    BY <1>2 DEF Transaction
  <2>2. QED
    BY <1>1, <2>1, NextLotIsLeft
<1>4. /\ j = [stage |-> "PERSISTING", results |-> j.results, left |-> j.left, seen |-> j.seen,
              new |-> j.new]
      /\ j.left \subseteq DOMAIN j.results /\ DOMAIN j.new \subseteq DOMAIN j.results \ j.left
      /\ Derived(lot, result) /\ j.seen \in [Lot -> Nat]
      /\ \A l \in DOMAIN j.new : NextRow(l, j.new[l])
  BY <1>2, <1>3 DEF Transaction
<1> HIDE DEF lot
<1>5. stored \/ NextRow(lot, row)
  <2>1. j.seen[lot] \in Nat
    BY <1>3, <1>4
  <2>2. QED
    BY <1>1, <1>3, <1>4, <2>1, AppendedRowIsNext
<1> HIDE DEF result, row, stored
<1>6. /\ DOMAIN new \subseteq DOMAIN j.new \cup {lot}
      /\ \A l \in DOMAIN new : NextRow(l, new[l])
  <2>1. CASE stored
    BY <1>4, <2>1
  <2>2. CASE ~stored
    <3>1. DOMAIN new = DOMAIN j.new \cup {lot}
      BY <2>2
    <3>2. ASSUME NEW l \in DOMAIN new PROVE NextRow(l, new[l])
      <4>1. CASE l = lot
        <5>1. new[l] = row
          BY <2>2, <4>1
        <5>2. QED
          BY <1>5, <2>2, <4>1, <5>1
      <4>2. CASE l # lot
        <5>1. new[l] = j.new[l] /\ l \in DOMAIN j.new
          BY <2>2, <3>1, <4>2
        <5>2. QED
          BY <1>4, <5>1
      <4>3. QED
        BY <4>1, <4>2
    <3>3. QED
      BY <3>1, <3>2
  <2>3. QED
    BY <2>1, <2>2
<1> HIDE DEF new
<1>7. job'[t] = after
  <2> DEFINE left == j.left \ {lot}
  <2>1. job'[t] = [j EXCEPT !.left = left, !.new = new]
    BY <1>1
  <2> HIDE DEF left
  <2>2. PICK r, l, s, n : j = [stage |-> "PERSISTING", results |-> r, left |-> l, seen |-> s,
                               new |-> n]
    BY <1>4
  <2> DEFINE whole == [stage |-> "PERSISTING", results |-> r, left |-> l, seen |-> s, new |-> n]
  <2>3. job'[t] = [stage |-> "PERSISTING", results |-> r, left |-> left, seen |-> s, new |-> new]
    <3>1. job'[t] = [whole EXCEPT !.left = left, !.new = new]
      BY <2>1, <2>2
    <3>2. [whole EXCEPT !.left = left]
          = [stage |-> "PERSISTING", results |-> r, left |-> left, seen |-> s, new |-> n]
      OBVIOUS
    <3>3. [[stage |-> "PERSISTING", results |-> r, left |-> left, seen |-> s, new |-> n]
             EXCEPT !.new = new]
          = [stage |-> "PERSISTING", results |-> r, left |-> left, seen |-> s, new |-> new]
      OBVIOUS
    <3> HIDE DEF whole
    <3>4. job'[t] = [[whole EXCEPT !.left = left] EXCEPT !.new = new]
      BY <3>1
    <3>5. QED
      BY <3>2, <3>3, <3>4
  <2>4. j.results = r /\ j.seen = s
    BY <2>2
  <2>5. QED
    BY <2>3, <2>4 DEF left
<1>8. \A u \in Thread \ {t} : job'[u] = job[u] /\ Persisting(u)' = Persisting(u)
  BY <1>1 DEF Persisting
<1>9. Transaction(after)
  <2>1. /\ after.results = j.results /\ after.left = j.left \ {lot} /\ after.seen = j.seen
        /\ after.new = new
        /\ after = [stage |-> "PERSISTING", results |-> after.results, left |-> after.left,
                    seen |-> after.seen, new |-> after.new]
    OBVIOUS
  <2> HIDE DEF after
  <2>2. /\ after.left \subseteq DOMAIN after.results /\ DOMAIN after.results \subseteq Lot
        /\ \A l \in DOMAIN after.results : Derived(l, after.results[l])
        /\ after.seen \in [Lot -> Nat]
    BY <1>2, <2>1 DEF Transaction
  <2>3. DOMAIN after.new \subseteq DOMAIN after.results \ after.left
    BY <1>3, <1>4, <1>6, <2>1
  <2>4. \A l \in DOMAIN after.new : NextRow(l, after.new[l])
    BY <1>6, <2>1
  <2>5. QED
    BY <2>1, <2>2, <2>3, <2>4 DEF Transaction
<1>10. Held(t)' \subseteq Held(t) \cup {lot}
  <2>1. after.results = j.results /\ after.left = j.left \ {lot}
    OBVIOUS
  <2> HIDE DEF after
  <2>2. QED
    BY <1>1, <1>7, <2>1 DEF Held
<1>11. \A u \in Thread \ {t} : Held(u)' = Held(u)
  BY <1>8 DEF Held
<1>12. \A u, v \in Thread : u # v => (Held(u) \cap Held(v))' = {}
  BY <1>1, <1>10, <1>11 DEF PersistInv
<1>13. \A l \in Lot : LotInv(l)'
  BY <1>1, LotStays DEF PersistInv
<1>14. ASSUME NEW u \in Thread, NEW x, x = job'[u], Persisting(u)' PROVE Transaction(x)'
  <2>1. Transaction(x)
    <3>1. CASE u = t
      <4>1. x = after
        BY <1>7, <1>14, <3>1
      <4> HIDE DEF after
      <4>2. QED
        BY <1>9, <4>1
    <3>2. CASE u # t
      BY <1>8, <1>14, <3>2 DEF PersistInv
    <3>3. QED
      BY <3>1, <3>2
  <2>2. QED
    BY <1>1, <2>1, TransactionStays
<1>15. QED
  BY <1>1, <1>12, <1>13, <1>14 DEF PersistInv

\* A next revision may be appended.
LEMMA AppendKeeps ==
    ASSUME Stable, NEW lot, LotInv(lot), NEW r, NextRow(lot, r),
           revisions'[lot] = Append(revisions[lot], r)
    PROVE  LotInv(lot)'
<1> DEFINE n == Len(revisions[lot])
<1>1. PICK S : revisions[lot] \in Seq(S)
  BY DEF LotInv
<1>2. n \in Nat /\ DOMAIN revisions[lot] = 1 .. n
  BY <1>1, LenProperties
<1>3. revisions[lot] \in Seq(S \cup {r})
  BY <1>1, SeqMonotonic
<1>4. /\ revisions'[lot] \in Seq(S \cup {r})
      /\ Len(revisions'[lot]) = n + 1
      /\ \A i \in 1 .. n : revisions'[lot][i] = revisions[lot][i]
      /\ revisions'[lot][n + 1] = r
  BY <1>3, AppendProperties
<1>5. DOMAIN revisions'[lot] = 1 .. (n + 1)
  BY <1>4, LenProperties
<1> HIDE DEF n
<1>6. ASSUME NEW i \in 1 .. (n + 1), NEW q, q = revisions'[lot][i] PROVE Row(lot, i, q)'
  <2>1. CASE i = n + 1
    <3>1. Row(lot, n + 1, r)
      BY DEF NextRow, n
    <3>2. QED
      BY <1>4, <1>6, <2>1, <3>1, RowStays
  <2>2. CASE i # n + 1
    <3>1. i \in 1 .. n /\ q = revisions[lot][i]
      BY <1>2, <1>4, <1>6, <2>2
    <3>2. Row(lot, i, q)
      BY <1>2, <3>1 DEF LotInv
    <3>3. QED
      BY <3>2, RowStays
  <2>3. QED
    BY <2>1, <2>2
<1>7. ASSUME NEW i \in 2 .. (n + 1), Same(revisions'[lot][i], revisions'[lot][i - 1])
      PROVE  revisions'[lot][i].seen < i - 1
  <2>1. CASE i = n + 1
    <3>1. n > 0 /\ i - 1 = n /\ n \in 1 .. n
      BY <1>2, <2>1
    <3>2. Same(r, revisions[lot][n])
      BY <1>4, <1>7, <2>1, <3>1
    <3>3. r.seen < n
      BY <3>1, <3>2 DEF NextRow, n
    <3>4. QED
      BY <1>4, <2>1, <3>1, <3>3
  <2>2. CASE i # n + 1
    <3>1. i \in 2 .. n /\ i \in 1 .. n /\ i - 1 \in 1 .. n
      BY <1>2, <2>2
    <3>2. Same(revisions[lot][i], revisions[lot][i - 1])
      BY <1>4, <1>7, <3>1
    <3>3. revisions[lot][i].seen < i - 1
      BY <3>1, <3>2 DEF LotInv, n
    <3>4. QED
      BY <1>4, <3>1, <3>3
  <2>3. QED
    BY <2>1, <2>2
<1>8. QED
  BY <1>4, <1>5, <1>6, <1>7 DEF LotInv, Same

LEMMA CommitPersistKeeps ==
    ASSUME Stable, ImportInv, PersistInv, NEW t \in Thread, CommitPersist(t)
    PROVE  PersistInv'
<1> DEFINE j == job[t]
<1>1. /\ Persisting(t) /\ job' = [job EXCEPT ![t] = NoJob] /\ DOMAIN job = Thread
      /\ DOMAIN revisions' = Lot
      /\ \A lot \in Lot : revisions'[lot] = IF lot \in DOMAIN j.new
                                            THEN Append(revisions[lot], j.new[lot])
                                            ELSE revisions[lot]
  BY DEF CommitPersist, ImportInv
<1>2. Transaction(j)
  BY <1>1 DEF PersistInv
<1>3. ~Persisting(t)' /\ Held(t)' = {}
  BY <1>1 DEF Persisting, Held
<1>4. \A u \in Thread \ {t} : job'[u] = job[u] /\ Persisting(u)' = Persisting(u)
  BY <1>1 DEF Persisting
<1>5. \A u \in Thread : Held(u)' \subseteq Held(u)
  BY <1>3, <1>4 DEF Held
<1>6. ASSUME NEW lot \in Lot PROVE LotInv(lot)'
  <2>1. CASE lot \in DOMAIN j.new
    <3>1. PICK r : r = j.new[lot]
      OBVIOUS
    <3>2. NextRow(lot, r) /\ LotInv(lot) /\ revisions'[lot] = Append(revisions[lot], r)
      BY <1>1, <1>2, <2>1, <3>1 DEF Transaction, PersistInv
    <3>3. QED
      BY <3>2, AppendKeeps
  <2>2. CASE lot \notin DOMAIN j.new
    BY <1>1, <2>2, LotStays DEF PersistInv
  <2>3. QED
    BY <2>1, <2>2
<1>7. ASSUME NEW u \in Thread, NEW x, x = job'[u], Persisting(u)' PROVE Transaction(x)'
  <2>1. u # t /\ x = job[u] /\ Persisting(u)
    BY <1>3, <1>4, <1>7
  <2>2. Transaction(x)
    BY <2>1 DEF PersistInv
  <2>3. ASSUME NEW lot \in DOMAIN x.new PROVE revisions'[lot] = revisions[lot]
    <3>1. lot \in Lot /\ lot \in Held(u)
      BY <2>1, <2>2 DEF Transaction, Held
    <3>2. lot \notin Held(t)
      BY <2>1, <3>1 DEF PersistInv
    <3>3. lot \notin DOMAIN j.new
      BY <1>1, <1>2, <3>2 DEF Transaction, Held
    <3>4. QED
      BY <1>1, <3>1, <3>3
  <2>4. QED
    BY <2>2, <2>3, TransactionStays
<1>8. QED
  BY <1>1, <1>5, <1>6, <1>7 DEF PersistInv

LEMMA PersistStep == Stable /\ ImportInv /\ PersistInv /\ [Next]_vars => PersistInv'
<1> SUFFICES ASSUME Stable, ImportInv, PersistInv, [Next]_vars PROVE PersistInv'
  OBVIOUS
<1>1. DOMAIN job = Thread
  BY DEF ImportInv
<1>2. ASSUME revisions' = revisions, job' = job PROVE PersistInv'
  BY <1>2, PersistStays
<1>3. ASSUME NEW t \in Thread, NEW x, job' = [job EXCEPT ![t] = x],
             ~(x # NoJob /\ x.stage = "PERSISTING"), revisions' = revisions
      PROVE  PersistInv'
  <2>1. \A u \in Thread \ {t} : job'[u] = job[u]
    BY <1>1, <1>3
  <2>2. ~Persisting(t)'
    BY <1>1, <1>3 DEF Persisting
  <2>3. QED
    BY <1>3, <2>1, <2>2, PersistStays
<1>4. ASSUME NEW t \in Thread, NEW k \in Key, NEW s \in Source, NEW p \in Previews[s],
             CheckDuplicates(t, s, p, k)
      PROVE  PersistInv'
  <2>1. PICK x : /\ job' = [job EXCEPT ![t] = x] /\ x.stage = "CHECKED"
                 /\ revisions' = revisions
    BY <1>4 DEF CheckDuplicates
  <2>2. QED
    BY <1>3, <2>1
<1>5. ASSUME NEW t \in Thread, CommitVersion(t) \/ EndJob(t) PROVE PersistInv'
  <2>1. job' = [job EXCEPT ![t] = NoJob] /\ revisions' = revisions
    BY <1>5 DEF CommitVersion, EndJob
  <2>2. QED
    BY <1>3, <2>1
<1>6. ASSUME NEW t \in Thread, NEW keys \in SUBSET Key, CalculateAndPersist(t, keys)
      PROVE  PersistInv'
  BY <1>6, CalculateKeeps
<1>7. ASSUME NEW t \in Thread, PersistNext(t) PROVE PersistInv'
  BY <1>7, PersistNextKeeps
<1>8. ASSUME NEW t \in Thread, CommitPersist(t) PROVE PersistInv'
  BY <1>8, CommitPersistKeeps
<1>9. CASE ~ \E t \in Thread :
              \/ \E k \in Key, s \in Source : \E p \in Previews[s] : CheckDuplicates(t, s, p, k)
              \/ CommitVersion(t)
              \/ \E keys \in SUBSET Key : CalculateAndPersist(t, keys)
              \/ PersistNext(t) \/ CommitPersist(t) \/ EndJob(t)
  BY <1>2, <1>9 DEF Next, CommitIncoming, ChooseInventories, StampLock, CommitLock, vars
<1>10. QED
  BY <1>4, <1>5, <1>6, <1>7, <1>8, <1>9

-----------------------------------------------------------------------------
(* The theorems *)

CycleInv ==
    /\ cycle = [status |-> cycle.status, bound |-> cycle.bound]
    /\ cycle.status \in {"OPEN", "LOCKING", "LOCKED"}
    /\ cycle.bound \subseteq Inventories

LEMMA CycleStep == Stable /\ CycleInv /\ [Next]_vars => CycleInv'
<1> SUFFICES ASSUME Stable, CycleInv, [Next]_vars PROVE CycleInv'
  OBVIOUS
<1>1. ASSUME cycle' = cycle PROVE CycleInv'
  BY <1>1, InventoriesAreStable DEF CycleInv
<1>2. ASSUME NEW keys \in SUBSET Key, ChooseInventories(keys) PROVE CycleInv'
  BY <1>2, InventoriesAreStable DEF ChooseInventories, CycleInv
<1>3. CASE StampLock
  BY <1>3, InventoriesAreStable DEF StampLock, CycleInv
<1>4. CASE CommitLock
  BY <1>4, InventoriesAreStable DEF CommitLock, CycleInv
<1>5. CASE ~(StampLock \/ CommitLock \/ \E keys \in SUBSET Key : ChooseInventories(keys))
  BY <1>1, <1>5 DEF Next, CheckDuplicates, CommitVersion, CommitIncoming, CalculateAndPersist,
     PersistNext, CommitPersist, EndJob, vars
<1>6. QED
  BY <1>2, <1>3, <1>4, <1>5

StageInv == DOMAIN job = Thread /\ \A t \in Thread : job[t] # NoJob => job[t].stage \in Stage

LEMMA StageStep == StageInv /\ [Next]_vars => StageInv'
<1> SUFFICES ASSUME StageInv, [Next]_vars PROVE StageInv'
  OBVIOUS
<1>1. ASSUME job' = job PROVE StageInv'
  BY <1>1 DEF StageInv
<1>2. ASSUME NEW t \in Thread, NEW x, job' = [job EXCEPT ![t] = x],
             x # NoJob => x.stage \in Stage
      PROVE  StageInv'
  BY <1>2 DEF StageInv
<1>3. ASSUME NEW t \in Thread, NEW k \in Key, NEW s \in Source, NEW p \in Previews[s],
             CheckDuplicates(t, s, p, k)
      PROVE  StageInv'
  <2> DEFINE x == [stage |-> "CHECKED", source |-> s, preview |-> p,
                   key |-> k, unseen |-> Key \ Committed]
  <2>1. job' = [job EXCEPT ![t] = x] /\ x.stage = "CHECKED"
    BY <1>3 DEF CheckDuplicates
  <2> HIDE DEF x
  <2>2. QED
    BY <1>2, <2>1 DEF Stage
<1>4. ASSUME NEW t \in Thread, NEW keys \in SUBSET Key, CalculateAndPersist(t, keys)
      PROVE  StageInv'
  <2> DEFINE results == Lifecycles(Selection(keys))
             x == [stage |-> "PERSISTING", results |-> results, left |-> DOMAIN results,
                   seen |-> [lot \in Lot |-> Len(revisions[lot])],
                   new |-> [lot \in {} |-> NoVersion]]
  <2>1. job' = [job EXCEPT ![t] = x] /\ x.stage = "PERSISTING"
    BY <1>4 DEF CalculateAndPersist
  <2> HIDE DEF x
  <2>2. QED
    BY <1>2, <2>1 DEF Stage
<1>5. ASSUME NEW t \in Thread, CommitVersion(t) \/ CommitPersist(t) \/ EndJob(t)
      PROVE  StageInv'
  <2>1. job' = [job EXCEPT ![t] = NoJob]
    BY <1>5 DEF CommitVersion, CommitPersist, EndJob
  <2>2. QED
    BY <1>2, <2>1
<1>6. ASSUME NEW t \in Thread, PersistNext(t) PROVE StageInv'
  <2>1. PICK l, n : job' = [job EXCEPT ![t].left = l, ![t].new = n]
                    /\ job[t].stage = "PERSISTING"
    BY <1>6 DEF PersistNext, Persisting
  <2>2. DOMAIN job' = Thread /\ \A u \in Thread \ {t} : job'[u] = job[u]
    BY <2>1 DEF StageInv
  <2>3. job'[t] = [job[t] EXCEPT !.left = l, !.new = n]
    BY <2>1 DEF StageInv
  <2>4. job'[t].stage = job[t].stage
    BY <2>3
  <2>5. QED
    BY <2>1, <2>2, <2>4 DEF StageInv, Stage
<1>7. CASE ~ \E t \in Thread :
              \/ \E k \in Key, s \in Source : \E p \in Previews[s] : CheckDuplicates(t, s, p, k)
              \/ \E keys \in SUBSET Key : CalculateAndPersist(t, keys)
              \/ CommitVersion(t) \/ PersistNext(t) \/ CommitPersist(t) \/ EndJob(t)
  BY <1>1, <1>7 DEF Next, CommitIncoming, ChooseInventories, StampLock, CommitLock, vars
<1>8. QED
  BY <1>3, <1>4, <1>5, <1>6, <1>7

\* A committed snapshot has the rows of a preview without errors, and their totals.
SnapshotInv ==
    /\ DOMAIN snapshots = Key
    /\ \A k \in Key : snapshots[k] # NoVersion =>
          \E s \in Source : \E p \in Previews[s] :
              /\ KindOf[s] = "INCOMING"
              /\ snapshots[k].rows = p.rows
              /\ snapshots[k].totals = ProductTotals(p.rows)

LEMMA SnapshotStep == SnapshotInv /\ [Next]_vars => SnapshotInv'
<1> SUFFICES ASSUME SnapshotInv, [Next]_vars PROVE SnapshotInv'
  OBVIOUS
<1>1. ASSUME NEW k \in Key, NEW s \in Source, NEW p \in Previews[s], CommitIncoming(s, p, k)
      PROVE  SnapshotInv'
  <2> DEFINE new == [source |-> s, rows |-> p.rows, totals |-> Facts("INCOMING", p.rows)]
  <2>1. snapshots' = [snapshots EXCEPT ![k] = new] /\ KindOf[s] = "INCOMING"
    BY <1>1 DEF CommitIncoming
  <2>2. Facts("INCOMING", p.rows) = ProductTotals(p.rows)
    BY DEF Facts
  <2>3. DOMAIN snapshots' = Key
    BY <2>1 DEF SnapshotInv
  <2>4. ASSUME NEW l \in Key, snapshots'[l] # NoVersion
        PROVE  \E x \in Source : \E q \in Previews[x] :
                   /\ KindOf[x] = "INCOMING"
                   /\ snapshots'[l].rows = q.rows
                   /\ snapshots'[l].totals = ProductTotals(q.rows)
    <3>1. CASE l = k
      <4>1. snapshots'[l].rows = p.rows /\ snapshots'[l].totals = ProductTotals(p.rows)
        BY <2>1, <2>2, <3>1 DEF SnapshotInv
      <4>2. QED
        BY <2>1, <4>1
    <3>2. CASE l # k
      <4>1. snapshots'[l] = snapshots[l]
        BY <2>1, <3>2 DEF SnapshotInv
      <4>2. QED
        BY <2>4, <4>1 DEF SnapshotInv
    <3>3. QED
      BY <3>1, <3>2
  <2>5. QED
    BY <2>3, <2>4 DEF SnapshotInv, Previews
<1>2. CASE snapshots' = snapshots
  BY <1>2 DEF SnapshotInv, Previews
<1>3. CASE ~ \E k \in Key, s \in Source : \E p \in Previews[s] : CommitIncoming(s, p, k)
  BY <1>2, <1>3 DEF Next, CheckDuplicates, CommitVersion, CalculateAndPersist, PersistNext,
     CommitPersist, EndJob, ChooseInventories, StampLock, CommitLock, vars
<1>4. QED
  BY <1>1, <1>3

\* The inductive invariant.
IInv == ImportInv /\ PersistInv /\ CycleInv /\ StageInv /\ SnapshotInv

\* IInv holds in every state: imports, transactions and cycle keep it together.
THEOREM DataInvariance == Spec => []IInv
<1>1. Init => IInv
  <2>1. Init => CycleInv
    BY DEF Init, CycleInv
  <2>2. Init => StageInv
    BY DEF Init, StageInv
  <2>3. Init => SnapshotInv
    BY DEF Init, SnapshotInv
  <2>4. QED
    BY <2>1, <2>2, <2>3, ImportInit, PersistInit DEF IInv
<1>2. IInv /\ [Next]_vars => IInv'
  BY ImportStep, VersionsAreStable, PersistStep, CycleStep, StageStep, SnapshotStep DEF IInv
<1>3. QED
  BY <1>1, <1>2, PTL DEF Spec

\* What a committed version was made of.
LEMMA VersionOf ==
    ASSUME ImportInv, NEW k \in Committed
    PROVE  \E p \in Previews[versions[k].source] :
              /\ versions[k].source \in Source
              /\ KindOf[versions[k].source] # "INCOMING"
              /\ versions[k].rows = p.rows
              /\ versions[k].facts = Facts(KindOf[versions[k].source], p.rows)
<1>1. VersionInv(k)
  BY DEF ImportInv
<1>2. PICK p \in Committable(versions[k].source) :
          /\ versions[k].rows = p.rows
          /\ versions[k].facts = Facts(KindOf[versions[k].source], p.rows)
  BY <1>1 DEF VersionInv
<1>3. QED
  BY <1>1, <1>2 DEF VersionInv, Committable

\* ImportsAddUp: what was imported adds up wherever it is shown, but for the
\* rounding of what is stored. The SKU facts of an inventory reconcile with the
\* product facts and with the stored rows, so that the page finds lots to list;
\* the totals of sales by channel and by date are those of the rows; the supply
\* reported for a snapshot is what the page puts into its months, before and
\* after them, and under no date: exactly where the quantities are whole
\* thousandths, otherwise within half a thousandth for each number that was
\* rounded. Any workbook that a preview finds no fault with does, however its rows
\* are grouped and as many decimals as it has.
THEOREM ImportsDoAddUp == Spec => []ImportsAddUp
<1>1. ASSUME IInv, NEW k \in Inventories
      PROVE  /\ \A r \in versions[k].rows : r.opening + r.receipt - r.issue = r.ending
             /\ \A p \in DOMAIN versions[k].facts.product : InventoryAddsUp(versions[k], p)
  <2> DEFINE s == versions[k].source
  <2>1. k \in Committed /\ KindOf[s] = "INVENTORY"
    BY DEF Inventories
  <2>2. PICK p \in Previews[s] :
            s \in Source /\ versions[k].rows = p.rows /\ versions[k].facts = Facts(KindOf[s], p.rows)
    BY <1>1, <2>1, VersionOf DEF IInv
  <2> HIDE DEF s
  <2>3. versions[k].facts = InventoryFacts(versions[k].rows)
    BY <2>1, <2>2 DEF Facts
  <2>4. IsFiniteSet(versions[k].rows)
    BY <2>2, RowsAreFinite
  <2>5. \A r \in versions[k].rows : r.ending \in Int
    BY <2>1, <2>2, InventoryTyping DEF InventoryRows
  <2>6. /\ \A r \in versions[k].rows : r.opening + r.receipt - r.issue = r.ending
        /\ \E product : \A r \in versions[k].rows : r.product = product[r.sku]
    BY <2>1, <2>2, InventoryBalances
  <2>7. PICK product : \A r \in versions[k].rows : r.product = product[r.sku]
    BY <2>6
  <2>8. PICK version : version = versions[k]
    OBVIOUS
  <2>9. ASSUME NEW q \in DOMAIN version.facts.product
        PROVE  InventoryAddsUp(version, q)
    <3>1. /\ IsFiniteSet(version.rows) /\ version.facts = InventoryFacts(version.rows)
          /\ \A r \in version.rows : r.ending \in Int
          /\ \A r \in version.rows : r.product = product[r.sku]
      BY <2>3, <2>4, <2>5, <2>7, <2>8
    <3>2. QED
      BY <3>1, InventoryFactsAddUp
  <2>10. QED
    BY <2>6, <2>8, <2>9
<1>2. ASSUME IInv, NEW k \in Committed \ Inventories
      PROVE  SalesAddUp(versions[k].facts, versions[k].rows)
  <2> DEFINE s == versions[k].source
  <2>1. PICK p \in Previews[s] :
            /\ s \in Source /\ KindOf[s] # "INCOMING"
            /\ versions[k].rows = p.rows /\ versions[k].facts = Facts(KindOf[s], p.rows)
    BY <1>2, VersionOf DEF IInv
  <2>2. KindOf[s] = "ACTUAL"
    BY <1>2, <2>1, PlanningDataAssumption DEF Inventories
  <2> HIDE DEF s
  <2>3. versions[k].facts = ActualFacts(versions[k].rows)
    BY <2>1, <2>2 DEF Facts
  <2>4. IsFiniteSet(versions[k].rows)
    BY <2>1, RowsAreFinite
  <2>5. \A r \in versions[k].rows : r.qty \in Int
    BY <2>1, <2>2, QuantitiesAreNumbers
  <2>6. PICK rows : rows = versions[k].rows
    OBVIOUS
  <2>7. SalesAddUp(ActualFacts(rows), rows)
    BY <2>4, <2>5, <2>6, ActualFactsAddUp
  <2>8. QED
    BY <2>3, <2>6, <2>7
<1>3. ASSUME IInv, NEW k \in Key, snapshots[k] # NoVersion, NEW p \in DOMAIN snapshots[k].totals
      PROVE  LET placed == Places(snapshots[k], p)
                 lines == PageLines(snapshots[k].rows, p)
             IN  Agree(placed.unscheduled + placed.overdue + Beyond(snapshots[k], p)
                          + MapThenSumSet(LAMBDA n : placed.scheduled[n], 0 .. 3),
                       snapshots[k].totals[p], Cardinality(lines), Whole(lines, "qty"))
  <2>1. PICK s \in Source : \E q \in Previews[s] :
            /\ KindOf[s] = "INCOMING"
            /\ snapshots[k].rows = q.rows
            /\ snapshots[k].totals = ProductTotals(q.rows)
    BY <1>3 DEF IInv, SnapshotInv
  <2>2. PICK q \in Previews[s] :
            /\ KindOf[s] = "INCOMING"
            /\ snapshots[k].rows = q.rows
            /\ snapshots[k].totals = ProductTotals(q.rows)
    BY <2>1
  <2>3. PICK lines : lines = snapshots[k].rows
    OBVIOUS
  <2>4. snapshots[k].totals[p] = SumOf(PageLines(lines, p), "qty")
    BY <1>3, <2>2, <2>3, TotalOfProduct
  <2>5. /\ IsFiniteSet(lines)
        /\ \A l \in lines : (l.qty # Blank => l.qty \in Int) /\ (l.eta # NoDate => l.eta \in Int)
    BY <2>2, <2>3, RowsAreFinite, QuantitiesAreNumbers
  <2>6. CycleMonth \in Nat
    BY PlanningDataAssumption
  <2>7. SupplyAddsUp(lines, p, CycleMonth)
    BY <2>5, <2>6, PlacesAddUp
  <2>8. QED
    BY <2>3, <2>4, <2>7 DEF SupplyAddsUp, Places, Beyond
<1>4. IInv => ImportsAddUp
  BY <1>1, <1>2, <1>3, Zenon DEF ImportsAddUp, InventoryAddsUp, SalesAddUp
<1>5. QED
  BY <1>4, DataInvariance, PTL

\* RepeatsOverlap: a second version of a workbook for a period, or a revision
\* equal to the one before it, was written by a transaction that began before the
\* first was committed. A workbook has one period, whatever masters it is read
\* with, so the duplicate check finds every version it should; a result that
\* its transaction could see in its snapshot is not written again.
THEOREM RepeatsAreOverlaps == Spec => []RepeatsOverlap
<1>1. IInv => RepeatsOverlap
  BY DEF IInv, ImportInv, PairInv, PersistInv, LotInv, Same, RepeatsOverlap
<1>2. QED
  BY <1>1, DataInvariance, PTL

\* What a derived result says, by the versions it rests on.
LEMMA DerivedSays ==
    ASSUME ImportInv, NEW lot, NEW r, Derived(lot, r)
    PROVE  /\ r.sources \in SUBSET Key /\ r.sources \subseteq Inventories
           /\ \A k \in r.sources : LotRows(versions[k], lot) # {}
           /\ LifeIs([k \in r.sources |-> [month |-> versions[k].from,
                                           rows |-> versions[k].rows]],
                     lot, r.sources, r.values)
           /\ r.values \in
                 [state : {"SOLD_OUT", "PRE_EXISTING", "ACTIVE"}, inbound : Nat \cup {NoMonth},
                  soldOut : Nat \cup {NoMonth}, consumption : Int]
<1>1. PICK keys \in SUBSET Key :
        /\ keys \subseteq Inventories /\ Selectable(Selection(keys))
        /\ lot \in LotsOf(Selection(keys)) /\ HasLife(Observations(Selection(keys), lot))
        /\ r.values = Lifecycle(Observations(Selection(keys), lot))
        /\ r.sources = SourcesOf(Selection(keys), lot)
  BY DEF Derived
<1> DEFINE sel == Selection(keys)
           own == [k \in r.sources |-> [month |-> versions[k].from, rows |-> versions[k].rows]]
<1>2. DOMAIN sel = keys /\ \A k \in keys : sel[k].month = versions[k].from
                                           /\ sel[k].rows = versions[k].rows
  BY DEF Selection
<1>3. IsFiniteSet(keys)
  BY <1>1, FS_Subset, PlanningDataAssumption
<1>4. \A k \in keys : versions[k].from \in Nat
  <2>1. SUFFICES ASSUME NEW k \in keys PROVE versions[k].from \in Nat
    OBVIOUS
  <2>2. k \in Committed /\ KindOf[versions[k].source] = "INVENTORY"
    BY <1>1 DEF Inventories
  <2>3. PICK p \in Committable(versions[k].source) : versions[k].from = p.from
    BY <2>2 DEF ImportInv, VersionInv
  <2>4. versions[k].source \in Source /\ p \in Previews[versions[k].source]
    BY <2>2 DEF ImportInv, VersionInv, Committable
  <2>5. QED
    BY <2>2, <2>3, <2>4, InventoryTyping
<1> HIDE DEF sel
<1>5. IsFiniteSet(DOMAIN sel) /\ \A k \in DOMAIN sel : sel[k].month \in Nat
  BY <1>2, <1>3, <1>4
<1>6. LifeIs(sel, lot, r.sources, r.values)
  BY <1>1, <1>5, LifeOfLot DEF sel
<1>7. r.sources \subseteq keys /\ \A k \in r.sources : LotRows(sel[k], lot) # {}
  BY <1>1, <1>2 DEF SourcesOf, sel
<1>8. \A k \in r.sources : LotRows(sel[k], lot) = LotRows(versions[k], lot)
  BY <1>2, <1>7 DEF LotRows, Planning
<1>9. \A k \in r.sources : own[k].month = sel[k].month
                           /\ LotRows(own[k], lot) = LotRows(sel[k], lot)
  BY <1>2, <1>7 DEF LotRows, Planning
<1> HIDE DEF own
<1>10. LifeIs(own, lot, r.sources, r.values)
  <2> DEFINE Months(s) == {s[k].month : k \in r.sources}
             Ends(s) == {s[k].month :
                            k \in {x \in r.sources : SumOf(LotRows(s[x], lot), "ending") = 0}}
             Receipts(s) == {s[k].month :
                            k \in {x \in r.sources : SumOf(LotRows(s[x], lot), "receipt") > 0}}
             Empty(s) == {m \in Months(s) : \A n \in Months(s) : n >= m => n \in Ends(s)}
             Old(s) == \E k \in r.sources :
                          s[k].month = Min(Months(s)) /\ SumOf(LotRows(s[k], lot), "opening") > 0
  <2>1. Months(own) = Months(sel)
    BY <1>9
  <2>2. Ends(own) = Ends(sel)
    BY <1>9
  <2>3. Receipts(own) = Receipts(sel)
    BY <1>9
  <2>4. Empty(own) = Empty(sel)
    <3> HIDE DEF Months, Ends
    <3>1. QED
      BY <2>1, <2>2
  <2>5. Old(own) <=> Old(sel)
    <3> HIDE DEF Months
    <3>1. QED
      BY <1>9, <2>1
  <2>6. \A s : LifeIs(s, lot, r.sources, r.values) <=>
            /\ r.values.soldOut = IF Empty(s) = {} THEN NoMonth ELSE Min(Empty(s))
            /\ r.values.inbound = IF Old(s) THEN NoMonth ELSE Min(Receipts(s))
            /\ ~Old(s) => Receipts(s) # {}
            /\ r.values.state = "SOLD_OUT" <=> Empty(s) # {}
            /\ r.values.state = "PRE_EXISTING" <=> Old(s) /\ Empty(s) = {}
    BY DEF LifeIs
  <2> HIDE DEF Months, Ends, Receipts, Empty, Old
  <2>7. QED
    BY <1>6, <2>3, <2>4, <2>5, <2>6
<1>11. r.values \in
          [state : {"SOLD_OUT", "PRE_EXISTING", "ACTIVE"}, inbound : Nat \cup {NoMonth},
           soldOut : Nat \cup {NoMonth}, consumption : Int]
  BY <1>1, <1>5, LifeTyped DEF sel
<1>12. QED
  BY <1>1, <1>7, <1>8, <1>10, <1>11 DEF own

\* DataTypeOK: what is stored has its type; results are numbered in the order
\* they were stored in, rest on committed inventories and pass the checks of
\* the table, and so does the selection of the cycle.
THEOREM DataTyping == Spec => []DataTypeOK
<1>1. ASSUME IInv PROVE DataTypeOK
  <2>1. ASSUME NEW k \in Committed PROVE IsVersion(versions[k])
    <3>1. /\ versions[k].source \in Source /\ versions[k].unseen \subseteq Key
          /\ \E p \in Committable(versions[k].source) :
                /\ versions[k].from = p.from /\ versions[k].to = p.to
                /\ versions[k].rows = p.rows
      BY <1>1 DEF IInv, ImportInv, VersionInv
    <3>2. ASSUME KindOf[versions[k].source] = "INVENTORY"
          PROVE  /\ versions[k].from \in Nat /\ versions[k].to = versions[k].from
                 /\ versions[k].rows \subseteq InventoryRows
      <4>1. PICK p \in Previews[versions[k].source] :
                /\ versions[k].from = p.from /\ versions[k].to = p.to
                /\ versions[k].rows = p.rows
        BY <3>1 DEF Committable
      <4>2. p.from \in Nat /\ p.to = p.from /\ p.rows \subseteq InventoryRows
        BY <3>1, <3>2, InventoryTyping
      <4>3. QED
        BY <4>1, <4>2
    <3>3. QED
      BY <3>1, <3>2 DEF IsVersion, InventoryRows
  <2>2. ASSUME NEW lot \in Lot, NEW i \in DOMAIN revisions[lot]
        PROVE  /\ revisions[lot][i] \in Revision
               /\ revisions[lot][i].no = i
               /\ revisions[lot][i].sources \subseteq Inventories
               /\ Storable(revisions[lot][i].values)
    <3>1. PICK r : r = revisions[lot][i]
      OBVIOUS
    <3>2. Row(lot, i, r)
      BY <1>1, <3>1 DEF IInv, PersistInv, LotInv
    <3>3. i \in Nat \ {0}
      <4>1. PICK S : revisions[lot] \in Seq(S)
        BY <1>1 DEF IInv, PersistInv, LotInv
      <4>2. QED
        BY <4>1, LenProperties
    <3>4. /\ r.sources \in SUBSET Key /\ r.sources \subseteq Inventories
          /\ r.values \in
                [state : {"SOLD_OUT", "PRE_EXISTING", "ACTIVE"}, inbound : Nat \cup {NoMonth},
                 soldOut : Nat \cup {NoMonth}, consumption : Int]
      BY <1>1, <3>2, DerivedSays DEF IInv, Row
    <3>5. r.no = i /\ r \in Revision
      BY <3>2, <3>3, <3>4 DEF Row, Revision
    <3>6. QED
      BY <3>1, <3>2, <3>4, <3>5 DEF Row
  <2>3. ASSUME NEW t \in Thread, job[t] # NoJob PROVE job[t].stage \in Stage
    BY <1>1, <2>3 DEF IInv, StageInv
  <2>4. QED
    BY <1>1, <2>1, <2>2, <2>3 DEF DataTypeOK, IInv, CycleInv
<1>2. QED
  BY <1>1, DataInvariance, PTL

\* ResultsSayWhatSourcesSay: every stored result says of its sources what they
\* say, however imports, calculations and their transactions are interleaved:
\* the versions are sorted by month whatever the order they were selected in,
\* and the way back through the months at zero ends where they begin.
THEOREM ResultsAreTrue == Spec => []ResultsSayWhatSourcesSay
<1>1. ASSUME IInv PROVE ResultsSayWhatSourcesSay
  <2>1. ASSUME NEW lot \in Lot, NEW r, Derived(lot, r)
        PROVE  LET month == {versions[k].from : k \in r.sources}
                   ends == {versions[k].from : k \in {s \in r.sources : QtyOf(lot, s, "ending") = 0}}
                   receipts ==
                      {versions[k].from : k \in {s \in r.sources : QtyOf(lot, s, "receipt") > 0}}
                   empty == {m \in month : \A n \in month : n >= m => n \in ends}
                   old == \E k \in r.sources :
                             versions[k].from = Min(month) /\ QtyOf(lot, k, "opening") > 0
               IN  /\ \A k \in r.sources : LotRows(versions[k], lot) # {}
                   /\ r.values.soldOut = IF empty = {} THEN NoMonth ELSE Min(empty)
                   /\ r.values.inbound = IF old THEN NoMonth ELSE Min(receipts)
                   /\ r.values.state = "SOLD_OUT" <=> empty # {}
                   /\ r.values.state = "PRE_EXISTING" <=> old /\ empty = {}
    <3> DEFINE own == [k \in r.sources |-> [month |-> versions[k].from, rows |-> versions[k].rows]]
    <3>1. /\ \A k \in r.sources : LotRows(versions[k], lot) # {}
          /\ LifeIs(own, lot, r.sources, r.values)
      BY <1>1, <2>1, DerivedSays DEF IInv
    <3>2. \A k \in r.sources : own[k].month = versions[k].from
      OBVIOUS
    <3>3. \A k \in r.sources : LotRows(own[k], lot) = LotRows(versions[k], lot)
      BY DEF LotRows, Planning
    <3> HIDE DEF own
    <3>4. /\ {own[k].month : k \in r.sources} = {versions[k].from : k \in r.sources}
          /\ {own[k].month : k \in {s \in r.sources : SumOf(LotRows(own[s], lot), "ending") = 0}}
             = {versions[k].from : k \in {s \in r.sources : QtyOf(lot, s, "ending") = 0}}
          /\ {own[k].month : k \in {s \in r.sources : SumOf(LotRows(own[s], lot), "receipt") > 0}}
             = {versions[k].from : k \in {s \in r.sources : QtyOf(lot, s, "receipt") > 0}}
      BY <3>2, <3>3 DEF QtyOf
    <3>5. \A m : (\E k \in r.sources :
                      own[k].month = m /\ SumOf(LotRows(own[k], lot), "opening") > 0)
                 <=> \E k \in r.sources : versions[k].from = m /\ QtyOf(lot, k, "opening") > 0
      BY <3>2, <3>3 DEF QtyOf
    <3> DEFINE month == {versions[k].from : k \in r.sources}
               ends ==
                  {versions[k].from : k \in {s \in r.sources : QtyOf(lot, s, "ending") = 0}}
               receipts ==
                  {versions[k].from : k \in {s \in r.sources : QtyOf(lot, s, "receipt") > 0}}
               empty == {m \in month : \A n \in month : n >= m => n \in ends}
               old == \E k \in r.sources :
                         versions[k].from = Min(month) /\ QtyOf(lot, k, "opening") > 0
               oldOwn == \E k \in r.sources :
                            own[k].month = Min(month) /\ SumOf(LotRows(own[k], lot), "opening") > 0
    <3>6. oldOwn <=> old
      <4> HIDE DEF month
      <4>1. QED
        BY <3>5
    <3>7. /\ r.values.soldOut = IF empty = {} THEN NoMonth ELSE Min(empty)
          /\ r.values.inbound = IF oldOwn THEN NoMonth ELSE Min(receipts)
          /\ r.values.state = "SOLD_OUT" <=> empty # {}
          /\ r.values.state = "PRE_EXISTING" <=> oldOwn /\ empty = {}
      <4> HIDE DEF month, ends, receipts
      <4>1. /\ {own[k].month : k \in r.sources} = month
            /\ {own[k].month :
                   k \in {s \in r.sources : SumOf(LotRows(own[s], lot), "ending") = 0}} = ends
            /\ {own[k].month :
                   k \in {s \in r.sources : SumOf(LotRows(own[s], lot), "receipt") > 0}} = receipts
        BY <3>4 DEF month, ends, receipts
      <4>2. QED
        BY <3>1, <4>1, Zenon DEF LifeIs
    <3> HIDE DEF month, ends, receipts, empty, old, oldOwn
    <3>8. /\ \A k \in r.sources : LotRows(versions[k], lot) # {}
          /\ r.values.soldOut = IF empty = {} THEN NoMonth ELSE Min(empty)
          /\ r.values.inbound = IF old THEN NoMonth ELSE Min(receipts)
          /\ r.values.state = "SOLD_OUT" <=> empty # {}
          /\ r.values.state = "PRE_EXISTING" <=> old /\ empty = {}
      BY <3>1, <3>6, <3>7
    <3>9. QED
      BY <3>8, Zenon DEF month, ends, receipts, empty, old
  <2>2. ASSUME NEW lot \in Lot, NEW i \in DOMAIN revisions[lot]
        PROVE  Derived(lot, revisions[lot][i])
    BY <1>1 DEF IInv, PersistInv, LotInv, Row
  <2>3. QED
    BY <2>1, <2>2 DEF ResultsSayWhatSourcesSay
<1>2. QED
  BY <1>1, DataInvariance, PTL

\* Revisions are only appended, one at a time to a lot.
LEMMA RevisionsGrow ==
    ASSUME [Next]_vars, DOMAIN revisions = Lot, NEW lot \in Lot
    PROVE  revisions'[lot] = revisions[lot] \/ \E r : revisions'[lot] = Append(revisions[lot], r)
<1>1. ASSUME NEW t \in Thread, CommitPersist(t)
      PROVE  revisions'[lot] = revisions[lot] \/ \E r : revisions'[lot] = Append(revisions[lot], r)
  BY <1>1 DEF CommitPersist
<1>2. CASE ~ \E t \in Thread : CommitPersist(t)
  BY <1>2 DEF Next, CheckDuplicates, CommitVersion, CommitIncoming, CalculateAndPersist,
     PersistNext, EndJob, ChooseInventories, StampLock, CommitLock, vars
<1>3. QED
  BY <1>1, <1>2

LEMMA LockedCycleStays == CycleInv /\ [Next]_vars /\ cycle.status = "LOCKED" => cycle' = cycle
BY DEF CycleInv, Next, CheckDuplicates, CommitVersion, CommitIncoming, CalculateAndPersist,
   PersistNext, CommitPersist, EndJob, ChooseInventories, StampLock, CommitLock, vars

\* A row appended late is no candidate of a locked cycle.
LEMMA CandidatesStay ==
    ASSUME Stable, CycleInv, cycle.status = "LOCKED", cycle' = cycle,
           NEW lot, LotInv(lot), NEW r,
           revisions'[lot] = revisions[lot] \/ revisions'[lot] = Append(revisions[lot], r),
           \A i \in DOMAIN revisions'[lot] \ DOMAIN revisions[lot] : revisions'[lot][i].late
    PROVE  Candidates(lot)' = Candidates(lot)
<1> DEFINE n == Len(revisions[lot])
           Is(x) == x.sources # {} /\ x.sources \subseteq Eligible /\ ~x.late
<1>1. Eligible' = Eligible
  <2>1. \A k \in cycle.bound : versions'[k] = versions[k]
    BY InventoriesAreStable DEF CycleInv
  <2>2. QED
    BY <2>1 DEF Eligible
<1>2. Candidates(lot) = {x \in {revisions[lot][i] : i \in DOMAIN revisions[lot]} : Is(x)}
  BY DEF Candidates, InTime
<1>3. Candidates(lot)' = {x \in {revisions'[lot][i] : i \in DOMAIN revisions'[lot]} : Is(x)}
  BY <1>1 DEF Candidates, InTime
<1> HIDE DEF Is
<1>4. CASE revisions'[lot] = revisions[lot]
  BY <1>2, <1>3, <1>4
<1>5. CASE revisions'[lot] = Append(revisions[lot], r)
  <2>1. PICK S : revisions[lot] \in Seq(S)
    BY DEF LotInv
  <2>2. n \in Nat /\ DOMAIN revisions[lot] = 1 .. n
    BY <2>1, LenProperties
  <2>3. revisions[lot] \in Seq(S \cup {r})
    BY <2>1, SeqMonotonic
  <2>4. /\ revisions'[lot] \in Seq(S \cup {r})
        /\ Len(revisions'[lot]) = n + 1
        /\ \A i \in 1 .. n : revisions'[lot][i] = revisions[lot][i]
        /\ revisions'[lot][n + 1] = r
    BY <1>5, <2>3, AppendProperties
  <2>5. DOMAIN revisions'[lot] = 1 .. (n + 1)
    BY <2>4, LenProperties
  <2> HIDE DEF n
  <2>6. n + 1 \in DOMAIN revisions'[lot] \ DOMAIN revisions[lot]
    BY <2>2, <2>5
  <2>7. ~Is(revisions'[lot][n + 1])
    BY <2>6 DEF Is
  <2>8. 1 .. (n + 1) = (1 .. n) \cup {n + 1}
    BY <2>2
  <2>9. \A i \in DOMAIN revisions'[lot] :
          Is(revisions'[lot][i]) => i \in 1 .. n /\ revisions'[lot][i] = revisions[lot][i]
    BY <2>4, <2>5, <2>7, <2>8
  <2>10. \A i \in DOMAIN revisions[lot] :
          i \in DOMAIN revisions'[lot] /\ revisions'[lot][i] = revisions[lot][i]
    BY <2>2, <2>4, <2>5, <2>8
  <2>11. QED
    BY <1>2, <1>3, <2>2, <2>9, <2>10
<1>6. QED
  BY <1>4, <1>5

\* LockedLotsAreFrozen: what the page says of the lots of a locked cycle changes
\* only when a result stamped before the lock is committed after it: versions
\* the cycle is bound to never change, and results stamped later are left out.
THEOREM LockedStayFrozen == Spec => LockedLotsAreFrozen
<1>1. ASSUME IInv, [Next]_vars, cycle.status = "LOCKED", NEW lot \in Lot,
             \A i \in DOMAIN revisions'[lot] \ DOMAIN revisions[lot] : revisions'[lot][i].late
      PROVE  Details'[lot] = Details[lot]
  <2>1. Stable /\ CycleInv /\ LotInv(lot) /\ cycle' = cycle
    BY <1>1, VersionsAreStable, LockedCycleStays DEF IInv, PersistInv
  <2>2. DOMAIN revisions = Lot
    BY <1>1 DEF IInv, PersistInv
  <2>3. PICK r : revisions'[lot] = revisions[lot] \/ revisions'[lot] = Append(revisions[lot], r)
    BY <1>1, <2>2, RevisionsGrow
  <2>4. Candidates(lot)' = Candidates(lot)
    BY <1>1, <2>1, <2>3, CandidatesStay
  <2>5. \A k \in cycle.bound : versions'[k] = versions[k]
    BY <2>1, InventoriesAreStable DEF CycleInv
  <2>6. Baseline' = Baseline /\ Baseline \subseteq cycle.bound
    BY <2>1, <2>5 DEF Baseline
  <2>7. {Remaining(versions'[k], lot[1]) : k \in Baseline'}
        = {Remaining(versions[k], lot[1]) : k \in Baseline}
    BY <2>5, <2>6
  <2>8. Details[lot] = [line |-> LotLine(Candidates(lot)),
                        left |-> {Remaining(versions[k], lot[1]) : k \in Baseline}]
    BY DEF Details
  <2>9. Details'[lot] = [line |-> LotLine(Candidates(lot)'),
                         left |-> {Remaining(versions'[k], lot[1]) : k \in Baseline'}]
    BY DEF Details
  <2>10. QED
    BY <2>4, <2>7, <2>8, <2>9
<1>2. IInv /\ [Next]_vars =>
        (cycle.status = "LOCKED" =>
            \A lot \in Lot :
               Details'[lot] # Details[lot] =>
                   \E i \in DOMAIN revisions'[lot] \ DOMAIN revisions[lot] :
                       ~revisions'[lot][i].late)
  BY <1>1
<1>3. QED
  BY <1>2, DataInvariance, PTL DEF Spec, LockedLotsAreFrozen
=============================================================================
