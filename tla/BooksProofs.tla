----------------------------- MODULE BooksProofs -----------------------------
(***************************************************************************)
(* What the reports add up to, that an expense is as it was asked for, and *)
(* that an edit of a client takes no payment back: for any invoices,       *)
(* payments, expenses, clients and requests.                               *)
(*                                                                         *)
(* The reports.  A sum is taken over a set in an order that CHOOSE picks,  *)
(* so the first lemmas say what does not depend on it: a sum over rows is  *)
(* the sum of a column, which is a function, and the sum of a function     *)
(* splits with its set, adds up with other functions, and collects by      *)
(* kind.  They are proved by taking the least set for which one fails.     *)
(* The invariant BooksAre says how the columns of a row are related as     *)
(* long as nobody did what spoils them, and that an invoice is paid what   *)
(* its payments come to.  Each report is then a matter of which rows it    *)
(* takes.                                                                  *)
(*                                                                         *)
(* The pages.  Periods of one length follow one another, so a date falls   *)
(* into one of them, and into the one before too when both its ends count: *)
(* what a page shows by day, month, status, bucket or client is a sum by   *)
(* kind.  A row alone in its moment comes after what is newer, in any      *)
(* order of the list, and so is always on the same page of it.             *)
(*                                                                         *)
(* The expenses.  The invariant ExpensesAre says that an expense to which  *)
(* no edit gave anything back is as it was last asked for, and that its    *)
(* count, with what all requests are still to count, is the number of its  *)
(* attachments: what a step counts is no longer owed.  The months of a trend are taken one at a time: a month   *)
(* more shares with the others what is dated at the turn to it.            *)
(*                                                                         *)
(* The clients.  What an edit stores again is old, so the invariant says   *)
(* how old it may be: an invoice it holds and that is gone was deleted by  *)
(* somebody who found it held, and a payment it holds is where it was or   *)
(* went with a deletion of its invoice.  Two edits that hold a payment     *)
(* hold the same, for its id is never spent again.                         *)
(***************************************************************************)
EXTENDS MCBooks, FiniteSetTheorems, SequenceTheorems, WellFoundedInduction, TLAPS

-----------------------------------------------------------------------------
(* Sums over finite sets *)
LEMMA LeastNumber ==
  ASSUME NEW X, X \subseteq Nat, X # {}
  PROVE  \E x \in X : \A y \in X : x <= y
<1>1. PICK less : less = OpToRel(<, Nat)
  OBVIOUS
<1>2. IsWellFoundedOn(less, Nat)
  BY <1>1, NatLessThanWellFounded
<1>3. PICK x \in X : \A y \in X : ~(<<y, x>> \in less)
  BY <1>2, WFMin
<1>4. \A y \in X : y < x => <<y, x>> \in less
  BY <1>1 DEF OpToRel
<1>5. \A y \in X : ~(y < x)
  BY <1>3, <1>4, Zenon
<1>6. \A y, z \in Nat : ~(z < y) => y <= z
  OBVIOUS
<1> QED BY <1>5, <1>6, Zenon

LEMMA LeastSubset ==
  ASSUME NEW S, IsFiniteSet(S), NEW X, X \subseteq SUBSET S, X # {}
  PROVE  \E T \in X : \A x \in T : T \ {x} \notin X
<1>1. PICK N : N = {n \in Nat : \E T \in X : Cardinality(T) = n}
  OBVIOUS
<1>2. \A T \in X : IsFiniteSet(T) /\ Cardinality(T) \in Nat
  BY FS_Subset, FS_CardinalityType
<1>3. N # {} /\ N \subseteq Nat
  BY <1>1, <1>2
<1>4. PICK n \in N : \A m \in N : n <= m
  BY <1>3, LeastNumber
<1>5. PICK T \in X : Cardinality(T) = n
  BY <1>1, <1>4
<1>6. ASSUME NEW x \in T, T \ {x} \in X PROVE FALSE
  <2>1. Cardinality(T \ {x}) = Cardinality(T) - 1
    BY <1>2, FS_RemoveElement
  <2>2. Cardinality(T \ {x}) \in N
    BY <1>1, <1>2, <1>6
  <2> QED BY <1>3, <1>4, <1>5, <2>1, <2>2
<1> QED BY <1>6

(* A set of subsets that grows element by element has the whole set *)
Grows(G, S) == {} \in G /\ \A T \in SUBSET S : \A x \in T : T \ {x} \in G => T \in G

LEMMA SetGrows ==
  ASSUME NEW S, IsFiniteSet(S), NEW G, Grows(G, S)
  PROVE  S \in G
<1>1. SUFFICES ASSUME S \notin G PROVE FALSE
  OBVIOUS
<1>2. PICK X : X = {T \in SUBSET S : T \notin G}
  OBVIOUS
<1>3. PICK T \in X : \A x \in T : T \ {x} \notin X
  BY <1>1, <1>2, LeastSubset
<1>4. \A x \in T : T \ {x} \in G
  BY <1>2, <1>3
<1>5. T # {}
  BY <1>2 DEF Grows
<1> QED BY <1>2, <1>4, <1>5 DEF Grows

Pick(T) == CHOOSE x \in T : TRUE

Summable(S, f) == IsFiniteSet(S) /\ \A x \in S : f[x] \in Int

(* What the sum is defined by *)
Adds(g, S, f) == g = [T \in SUBSET S |-> IF T = {} THEN 0 ELSE f[Pick(T)] + g[T \ {Pick(T)}]]

LEMMA PickIs == ASSUME NEW T, T # {} PROVE Pick(T) \in T
BY DEF Pick

LEMMA AddsExists ==
  ASSUME NEW S, NEW f, Summable(S, f)
  PROVE  \E g \in [SUBSET S -> Int] : Adds(g, S, f)
<1> USE DEF Summable
<1> DEFINE Good(g, n) ==
             \A T \in SUBSET S : Cardinality(T) <= n =>
               g[T] = IF T = {} THEN 0 ELSE f[Pick(T)] + g[T \ {Pick(T)}]
<1>1. \A T \in SUBSET S : IsFiniteSet(T) /\ Cardinality(T) \in Nat /\ (Cardinality(T) = 0 => T = {})
  BY FS_Subset, FS_CardinalityType, FS_EmptySet
<1>2. ASSUME NEW T \in SUBSET S, T # {}
      PROVE  /\ Pick(T) \in T /\ T \ {Pick(T)} \in SUBSET S /\ f[Pick(T)] \in Int
             /\ Cardinality(T \ {Pick(T)}) = Cardinality(T) - 1
  <2>1. Pick(T) \in T
    BY <1>2, PickIs
  <2>2. Cardinality(T \ {Pick(T)}) = Cardinality(T) - 1
    BY <1>1, <2>1, FS_RemoveElement
  <2> QED BY <2>1, <2>2
<1>3. PICK X : X = {n \in Nat : ~(\E g \in [SUBSET S -> Int] : Good(g, n))}
  OBVIOUS
<1>4. X = {}
  <2>1. SUFFICES ASSUME X # {} PROVE FALSE
    OBVIOUS
  <2>2. PICK n \in X : \A m \in X : n <= m
    BY <1>3, <2>1, LeastNumber
  <2>3. n \in Nat /\ ~(\E g \in [SUBSET S -> Int] : Good(g, n))
    BY <1>3, <2>2
  <2>4. n # 0
    <3>1. ASSUME n = 0 PROVE FALSE
      <4>1. PICK g : g = [T \in SUBSET S |-> 0]
        OBVIOUS
      <4>2. g \in [SUBSET S -> Int]
        BY <4>1
      <4>3. ASSUME NEW T \in SUBSET S, Cardinality(T) <= n PROVE T = {} /\ g[T] = 0
        BY <1>1, <3>1, <4>1, <4>3
      <4>4. Good(g, n)
        BY <4>3
      <4> QED BY <2>3, <4>2, <4>4
    <3> QED BY <3>1
  <2>5. n - 1 \in Nat /\ n - 1 \notin X
    BY <2>2, <2>3, <2>4
  <2>6. PICK g \in [SUBSET S -> Int] : Good(g, n - 1)
    BY <1>3, <2>5
  <2>7. PICK h : h = [T \in SUBSET S |-> IF Cardinality(T) <= n - 1 THEN g[T]
                                         ELSE IF T = {} THEN 0 ELSE f[Pick(T)] + g[T \ {Pick(T)}]]
    OBVIOUS
  <2>8. h \in [SUBSET S -> Int]
    <3>1. \A T \in SUBSET S : T # {} => f[Pick(T)] \in Int /\ g[T \ {Pick(T)}] \in Int
      BY <1>2
    <3> QED BY <2>7, <3>1
  <2>9. ASSUME NEW T \in SUBSET S, Cardinality(T) <= n
        PROVE  h[T] = IF T = {} THEN 0 ELSE f[Pick(T)] + h[T \ {Pick(T)}]
    <3>1. h[T] = IF T = {} THEN 0 ELSE f[Pick(T)] + g[T \ {Pick(T)}]
      BY <2>6, <2>7
    <3>2. CASE T = {}
      BY <3>1, <3>2
    <3>3. CASE T # {}
      <4>1. Cardinality(T \ {Pick(T)}) <= n - 1 /\ T \ {Pick(T)} \in SUBSET S
        BY <1>1, <1>2, <2>3, <2>9, <3>3
      <4>2. h[T \ {Pick(T)}] = g[T \ {Pick(T)}]
        BY <2>7, <4>1
      <4> QED BY <3>1, <3>3, <4>2
    <3> QED BY <3>2, <3>3
  <2>10. Good(h, n)
    BY <2>9
  <2> QED BY <2>3, <2>8, <2>10
<1>5. Cardinality(S) \in Nat /\ \A T \in SUBSET S : Cardinality(T) <= Cardinality(S)
  BY FS_Subset, FS_CardinalityType
<1>6. PICK g \in [SUBSET S -> Int] : Good(g, Cardinality(S))
  BY <1>3, <1>4, <1>5
<1>7. \A T \in SUBSET S : g[T] = IF T = {} THEN 0 ELSE f[Pick(T)] + g[T \ {Pick(T)}]
  BY <1>5, <1>6
<1>8. g = [T \in SUBSET S |-> g[T]]
  OBVIOUS
<1>9. Adds(g, S, f)
  BY <1>7, <1>8 DEF Adds
<1> QED BY <1>9

LEMMA AddsAlike ==
  ASSUME NEW S, NEW U, NEW f, NEW w, NEW g, NEW h, Adds(g, S, f), Adds(h, U, w),
         NEW T, T \subseteq S, T \subseteq U, IsFiniteSet(T), \A x \in T : f[x] = w[x]
  PROVE  g[T] = h[T]
<1>1. SUFFICES ASSUME g[T] # h[T] PROVE FALSE
  OBVIOUS
<1>2. PICK X : X = {R \in SUBSET T : g[R] # h[R]}
  OBVIOUS
<1>3. PICK R \in X : \A x \in R : R \ {x} \notin X
  BY <1>1, <1>2, LeastSubset
<1>4. R \in SUBSET S /\ R \in SUBSET U /\ R \in SUBSET T /\ g[R] # h[R]
  BY <1>2, <1>3
<1>5. /\ g[R] = IF R = {} THEN 0 ELSE f[Pick(R)] + g[R \ {Pick(R)}]
      /\ h[R] = IF R = {} THEN 0 ELSE w[Pick(R)] + h[R \ {Pick(R)}]
  BY <1>4 DEF Adds
<1>6. R # {}
  BY <1>4, <1>5
<1>7. Pick(R) \in R
  BY <1>6, PickIs
<1>8. g[R \ {Pick(R)}] = h[R \ {Pick(R)}]
  BY <1>2, <1>3, <1>4, <1>7
<1> QED BY <1>4, <1>5, <1>6, <1>7, <1>8

(* The sum of f over T *)
Part(f, T) == SumOf([x \in T |-> f[x]])

LEMMA PartIs ==
  ASSUME NEW S, NEW f, Summable(S, f),
         NEW g, Adds(g, S, f), NEW T \in SUBSET S
  PROVE  Part(f, T) = g[T]
<1>1. PICK F : F = [x \in T |-> f[x]]
  OBVIOUS
<1>2. IsFiniteSet(T) /\ (\A x \in T : F[x] = f[x] /\ F[x] \in Int) /\ DOMAIN F = T
  BY <1>1, FS_Subset DEF Summable
<1>3. PICK k : k = CHOOSE i : Adds(i, T, F)
  OBVIOUS
<1>4. Adds(k, T, F)
  <2>1. Summable(T, F)
    BY <1>2 DEF Summable
  <2> QED BY <1>3, <2>1, AddsExists, Zenon
<1>5. k[T] = g[T]
  BY <1>2, <1>4, AddsAlike
<1>6. SumOf(F) = k[T]
  BY <1>2, <1>3 DEF SumOf, MapThenSumSet, MapThenFoldSet, Adds, Pick
<1> QED BY <1>1, <1>5, <1>6 DEF Part

AddsAny(g, S, f) == \A T \in SUBSET S : \A x \in T : g[T] = f[x] + g[T \ {x}]

LEMMA AddsOne ==
  ASSUME NEW S, NEW f, Summable(S, f),
         NEW g \in [SUBSET S -> Int], Adds(g, S, f)
  PROVE  AddsAny(g, S, f)
<1> USE DEF Summable
<1>1. SUFFICES ASSUME NEW T \in SUBSET S, NEW x \in T, g[T] # f[x] + g[T \ {x}] PROVE FALSE
  BY Zenon DEF AddsAny
<1>2. PICK X : X = {R \in SUBSET S : \E y \in R : g[R] # f[y] + g[R \ {y}]}
  OBVIOUS
<1>3. PICK R \in X : \A y \in R : R \ {y} \notin X
  BY <1>1, <1>2, LeastSubset
<1>4. PICK y \in R : g[R] # f[y] + g[R \ {y}]
  BY <1>2, <1>3
<1>5. R \in SUBSET S /\ R # {}
  BY <1>2, <1>3, <1>4
<1>6. PICK c : c = Pick(R)
  OBVIOUS
<1>7. c \in R /\ g[R] = f[c] + g[R \ {c}]
  BY <1>5, <1>6, PickIs DEF Adds
<1>8. c # y
  BY <1>4, <1>7
<1>9. PICK A, B, D : A = R \ {c} /\ B = R \ {y} /\ D = (R \ {c}) \ {y}
  OBVIOUS
<1>10. A \in SUBSET S /\ B \in SUBSET S /\ D = A \ {y} /\ D = B \ {c} /\ y \in A /\ c \in B
       /\ D \in SUBSET S
  BY <1>5, <1>7, <1>8, <1>9
<1>11. g[A] = f[y] + g[D] /\ g[B] = f[c] + g[D]
  <2>1. A \notin X /\ B \notin X
    BY <1>3, <1>4, <1>7, <1>9
  <2>2. \A U \in SUBSET S : U \notin X => \A z \in U : g[U] = f[z] + g[U \ {z}]
    BY <1>2
  <2> QED BY <1>10, <2>1, <2>2
<1>12. f[y] \in Int /\ f[c] \in Int /\ g[D] \in Int
  BY <1>4, <1>5, <1>7, <1>10
<1>13. g[R] = f[c] + (f[y] + g[D])
  BY <1>7, <1>9, <1>11
<1>14. g[R] # f[y] + (f[c] + g[D])
  BY <1>4, <1>9, <1>11
<1>15. \A a, b, d \in Int : a + (b + d) = b + (a + d)
  OBVIOUS
<1> QED BY <1>12, <1>13, <1>14, <1>15

LEMMA PartTakes ==
  ASSUME NEW S, NEW f, Summable(S, f)
  PROVE  /\ Part(f, S) \in Int /\ Part(f, {}) = 0
         /\ \A x \in S : Part(f, S) = f[x] + Part(f, S \ {x})
<1>1. PICK g \in [SUBSET S -> Int] : Adds(g, S, f)
  BY AddsExists
<1>2. \A T \in SUBSET S : Part(f, T) = g[T]
  BY <1>1, PartIs
<1>3. g[{}] = 0
  BY <1>1 DEF Adds
<1>4. AddsAny(g, S, f)
  BY <1>1, AddsOne
<1>5. \A x \in S : g[S] = f[x] + g[S \ {x}] /\ S \ {x} \in SUBSET S
  BY <1>4 DEF AddsAny
<1> QED BY <1>1, <1>2, <1>3, <1>5

LEMMA PartAlike ==
  ASSUME NEW S, NEW f, NEW w, \A x \in S : f[x] = w[x]
  PROVE  Part(f, S) = Part(w, S)
<1>1. PICK F : F = [x \in S |-> f[x]]
  BY Zenon
<1>4. PICK W : W = [x \in S |-> w[x]]
  BY Zenon
<1>2. F = W
  BY <1>1, <1>4
<1>3. Part(f, S) = SumOf(F) /\ Part(w, S) = SumOf(W)
  BY <1>1, <1>4 DEF Part
<1> QED BY <1>2, <1>3

LEMMA SubsetsSum ==
  ASSUME NEW S, NEW f, Summable(S, f), NEW T, T \subseteq S
  PROVE  Summable(T, f)
BY FS_Subset DEF Summable

Grown(f, T, x) ==
  /\ Part(f, T) = f[x] + Part(f, T \ {x}) /\ f[x] \in Int
  /\ Part(f, T) \in Int /\ Part(f, T \ {x}) \in Int

LEMMA GrowsOn ==
  ASSUME NEW S, NEW f, Summable(S, f), NEW T \in SUBSET S, NEW x \in T
  PROVE  Grown(f, T, x)
<1>1. Summable(T, f) /\ Summable(T \ {x}, f)
  BY SubsetsSum
<1>2. f[x] \in Int
  BY <1>1 DEF Summable
<1> QED BY <1>1, <1>2, PartTakes DEF Grown

LEMMA PartNothing ==
  ASSUME NEW S, IsFiniteSet(S), NEW f, \A x \in S : f[x] = 0
  PROVE  Part(f, S) = 0
<1>1. PICK G : G = {T \in SUBSET S : Part(f, T) = 0}
  OBVIOUS
<1>2. Summable(S, f)
  BY DEF Summable
<1>3. {} \in G
  BY <1>1, <1>2, PartTakes
<1>4. ASSUME NEW T \in SUBSET S, NEW x \in T, T \ {x} \in G PROVE T \in G
  <2>1. Part(f, T) = f[x] + Part(f, T \ {x})
    BY <1>2, GrowsOn DEF Grown
  <2> QED BY <1>1, <1>4, <2>1
<1>5. Grows(G, S)
  BY <1>3, <1>4 DEF Grows
<1> QED BY <1>1, <1>5, SetGrows

LEMMA PartSplits ==
  ASSUME NEW S, NEW f, Summable(S, f), NEW A, NEW B, S = A \cup B, A \cap B = {}
  PROVE  Part(f, S) = Part(f, A) + Part(f, B) /\ Part(f, A) \in Int /\ Part(f, B) \in Int
<1>1. PICK G : G = {T \in SUBSET S : Part(f, T) = Part(f, T \cap A) + Part(f, T \cap B)}
  OBVIOUS
<1>2. Part(f, {}) = 0
  BY PartTakes
<1>3. {} \in G
  <2>1. {} \cap A = {} /\ {} \cap B = {}
    OBVIOUS
  <2> QED BY <1>1, <1>2, <2>1
<1>4. ASSUME NEW T \in SUBSET S, NEW x \in T, T \ {x} \in G PROVE T \in G
  <2>1. PICK t, a, b : t = T \ {x} /\ a = t \cap A /\ b = t \cap B
    OBVIOUS
  <2>2. PICK c, d : c = T \cap A /\ d = T \cap B
    OBVIOUS
  <2>3. c \in SUBSET S /\ d \in SUBSET S /\ a \in SUBSET S /\ b \in SUBSET S
    BY <2>1, <2>2
  <2>4. Part(f, T) = f[x] + Part(f, t) /\ Part(f, t) = Part(f, a) + Part(f, b) /\ f[x] \in Int
    <3>1. Grown(f, T, x)
      BY GrowsOn
    <3> QED BY <1>1, <1>4, <2>1, <3>1 DEF Grown
  <2>5. Part(f, a) \in Int /\ Part(f, b) \in Int
    BY <2>3, SubsetsSum, PartTakes
  <2>6. CASE x \in A
    <3>1. a = c \ {x} /\ b = d /\ x \in c
      BY <2>1, <2>2, <2>6
    <3>2. Part(f, c) = f[x] + Part(f, a)
      BY <2>3, <3>1, GrowsOn DEF Grown
    <3>3. Part(f, T) = Part(f, c) + Part(f, d)
      BY <2>4, <2>5, <3>1, <3>2
    <3> QED BY <1>1, <2>2, <3>3
  <2>7. CASE x \in B
    <3>1. b = d \ {x} /\ a = c /\ x \in d
      BY <2>1, <2>2, <2>7
    <3>2. Part(f, d) = f[x] + Part(f, b)
      BY <2>3, <3>1, GrowsOn DEF Grown
    <3>3. Part(f, T) = Part(f, c) + Part(f, d)
      BY <2>4, <2>5, <3>1, <3>2
    <3> QED BY <1>1, <2>2, <3>3
  <2> QED BY <2>6, <2>7
<1>5. Grows(G, S)
  BY <1>3, <1>4 DEF Grows
<1>6. S \in G
  BY <1>5, SetGrows DEF Summable
<1>7. S \cap A = A /\ S \cap B = B
  OBVIOUS
<1>8. Part(f, A) \in Int /\ Part(f, B) \in Int
  BY SubsetsSum, PartTakes
<1> QED BY <1>1, <1>6, <1>7, <1>8

LEMMA PartAdds ==
  ASSUME NEW S, NEW f, NEW w, Summable(S, f), Summable(S, w), NEW h, \A x \in S : h[x] = f[x] + w[x]
  PROVE  Part(h, S) = Part(f, S) + Part(w, S)
<1>1. PICK G : G = {T \in SUBSET S : Part(h, T) = Part(f, T) + Part(w, T)}
  OBVIOUS
<1>2. Summable(S, h)
  BY DEF Summable
<1>3. {} \in G
  BY <1>1, <1>2, PartTakes
<1>4. ASSUME NEW T \in SUBSET S, NEW x \in T, T \ {x} \in G PROVE T \in G
  <2>1. PICK t : t = T \ {x}
    OBVIOUS
  <2>2. Grown(f, T, x) /\ Grown(w, T, x)
    BY GrowsOn
  <2>3. Grown(h, T, x)
    BY <1>2, GrowsOn
  <2>4. Part(h, t) = Part(f, t) + Part(w, t) /\ h[x] = f[x] + w[x]
    BY <1>1, <1>4, <2>1
  <2>5. Part(h, T) = Part(f, T) + Part(w, T)
    BY <2>1, <2>2, <2>3, <2>4 DEF Grown
  <2> QED BY <1>1, <2>5
<1>5. Grows(G, S)
  BY <1>3, <1>4 DEF Grows
<1> QED BY <1>1, <1>5, SetGrows DEF Summable

(* In shillings or in cents *)
LEMMA PartInCents ==
  ASSUME NEW S, NEW f, NEW w, Summable(S, w), \A x \in S : f[x] = 100 * w[x]
  PROVE  Part(f, S) = 100 * Part(w, S) /\ Part(w, S) \in Int
<1>1. PICK G : G = {T \in SUBSET S : Part(f, T) = 100 * Part(w, T)}
  OBVIOUS
<1>2. Summable(S, f)
  BY DEF Summable
<1>3. {} \in G
  BY <1>1, <1>2, PartTakes
<1>4. ASSUME NEW T \in SUBSET S, NEW x \in T, T \ {x} \in G PROVE T \in G
  <2>1. PICK t : t = T \ {x}
    OBVIOUS
  <2>2. Grown(w, T, x)
    BY GrowsOn
  <2>3. Grown(f, T, x)
    BY <1>2, GrowsOn
  <2>4. Part(f, t) = 100 * Part(w, t) /\ f[x] = 100 * w[x]
    BY <1>1, <1>4, <2>1
  <2>5. Part(f, T) = 100 * Part(w, T)
    BY <2>1, <2>2, <2>3, <2>4 DEF Grown
  <2> QED BY <1>1, <2>5
<1>5. Grows(G, S)
  BY <1>3, <1>4 DEF Grows
<1>6. Part(w, S) \in Int
  BY PartTakes
<1> QED BY <1>1, <1>5, <1>6, SetGrows DEF Summable

(* The sums of parts that h has by kind *)
Kinds(S, f, k, K, h) ==
  /\ IsFiniteSet(K)
  /\ \A x \in S : k[x] \in K
  /\ \A c \in K : h[c] = Part(f, {x \in S : k[x] = c})

LEMMA PartByKind ==
  ASSUME NEW S, NEW f, Summable(S, f), NEW k, NEW K, NEW h, Kinds(S, f, k, K, h)
  PROVE  Part(h, K) = Part(f, S)
<1>0. \A T \in SUBSET S : Summable(T, f) /\ Part(f, T) \in Int
  BY SubsetsSum, PartTakes
<1>1. Summable(K, h)
  BY <1>0 DEF Kinds, Summable
<1>2. PICK G : G = {U \in SUBSET K : Part(h, U) = Part(f, {x \in S : k[x] \in U})}
  OBVIOUS
<1>3. {} \in G
  <2>1. {x \in S : k[x] \in {}} = {}
    OBVIOUS
  <2>2. Part(f, {}) = 0 /\ Part(h, {}) = 0
    BY <1>1, PartTakes
  <2> QED BY <1>2, <2>1, <2>2
<1>4. ASSUME NEW U \in SUBSET K, NEW c \in U, U \ {c} \in G PROVE U \in G
  <2>1. PICK A, B, D : /\ A = {x \in S : k[x] \in U}
                       /\ B = {x \in S : k[x] \in U \ {c}}
                       /\ D = {x \in S : k[x] = c}
    OBVIOUS
  <2>2. A \in SUBSET S /\ A = D \cup B /\ D \cap B = {}
    BY <1>4, <2>1
  <2>3. Part(f, A) = Part(f, D) + Part(f, B)
    <3>1. Summable(A, f)
      BY <1>0, <2>2
    <3> QED BY <2>2, <3>1, PartSplits
  <2>4. h[c] = Part(f, D)
    BY <1>4, <2>1 DEF Kinds
  <2>5. Part(h, U) = h[c] + Part(h, U \ {c})
    BY <1>1, GrowsOn DEF Grown
  <2>6. Part(h, U \ {c}) = Part(f, B)
    BY <1>2, <1>4, <2>1
  <2>7. Part(h, U) = Part(f, A)
    BY <2>3, <2>4, <2>5, <2>6
  <2> QED BY <1>2, <2>1, <2>7
<1>5. Grows(G, K)
  BY <1>3, <1>4 DEF Grows
<1>6. {x \in S : k[x] \in K} = S
  BY DEF Kinds
<1>7. K \in G
  BY <1>5, SetGrows DEF Kinds
<1> QED BY <1>2, <1>6, <1>7

-----------------------------------------------------------------------------
(* The columns *)
Billed   == [i \in Invoices |-> inv[i].total]
Credited == [i \in Invoices |-> inv[i].paid]
Left     == [i \in Invoices |-> inv[i].balance]
Gets(rows) == [p \in Payments |-> rows[p].amount]

(* What a sum over a column is defined by *)
TotalAdds(g, S)  == g = [T \in SUBSET S |-> IF T = {} THEN 0 ELSE inv[Pick(T)].total + g[T \ {Pick(T)}]]
PaidAdds(g, S)   == g = [T \in SUBSET S |-> IF T = {} THEN 0 ELSE inv[Pick(T)].paid + g[T \ {Pick(T)}]]
LeftAdds(g, S)   == g = [T \in SUBSET S |-> IF T = {} THEN 0 ELSE inv[Pick(T)].balance + g[T \ {Pick(T)}]]
AmountAdds(g, S) == g = [T \in SUBSET S |-> IF T = {} THEN 0 ELSE pay[Pick(T)].amount + g[T \ {Pick(T)}]]

LEMMA TotalIs ==
  ASSUME NEW S, S \subseteq Invoices, Summable(S, Billed)
  PROVE  TotalOf(S) = Part(Billed, S)
<1>1. \A g : TotalAdds(g, S) <=> Adds(g, S, Billed)
  <2>1. \A T \in SUBSET S : T # {} => Billed[Pick(T)] = inv[Pick(T)].total
    BY PickIs DEF Billed
  <2> QED BY <2>1 DEF TotalAdds, Adds
<1>2. PICK k : k = CHOOSE g : TotalAdds(g, S)
  OBVIOUS
<1>3. Adds(k, S, Billed)
  BY <1>1, <1>2, AddsExists, Zenon
<1>4. TotalOf(S) = k[S]
  BY <1>2 DEF TotalOf, MapThenSumSet, MapThenFoldSet, TotalAdds, Pick
<1> QED BY <1>3, <1>4, PartIs

LEMMA PaidIs ==
  ASSUME NEW S, S \subseteq Invoices, Summable(S, Credited)
  PROVE  PaidOf(S) = Part(Credited, S)
<1>1. \A g : PaidAdds(g, S) <=> Adds(g, S, Credited)
  <2>1. \A T \in SUBSET S : T # {} => Credited[Pick(T)] = inv[Pick(T)].paid
    BY PickIs DEF Credited
  <2> QED BY <2>1 DEF PaidAdds, Adds
<1>2. PICK k : k = CHOOSE g : PaidAdds(g, S)
  OBVIOUS
<1>3. Adds(k, S, Credited)
  BY <1>1, <1>2, AddsExists, Zenon
<1>4. PaidOf(S) = k[S]
  BY <1>2 DEF PaidOf, MapThenSumSet, MapThenFoldSet, PaidAdds, Pick
<1> QED BY <1>3, <1>4, PartIs

LEMMA LeftIs ==
  ASSUME NEW S, S \subseteq Invoices, Summable(S, Left)
  PROVE  Balance(S) = Part(Left, S)
<1>1. \A g : LeftAdds(g, S) <=> Adds(g, S, Left)
  <2>1. \A T \in SUBSET S : T # {} => Left[Pick(T)] = inv[Pick(T)].balance
    BY PickIs DEF Left
  <2> QED BY <2>1 DEF LeftAdds, Adds
<1>2. PICK k : k = CHOOSE g : LeftAdds(g, S)
  OBVIOUS
<1>3. Adds(k, S, Left)
  BY <1>1, <1>2, AddsExists, Zenon
<1>4. Balance(S) = k[S]
  BY <1>2 DEF Balance, MapThenSumSet, MapThenFoldSet, LeftAdds, Pick
<1> QED BY <1>3, <1>4, PartIs

LEMMA AmountIs ==
  ASSUME NEW S, S \subseteq Payments, Summable(S, Gets(pay))
  PROVE  AmountOf(S) = Part(Gets(pay), S)
<1>0. PICK f : f = Gets(pay)
  OBVIOUS
<1>1. \A g : AmountAdds(g, S) <=> Adds(g, S, f)
  <2>1. \A T \in SUBSET S : T # {} => f[Pick(T)] = pay[Pick(T)].amount
    BY <1>0, PickIs DEF Gets
  <2> QED BY <2>1 DEF AmountAdds, Adds
<1>2. PICK k : k = CHOOSE g : AmountAdds(g, S)
  OBVIOUS
<1>3. Adds(k, S, f)
  BY <1>0, <1>1, <1>2, AddsExists, Zenon
<1>4. AmountOf(S) = k[S]
  BY <1>2 DEF AmountOf, MapThenSumSet, MapThenFoldSet, AmountAdds, Pick
<1> QED BY <1>0, <1>3, <1>4, PartIs
-----------------------------------------------------------------------------
(* The invariant.  A row keeps what it was said to be as long as nobody did *)
(* what spoils it, deeds being what has been done.                         *)
Clear(deeds, spoils) == deeds \cap spoils = {}

(* Whole shillings, in cents *)
Whole(n) == n \in Int /\ n % 100 = 0

Sound(row, deeds, t) ==
  /\ row \in InvoiceRows
  /\ Whole(row.total) /\ Whole(row.paid)
  /\ row.created \in Start..t
  /\ row.paidAt # Never => row.paidAt \in Start..t /\ row.created <= row.paidAt
  /\ Clear(deeds, {"edited", "matched"}) /\ row.paidAt # Never =>
       row.status = "paid" /\ row.paid = row.total
  /\ Clear(deeds, {"edited", "matched", "noted"}) =>
       row.balance = row.total - row.paid /\ row.balance >= 0 /\ row.status # "credit_note"
  /\ Clear(deeds, {"edited", "matched", "note_sent"}) =>
       /\ row.status \in {"draft", "sent", "partially_paid", "overdue"} =>
            0 <= row.paid /\ row.paid <= row.total
       /\ row.status = "credit_note" => row.paid = 0 /\ row.total <= 0
  /\ Clear(deeds, {"paid_by_hand"}) /\ row.status = "paid" => row.paidAt # Never

InvoicesAre(books, deeds, t) ==
  /\ books \in [Invoices -> InvoiceRows \cup {NoRow}]
  /\ \A i \in Invoices : books[i] # NoRow => Sound(books[i], deeds, t)

PaymentsAre(books, got, t) ==
  /\ got \in [Payments -> PaymentRows \cup {NoRow}]
  /\ \A p \in Payments : got[p] # NoRow =>
       /\ books[got[p].of] # NoRow
       /\ got[p].at \in Start..t
       /\ Whole(got[p].amount)

PaysOf(got, i) == {p \in Payments : got[p] # NoRow /\ got[p].of = i}

Received(books, got, deeds) ==
  Clear(deeds, {"overpaid", "reconciled", "emptied", "refunded", "moved"}) =>
    /\ \A p \in Payments : got[p] # NoRow => got[p].status = "completed"
    /\ \A i \in Invoices : books[i] # NoRow => books[i].paid = Part(Gets(got), PaysOf(got, i))

BooksAre ==
  /\ now \in Nat /\ Start <= now
  /\ InvoicesAre(inv, amiss, now)
  /\ PaymentsAre(inv, pay, now)
  /\ Received(inv, pay, amiss)

LEMMA WholeSums ==
  Whole(0) /\ \A a, b : Whole(a) /\ Whole(b) => Whole(a + b) /\ Whole(a - b)
BY DEF Whole

LEMMA AmountsAreWhole ==
  /\ \A total \in Totals : total \in Nat /\ Whole(total)
  /\ \A amount \in Amounts : amount \in Nat /\ Whole(amount)
BY TotalsAssumption, AmountsAssumption DEF Whole

LEMMA SoundStays ==
  ASSUME NEW row, NEW deeds, NEW t \in Nat, Sound(row, deeds, t),
         NEW more, deeds \subseteq more, NEW u \in Nat, t <= u
  PROVE  Sound(row, more, u)
<1>1. \A spoils : Clear(more, spoils) => Clear(deeds, spoils)
  BY DEF Clear
<1>2. row \in InvoiceRows /\ row.created \in Start..u /\ (row.paidAt # Never => row.paidAt \in Start..u)
  BY StartAssumption DEF Sound
<1> QED BY <1>1, <1>2 DEF Sound

LEMMA InvoicesStay ==
  ASSUME NEW deeds, NEW t \in Nat, InvoicesAre(inv, deeds, t),
         NEW more, deeds \subseteq more, NEW u \in Nat, t <= u
  PROVE  InvoicesAre(inv, more, u)
BY SoundStays DEF InvoicesAre

LEMMA InvoiceChanges ==
  ASSUME BooksAre, NEW i \in Invoices, NEW row, NEW more, amiss \subseteq more, Sound(row, more, now)
  PROVE  /\ InvoicesAre([inv EXCEPT ![i] = row], more, now)
         /\ row # NoRow
<1>1. InvoicesAre(inv, more, now)
  BY InvoicesStay DEF BooksAre
<1>2. row \in InvoiceRows /\ row # NoRow
  BY RowsAreAssumption DEF Sound
<1> QED BY <1>1, <1>2 DEF InvoicesAre

(* A request that writes a row and no payment, and leaves what is paid *)
SamePaid(i, row) == row.paid = IF inv[i] = NoRow THEN 0 ELSE inv[i].paid

LEMMA RowKeeps ==
  ASSUME BooksAre, NEW i \in Invoices, NEW row, inv' = [inv EXCEPT ![i] = row],
         amiss \subseteq amiss', Sound(row, amiss', now), UNCHANGED <<now, pay>>,
         SamePaid(i, row) \/ "reconciled" \in amiss'
  PROVE  BooksAre'
<1>1. InvoicesAre(inv', amiss', now) /\ row # NoRow
  BY InvoiceChanges
<1>2. /\ inv'[i] = row
      /\ \A j \in Invoices : j # i => inv'[j] = inv[j]
      /\ \A j \in Invoices : inv[j] # NoRow => inv'[j] # NoRow
  BY <1>1 DEF BooksAre, InvoicesAre
<1>3. PaymentsAre(inv', pay, now)
  BY <1>2 DEF BooksAre, PaymentsAre, PaymentRows
<1>4. ASSUME Clear(amiss', {"overpaid", "reconciled", "emptied", "refunded", "moved"})
      PROVE  /\ \A p \in Payments : pay[p] # NoRow => pay[p].status = "completed"
             /\ \A j \in Invoices : inv'[j] # NoRow => inv'[j].paid = Part(Gets(pay), PaysOf(pay, j))
  <2>1. Clear(amiss, {"overpaid", "reconciled", "emptied", "refunded", "moved"}) /\ SamePaid(i, row)
    BY <1>4 DEF Clear
  <2>2. /\ \A p \in Payments : pay[p] # NoRow => pay[p].status = "completed"
        /\ \A j \in Invoices : inv[j] # NoRow => inv[j].paid = Part(Gets(pay), PaysOf(pay, j))
    BY <2>1 DEF BooksAre, Received
  <2>3. row.paid = Part(Gets(pay), PaysOf(pay, i))
    <3>1. CASE inv[i] # NoRow
      BY <2>1, <2>2, <3>1 DEF SamePaid
    <3>2. CASE inv[i] = NoRow
      <4>1. PaysOf(pay, i) = {}
        BY <3>2 DEF PaysOf, BooksAre, PaymentsAre
      <4>2. Part(Gets(pay), {}) = 0
        BY FS_EmptySet, PartTakes DEF Summable
      <4> QED BY <2>1, <3>2, <4>1, <4>2 DEF SamePaid
    <3> QED BY <3>1, <3>2
  <2> QED BY <1>2, <2>2, <2>3
<1>5. Received(inv', pay, amiss')
  BY <1>4 DEF Received
<1> QED BY <1>1, <1>3, <1>5 DEF BooksAre

-----------------------------------------------------------------------------
(* The requests that write one invoice *)
LEMMA CreateInvoiceKeeps ==
  ASSUME BooksAre, NEW i \in Invoices, CreateInvoice(i), UNCHANGED now PROVE BooksAre'
<1>1. PICK total \in Totals, due \in {Zero, now + 1} :
        /\ inv[i] = NoRow
        /\ inv' = [inv EXCEPT ![i] = Invoice("draft", total, total, due)]
        /\ UNCHANGED <<pay, amiss>>
  BY DEF CreateInvoice
<1>2. PICK row : row = Invoice("draft", total, total, due)
  OBVIOUS
<1>3. Sound(row, amiss', now)
  BY <1>2, AmountsAreWhole, WholeSums, StartAssumption DEF Sound, Invoice, InvoiceRows, Never, Zero, BooksAre
<1>4. SamePaid(i, row)
  BY <1>1, <1>2 DEF SamePaid, Invoice
<1> QED BY <1>1, <1>2, <1>3, <1>4, RowKeeps

LEMMA CreateNoteKeeps ==
  ASSUME BooksAre, NEW i \in Invoices, CreateNote(i), UNCHANGED now PROVE BooksAre'
<1>1. PICK total \in Totals :
        inv' \in {[inv EXCEPT ![i] = Invoice("credit_note", 0 - total, 0, now + 1)],
                  [inv EXCEPT ![i] = Invoice("sent", total, 0, now + 1)]}
  BY DEF CreateNote
<1>2. inv[i] = NoRow /\ amiss' = amiss \cup {"noted"} /\ UNCHANGED pay
  BY DEF CreateNote
<1>3. PICK row : /\ inv' = [inv EXCEPT ![i] = row]
                 /\ \/ row = Invoice("credit_note", 0 - total, 0, now + 1)
                    \/ row = Invoice("sent", total, 0, now + 1)
  BY <1>1
<1>4. total \in Nat /\ Whole(total) /\ Whole(0 - total)
  BY AmountsAreWhole, WholeSums
<1>5. Sound(row, amiss', now)
  <2>0. now \in Nat /\ Start <= now /\ "noted" \in amiss'
    BY <1>2 DEF BooksAre
  <2>1. CASE row = Invoice("credit_note", 0 - total, 0, now + 1)
    BY <1>4, <2>0, <2>1, WholeSums, StartAssumption DEF Sound, Clear, Invoice, InvoiceRows, Never, Zero
  <2>2. CASE row = Invoice("sent", total, 0, now + 1)
    BY <1>4, <2>0, <2>2, WholeSums, StartAssumption DEF Sound, Clear, Invoice, InvoiceRows, Never, Zero
  <2> QED BY <1>3, <2>1, <2>2
<1>6. SamePaid(i, row)
  BY <1>2, <1>3 DEF SamePaid, Invoice
<1> QED BY <1>2, <1>3, <1>5, <1>6, RowKeeps

(* An invoice that is there, as it is *)
LEMMA RowIs ==
  ASSUME BooksAre, NEW i \in Rows
  PROVE  /\ i \in Invoices /\ inv[i] # NoRow /\ inv[i] \in InvoiceRows
         /\ DOMAIN inv = Invoices
         /\ Sound(inv[i], amiss, now)
BY DEF Rows, BooksAre, InvoicesAre, Sound

LEMMA SendInvoiceKeeps ==
  ASSUME BooksAre, NEW i \in Rows, SendInvoice(i), UNCHANGED now PROVE BooksAre'
<1>1. PICK row : row = [inv[i] EXCEPT !.status = "sent"]
  OBVIOUS
<1>2. inv' = [inv EXCEPT ![i] = row] /\ UNCHANGED pay
  BY <1>1 DEF SendInvoice
<1>3. /\ amiss \subseteq amiss'
      /\ inv[i].total < 0 => "note_sent" \in amiss'
      /\ inv[i].status \notin {"sent", "paid", "cancelled"}
  BY DEF SendInvoice
<1>4. Sound(inv[i], amiss', now)
  BY <1>3, RowIs, SoundStays DEF BooksAre
<1>5. Sound(row, amiss', now) /\ row.paid = inv[i].paid
  BY <1>1, <1>3, <1>4 DEF Sound, InvoiceRows, Clear, Never
<1> QED BY <1>2, <1>3, <1>5, RowIs, RowKeeps DEF SamePaid

LEMMA CancelInvoiceKeeps ==
  ASSUME BooksAre, NEW i \in Rows, CancelInvoice(i), UNCHANGED now PROVE BooksAre'
<1>1. PICK row : row = [inv[i] EXCEPT !.status = "cancelled"]
  OBVIOUS
<1>2. /\ inv' = [inv EXCEPT ![i] = row]
      /\ UNCHANGED <<pay, amiss>>
      /\ inv[i].status \in {"draft", "sent", "partially_paid", "overdue"}
  BY <1>1 DEF CancelInvoice
<1>3. Sound(row, amiss', now) /\ row.paid = inv[i].paid
  BY <1>1, <1>2, RowIs DEF Sound, InvoiceRows
<1> QED BY <1>2, <1>3, RowIs, RowKeeps DEF SamePaid

LEMMA UpdateInvoiceKeeps ==
  ASSUME BooksAre, NEW i \in Rows, UpdateInvoice(i), UNCHANGED now PROVE BooksAre'
<1>1. PICK to \in {"none", "sent", "cancelled", "paid"}, total \in Totals :
        /\ inv[i].status = "draft" \/ to # "none"
        /\ inv' = [inv EXCEPT ![i] = Updated(@, to, total)]
        /\ amiss' = amiss \cup (IF total # inv[i].total THEN {"edited"} ELSE {})
                          \cup (IF to = "paid" THEN {"paid_by_hand"} ELSE {})
        /\ UNCHANGED pay
  BY DEF UpdateInvoice
<1>0. PICK half : half = [inv[i] EXCEPT !.status = StatusOnRequest(inv[i].status, to)]
  OBVIOUS
<1>2. PICK row : row = [half EXCEPT !.total = total]
  OBVIOUS
<1>3. inv' = [inv EXCEPT ![i] = row]
  BY <1>0, <1>1, <1>2 DEF Updated
<1>4. /\ amiss \subseteq amiss'
      /\ total # inv[i].total => "edited" \in amiss'
      /\ to = "paid" => "paid_by_hand" \in amiss'
  BY <1>1
<1>5. Sound(inv[i], amiss', now)
  BY <1>4, RowIs, SoundStays DEF BooksAre
<1>6. PICK status : status = StatusOnRequest(inv[i].status, to)
  OBVIOUS
<1>7. \/ status = inv[i].status
      \/ inv[i].status = "draft" /\ status = "sent"
      \/ inv[i].status # "paid" /\ status = "cancelled"
      \/ to = "paid" /\ status = "paid"
  BY <1>6 DEF StatusOnRequest
<1>8. total \in Nat /\ Whole(total)
  BY AmountsAreWhole
<1>9. /\ half \in InvoiceRows
      /\ half.status = status /\ half.created = inv[i].created
      /\ half.paid = inv[i].paid /\ half.balance = inv[i].balance /\ half.paidAt = inv[i].paidAt
  <2>1. status \in {"draft", "sent", "partially_paid", "overdue", "paid", "cancelled", "credit_note"}
    BY <1>7, RowIs DEF InvoiceRows
  <2>2. half = [inv[i] EXCEPT !.status = status]
    BY <1>0, <1>6
  <2> QED BY <2>1, <2>2, RowIs DEF InvoiceRows
<1>10. /\ row \in InvoiceRows
       /\ row.total = total
       /\ row.status = status /\ row.created = inv[i].created
       /\ row.paid = inv[i].paid /\ row.balance = inv[i].balance /\ row.paidAt = inv[i].paidAt
  BY <1>2, <1>8, <1>9 DEF InvoiceRows
<1>11. Sound(row, amiss', now)
  <2>1. \A spoils : "edited" \in spoils /\ Clear(amiss', spoils) => total = inv[i].total
    BY <1>4 DEF Clear
  <2>2. \A spoils : "paid_by_hand" \in spoils /\ Clear(amiss', spoils) => to # "paid"
    BY <1>4 DEF Clear
  <2> QED BY <1>5, <1>7, <1>8, <1>10, <2>1, <2>2 DEF Sound
<1> QED BY <1>1, <1>3, <1>4, <1>10, <1>11, RowIs, RowKeeps DEF SamePaid

LEMMA RegistersKeeps ==
  ASSUME BooksAre, NEW i \in Rows, Registers(i), UNCHANGED now PROVE BooksAre'
<1>1. PICK row : row = [inv[i] EXCEPT !.registered = TRUE]
  OBVIOUS
<1>2. inv' = [inv EXCEPT ![i] = row] /\ UNCHANGED <<pay, amiss>>
  BY <1>1 DEF Registers
<1>3. row \in InvoiceRows
  BY <1>1, RowIs, Zenon DEF InvoiceRows
<1>4. /\ row.total = inv[i].total /\ row.status = inv[i].status /\ row.created = inv[i].created
      /\ row.paid = inv[i].paid /\ row.balance = inv[i].balance /\ row.paidAt = inv[i].paidAt
  BY <1>1, RowIs DEF InvoiceRows
<1>5. Sound(row, amiss', now)
  BY <1>2, <1>3, <1>4, RowIs DEF Sound
<1> QED BY <1>2, <1>4, <1>5, RowIs, RowKeeps DEF SamePaid

(* A row that is matched with a payment *)
LEMMA MatchedIs ==
  ASSUME BooksAre, NEW i \in Rows, NEW amount \in Int, Whole(amount), "matched" \in amiss',
         amiss \subseteq amiss'
  PROVE  /\ Sound(Matched(inv[i], amount), amiss', now)
         /\ Matched(inv[i], amount).paid = inv[i].paid + amount
<1>1. PICK row : row = inv[i]
  OBVIOUS
<1>2. Sound(row, amiss', now) /\ row \in InvoiceRows
  BY <1>1, RowIs, SoundStays DEF BooksAre
<1>3. PICK status : status = IF row.paid + amount >= row.total THEN "paid" ELSE "partially_paid"
  OBVIOUS
<1>4. PICK paidAt : paidAt = IF row.paid + amount >= row.total THEN now ELSE row.paidAt
  OBVIOUS
<1>5. /\ status \in {"paid", "partially_paid"}
      /\ paidAt \in {now, row.paidAt}
      /\ status = "paid" => paidAt = now
  BY <1>3, <1>4
<1>6. PICK c : c = [row EXCEPT !.paid = row.paid + amount, !.status = status, !.paidAt = paidAt]
  OBVIOUS
<1>7. Matched(row, amount) = c
  BY <1>3, <1>4, <1>6 DEF Matched
<1>8. Whole(row.paid + amount)
  BY <1>2, WholeSums DEF Sound, InvoiceRows
<1>9. /\ c \in InvoiceRows
      /\ c.total = row.total /\ c.paid = row.paid + amount /\ c.created = row.created
      /\ c.paidAt \in {now, row.paidAt} /\ (c.status = "paid" => c.paidAt = now)
  <2>1. PICK a : a = [row EXCEPT !.paid = row.paid + amount]
    OBVIOUS
  <2>2. PICK b : b = [a EXCEPT !.status = status]
    OBVIOUS
  <2>3. /\ a \in InvoiceRows
        /\ a.total = row.total /\ a.paid = row.paid + amount /\ a.created = row.created
    BY <1>2, <2>1 DEF InvoiceRows
  <2>4. /\ b \in InvoiceRows /\ b.status = status
        /\ b.total = row.total /\ b.paid = row.paid + amount /\ b.created = row.created
    BY <1>5, <2>2, <2>3 DEF InvoiceRows
  <2>5. paidAt \in Nat
    BY <1>2, <1>5 DEF InvoiceRows, BooksAre
  <2>6. c = [b EXCEPT !.paidAt = paidAt]
    BY <1>6, <2>1, <2>2
  <2> QED BY <1>5, <2>4, <2>5, <2>6 DEF InvoiceRows
<1>10. \A spoils : "matched" \in spoils => ~Clear(amiss', spoils)
  BY DEF Clear
<1>11. Sound(c, amiss', now)
  BY <1>2, <1>8, <1>9, <1>10, StartAssumption DEF Sound, BooksAre, Never, Zero
<1> QED BY <1>1, <1>7, <1>9, <1>11

LEMMA ReconcilePaymentKeeps ==
  ASSUME BooksAre, NEW i \in Rows, ReconcilePayment(i), UNCHANGED now PROVE BooksAre'
<1>1. PICK p \in Pays(i) : inv' = [inv EXCEPT ![i] = Matched(@, pay[p].amount)]
  BY DEF ReconcilePayment
<1>2. amiss' = amiss \cup {"matched", "reconciled"} /\ UNCHANGED pay
  BY DEF ReconcilePayment
<1>3. pay[p].amount \in Int /\ Whole(pay[p].amount)
  BY <1>1 DEF Pays, Paid, BooksAre, PaymentsAre, PaymentRows
<1>4. PICK row : row = Matched(inv[i], pay[p].amount)
  OBVIOUS
<1>5. Sound(row, amiss', now)
  BY <1>2, <1>3, <1>4, MatchedIs
<1>6. inv' = [inv EXCEPT ![i] = row]
  BY <1>1, <1>4
<1> QED BY <1>2, <1>5, <1>6, RowIs, RowKeeps

-----------------------------------------------------------------------------
(* The requests that write payments *)
LEMMA GetsAdd ==
  ASSUME NEW books, NEW got, NEW t, PaymentsAre(books, got, t),
         NEW S, S \subseteq Payments, \A p \in S : got[p] # NoRow
  PROVE  Summable(S, Gets(got))
<1>1. IsFiniteSet(S)
  BY RowsAssumption, FS_Subset
<1>2. \A p \in S : Gets(got)[p] = got[p].amount /\ got[p] \in PaymentRows
  BY DEF Gets, PaymentsAre
<1> QED BY <1>1, <1>2 DEF Summable, PaymentRows

(* A payment that comes for an invoice *)
Comes(entry, i) == entry \in PaymentRows /\ entry.of = i /\ entry.at = now /\ Whole(entry.amount)
                    /\ entry.status = "completed"

LEMMA PaymentIs ==
  ASSUME BooksAre, NEW i \in Invoices, NEW amount \in Int, Whole(amount)
  PROVE  Comes(Payment(i, amount), i) /\ Payment(i, amount).amount = amount
BY DEF Payment, Comes, PaymentRows, BooksAre

LEMMA PaymentKeeps ==
  ASSUME BooksAre, NEW i \in Rows, NEW row, inv' = [inv EXCEPT ![i] = row],
         amiss \subseteq amiss', Sound(row, amiss', now), UNCHANGED now,
         NEW p \in Payments, pay[p] = NoRow, NEW entry, Comes(entry, i), pay' = [pay EXCEPT ![p] = entry],
         row.paid = inv[i].paid + entry.amount \/ "overpaid" \in amiss'
  PROVE  BooksAre'
<1>0. i \in Invoices /\ inv[i] # NoRow
  BY RowIs
<1>1. InvoicesAre(inv', amiss', now) /\ row # NoRow
  BY <1>0, InvoiceChanges
<1>2. /\ inv'[i] = row
      /\ \A j \in Invoices : j # i => inv'[j] = inv[j]
      /\ \A j \in Invoices : inv'[j] # NoRow <=> inv[j] # NoRow
  BY <1>0, <1>1 DEF BooksAre, InvoicesAre
<1>3. /\ pay'[p] = entry /\ entry # NoRow
      /\ \A q \in Payments : q # p => pay'[q] = pay[q]
      /\ pay' \in [Payments -> PaymentRows \cup {NoRow}]
  BY RowsAreAssumption DEF BooksAre, PaymentsAre, Comes
<1>4. PaymentsAre(inv', pay', now)
  <2>1. ASSUME NEW q \in Payments, pay'[q] # NoRow
        PROVE  inv'[pay'[q].of] # NoRow /\ pay'[q].at \in Start..now /\ Whole(pay'[q].amount)
    <3>1. CASE q = p
      BY <1>0, <1>1, <1>2, <1>3, <3>1, StartAssumption DEF Comes, BooksAre
    <3>2. CASE q # p
      BY <1>2, <1>3, <2>1, <3>2 DEF BooksAre, PaymentsAre, PaymentRows
    <3> QED BY <3>1, <3>2
  <2> QED BY <1>3, <2>1 DEF PaymentsAre
<1>5. ASSUME Clear(amiss', {"overpaid", "reconciled", "emptied", "refunded", "moved"})
      PROVE  /\ \A q \in Payments : pay'[q] # NoRow => pay'[q].status = "completed"
             /\ \A j \in Invoices : inv'[j] # NoRow => inv'[j].paid = Part(Gets(pay'), PaysOf(pay', j))
  <2>1. Clear(amiss, {"overpaid", "reconciled", "emptied", "refunded", "moved"})
        /\ row.paid = inv[i].paid + entry.amount
    BY <1>5 DEF Clear
  <2>2. /\ \A q \in Payments : pay[q] # NoRow => pay[q].status = "completed"
        /\ \A j \in Invoices : inv[j] # NoRow => inv[j].paid = Part(Gets(pay), PaysOf(pay, j))
    BY <2>1 DEF BooksAre, Received
  <2>3. \A q \in Payments : q # p => Gets(pay')[q] = Gets(pay)[q]
    BY <1>3 DEF Gets
  <2>4. ASSUME NEW j \in Invoices, j # i, inv'[j] # NoRow
        PROVE  inv'[j].paid = Part(Gets(pay'), PaysOf(pay', j))
    <3>1. PaysOf(pay', j) = PaysOf(pay, j)
      BY <1>3, <2>4 DEF PaysOf, Comes
    <3>2. \A q \in PaysOf(pay, j) : q \in Payments /\ q # p
      BY DEF PaysOf
    <3>3. Part(Gets(pay'), PaysOf(pay, j)) = Part(Gets(pay), PaysOf(pay, j))
      BY <2>3, <3>2, PartAlike
    <3> QED BY <1>2, <2>2, <2>4, <3>1, <3>3
  <2>5. row.paid = Part(Gets(pay'), PaysOf(pay', i))
    <3>1. PICK S, f : S = PaysOf(pay', i) /\ f = Gets(pay')
      OBVIOUS
    <3>2. p \in S /\ S \ {p} = PaysOf(pay, i) /\ S \subseteq Payments /\ \A q \in S : pay'[q] # NoRow
      BY <1>3, <3>1 DEF PaysOf, Comes
    <3>3. Summable(S, f)
      BY <1>4, <3>1, <3>2, GetsAdd
    <3>4. Part(f, S) = f[p] + Part(f, S \ {p})
      BY <3>2, <3>3, PartTakes
    <3>5. \A q \in S \ {p} : f[q] = Gets(pay)[q]
      BY <2>3, <3>1, <3>2
    <3>6. Part(f, S \ {p}) = Part(Gets(pay), PaysOf(pay, i))
      BY <3>2, <3>5, PartAlike
    <3>7. f[p] = entry.amount
      BY <1>3, <3>1 DEF Gets
    <3>8. inv[i].paid = Part(f, S \ {p})
      BY <1>0, <2>2, <3>6
    <3>9. inv[i].paid \in Int /\ entry.amount \in Int
      BY RowIs DEF InvoiceRows, Comes, PaymentRows
    <3> QED BY <2>1, <3>1, <3>4, <3>7, <3>8, <3>9
  <2>6. \A q \in Payments : pay'[q] # NoRow => pay'[q].status = "completed"
    BY <1>3, <2>2 DEF Comes
  <2> QED BY <1>2, <2>4, <2>5, <2>6
<1>6. Received(inv', pay', amiss')
  BY <1>5 DEF Received
<1> QED BY <1>1, <1>4, <1>6 DEF BooksAre

LEMMA CreditIs ==
  ASSUME BooksAre, NEW i \in Rows, NEW amount \in Nat, Whole(amount), amiss \subseteq amiss',
         inv[i].status \in {"sent", "partially_paid", "overdue"}
  PROVE  /\ Sound(Credit(inv[i], amount), amiss', now)
         /\ inv[i].paid + amount <= inv[i].total => Credit(inv[i], amount).paid = inv[i].paid + amount
<1>1. PICK row : row = inv[i]
  OBVIOUS
<1>2. Sound(row, amiss', now) /\ row \in InvoiceRows /\ row.status \in {"sent", "partially_paid", "overdue"}
  BY <1>1, RowIs, SoundStays DEF BooksAre
<1>3. PICK paid : paid = IF row.paid + amount > row.total THEN row.total ELSE row.paid + amount
  OBVIOUS
<1>4. /\ paid \in Int /\ Whole(paid) /\ paid <= row.total /\ (paid = row.total \/ paid = row.paid + amount)
      /\ row.paid + amount <= row.total => paid = row.paid + amount
  BY <1>2, <1>3, WholeSums DEF Sound, InvoiceRows
<1>5. PICK status : status = IF paid = row.total THEN "paid" ELSE "partially_paid"
  OBVIOUS
<1>6. PICK paidAt : paidAt = IF paid = row.total THEN now ELSE row.paidAt
  OBVIOUS
<1>7. PICK a : a = [row EXCEPT !.paid = paid]
  OBVIOUS
<1>8. PICK b : b = [a EXCEPT !.balance = row.total - paid]
  OBVIOUS
<1>9. PICK c : c = [b EXCEPT !.status = status]
  OBVIOUS
<1>10. PICK d : d = [c EXCEPT !.paidAt = paidAt]
  OBVIOUS
<1>11. Credit(row, amount) = d
  BY <1>3, <1>5, <1>6, <1>7, <1>8, <1>9, <1>10 DEF Credit
<1>12. /\ a \in InvoiceRows
       /\ a.total = row.total /\ a.paid = paid /\ a.created = row.created /\ a.paidAt = row.paidAt
  BY <1>2, <1>4, <1>7 DEF InvoiceRows
<1>13. /\ b \in InvoiceRows /\ b.balance = row.total - paid
       /\ b.total = row.total /\ b.paid = paid /\ b.created = row.created /\ b.paidAt = row.paidAt
  BY <1>2, <1>4, <1>8, <1>12 DEF InvoiceRows
<1>14. /\ c \in InvoiceRows /\ c.balance = row.total - paid /\ c.status = status
       /\ c.total = row.total /\ c.paid = paid /\ c.created = row.created /\ c.paidAt = row.paidAt
  BY <1>5, <1>9, <1>13 DEF InvoiceRows
<1>15. paidAt \in Nat /\ paidAt \in {row.paidAt, now}
  BY <1>2, <1>6 DEF InvoiceRows, BooksAre
<1>16. /\ d \in InvoiceRows /\ d.balance = row.total - paid /\ d.status = status
       /\ d.total = row.total /\ d.paid = paid /\ d.created = row.created /\ d.paidAt = paidAt
  BY <1>10, <1>14, <1>15 DEF InvoiceRows
<1>17. /\ paid = row.total => status = "paid" /\ paidAt = now
       /\ paid # row.total => status = "partially_paid" /\ paidAt = row.paidAt
  BY <1>5, <1>6
<1>18. row.paid \in Int /\ row.total \in Int /\ now \in Nat /\ Start \in Nat /\ Start > 1 /\ Start <= now
  BY <1>2, StartAssumption DEF InvoiceRows, BooksAre, Zero
<1>19. Sound(d, amiss', now)
  <2>1. CASE paid = row.total
    BY <1>2, <1>4, <1>16, <1>17, <1>18, <2>1 DEF Sound, Never
  <2>2. CASE paid # row.total
    <3>1. d.status = "partially_paid" /\ d.paidAt = row.paidAt
      BY <1>16, <1>17, <2>2
    <3>2. Clear(amiss', {"edited", "matched", "note_sent"}) => 0 <= d.paid /\ d.paid <= d.total
      BY <1>2, <1>4, <1>16, <1>18 DEF Sound
    <3> QED BY <1>2, <1>4, <1>16, <1>18, <3>1, <3>2 DEF Sound
  <2> QED BY <2>1, <2>2
<1> QED BY <1>1, <1>4, <1>11, <1>16, <1>19

LEMMA RecordPaymentKeeps ==
  ASSUME BooksAre, NEW i \in Rows, NEW p \in Payments, RecordPayment(i, p), UNCHANGED now
  PROVE  BooksAre'
<1>1. PICK amount \in Amounts :
        LET excess == inv[i].paid + amount - inv[i].total
        IN  /\ inv[i].status \in {"sent", "partially_paid", "overdue"}
            /\ pay[p] = NoRow
            /\ inv' = [inv EXCEPT ![i] = Credit(@, amount)]
            /\ pay' = [pay EXCEPT ![p] =
                 Payment(i, IF excess > 0 THEN excess ELSE amount)]
            /\ amiss' = IF excess > 0 THEN amiss \cup {"overpaid"} ELSE amiss
  BY DEF RecordPayment
<1>2. PICK excess : excess = inv[i].paid + amount - inv[i].total
  OBVIOUS
<1>3. PICK row : row = Credit(inv[i], amount)
  OBVIOUS
<1>4. PICK much : much = IF excess > 0 THEN excess ELSE amount
  OBVIOUS
<1>5. /\ inv' = [inv EXCEPT ![i] = row]
      /\ pay' = [pay EXCEPT ![p] = Payment(i, much)]
      /\ amiss' = IF excess > 0 THEN amiss \cup {"overpaid"} ELSE amiss
  BY <1>1, <1>2, <1>3, <1>4
<1>6. amount \in Nat /\ Whole(amount)
  BY AmountsAreWhole
<1>7. inv[i].paid \in Int /\ inv[i].total \in Int /\ Whole(inv[i].paid) /\ Whole(inv[i].total)
  BY RowIs DEF Sound, InvoiceRows
<1>8. /\ excess \in Int /\ much \in Int /\ Whole(much)
      /\ excess <= 0 => much = amount /\ inv[i].paid + amount <= inv[i].total
      /\ excess > 0 => "overpaid" \in amiss'
      /\ amiss \subseteq amiss'
  <2>1. PICK paid, total : paid = inv[i].paid + amount /\ total = inv[i].total
    OBVIOUS
  <2>0. Whole(inv[i].paid + amount)
    BY <1>6, <1>7, WholeSums
  <2>2. paid \in Int /\ total \in Int /\ Whole(paid) /\ Whole(total) /\ excess = paid - total
    BY <1>2, <1>6, <1>7, <2>0, <2>1
  <2>3. Whole(excess) /\ excess \in Int
    BY <2>2, WholeSums
  <2>4. much \in Int /\ Whole(much) /\ (excess <= 0 => much = amount)
    BY <1>4, <1>6, <2>3
  <2>5. excess <= 0 => inv[i].paid + amount <= inv[i].total
    BY <1>6, <1>7, <2>1, <2>2
  <2>6. amiss \subseteq amiss' /\ (excess > 0 => "overpaid" \in amiss')
    BY <1>5
  <2> QED BY <2>3, <2>4, <2>5, <2>6
<1>9. Sound(row, amiss', now) /\ (inv[i].paid + amount <= inv[i].total => row.paid = inv[i].paid + amount)
  BY <1>1, <1>3, <1>6, <1>8, CreditIs
<1>10. Comes(Payment(i, much), i) /\ Payment(i, much).amount = much
  BY <1>8, RowIs, PaymentIs
<1>11. row.paid = inv[i].paid + Payment(i, much).amount \/ "overpaid" \in amiss'
  BY <1>8, <1>9, <1>10
<1> QED BY <1>1, <1>5, <1>8, <1>9, <1>10, <1>11, PaymentKeeps

LEMMA ManualMatchKeeps ==
  ASSUME BooksAre, NEW i \in Rows, NEW p \in Payments, ManualMatch(i, p), UNCHANGED now
  PROVE  BooksAre'
<1>1. PICK amount \in Amounts :
        /\ pay[p] = NoRow
        /\ inv' = [inv EXCEPT ![i] = Matched(@, amount)]
        /\ pay' = [pay EXCEPT ![p] = Payment(i, amount)]
        /\ amiss' = amiss \cup {"matched"}
  BY DEF ManualMatch
<1>2. amount \in Int /\ Whole(amount)
  BY AmountsAreWhole
<1>3. PICK row : row = Matched(inv[i], amount)
  OBVIOUS
<1>4. Sound(row, amiss', now) /\ row.paid = inv[i].paid + amount
  BY <1>1, <1>2, <1>3, MatchedIs
<1>5. Comes(Payment(i, amount), i) /\ Payment(i, amount).amount = amount
  BY <1>2, RowIs, PaymentIs
<1>6. inv' = [inv EXCEPT ![i] = row]
  BY <1>1, <1>3
<1> QED BY <1>1, <1>4, <1>5, <1>6, PaymentKeeps

(* A step that spoils what is received and leaves the invoices *)
LEMMA SpoiltKeeps ==
  ASSUME BooksAre, UNCHANGED <<now, inv>>, amiss \subseteq amiss', PaymentsAre(inv, pay', now),
         ~Clear(amiss', {"overpaid", "reconciled", "emptied", "refunded", "moved"})
  PROVE  BooksAre'
<1>1. InvoicesAre(inv, amiss', now)
  BY InvoicesStay DEF BooksAre
<1>2. Received(inv', pay', amiss')
  BY DEF Received
<1> QED BY <1>1, <1>2 DEF BooksAre

LEMMA RefundPaymentKeeps ==
  ASSUME BooksAre, NEW p \in Paid, RefundPayment(p), UNCHANGED now PROVE BooksAre'
<1>1. PICK entry : entry = [pay[p] EXCEPT !.status = "refunded"]
  OBVIOUS
<1>2. pay' = [pay EXCEPT ![p] = entry] /\ amiss' = amiss \cup {"refunded"} /\ UNCHANGED inv
  BY <1>1 DEF RefundPayment
<1>3. /\ p \in Payments /\ pay[p] \in PaymentRows /\ pay[p] # NoRow
      /\ pay \in [Payments -> PaymentRows \cup {NoRow}]
  BY DEF Paid, BooksAre, PaymentsAre
<1>4. entry \in PaymentRows /\ entry.of = pay[p].of /\ entry.at = pay[p].at /\ entry.amount = pay[p].amount
  BY <1>1, <1>3 DEF PaymentRows
<1>5. PaymentsAre(inv, pay', now)
  BY <1>2, <1>3, <1>4 DEF BooksAre, PaymentsAre
<1> QED BY <1>2, <1>5, SpoiltKeeps DEF Clear

LEMMA MovePaymentKeeps ==
  ASSUME BooksAre, NEW p \in Paid, MovePayment(p), UNCHANGED now PROVE BooksAre'
<1>1. PICK i \in Rows \ {pay[p].of} : pay' = [pay EXCEPT ![p].of = i]
  BY DEF MovePayment
<1>2. amiss' = amiss \cup {"moved"} /\ UNCHANGED inv
  BY DEF MovePayment
<1>3. PICK entry : entry = [pay[p] EXCEPT !.of = i]
  OBVIOUS
<1>4. pay' = [pay EXCEPT ![p] = entry]
  BY <1>1, <1>3
<1>5. /\ p \in Payments /\ pay[p] \in PaymentRows /\ pay[p] # NoRow
      /\ pay \in [Payments -> PaymentRows \cup {NoRow}]
      /\ i \in Invoices /\ inv[i] # NoRow
  BY RowIs DEF Paid, BooksAre, PaymentsAre
<1>6. entry \in PaymentRows /\ entry.of = i /\ entry.at = pay[p].at /\ entry.amount = pay[p].amount
  BY <1>3, <1>5 DEF PaymentRows
<1>7. PaymentsAre(inv, pay', now)
  BY <1>4, <1>5, <1>6 DEF BooksAre, PaymentsAre
<1> QED BY <1>2, <1>7, SpoiltKeeps DEF Clear

LEMMA DeleteInvoiceKeeps ==
  ASSUME BooksAre, NEW i \in Rows, DeleteInvoice(i), UNCHANGED now PROVE BooksAre'
<1>1. pay' = [p \in Payments |-> IF p \in Pays(i) THEN NoRow ELSE pay[p]]
  BY DEF DeleteInvoice
<1>2. /\ pay' \in [Payments -> PaymentRows \cup {NoRow}]
      /\ \A p \in Payments : pay'[p] # NoRow => pay'[p] = pay[p] /\ pay[p].of # i
      /\ \A p \in Payments : pay[p] # NoRow /\ pay[p].of # i => pay'[p] = pay[p]
  BY <1>1 DEF Pays, Paid, BooksAre, PaymentsAre
<1>3. PaymentsAre(inv, pay', now)
  BY <1>2 DEF BooksAre, PaymentsAre
<1>4. CASE MayDelete(inv[i])
  <2>1. inv' = [inv EXCEPT ![i] = NoRow] /\ UNCHANGED amiss
    BY <1>4 DEF DeleteInvoice
  <2>2. /\ inv' \in [Invoices -> InvoiceRows \cup {NoRow}]
        /\ inv'[i] = NoRow
        /\ \A j \in Invoices : j # i => inv'[j] = inv[j]
    BY <2>1, RowIs DEF BooksAre, InvoicesAre
  <2>3. InvoicesAre(inv', amiss', now)
    BY <2>1, <2>2 DEF BooksAre, InvoicesAre
  <2>4. PaymentsAre(inv', pay', now)
    BY <1>2, <1>3, <2>2 DEF PaymentsAre, PaymentRows
  <2>5. ASSUME Clear(amiss, {"overpaid", "reconciled", "emptied", "refunded", "moved"})
        PROVE  /\ \A q \in Payments : pay'[q] # NoRow => pay'[q].status = "completed"
               /\ \A j \in Invoices : inv'[j] # NoRow => inv'[j].paid = Part(Gets(pay'), PaysOf(pay', j))
    <3>1. /\ \A q \in Payments : pay[q] # NoRow => pay[q].status = "completed"
          /\ \A j \in Invoices : inv[j] # NoRow => inv[j].paid = Part(Gets(pay), PaysOf(pay, j))
      BY <2>5 DEF BooksAre, Received
    <3>2. ASSUME NEW j \in Invoices, inv'[j] # NoRow
          PROVE  inv'[j].paid = Part(Gets(pay'), PaysOf(pay', j))
      <4>1. j # i /\ inv'[j] = inv[j]
        BY <2>2, <3>2
      <4>2. PaysOf(pay', j) = PaysOf(pay, j)
        BY <1>2, <4>1 DEF PaysOf
      <4>3. \A q \in PaysOf(pay, j) : Gets(pay')[q] = Gets(pay)[q]
        BY <1>2, <4>1 DEF PaysOf, Gets
      <4>4. Part(Gets(pay'), PaysOf(pay, j)) = Part(Gets(pay), PaysOf(pay, j))
        BY <4>3, PartAlike
      <4> QED BY <3>1, <3>2, <4>1, <4>2, <4>4
    <3>3. \A q \in Payments : pay'[q] # NoRow => pay'[q].status = "completed"
      BY <1>2, <3>1
    <3> QED BY <3>2, <3>3
  <2>6. Received(inv', pay', amiss')
    BY <2>1, <2>5 DEF Received
  <2> QED BY <2>1, <2>3, <2>4, <2>6 DEF BooksAre
<1>5. CASE ~MayDelete(inv[i])
  <2>1. amiss' = amiss \cup {"emptied"} /\ UNCHANGED inv
    BY <1>5 DEF DeleteInvoice
  <2> QED BY <1>3, <2>1, SpoiltKeeps DEF Clear
<1> QED BY <1>4, <1>5

LEMMA MarkOverdueKeeps ==
  ASSUME BooksAre, MarkOverdueInvoices PROVE BooksAre'
<1>1. /\ inv' = [i \in Invoices |->
            IF /\ i \in Rows
               /\ inv[i].status \notin {"paid", "cancelled", "draft"}
               /\ inv[i].due < now
               /\ inv[i].paid < inv[i].total
            THEN [inv[i] EXCEPT !.status = "overdue"] ELSE inv[i]]
      /\ UNCHANGED <<now, pay, amiss>>
  BY DEF MarkOverdueInvoices
<1>2. ASSUME NEW i \in Invoices
      PROVE  /\ inv[i] = NoRow => inv'[i] = NoRow
             /\ inv[i] # NoRow => Sound(inv'[i], amiss, now) /\ inv'[i].paid = inv[i].paid /\ inv'[i] # NoRow
  <2>1. CASE inv[i] = NoRow
    BY <1>1, <2>1 DEF Rows
  <2>2. CASE inv[i] # NoRow
    <3>0. i \in Rows
      BY <2>2 DEF Rows
    <3>1. PICK row : row = inv[i]
      OBVIOUS
    <3>2. PICK c : c = [row EXCEPT !.status = "overdue"]
      OBVIOUS
    <3>3. Sound(row, amiss, now) /\ row \in InvoiceRows
      BY <3>0, <3>1, RowIs
    <3>4. /\ c \in InvoiceRows /\ c.status = "overdue"
          /\ c.total = row.total /\ c.paid = row.paid /\ c.balance = row.balance
          /\ c.created = row.created /\ c.paidAt = row.paidAt
      BY <3>2, <3>3 DEF InvoiceRows
    <3>5. row.status \notin {"paid", "cancelled", "draft"} /\ row.paid < row.total => Sound(c, amiss, now)
      <4>1. SUFFICES ASSUME row.status \notin {"paid", "cancelled", "draft"}, row.paid < row.total
                     PROVE  Sound(c, amiss, now)
        OBVIOUS
      <4>2. row.paid \in Int /\ row.total \in Int
            /\ row.status \in {"sent", "partially_paid", "overdue", "credit_note"}
        BY <3>3, <4>1 DEF InvoiceRows
      <4>3. Clear(amiss, {"edited", "matched", "note_sent"}) => 0 <= row.paid /\ row.paid <= row.total
        BY <3>3, <4>1, <4>2 DEF Sound
      <4> QED BY <3>3, <3>4, <4>1, <4>2, <4>3 DEF Sound
    <3>6. inv'[i] = row \/ (inv'[i] = c /\ row.status \notin {"paid", "cancelled", "draft"} /\ row.paid < row.total)
      BY <1>1, <3>1, <3>2
    <3>7. c # NoRow
      BY <3>4, RowsAreAssumption
    <3>8. CASE inv'[i] = row
      BY <2>2, <3>1, <3>3, <3>8
    <3>9. CASE inv'[i] = c /\ row.status \notin {"paid", "cancelled", "draft"} /\ row.paid < row.total
      BY <2>2, <3>1, <3>4, <3>5, <3>7, <3>9
    <3> QED BY <3>6, <3>8, <3>9
  <2> QED BY <2>1, <2>2
<1>3. InvoicesAre(inv', amiss', now)
  <2>1. inv' = [i \in Invoices |-> inv'[i]]
    BY <1>1
  <2>2. \A i \in Invoices : inv'[i] \in InvoiceRows \cup {NoRow}
    BY <1>2 DEF Sound
  <2>3. \A i \in Invoices : inv'[i] # NoRow => Sound(inv'[i], amiss', now)
    BY <1>1, <1>2
  <2> QED BY <2>1, <2>2, <2>3 DEF InvoicesAre
<1>4. PaymentsAre(inv', pay', now)
  BY <1>1, <1>2 DEF BooksAre, PaymentsAre, PaymentRows
<1>5. Received(inv', pay', amiss')
  BY <1>1, <1>2 DEF BooksAre, Received
<1> QED BY <1>1, <1>3, <1>4, <1>5 DEF BooksAre

LEMMA TickKeeps == ASSUME BooksAre, Tick PROVE BooksAre'
<1>1. now' = now + 1 /\ UNCHANGED <<inv, pay, amiss>> /\ now \in Nat /\ Start \in Nat
  BY StartAssumption DEF Tick, BooksAre
<1>2. InvoicesAre(inv, amiss, now')
  <2>1. now + 1 \in Nat /\ now <= now + 1
    BY <1>1
  <2> QED BY <1>1, <2>1, InvoicesStay DEF BooksAre
<1>3. PaymentsAre(inv, pay, now')
  BY <1>1 DEF BooksAre, PaymentsAre
<1> QED BY <1>1, <1>2, <1>3 DEF BooksAre

LEMMA BooksBegin == ASSUME Init PROVE BooksAre
<1>1. now = Start /\ amiss = {} /\ pay = [p \in Payments |-> NoRow] /\ Start \in Nat
  BY StartAssumption DEF Init
<1>2. PICK first \in SUBSET Invoices :
        inv = [i \in Invoices |-> IF i \in first THEN Invoice("sent", Max(Totals), Max(Totals), now + 1)
                                  ELSE NoRow]
  BY DEF Init
<1>3. PICK row : row = Invoice("sent", Max(Totals), Max(Totals), now + 1)
  OBVIOUS
<1>4. PICK most : most = Max(Totals)
  OBVIOUS
<1>5. most \in Nat /\ Whole(most)
  BY <1>4, TotalsAssumption, AmountsAreWhole
<1>6. Sound(row, amiss, now) /\ row.paid = 0 /\ row \in InvoiceRows
  BY <1>1, <1>3, <1>4, <1>5, WholeSums, StartAssumption DEF Sound, Invoice, InvoiceRows, Never, Zero
<1>7. InvoicesAre(inv, amiss, now) /\ \A i \in Invoices : inv[i] # NoRow => inv[i].paid = 0
  BY <1>2, <1>3, <1>6 DEF InvoicesAre
<1>8. PaymentsAre(inv, pay, now)
  BY <1>1 DEF PaymentsAre
<1>9. \A i \in Invoices : PaysOf(pay, i) = {}
  BY <1>1 DEF PaysOf
<1>10. Part(Gets(pay), {}) = 0
  BY FS_EmptySet, PartTakes DEF Summable
<1>11. Received(inv, pay, amiss)
  BY <1>1, <1>7, <1>9, <1>10 DEF Received
<1> QED BY <1>1, <1>7, <1>8, <1>11 DEF BooksAre

LEMMA BooksGoOn == ASSUME BooksAre, [Next]_vars PROVE BooksAre'
<1>1. CASE Writes
  <2>0. UNCHANGED now
    BY <1>1 DEF Writes
  <2>1. ASSUME NEW i \in Invoices, CreateInvoice(i) PROVE BooksAre'
    BY <2>0, <2>1, CreateInvoiceKeeps
  <2>2. ASSUME NEW i \in Invoices, CreateNote(i) PROVE BooksAre'
    BY <2>0, <2>2, CreateNoteKeeps
  <2>3. ASSUME NEW i \in Rows, CancelInvoice(i) PROVE BooksAre'
    BY <2>0, <2>3, CancelInvoiceKeeps
  <2>4. ASSUME NEW i \in Rows, UpdateInvoice(i) PROVE BooksAre'
    BY <2>0, <2>4, UpdateInvoiceKeeps
  <2>5. ASSUME NEW i \in Rows, DeleteInvoice(i) PROVE BooksAre'
    BY <2>0, <2>5, DeleteInvoiceKeeps
  <2>6. ASSUME NEW i \in Rows, ReconcilePayment(i) PROVE BooksAre'
    BY <2>0, <2>6, ReconcilePaymentKeeps
  <2>7. ASSUME NEW i \in Rows, NEW p \in Payments, RecordPayment(i, p) PROVE BooksAre'
    BY <2>0, <2>7, RecordPaymentKeeps
  <2>8. ASSUME NEW i \in Rows, NEW p \in Payments, ManualMatch(i, p) PROVE BooksAre'
    BY <2>0, <2>8, ManualMatchKeeps
  <2>9. ASSUME NEW p \in Paid, RefundPayment(p) PROVE BooksAre'
    BY <2>0, <2>9, RefundPaymentKeeps
  <2>10. ASSUME NEW p \in Paid, MovePayment(p) PROVE BooksAre'
    BY <2>0, <2>10, MovePaymentKeeps
  <2>11. ASSUME NEW i \in Rows, SendInvoice(i) PROVE BooksAre'
    BY <2>0, <2>11, SendInvoiceKeeps
  <2>12. ASSUME NEW i \in Rows, Registers(i) PROVE BooksAre'
    BY <2>0, <2>12, RegistersKeeps
  <2> QED
    BY <1>1, <2>1, <2>2, <2>3, <2>4, <2>5, <2>6, <2>7, <2>8, <2>9, <2>10, <2>11, <2>12 DEF Writes
<1>2. CASE MarkOverdueInvoices
  BY <1>2, MarkOverdueKeeps
<1>3. CASE Tick
  BY <1>3, TickKeeps
<1>4. CASE UNCHANGED vars
  BY <1>4 DEF vars, BooksAre
<1> QED BY <1>1, <1>2, <1>3, <1>4 DEF Next

-----------------------------------------------------------------------------
(* Sums over rows that are there *)
LEMMA RowsAdd ==
  ASSUME BooksAre, NEW S, S \subseteq Rows
  PROVE  /\ Summable(S, Billed) /\ Summable(S, Credited) /\ Summable(S, Left)
         /\ TotalOf(S) = Part(Billed, S) /\ TotalOf(S) \in Int
         /\ PaidOf(S) = Part(Credited, S) /\ PaidOf(S) \in Int
         /\ Balance(S) = Part(Left, S) /\ Balance(S) \in Int
         /\ Owed(S) \in Int
<1>1. S \subseteq Invoices /\ IsFiniteSet(S)
  BY RowsAssumption, FS_Subset DEF Rows
<1>2. \A i \in S : inv[i] \in InvoiceRows
  BY RowIs
<1>3. \A i \in S : Billed[i] \in Int /\ Credited[i] \in Int /\ Left[i] \in Int
  BY <1>1, <1>2 DEF Billed, Credited, Left, InvoiceRows
<1>4. Summable(S, Billed) /\ Summable(S, Credited) /\ Summable(S, Left)
  BY <1>1, <1>3 DEF Summable
<1>5. TotalOf(S) = Part(Billed, S) /\ PaidOf(S) = Part(Credited, S) /\ Balance(S) = Part(Left, S)
  BY <1>1, <1>4, TotalIs, PaidIs, LeftIs
<1>6. Part(Billed, S) \in Int /\ Part(Credited, S) \in Int /\ Part(Left, S) \in Int
  BY <1>4, PartTakes
<1> QED BY <1>4, <1>5, <1>6 DEF Owed

LEMMA RowsSplit ==
  ASSUME BooksAre, NEW S, S \subseteq Rows, NEW A, NEW B, S = A \cup B, A \cap B = {}
  PROVE  /\ TotalOf(S) = TotalOf(A) + TotalOf(B)
         /\ PaidOf(S) = PaidOf(A) + PaidOf(B)
         /\ Balance(S) = Balance(A) + Balance(B)
         /\ Owed(S) = Owed(A) + Owed(B)
<1>1. A \subseteq Rows /\ B \subseteq Rows
  OBVIOUS
<1>2. /\ Part(Billed, S) = Part(Billed, A) + Part(Billed, B)
      /\ Part(Credited, S) = Part(Credited, A) + Part(Credited, B)
      /\ Part(Left, S) = Part(Left, A) + Part(Left, B)
  <2>1. Summable(S, Billed) /\ Summable(S, Credited) /\ Summable(S, Left)
    BY RowsAdd
  <2> QED BY <2>1, PartSplits
<1>3. TotalOf(S) = TotalOf(A) + TotalOf(B)
  BY <1>1, <1>2, RowsAdd
<1>4. PaidOf(S) = PaidOf(A) + PaidOf(B)
  BY <1>1, <1>2, RowsAdd
<1>5. Balance(S) = Balance(A) + Balance(B)
  BY <1>1, <1>2, RowsAdd
<1>6. TotalOf(A) \in Int /\ TotalOf(B) \in Int /\ PaidOf(A) \in Int /\ PaidOf(B) \in Int
  BY <1>1, RowsAdd
<1> QED BY <1>3, <1>4, <1>5, <1>6 DEF Owed

LEMMA BalanceIsOwed ==
  ASSUME BooksAre, Untouched({"edited", "matched", "noted"}), NEW S, S \subseteq Rows
  PROVE  Balance(S) = Owed(S)
<1>1. \A i \in S : Billed[i] = Left[i] + Credited[i]
  <2>1. ASSUME NEW i \in S PROVE Billed[i] = Left[i] + Credited[i]
    <3>1. inv[i] \in InvoiceRows /\ i \in Invoices /\ inv[i].balance = inv[i].total - inv[i].paid
      BY RowIs DEF Sound, Untouched, Clear
    <3> QED BY <3>1 DEF Billed, Left, Credited, InvoiceRows
  <2> QED BY <2>1
<1>2. Part(Billed, S) = Part(Left, S) + Part(Credited, S)
  <2>1. Summable(S, Left) /\ Summable(S, Credited)
    BY RowsAdd
  <2> QED BY <1>1, <2>1, PartAdds
<1> QED BY <1>2, RowsAdd DEF Owed

LEMMA PaidInFull ==
  ASSUME BooksAre, NEW S, S \subseteq Rows, \A i \in S : inv[i].paid = inv[i].total
  PROVE  PaidOf(S) = TotalOf(S) /\ Owed(S) = 0
<1>1. \A i \in S : Credited[i] = Billed[i]
  BY DEF Credited, Billed, Rows
<1>2. Part(Credited, S) = Part(Billed, S)
  BY <1>1, PartAlike
<1> QED BY <1>2, RowsAdd DEF Owed

LEMMA NothingLeft ==
  ASSUME BooksAre, NEW S, S \subseteq Rows, \A i \in S : inv[i].balance = 0
  PROVE  Balance(S) = 0
<1>1. \A i \in S : Left[i] = 0
  BY DEF Left, Rows
<1>2. IsFiniteSet(S)
  BY RowsAdd DEF Summable
<1>3. Part(Left, S) = 0
  BY <1>1, <1>2, PartNothing
<1> QED BY <1>3, RowsAdd

(* The ages in shillings *)
InShillings == [i \in Invoices |-> Shillings(inv[i].total - inv[i].paid)]
ShillingsAdds(g, S) ==
  g = [T \in SUBSET S |-> IF T = {} THEN 0
                          ELSE Shillings(inv[Pick(T)].total - inv[Pick(T)].paid) + g[T \ {Pick(T)}]]

LEMMA ShillingsAre ==
  ASSUME NEW S, S \subseteq Invoices, Summable(S, InShillings)
  PROVE  MapThenSumSet(LAMBDA i : Shillings(inv[i].total - inv[i].paid), S) = Part(InShillings, S)
<1>1. \A g : ShillingsAdds(g, S) <=> Adds(g, S, InShillings)
  <2>1. \A T \in SUBSET S : T # {} =>
          InShillings[Pick(T)] = Shillings(inv[Pick(T)].total - inv[Pick(T)].paid)
    BY PickIs DEF InShillings
  <2> QED BY <2>1 DEF ShillingsAdds, Adds
<1>2. PICK k : k = CHOOSE g : ShillingsAdds(g, S)
  OBVIOUS
<1>3. Adds(k, S, InShillings)
  BY <1>1, <1>2, AddsExists, Zenon
<1>4. MapThenSumSet(LAMBDA i : Shillings(inv[i].total - inv[i].paid), S) = k[S]
  BY <1>2 DEF MapThenSumSet, MapThenFoldSet, ShillingsAdds, Pick
<1> QED BY <1>3, <1>4, PartIs

LEMMA WholeShillings == \A n : Whole(n) => Shillings(n) \in Int /\ 100 * Shillings(n) = n
BY DEF Shillings, Whole

LEMMA OwedInShillings ==
  ASSUME BooksAre, NEW S, S \subseteq Rows
  PROVE  100 * MapThenSumSet(LAMBDA i : Shillings(inv[i].total - inv[i].paid), S) = Owed(S)
<1>0. PICK f : f = [i \in Invoices |-> inv[i].total - inv[i].paid]
  OBVIOUS
<1>1. ASSUME NEW i \in S
      PROVE  i \in Invoices /\ f[i] \in Int /\ InShillings[i] \in Int /\ f[i] = 100 * InShillings[i]
             /\ Billed[i] = f[i] + Credited[i]
  <2>1. i \in Invoices /\ inv[i].total \in Int /\ inv[i].paid \in Int
        /\ Whole(inv[i].total) /\ Whole(inv[i].paid)
    BY RowIs DEF Sound, InvoiceRows
  <2>2. Whole(inv[i].total - inv[i].paid)
    BY <2>1, WholeSums
  <2>3. /\ Shillings(inv[i].total - inv[i].paid) \in Int
        /\ 100 * Shillings(inv[i].total - inv[i].paid) = inv[i].total - inv[i].paid
    BY <2>2, WholeShillings
  <2> QED BY <1>0, <2>1, <2>3 DEF InShillings, Billed, Credited
<1>2. Summable(S, f) /\ Summable(S, InShillings) /\ S \subseteq Invoices
  BY <1>1, RowsAdd DEF Summable
<1>3. Part(f, S) = 100 * Part(InShillings, S)
  BY <1>1, <1>2, PartInCents
<1>4. Part(Billed, S) = Part(f, S) + Part(Credited, S)
  <2>1. Summable(S, Credited)
    BY RowsAdd
  <2> QED BY <1>1, <1>2, <2>1, PartAdds
<1>5. Part(f, S) \in Int /\ Part(Credited, S) \in Int
  BY <1>2, RowsAdd, PartTakes
<1>6. Owed(S) = Part(f, S)
  BY <1>4, <1>5, RowsAdd DEF Owed
<1> QED BY <1>2, <1>3, <1>6, ShillingsAre

-----------------------------------------------------------------------------
(* What is owed *)
LEMMA StatusIs ==
  ASSUME BooksAre, NEW i \in Rows
  PROVE  inv[i].status \in {"draft", "sent", "partially_paid", "overdue", "paid", "cancelled", "credit_note"}
BY RowIs DEF InvoiceRows

LEMMA ClientsOwed ==
  ASSUME BooksAre
  PROVE  ClientDashboard.outstanding = Owed(Pending) + Owed(WithStatus({"credit_note"}))
<1>1. PICK S, A, B : /\ S = Rows \ WithStatus({"paid", "cancelled", "void", "draft"})
                     /\ A = Pending
                     /\ B = WithStatus({"credit_note"})
  OBVIOUS
<1>2. S \subseteq Rows /\ S = A \cup B /\ A \cap B = {}
  BY <1>1, StatusIs DEF WithStatus, Pending
<1>3. Owed(S) = Owed(A) + Owed(B)
  BY <1>2, RowsSplit
<1> QED BY <1>1, <1>3 DEF ClientDashboard

LEMMA AgesOwed ==
  ASSUME BooksAre, Untouched({"edited", "matched", "noted"})
  PROVE  AgingReport = Owed(Pending)
           + Balance(WithStatus({"draft", "cancelled", "paid"}) \ LongOverdue)
           - Balance(WithStatus({"sent", "partially_paid"}) \cap LongOverdue)
<1>1. PICK L, P, D, O, W : /\ L = LongOverdue
                           /\ P = Pending
                           /\ D = WithStatus({"draft", "cancelled", "paid"})
                           /\ O = WithStatus({"overdue"})
                           /\ W = WithStatus({"sent", "partially_paid"})
  OBVIOUS
<1>2. /\ L \subseteq Rows /\ P \subseteq Rows /\ D \subseteq Rows /\ O \subseteq Rows /\ W \subseteq Rows
      /\ Rows = P \cup D /\ P \cap D = {}
      /\ P = O \cup W /\ O \cap W = {}
  <2>1. \A i \in Rows : inv[i].status # "credit_note"
    BY RowIs DEF Sound, Untouched, Clear
  <2> QED BY <1>1, <2>1, StatusIs DEF WithStatus, Pending, LongOverdue
<1>3. PICK A : A = {i \in Rows \ L : inv[i].balance > 0}
  OBVIOUS
<1>4. Balance(Rows \ L) = Balance(A)
  <2>1. PICK Z : Z = (Rows \ L) \ A
    OBVIOUS
  <2>2. \A i \in Rows : inv[i].balance \in Int /\ inv[i].balance >= 0
    BY RowIs DEF Sound, InvoiceRows, Untouched, Clear
  <2>3. \A i \in Z : inv[i].balance = 0
    BY <1>3, <2>1, <2>2
  <2>4. Z \subseteq Rows /\ A \subseteq Rows /\ Rows \ L = A \cup Z /\ A \cap Z = {}
    BY <1>3, <2>1
  <2>5. Balance(Z) = 0
    BY <2>3, <2>4, NothingLeft
  <2>6. Balance(Rows \ L) = Balance(A) + Balance(Z)
    BY <2>4, RowsSplit
  <2>7. Balance(A) \in Int
    BY <2>4, RowsAdd
  <2> QED BY <2>5, <2>6, <2>7
<1>5. Balance(Rows \ L) = Balance(P \ L) + Balance(D \ L)
  <2>1. Rows \ L = (P \ L) \cup (D \ L) /\ (P \ L) \cap (D \ L) = {}
    BY <1>2
  <2> QED BY <2>1, RowsSplit
<1>6. Balance(P) = Balance(P \ L) + Balance(P \cap L)
  <2>1. P = (P \ L) \cup (P \cap L) /\ (P \ L) \cap (P \cap L) = {}
    OBVIOUS
  <2> QED BY <1>2, <2>1, RowsSplit
<1>7. Balance(P \cap L) = Balance(O \cap L) + Balance(W \cap L)
  <2>1. P \cap L = (O \cap L) \cup (W \cap L) /\ (O \cap L) \cap (W \cap L) = {} /\ P \cap L \subseteq Rows
    BY <1>2
  <2> QED BY <2>1, RowsSplit
<1>8. Owed(P) = Balance(P) /\ Owed(O \cap L) = Balance(O \cap L)
  <2>1. O \cap L \subseteq Rows
    BY <1>2
  <2> QED BY <1>2, <2>1, BalanceIsOwed
<1>9. /\ Balance(P \ L) \in Int /\ Balance(D \ L) \in Int /\ Balance(O \cap L) \in Int
      /\ Balance(W \cap L) \in Int
  <2>1. P \ L \subseteq Rows /\ D \ L \subseteq Rows /\ O \cap L \subseteq Rows /\ W \cap L \subseteq Rows
    BY <1>2
  <2> QED BY <2>1, RowsAdd
<1>10. AgingReport = Balance(A) + Owed(O \cap L)
  BY <1>1, <1>3 DEF AgingReport
<1> QED BY <1>1, <1>4, <1>5, <1>6, <1>7, <1>8, <1>9, <1>10

LEMMA DetailedOwed ==
  ASSUME BooksAre, Untouched({"edited", "matched", "note_sent"})
  PROVE  100 * DetailedAging = Owed(Pending)
<1>1. PICK late : late = {i \in Rows \ WithStatus({"paid", "cancelled", "draft"}) : inv[i].total > inv[i].paid}
  OBVIOUS
<1>2. PICK rest : rest = Pending \ late
  OBVIOUS
<1>3. ASSUME NEW i \in Rows
      PROVE  /\ inv[i].total \in Int /\ inv[i].paid \in Int
             /\ inv[i].status \in {"sent", "partially_paid", "overdue"} => inv[i].paid <= inv[i].total
             /\ inv[i].status = "credit_note" => inv[i].total <= inv[i].paid
  BY RowIs DEF Sound, InvoiceRows, Untouched, Clear
<1>4. late \subseteq Pending
  BY <1>1, <1>3, StatusIs DEF Pending, WithStatus
<1>5. \A i \in rest : i \in Rows /\ inv[i].paid = inv[i].total
  BY <1>1, <1>2, <1>3, StatusIs DEF Pending, WithStatus
<1>6. Pending = late \cup rest /\ late \cap rest = {} /\ Pending \subseteq Rows /\ late \subseteq Rows
  BY <1>2, <1>4 DEF Pending, WithStatus
<1>7. Owed(Pending) = Owed(late) + Owed(rest)
  BY <1>6, RowsSplit
<1>8. Owed(rest) = 0
  BY <1>5, PaidInFull
<1>9. Owed(late) \in Int
  BY <1>6, RowsAdd
<1>10. 100 * DetailedAging = Owed(late)
  BY <1>1, <1>6, OwedInShillings DEF DetailedAging
<1> QED BY <1>7, <1>8, <1>9, <1>10

LEMMA OutstandingIs == ASSUME BooksAre PROVE OutstandingAgrees
<1>1. Dashboard(Start).outstanding = Owed(Pending)
  BY DEF Dashboard
<1>2. ASSUME Untouched({"edited", "matched", "noted"})
      PROVE  /\ Overview(Start, now).pending = Owed(Pending)
             /\ Overview(Start, now).overdue = AdvancedDashboard(Start, now).overdue
  <2>1. Pending \subseteq Rows /\ WithStatus({"overdue"}) \subseteq Rows
    BY DEF Pending, WithStatus
  <2>2. Balance(Pending) = Owed(Pending) /\ Balance(WithStatus({"overdue"})) = Owed(WithStatus({"overdue"}))
    BY <1>2, <2>1, BalanceIsOwed
  <2>3. /\ Overview(Start, now).pending = Balance(Pending)
        /\ Overview(Start, now).overdue = Balance(WithStatus({"overdue"}))
    BY DEF Overview
  <2>4. AdvancedDashboard(Start, now).overdue = Owed(WithStatus({"overdue"}))
    BY DEF AdvancedDashboard
  <2> QED BY <2>2, <2>3, <2>4
<1> QED BY <1>1, <1>2, ClientsOwed, AgesOwed, DetailedOwed DEF OutstandingAgrees

-----------------------------------------------------------------------------
(* What is received *)
LEMMA PaymentIsThere ==
  ASSUME BooksAre, NEW p \in Paid
  PROVE  /\ p \in Payments /\ pay[p] # NoRow /\ pay[p] \in PaymentRows
         /\ pay[p].of \in Rows /\ pay[p].at \in Start..now /\ Whole(pay[p].amount)
BY DEF Paid, BooksAre, PaymentsAre, PaymentRows, Rows

LEMMA PaymentsAdd ==
  ASSUME BooksAre, NEW S, S \subseteq Paid
  PROVE  Summable(S, Gets(pay)) /\ AmountOf(S) = Part(Gets(pay), S) /\ AmountOf(S) \in Int
<1>1. S \subseteq Payments /\ \A p \in S : pay[p] # NoRow
  BY DEF Paid
<1>2. PaymentsAre(inv, pay, now)
  BY DEF BooksAre
<1>3. Summable(S, Gets(pay))
  BY <1>1, <1>2, GetsAdd
<1>4. AmountOf(S) = Part(Gets(pay), S)
  BY <1>1, <1>3, AmountIs
<1> QED BY <1>3, <1>4, PartTakes

LEMMA PaymentsSplit ==
  ASSUME BooksAre, NEW S, S \subseteq Paid, NEW A, NEW B, S = A \cup B, A \cap B = {}
  PROVE  AmountOf(S) = AmountOf(A) + AmountOf(B)
<1>1. A \subseteq Paid /\ B \subseteq Paid
  OBVIOUS
<1>2. Summable(S, Gets(pay))
  BY PaymentsAdd
<1>3. Part(Gets(pay), S) = Part(Gets(pay), A) + Part(Gets(pay), B)
  BY <1>2, PartSplits
<1> QED BY <1>1, <1>3, PaymentsAdd

(* As long as no payment was spoilt *)
Unspoilt == Untouched({"overpaid", "reconciled", "emptied", "refunded", "moved"})

LEMMA PaidOfOne ==
  ASSUME BooksAre, Unspoilt, NEW i \in Rows
  PROVE  inv[i].paid = Part(Gets(pay), Pays(i)) /\ \A p \in Paid : pay[p].status = "completed"
<1>1. Pays(i) = PaysOf(pay, i)
  BY DEF Pays, Paid, PaysOf
<1>2. Received(inv, pay, amiss) /\ i \in Invoices /\ inv[i] # NoRow
  BY RowIs DEF BooksAre
<1>3. /\ \A p \in Payments : pay[p] # NoRow => pay[p].status = "completed"
      /\ inv[i].paid = Part(Gets(pay), PaysOf(pay, i))
  BY <1>2 DEF Received, Unspoilt, Untouched, Clear
<1> QED BY <1>1, <1>3 DEF Paid

LEMMA ReceivedIs == ASSUME BooksAre PROVE PaidIsReceived
<1>1. ASSUME Unspoilt, NEW i \in Rows PROVE PaymentVerification(i).match
  <2>1. inv[i].paid = Part(Gets(pay), Pays(i)) /\ \A p \in Paid : pay[p].status = "completed"
    BY <1>1, PaidOfOne
  <2>2. Completed(Pays(i)) = Pays(i) /\ Pays(i) \subseteq Paid
    BY <2>1 DEF Completed, Pays
  <2>3. AmountOf(Completed(Pays(i))) = inv[i].paid
    BY <2>1, <2>2, PaymentsAdd
  <2> QED BY <2>3 DEF PaymentVerification
<1> QED BY <1>1 DEF PaidIsReceived, Unspoilt

LEMMA AllReceived ==
  ASSUME BooksAre, Unspoilt
  PROVE  AmountOf(Paid) = PaidOf(Rows)
<1>1. PICK k : k = [p \in Payments |-> pay[p].of]
  OBVIOUS
<1>2. \A p \in Paid : p \in Payments /\ k[p] = pay[p].of /\ k[p] \in Rows
  BY <1>1, PaymentIsThere
<1>3. ASSUME NEW i \in Rows PROVE Credited[i] = Part(Gets(pay), {p \in Paid : k[p] = i})
  <2>1. Pays(i) = {p \in Paid : k[p] = i}
    BY <1>2 DEF Pays
  <2>2. Credited[i] = inv[i].paid
    BY RowIs DEF Credited
  <2>3. inv[i].paid = Part(Gets(pay), Pays(i))
    BY PaidOfOne
  <2> QED BY <2>1, <2>2, <2>3
<1>4. IsFiniteSet(Rows)
  BY RowsAdd DEF Summable
<1>5. Kinds(Paid, Gets(pay), k, Rows, Credited)
  BY <1>2, <1>3, <1>4 DEF Kinds
<1>6. Summable(Paid, Gets(pay))
  BY PaymentsAdd
<1>7. Part(Credited, Rows) = Part(Gets(pay), Paid)
  BY <1>5, <1>6, PartByKind
<1> QED BY <1>7, RowsAdd, PaymentsAdd

-----------------------------------------------------------------------------
(* Revenue *)
LEMMA RevenueIs == ASSUME BooksAre PROVE RevenueAgrees
<1>0. \A i \in Rows : /\ inv[i].paidAt \in Nat
                      /\ inv[i].paidAt # Never => inv[i].paidAt \in Start..now
  BY RowIs DEF Sound, InvoiceRows
<1>n. now \in Nat /\ Start \in Nat /\ Start <= now
  BY StartAssumption DEF BooksAre
<1>1. ASSUME Untouched({"edited", "matched"}), NEW s \in Start..now
      PROVE  Overview(s, now).revenue = Dashboard(s).revenue
  <2>1. PICK S, T : /\ S = PaidBetween(s, now)
                    /\ T = {i \in WithStatus({"paid"}) : inv[i].paidAt # Never /\ inv[i].paidAt >= s}
    OBVIOUS
  <2>2. \A i \in Rows : inv[i].paidAt # Never => inv[i].status = "paid" /\ inv[i].paid = inv[i].total
    BY <1>1, RowIs DEF Sound, Untouched, Clear
  <2>3. S = T /\ S \subseteq Rows /\ \A i \in S : inv[i].paid = inv[i].total
    BY <1>0, <1>n, <2>1, <2>2 DEF PaidBetween, WithStatus
  <2>4. PaidOf(S) = TotalOf(S)
    BY <2>3, PaidInFull
  <2> QED BY <2>1, <2>3, <2>4 DEF Overview, Dashboard
<1>2. ASSUME Unspoilt
      PROVE  AdvancedDashboard(Start, now).revenue
               = Overview(Start, now).revenue + PaidOf({i \in Rows : inv[i].paidAt = Never})
  <2>1. Completed(ReceivedBetween(Start, now)) = Paid
    <3>1. ASSUME NEW p \in Paid PROVE pay[p].status = "completed" /\ pay[p].at \in Start..now
      <4>1. pay[p].of \in Rows /\ pay[p].at \in Start..now
        BY PaymentIsThere
      <4> QED BY <1>2, <4>1, PaidOfOne
    <3> QED BY <3>1 DEF Completed, ReceivedBetween
  <2>2. PICK S, T : S = PaidBetween(Start, now) /\ T = {i \in Rows : inv[i].paidAt = Never}
    OBVIOUS
  <2>3. Rows = S \cup T /\ S \cap T = {}
    BY <1>0, <2>2 DEF PaidBetween
  <2>4. PaidOf(Rows) = PaidOf(S) + PaidOf(T)
    BY <2>3, RowsSplit
  <2>5. AmountOf(Paid) = PaidOf(Rows)
    BY <1>2, AllReceived
  <2> QED BY <2>1, <2>2, <2>4, <2>5 DEF AdvancedDashboard, Overview
<1>3. ASSUME Untouched({"paid_by_hand"}) PROVE Dashboard(Start).allTime = Dashboard(Start).revenue
  <2>1. \A i \in Rows : inv[i].status = "paid" => inv[i].paidAt # Never
    BY <1>3, RowIs DEF Sound, Untouched, Clear
  <2>2. WithStatus({"paid"}) = {i \in WithStatus({"paid"}) : inv[i].paidAt # Never /\ inv[i].paidAt >= Start}
    BY <1>0, <1>n, <2>1 DEF WithStatus
  <2> QED BY <2>2 DEF Dashboard
<1> QED BY <1>1, <1>2, <1>3 DEF RevenueAgrees, Unspoilt

-----------------------------------------------------------------------------
(* Statements: a sum of whole shillings is one *)
LEMMA WholePart ==
  ASSUME NEW S, NEW f, Summable(S, f), \A x \in S : Whole(f[x])
  PROVE  100 * Shillings(Part(f, S)) = Part(f, S) /\ Shillings(Part(f, S)) \in Int
<1>1. PICK w : w = [x \in S |-> Shillings(f[x])]
  OBVIOUS
<1>2. \A x \in S : w[x] \in Int /\ f[x] = 100 * w[x]
  <2>1. ASSUME NEW x \in S PROVE w[x] \in Int /\ f[x] = 100 * w[x]
    <3>1. f[x] \in Int /\ Whole(f[x])
      BY DEF Summable
    <3>2. Shillings(f[x]) \in Int /\ 100 * Shillings(f[x]) = f[x]
      BY <3>1, WholeShillings
    <3> QED BY <1>1, <3>2
  <2> QED BY <2>1
<1>3. Summable(S, w)
  BY <1>2 DEF Summable
<1>4. Part(f, S) = 100 * Part(w, S) /\ Part(w, S) \in Int
  BY <1>2, <1>3, PartInCents
<1>5. \A n \in Int : (100 * n) \div 100 = n
  OBVIOUS
<1> QED BY <1>4, <1>5 DEF Shillings

LEMMA TotalIsWhole ==
  ASSUME BooksAre, NEW S, S \subseteq Rows
  PROVE  100 * Shillings(TotalOf(S)) = TotalOf(S) /\ Shillings(TotalOf(S)) \in Int
<1>1. \A i \in S : Whole(Billed[i])
  <2>1. ASSUME NEW i \in S PROVE Whole(Billed[i])
    <3>1. i \in Invoices /\ Whole(inv[i].total)
      BY RowIs DEF Sound
    <3> QED BY <3>1 DEF Billed
  <2> QED BY <2>1
<1>2. Summable(S, Billed) /\ TotalOf(S) = Part(Billed, S)
  BY RowsAdd
<1> QED BY <1>1, <1>2, WholePart

LEMMA AmountIsWhole ==
  ASSUME BooksAre, NEW S, S \subseteq Paid
  PROVE  100 * Shillings(AmountOf(S)) = AmountOf(S) /\ Shillings(AmountOf(S)) \in Int
<1>1. \A p \in S : Whole(Gets(pay)[p])
  <2>1. ASSUME NEW p \in S PROVE Whole(Gets(pay)[p])
    <3>1. p \in Payments /\ Whole(pay[p].amount)
      BY PaymentIsThere
    <3> QED BY <3>1 DEF Gets
  <2> QED BY <2>1
<1>2. Summable(S, Gets(pay)) /\ AmountOf(S) = Part(Gets(pay), S)
  BY PaymentsAdd
<1> QED BY <1>1, <1>2, WholePart

LEMMA StatementsAre == ASSUME BooksAre PROVE StatementsChain
<1>1. SUFFICES ASSUME NEW s \in Start..now, NEW e \in Start..now, s <= e
               PROVE  LET one  == Statement(s, e)
                          next == Statement(e + Day, e + Day)
                      IN  next.opening - (one.opening + 100 * (one.closing - one.opening))
                            = TotalOf(CreatedBetween(e + 1, e + Day - 1))
                                - AmountOf(ReceivedBetween(e + 1, e + Day - 1))
  BY DEF StatementsChain
<1>2. s \in Int /\ e \in Int /\ Day \in Int /\ Day >= 1
  BY DayAssumption, StartAssumption DEF BooksAre
<1>3. PICK A, B, D, U : /\ A = {i \in Rows : inv[i].created < s}
                        /\ B = CreatedBetween(s, e)
                        /\ D = CreatedBetween(e + 1, e + Day - 1)
                        /\ U = {i \in Rows : inv[i].created < e + Day}
  OBVIOUS
<1>4. TotalOf(U) = TotalOf(A) + TotalOf(B) + TotalOf(D)
  <2>1. \A i \in Rows : inv[i].created \in Int
    BY RowIs DEF InvoiceRows
  <2>2. PICK V : V = A \cup B
    OBVIOUS
  <2>3. V = {i \in Rows : inv[i].created < e + 1} /\ A \cap B = {} /\ A \subseteq Rows /\ B \subseteq Rows
    BY <1>1, <1>2, <1>3, <2>1, <2>2 DEF CreatedBetween
  <2>4. U = V \cup D /\ V \cap D = {} /\ U \subseteq Rows /\ V \subseteq Rows /\ D \subseteq Rows
    BY <1>2, <1>3, <2>1, <2>3 DEF CreatedBetween
  <2>5. TotalOf(U) = TotalOf(V) + TotalOf(D)
    BY <2>4, RowsSplit
  <2>6. TotalOf(V) = TotalOf(A) + TotalOf(B)
    BY <2>2, <2>3, <2>4, RowsSplit
  <2> QED BY <2>5, <2>6
<1>5. PICK a, b, d, u : /\ a = {p \in Paid : pay[p].at < s}
                        /\ b = ReceivedBetween(s, e)
                        /\ d = ReceivedBetween(e + 1, e + Day - 1)
                        /\ u = {p \in Paid : pay[p].at < e + Day}
  OBVIOUS
<1>6. AmountOf(u) = AmountOf(a) + AmountOf(b) + AmountOf(d)
  <2>1. \A p \in Paid : pay[p].at \in Int
    BY PaymentIsThere DEF PaymentRows
  <2>2. PICK v : v = a \cup b
    OBVIOUS
  <2>3. v = {p \in Paid : pay[p].at < e + 1} /\ a \cap b = {} /\ a \subseteq Paid /\ b \subseteq Paid
    BY <1>1, <1>2, <1>5, <2>1, <2>2 DEF ReceivedBetween
  <2>4. u = v \cup d /\ v \cap d = {} /\ u \subseteq Paid /\ v \subseteq Paid /\ d \subseteq Paid
    BY <1>2, <1>5, <2>1, <2>3 DEF ReceivedBetween
  <2>5. AmountOf(u) = AmountOf(v) + AmountOf(d)
    BY <2>4, PaymentsSplit
  <2>6. AmountOf(v) = AmountOf(a) + AmountOf(b)
    BY <2>2, <2>3, <2>4, PaymentsSplit
  <2> QED BY <2>5, <2>6
<1>7. /\ 100 * Shillings(TotalOf(B)) = TotalOf(B) /\ Shillings(TotalOf(B)) \in Int
      /\ TotalOf(A) \in Int /\ TotalOf(B) \in Int /\ TotalOf(D) \in Int
  <2>1. A \subseteq Rows /\ B \subseteq Rows /\ D \subseteq Rows
    BY <1>3 DEF CreatedBetween
  <2> QED BY <2>1, TotalIsWhole, RowsAdd
<1>8. /\ 100 * Shillings(AmountOf(b)) = AmountOf(b) /\ Shillings(AmountOf(b)) \in Int
      /\ AmountOf(a) \in Int /\ AmountOf(b) \in Int /\ AmountOf(d) \in Int
  <2>1. a \subseteq Paid /\ b \subseteq Paid /\ d \subseteq Paid
    BY <1>5 DEF ReceivedBetween
  <2> QED BY <2>1, AmountIsWhole, PaymentsAdd
<1>9. /\ Statement(s, e).opening = TotalOf(A) - AmountOf(a)
      /\ Statement(s, e).closing
           = TotalOf(A) - AmountOf(a) + Shillings(TotalOf(B)) - Shillings(AmountOf(b))
      /\ Statement(e + Day, e + Day).opening = TotalOf(U) - AmountOf(u)
  BY <1>3, <1>5 DEF Statement
<1>10. PICK opening, closing, next : /\ opening = Statement(s, e).opening
                                     /\ closing = Statement(s, e).closing
                                     /\ next = Statement(e + Day, e + Day).opening
  OBVIOUS
<1>11. next - (opening + 100 * (closing - opening)) = TotalOf(D) - AmountOf(d)
  <2>1. PICK x, y : x = Shillings(TotalOf(B)) /\ y = Shillings(AmountOf(b))
    OBVIOUS
  <2>2. closing - opening = x - y /\ x \in Int /\ y \in Int
    BY <1>7, <1>8, <1>9, <1>10, <2>1
  <2>3. 100 * (closing - opening) = TotalOf(B) - AmountOf(b)
    BY <1>7, <1>8, <2>1, <2>2
  <2> QED BY <1>4, <1>6, <1>7, <1>8, <1>9, <1>10, <2>3
<1> QED BY <1>3, <1>5, <1>10, <1>11

-----------------------------------------------------------------------------
(* Steps of the other parts do not touch the books *)
LEMMA BooksAlways == BooksSpec => []BooksAre
<1>1. BooksInit => BooksAre
  BY BooksBegin DEF BooksInit
<1>2. BooksAre /\ [BooksNext]_<<part, vars, expenses, clients>> => BooksAre'
  <2>1. [BooksNext]_<<part, vars, expenses, clients>> => [Next]_vars
    BY DEF BooksNext, BooksStep, ExpensesStep, ClientsStep
  <2> QED BY <2>1, BooksGoOn
<1> QED BY <1>1, <1>2, PTL DEF BooksSpec

(* What is owed is told alike on every page, but for the columns each page *)
(* adds up: whatever is created, noted, sent, paid, matched, edited,       *)
(* cancelled, refunded, moved and deleted before, and in whatever order    *)
(* the rows are added.                                                     *)
THEOREM OutstandingAddsUp == BooksSpec => []OutstandingAgrees
<1>1. BooksAre => OutstandingAgrees
  BY OutstandingIs
<1> QED BY <1>1, BooksAlways, PTL

(* The revenue of the invoices is that of the other dashboard unless an    *)
(* edit or a match came between, and is what the payments come to unless   *)
(* one of these was spoilt.                                                *)
THEOREM RevenueAddsUp == BooksSpec => []RevenueAgrees
<1>1. BooksAre => RevenueAgrees
  BY RevenueIs
<1> QED BY <1>1, BooksAlways, PTL

(* A statement goes on where the one of the days before ended, but for the *)
(* last day, from any day on and over any days of any length.              *)
THEOREM StatementsGoOn == BooksSpec => []StatementsChain
<1>1. BooksAre => StatementsChain
  BY StatementsAre
<1> QED BY <1>1, BooksAlways, PTL

(* What an invoice says it was paid is what its payments come to, unless   *)
(* one of these was spoilt.                                                *)
THEOREM PaymentsMatch == BooksSpec => []PaidIsReceived
<1>1. BooksAre => PaidIsReceived
  BY ReceivedIs
<1> QED BY <1>1, BooksAlways, PTL

-----------------------------------------------------------------------------
(* The pages *)

IsOver(h, K) == h = [x \in K |-> h[x]]

LEMMA SumIs ==
  ASSUME NEW K, NEW h, IsOver(h, K)
  PROVE  SumOf(h) = Part(h, K)
<1>1. PICK g : g = [x \in K |-> h[x]]
  OBVIOUS
<1>2. Part(h, K) = SumOf(g)
  BY <1>1 DEF Part
<1>3. g = h
  BY <1>1, Zenon DEF IsOver
<1> QED BY <1>2, <1>3

LEMMA OnesCount ==
  ASSUME NEW S, IsFiniteSet(S), NEW f, \A x \in S : f[x] = 1
  PROVE  Part(f, S) = Cardinality(S) /\ Cardinality(S) \in Nat
<1>1. PICK G : G = {T \in SUBSET S : Part(f, T) = Cardinality(T)}
  OBVIOUS
<1>2. Summable(S, f)
  BY DEF Summable
<1>3. \A T \in SUBSET S : Summable(T, f)
  BY <1>2, SubsetsSum
<1>4. {} \in G
  BY <1>1, <1>3, PartTakes, FS_EmptySet
<1>5. ASSUME NEW T \in SUBSET S, NEW x \in T, T \ {x} \in G PROVE T \in G
  <2>1. IsFiniteSet(T) /\ IsFiniteSet(T \ {x})
    BY FS_Subset
  <2>2. Cardinality(T \ {x}) = Cardinality(T) - 1 /\ Cardinality(T) \in Nat
    BY <2>1, FS_RemoveElement, FS_CardinalityType
  <2>3. Part(f, T) = f[x] + Part(f, T \ {x}) /\ f[x] = 1
    BY <1>3, PartTakes
  <2>4. Part(f, T \ {x}) = Cardinality(T \ {x})
    BY <1>1, <1>5
  <2> QED BY <1>1, <2>2, <2>3, <2>4
<1>6. S \in G
  BY <1>4, <1>5, SetGrows DEF Grows
<1> QED BY <1>1, <1>6, FS_CardinalityType

Ones(S) == [x \in S |-> 1]

(* What is broken down by a kind adds up again *)
Sorted(S, k, K, h) ==
  IsFiniteSet(K) /\ (\A x \in S : k[x] \in K) /\ IsOver(h, K)
OfKind(S, k, c) == {x \in S : k[x] = c}
CountsBy(h, S, k, K)  == \A c \in K : h[c] = Cardinality(OfKind(S, k, c))
TotalsBy(h, S, k, K)  == \A c \in K : h[c] = TotalOf(OfKind(S, k, c))
PaidBy(h, S, k, K)    == \A c \in K : h[c] = PaidOf(OfKind(S, k, c))
AmountsBy(h, S, k, K) == \A c \in K : h[c] = AmountOf(OfKind(S, k, c))

LEMMA CountByKind ==
  ASSUME NEW S, IsFiniteSet(S), NEW k, NEW K, NEW h, Sorted(S, k, K, h), CountsBy(h, S, k, K)
  PROVE  Part(h, K) = Cardinality(S)
<1>1. PICK f : f = Ones(S)
  OBVIOUS
<1>2. \A x \in S : f[x] = 1
  BY <1>1 DEF Ones
<1>3. Summable(S, f)
  BY <1>2 DEF Summable
<1>4. ASSUME NEW c \in K PROVE h[c] = Part(f, {x \in S : k[x] = c})
  <2>1. PICK T : T = {x \in S : k[x] = c}
    OBVIOUS
  <2>2. IsFiniteSet(T) /\ \A x \in T : f[x] = 1
    BY <1>2, <2>1, FS_Subset
  <2>3. h[c] = Cardinality(T)
    BY <2>1 DEF OfKind, CountsBy
  <2> QED BY <2>1, <2>2, <2>3, OnesCount
<1>5. Part(h, K) = Part(f, S)
  <2>1. Kinds(S, f, k, K, h)
    BY <1>4 DEF Kinds, Sorted
  <2> QED BY <1>3, <2>1, PartByKind
<1> QED BY <1>2, <1>5, OnesCount

LEMMA TotalByKind ==
  ASSUME BooksAre, NEW S, S \subseteq Rows, NEW k, NEW K, NEW h, Sorted(S, k, K, h), TotalsBy(h, S, k, K)
  PROVE  Part(h, K) = TotalOf(S)
<1>1. Summable(S, Billed) /\ TotalOf(S) = Part(Billed, S)
  BY RowsAdd
<1>2. ASSUME NEW c \in K PROVE h[c] = Part(Billed, {x \in S : k[x] = c})
  <2>1. OfKind(S, k, c) \subseteq Rows
    BY DEF OfKind
  <2> QED BY <2>1, RowsAdd DEF OfKind, TotalsBy, PaidBy
<1>3. Part(h, K) = Part(Billed, S)
  BY <1>1, <1>2, PartByKind DEF Kinds, Sorted
<1> QED BY <1>1, <1>3

LEMMA PaidByKind ==
  ASSUME BooksAre, NEW S, S \subseteq Rows, NEW k, NEW K, NEW h, Sorted(S, k, K, h), PaidBy(h, S, k, K)
  PROVE  Part(h, K) = PaidOf(S)
<1>1. Summable(S, Credited) /\ PaidOf(S) = Part(Credited, S)
  BY RowsAdd
<1>2. ASSUME NEW c \in K PROVE h[c] = Part(Credited, {x \in S : k[x] = c})
  <2>1. OfKind(S, k, c) \subseteq Rows
    BY DEF OfKind
  <2> QED BY <2>1, RowsAdd DEF OfKind, TotalsBy, PaidBy
<1>3. Part(h, K) = Part(Credited, S)
  BY <1>1, <1>2, PartByKind DEF Kinds, Sorted
<1> QED BY <1>1, <1>3

LEMMA AmountByKind ==
  ASSUME BooksAre, NEW S, S \subseteq Paid, NEW k, NEW K, NEW h, Sorted(S, k, K, h), AmountsBy(h, S, k, K)
  PROVE  Part(h, K) = AmountOf(S)
<1>1. Summable(S, Gets(pay)) /\ AmountOf(S) = Part(Gets(pay), S)
  BY PaymentsAdd
<1>2. ASSUME NEW c \in K PROVE h[c] = Part(Gets(pay), {x \in S : k[x] = c})
  <2>1. OfKind(S, k, c) \subseteq Paid
    BY DEF OfKind
  <2> QED BY <2>1, PaymentsAdd DEF OfKind, AmountsBy
<1>3. Part(h, K) = Part(Gets(pay), S)
  BY <1>1, <1>2, PartByKind DEF Kinds, Sorted
<1> QED BY <1>1, <1>3

(* Days and months *)
LEMMA Periods ==
  ASSUME NEW t \in Nat, NEW len \in Nat \ {0}
  PROVE  /\ t \div len \in Nat
         /\ \A d \in Int : /\ t \div len = d <=> d * len <= t /\ t < (d + 1) * len
                           /\ d <= t \div len <=> d * len <= t
<1>1. PICK q, r \in Nat : t = len * q + r /\ r < len /\ t \div len = q
  <2>1. t \div len \in Nat /\ t % len \in Nat /\ t % len < len /\ t = len * (t \div len) + (t % len)
    OBVIOUS
  <2> QED BY <2>1
<1>2. PICK u \in Nat : u = q * len
  BY <1>1
<1>3. u <= t /\ t < u + len
  BY <1>1, <1>2
<1>4. \A d \in Int : /\ d * len \in Int /\ (d + 1) * len = d * len + len
                     /\ d <= q => d * len <= u
                     /\ d >= q + 1 => d * len >= u + len
  <2>1. SUFFICES ASSUME NEW d \in Int
                 PROVE  /\ d * len \in Int /\ (d + 1) * len = d * len + len
                        /\ d <= q => d * len <= u
                        /\ d >= q + 1 => d * len >= u + len
    OBVIOUS
  <2>2. d * len \in Int /\ (d + 1) * len = d * len + len
    OBVIOUS
  <2>3. ASSUME d <= q PROVE d * len <= u
    <3>1. PICK a \in Nat : q = d + a
      BY <2>3
    <3>2. a * len \in Nat /\ u = d * len + a * len
      BY <1>2, <3>1
    <3> QED BY <2>2, <3>2
  <2>4. ASSUME d >= q + 1 PROVE d * len >= u + len
    <3>1. PICK a \in Nat : d = q + 1 + a
      <4>1. d - (q + 1) \in Nat /\ d = q + 1 + (d - (q + 1))
        BY <2>4
      <4> QED BY <4>1
    <3>2. a * len \in Nat /\ d * len = u + len + a * len
      BY <1>2, <3>1
    <3> QED BY <3>2
  <2> QED BY <2>2, <2>3, <2>4
<1>5. ASSUME NEW d \in Int
      PROVE  /\ t \div len = d <=> d * len <= t /\ t < (d + 1) * len
             /\ d <= t \div len <=> d * len <= t
  <2>1. PICK v \in Int : v = d * len
    BY <1>4
  <2>2. (d + 1) * len = v + len /\ (d <= q => v <= u) /\ (d >= q + 1 => v >= u + len)
    BY <1>4, <2>1
  <2>3. d = q => v = u
    BY <1>2, <2>1
  <2>4. d <= q <=> v <= t
    BY <1>1, <1>2, <1>3, <2>1, <2>2
  <2>5. d + 1 <= q => v + len <= u
    BY <1>4, <2>2
  <2>6. d = q <=> v <= t /\ t < v + len
    BY <1>3, <2>2, <2>3, <2>4, <2>5
  <2> QED BY <1>1, <2>1, <2>2, <2>4, <2>6
<1> QED BY <1>1, <1>5

LEMMA TimeIs ==
  ASSUME BooksAre
  PROVE  now \in Nat /\ Start \in Nat /\ Start > 1 /\ Start <= now /\ Day \in Nat \ {0}
BY StartAssumption, DayAssumption DEF BooksAre, Zero

LEMMA DateIs ==
  ASSUME BooksAre, NEW i \in Rows
  PROVE  /\ inv[i].created \in Nat /\ Start <= inv[i].created /\ inv[i].created <= now
         /\ inv[i].paidAt # Never =>
              /\ inv[i].paidAt \in Nat /\ Start <= inv[i].paidAt /\ inv[i].paidAt <= now
              /\ inv[i].created <= inv[i].paidAt
<1>1. Sound(inv[i], amiss, now)
  BY RowIs
<1>2. inv[i].created \in Start..now /\ (inv[i].paidAt # Never => inv[i].paidAt \in Start..now
                                                           /\ inv[i].created <= inv[i].paidAt)
  BY <1>1 DEF Sound
<1> QED BY <1>2, TimeIs

LEMMA ReceiptIs ==
  ASSUME BooksAre, NEW p \in Paid
  PROVE  pay[p].at \in Nat /\ Start <= pay[p].at /\ pay[p].at <= now
BY PaymentIsThere, TimeIs

(* Periods of one length, one after the other: in which of them a moment is *)
LEMMA Period ==
  ASSUME NEW s \in Nat, NEW t \in Nat, s <= t, NEW len \in Nat \ {0}
  PROVE  /\ (t - s) \div len \in Nat
         /\ \A k \in Int : /\ (t - s) \div len = k <=> s + k * len <= t /\ t < s + (k + 1) * len
                           /\ k <= (t - s) \div len <=> s + k * len <= t
<1>1. PICK u \in Nat : u = t - s
  OBVIOUS
<1>2. t = s + u
  BY <1>1
<1>3. u \div len \in Nat
  BY Periods
<1>4. ASSUME NEW k \in Int
      PROVE  /\ u \div len = k <=> s + k * len <= t /\ t < s + (k + 1) * len
             /\ k <= u \div len <=> s + k * len <= t
  <2>1. PICK v, w \in Int : v = k * len /\ w = (k + 1) * len
    OBVIOUS
  <2>2. (u \div len = k <=> v <= u /\ u < w) /\ (k <= u \div len <=> v <= u)
    BY <2>1, Periods
  <2>3. (v <= u <=> s + v <= t) /\ (u < w <=> t < s + w)
    BY <1>2
  <2> QED BY <2>1, <2>2, <2>3
<1> QED BY <1>1, <1>3, <1>4

Span(S, when, from, to) == {x \in S : from <= when[x] /\ when[x] < to}
Turn(T, when, first, len) == [x \in T |-> (when[x] - first) \div len]

Timed(S, when) == \A x \in S : when[x] \in Nat
InTurn(T, k, S, when, first, len, a, b) ==
  /\ \A x \in T : k[x] \in a..b
  /\ \A c \in a..b : OfKind(T, k, c) = Span(S, when, first + c * len, first + (c + 1) * len)

LEMMA Spans ==
  ASSUME NEW S, NEW when, Timed(S, when),
         NEW first \in Nat, NEW len \in Nat \ {0}, NEW a \in Nat, NEW b \in Int, a <= b + 1,
         NEW T, T = Span(S, when, first + a * len, first + (b + 1) * len),
         NEW k, k = Turn(T, when, first, len)
  PROVE  InTurn(T, k, S, when, first, len, a, b)
<1>1. PICK lo, hi : lo = first + a * len /\ hi = first + (b + 1) * len
  OBVIOUS
<1>2. lo \in Int /\ hi \in Int /\ first <= lo
  <2>1. PICK u \in Nat, v \in Int : u = a * len /\ v = (b + 1) * len
    OBVIOUS
  <2> QED BY <1>1, <2>1
<1>3. ASSUME NEW x \in S, lo <= when[x]
      PROVE  /\ (when[x] - first) \div len \in Nat
             /\ (when[x] - first) \div len >= a
             /\ (when[x] - first) \div len <= b <=> when[x] < hi
             /\ \A c \in Int : (when[x] - first) \div len = c
                               <=> first + c * len <= when[x] /\ when[x] < first + (c + 1) * len
  <2>1. PICK t \in Nat : t = when[x]
    BY DEF Timed
  <2>2. first <= t
    BY <1>2, <1>3, <2>1
  <2>3. PICK d \in Nat : d = (t - first) \div len
    BY <2>2, Period
  <2>4. \A c \in Int : /\ d = c <=> first + c * len <= t /\ t < first + (c + 1) * len
                       /\ c <= d <=> first + c * len <= t
    BY <2>2, <2>3, Period
  <2>5. d >= a
    BY <1>1, <1>3, <2>1, <2>4
  <2>6. b + 1 <= d <=> hi <= t
    BY <1>1, <2>4
  <2>7. d <= b <=> t < hi
    BY <1>2, <2>6
  <2> QED BY <2>1, <2>3, <2>4, <2>5, <2>7
<1>4. T = {x \in S : lo <= when[x] /\ when[x] < hi}
  BY <1>1 DEF Span
<1>5. \A x \in T : k[x] = (when[x] - first) \div len
  BY DEF Turn
<1>6. \A x \in T : k[x] \in a..b
  BY <1>3, <1>4, <1>5
<1>7. ASSUME NEW c \in a..b
      PROVE  OfKind(T, k, c) = Span(S, when, first + c * len, first + (c + 1) * len)
  <2>1. PICK from, to : from = first + c * len /\ to = first + (c + 1) * len
    OBVIOUS
  <2>2. from \in Int /\ to \in Int /\ lo <= from /\ to <= hi
    <3>1. PICK u, v \in Nat : c = a + u /\ b = c + v
      <4>1. c - a \in Nat /\ b - c \in Nat /\ c = a + (c - a) /\ b = c + (b - c)
        OBVIOUS
      <4> QED BY <4>1
    <3>2. c * len = a * len + u * len /\ u * len \in Nat /\ a * len \in Nat
      BY <3>1
    <3>3. (b + 1) * len = (c + 1) * len + v * len /\ v * len \in Nat /\ (c + 1) * len \in Nat
      BY <3>1
    <3> QED BY <1>1, <2>1, <3>2, <3>3
  <2>3. ASSUME NEW x \in S
        PROVE  x \in T /\ k[x] = c <=> from <= when[x] /\ when[x] < to
    <3>1. when[x] \in Int
      BY DEF Timed
    <3>2. CASE lo <= when[x] /\ when[x] < hi
      <4>1. x \in T /\ k[x] = (when[x] - first) \div len
        BY <1>4, <1>5, <3>2
      <4>2. (when[x] - first) \div len = c <=> from <= when[x] /\ when[x] < to
        BY <1>3, <2>1, <3>2
      <4> QED BY <4>1, <4>2
    <3>3. CASE ~(lo <= when[x] /\ when[x] < hi)
      <4>1. x \notin T
        BY <1>4, <3>3
      <4>2. ~(from <= when[x] /\ when[x] < to)
        BY <1>2, <2>2, <3>1, <3>3
      <4> QED BY <4>1, <4>2
    <3> QED BY <3>2, <3>3
  <2>4. T \subseteq S
    BY <1>4
  <2> QED BY <2>1, <2>3, <2>4 DEF OfKind, Span
<1> QED BY <1>6, <1>7 DEF InTurn

LEMMA FiniteSpan ==
  \A a, b \in Int : IsFiniteSet(a..b)
BY FS_Interval

Paying    == [i \in Rows |-> inv[i].paidAt]
Creating  == [i \in Rows |-> inv[i].created]
Receiving == [p \in Paid |-> pay[p].at]

(* The periods a..b of this length go from x to y *)
Periodic(first, len, a, b, x, y) ==
  /\ first \in Nat /\ len \in Nat \ {0} /\ a \in Nat /\ b \in Int /\ a <= b + 1
  /\ x = first + a * len /\ x \in Int
  /\ y = first + (b + 1) * len /\ y \in Int

RevenueBy(h, first, len, K) ==
  \A c \in K : h[c] = TotalOf(PaidFrom(first + c * len, first + (c + 1) * len))
CreatedIn(x, y) == Cardinality(CreatedBetween(x, y - 1))
CreatedBy(h, first, len, K) ==
  \A c \in K : h[c] = CreatedIn(first + c * len, first + (c + 1) * len)
ReceivedBy(h, G, first, len, K) ==
  \A c \in K : h[c] = AmountOf(Span(G, Receiving, first + c * len, first + (c + 1) * len))

RowsPaid == {i \in WithStatus({"paid"}) : inv[i].paidAt # Never}

LEMMA PaidSpan ==
  \A x, y : PaidFrom(x, y) = Span(RowsPaid, Paying, x, y)
BY DEF PaidFrom, Span, RowsPaid, Paying, WithStatus

LEMMA CreatedSpan ==
  ASSUME BooksAre, NEW x \in Int, NEW y \in Int
  PROVE  CreatedBetween(x, y - 1) = Span(Rows, Creating, x, y)
<1>1. \A i \in Rows : inv[i].created \in x..y - 1 <=> x <= inv[i].created /\ inv[i].created < y
  BY DateIs
<1> QED BY <1>1 DEF CreatedBetween, Span, Creating

LEMMA RevenueInTurn ==
  ASSUME BooksAre, NEW first, NEW len, NEW a, NEW b, NEW x, NEW y,
         Periodic(first, len, a, b, x, y), NEW h, IsOver(h, a..b), RevenueBy(h, first, len, a..b)
  PROVE  Part(h, a..b) = TotalOf(PaidFrom(x, y))
<1>1. PICK T : T = Span(RowsPaid, Paying, x, y)
  OBVIOUS
<1>2. PICK k : k = Turn(T, Paying, first, len)
  OBVIOUS
<1>3. Timed(RowsPaid, Paying)
  BY DateIs DEF Timed, RowsPaid, Paying, WithStatus
<1>4. InTurn(T, k, RowsPaid, Paying, first, len, a, b)
  BY <1>1, <1>2, <1>3, Spans DEF Periodic
<1>5. T \subseteq Rows
  BY <1>1 DEF Span, RowsPaid, WithStatus
<1>00. PICK K : K = a..b
  OBVIOUS
<1>6. TotalsBy(h, T, k, K)
  <2>1. SUFFICES ASSUME NEW c \in K PROVE h[c] = TotalOf(OfKind(T, k, c))
    BY DEF TotalsBy
  <2>2. OfKind(T, k, c) = PaidFrom(first + c * len, first + (c + 1) * len)
    BY <1>4, <1>00, PaidSpan DEF InTurn
  <2> QED BY <1>00, <2>2 DEF RevenueBy
<1>7. Sorted(T, k, K, h)
  BY <1>4, <1>00, FiniteSpan DEF Sorted, InTurn, Periodic
<1>8. Part(h, K) = TotalOf(T)
  BY <1>5, <1>6, <1>7, TotalByKind
<1> QED BY <1>00, <1>1, <1>8, PaidSpan

LEMMA CreatedInTurn ==
  ASSUME BooksAre, NEW first, NEW len, NEW a, NEW b, NEW x, NEW y,
         Periodic(first, len, a, b, x, y), NEW h, IsOver(h, a..b), CreatedBy(h, first, len, a..b)
  PROVE  Part(h, a..b) = Cardinality(CreatedBetween(x, y - 1))
<1>1. PICK T : T = Span(Rows, Creating, x, y)
  OBVIOUS
<1>2. PICK k : k = Turn(T, Creating, first, len)
  OBVIOUS
<1>3. Timed(Rows, Creating)
  BY DateIs DEF Timed, Creating
<1>4. InTurn(T, k, Rows, Creating, first, len, a, b)
  BY <1>1, <1>2, <1>3, Spans DEF Periodic
<1>5. IsFiniteSet(T)
  BY <1>1, FS_Subset, RowsAssumption DEF Span, Rows
<1>0. \A c \in Int : first + c * len \in Int /\ first + (c + 1) * len \in Int
  BY DEF Periodic
<1>00. PICK K : K = a..b
  OBVIOUS
<1>6. CountsBy(h, T, k, K)
  <2>1. SUFFICES ASSUME NEW c \in K PROVE h[c] = Cardinality(OfKind(T, k, c))
    BY DEF CountsBy
  <2>2. PICK from, to \in Int : from = first + c * len /\ to = first + (c + 1) * len
    BY <1>0, <1>00 DEF Periodic
  <2>5. h[c] = CreatedIn(first + c * len, first + (c + 1) * len)
    BY <1>00 DEF CreatedBy
  <2>3. OfKind(T, k, c) = CreatedBetween(from, to - 1)
    BY <1>4, <1>00, <2>2, CreatedSpan DEF InTurn
  <2>4. h[c] = CreatedIn(from, to)
    BY <2>2, <2>5, Zenon
  <2> QED BY <2>3, <2>4 DEF CreatedIn
<1>7. Sorted(T, k, K, h)
  BY <1>4, <1>00, FiniteSpan DEF Sorted, InTurn, Periodic
<1>8. Part(h, K) = Cardinality(T)
  BY <1>5, <1>6, <1>7, CountByKind
<1>9. T = CreatedBetween(x, y - 1)
  BY <1>1, CreatedSpan DEF Periodic
<1> QED BY <1>00, <1>8, <1>9

LEMMA ReceivedInTurn ==
  ASSUME BooksAre, NEW G, G \subseteq Paid,
         NEW first, NEW len, NEW a, NEW b, NEW x, NEW y,
         Periodic(first, len, a, b, x, y), NEW h, IsOver(h, a..b), ReceivedBy(h, G, first, len, a..b)
  PROVE  Part(h, a..b) = AmountOf(Span(G, Receiving, x, y))
<1>1. PICK T : T = Span(G, Receiving, x, y)
  OBVIOUS
<1>2. PICK k : k = Turn(T, Receiving, first, len)
  OBVIOUS
<1>3. Timed(G, Receiving)
  BY ReceiptIs DEF Timed, Receiving
<1>4. InTurn(T, k, G, Receiving, first, len, a, b)
  BY <1>1, <1>2, <1>3, Spans DEF Periodic
<1>5. T \subseteq Paid
  BY <1>1 DEF Span
<1>00. PICK K : K = a..b
  OBVIOUS
<1>6. AmountsBy(h, T, k, K)
  <2>1. SUFFICES ASSUME NEW c \in K PROVE h[c] = AmountOf(OfKind(T, k, c))
    BY DEF AmountsBy
  <2>2. OfKind(T, k, c) = Span(G, Receiving, first + c * len, first + (c + 1) * len)
    BY <1>4, <1>00 DEF InTurn
  <2> QED BY <1>00, <2>2 DEF ReceivedBy
<1>7. Sorted(T, k, K, h)
  BY <1>4, <1>00, FiniteSpan DEF Sorted, InTurn, Periodic
<1>8. Part(h, K) = AmountOf(T)
  BY <1>5, <1>6, <1>7, AmountByKind
<1> QED BY <1>00, <1>1, <1>8

LEMMA RevenueFrom ==
  ASSUME BooksAre, NEW s \in Int, NEW e \in Int, s <= e
  PROVE  /\ TotalOf(PaidFrom(s, e)) = Dashboard(s).revenue - Dashboard(e).revenue
         /\ Dashboard(s).revenue \in Int
<1>1. PICK A, B, W : A = PaidFrom(s, e) /\ B = {i \in RowsPaid : inv[i].paidAt >= e}
                   /\ W = {i \in RowsPaid : inv[i].paidAt >= s}
  OBVIOUS
<1>2. Dashboard(s).revenue = TotalOf(W) /\ Dashboard(e).revenue = TotalOf(B)
  <2>1. W = {i \in WithStatus({"paid"}) : inv[i].paidAt # Never /\ inv[i].paidAt >= s}
        /\ B = {i \in WithStatus({"paid"}) : inv[i].paidAt # Never /\ inv[i].paidAt >= e}
    BY <1>1 DEF RowsPaid
  <2> QED BY <2>1 DEF Dashboard
<1>3. \A i \in RowsPaid : inv[i].paidAt \in Int
  BY DateIs DEF RowsPaid, WithStatus
<1>4. A = {i \in RowsPaid : s <= inv[i].paidAt /\ inv[i].paidAt < e}
  BY <1>1 DEF PaidFrom, RowsPaid
<1>5. W = A \cup B /\ A \cap B = {}
  BY <1>1, <1>3, <1>4
<1>6. W \subseteq Rows /\ A \subseteq Rows /\ B \subseteq Rows
  BY <1>1, <1>4 DEF RowsPaid, WithStatus
<1>7. TotalOf(W) = TotalOf(A) + TotalOf(B)
  BY <1>5, <1>6, RowsSplit
<1>8. TotalOf(W) \in Int /\ TotalOf(A) \in Int /\ TotalOf(B) \in Int
  BY <1>6, RowsAdd
<1> QED BY <1>1, <1>2, <1>7, <1>8

-----------------------------------------------------------------------------
(* By day *)
LEMMA DailyRevenueIs ==
  ASSUME BooksAre, NEW s \in Nat, NEW n \in Nat
  PROVE  SumOf(DailyRevenue(s, n)) = Dashboard(s).revenue - Dashboard(s + n * Day).revenue
<1>1. PICK h, m : h = DailyRevenue(s, n) /\ m = n - 1
  OBVIOUS
<1>2. m \in Int /\ 0 <= m + 1 /\ m + 1 = n /\ Day \in Nat \ {0}
  BY <1>1, TimeIs
<1>3. h = [c \in 0..m |-> TotalOf(PaidFrom(s + c * Day, s + (c + 1) * Day))]
  BY <1>1 DEF DailyRevenue
<1>4. IsOver(h, 0..m)
  BY <1>3, Zenon DEF IsOver
<1>5. RevenueBy(h, s, Day, 0..m)
  BY <1>3 DEF RevenueBy
<1>7. PICK e \in Int : e = s + n * Day /\ s <= e
  <2>1. PICK u \in Nat : u = n * Day
    BY <1>2
  <2> QED BY <2>1
<1>8. Periodic(s, Day, 0, m, s, e)
  BY <1>2, <1>7 DEF Periodic
<1>9. Part(h, 0..m) = TotalOf(PaidFrom(s, e))
  BY <1>4, <1>5, <1>8, RevenueInTurn
<1>10. SumOf(DailyRevenue(s, n)) = Part(h, 0..m)
  BY <1>1, <1>4, SumIs
<1> QED BY <1>7, <1>9, <1>10, RevenueFrom

LEMMA RevenueChartIs ==
  ASSUME BooksAre, now = MaxNow, NEW s \in Nat, NEW n \in Nat
  PROVE  LET second == (DayOf(s) + 1) * Day
         IN  SumOf(RevenueChart(s, n)) = Dashboard(second).revenue - Dashboard(second + n * Day).revenue
<1>1. PICK h, d : h = RevenueChart(s, n) /\ d = DayOf(s)
  OBVIOUS
<1>2. d \in Nat /\ Day \in Nat \ {0}
  BY <1>1, TimeIs, Periods DEF DayOf
<1>3. PICK first \in Nat : first = d * Day
  BY <1>2
<1>4. \A c \in Int : first + c * Day = (d + c) * Day
  BY <1>2, <1>3
<1>5. h = [c \in 1..n |-> TotalOf({i \in PaidFrom(s, MaxNow + 1) : DayOf(inv[i].paidAt) = d + c})]
  BY <1>1 DEF RevenueChart
<1>6. IsOver(h, 1..n)
  BY <1>5, Zenon DEF IsOver
<1>7. ASSUME NEW c \in 1..n
      PROVE  h[c] = TotalOf(PaidFrom(first + c * Day, first + (c + 1) * Day))
  <2>1. PICK x, y \in Int : x = first + c * Day /\ y = first + (c + 1) * Day
    BY <1>2
  <2>2. x = (d + c) * Day /\ y = (d + c + 1) * Day
    BY <1>2, <1>4, <2>1
  <2>3. ASSUME NEW t \in Nat PROVE DayOf(t) = d + c <=> x <= t /\ t < y
    BY <1>2, <2>2, Periods DEF DayOf
  <2>4. s <= x
    <3>1. DayOf(s) < d + c /\ DayOf(s) \in Int
      BY <1>1, <1>2
    <3>2. d + c <= DayOf(s) <=> (d + c) * Day <= s
      BY <1>2, Periods DEF DayOf
    <3> QED BY <1>2, <2>1, <2>2, <3>1, <3>2
  <2>5. ASSUME NEW i \in RowsPaid
        PROVE  s <= inv[i].paidAt /\ inv[i].paidAt < MaxNow + 1 /\ DayOf(inv[i].paidAt) = d + c
               <=> x <= inv[i].paidAt /\ inv[i].paidAt < y
    <3>1. PICK t \in Nat : t = inv[i].paidAt /\ t < now + 1
      BY DateIs, TimeIs DEF RowsPaid, WithStatus
    <3>2. DayOf(t) = d + c <=> x <= t /\ t < y
      BY <2>3
    <3> QED BY <2>1, <2>4, <3>1, <3>2
  <2>6. {i \in PaidFrom(s, MaxNow + 1) : DayOf(inv[i].paidAt) = d + c} = PaidFrom(x, y)
    BY <2>5 DEF PaidFrom, RowsPaid
  <2> QED BY <1>5, <2>1, <2>6
<1>8. RevenueBy(h, first, Day, 1..n)
  BY <1>7 DEF RevenueBy
<1>9. PICK x, y \in Int : x = first + 1 * Day /\ y = first + (n + 1) * Day
  BY <1>2
<1>10. x = (d + 1) * Day /\ y = x + n * Day /\ x <= y
  <2>1. PICK u \in Nat : u = n * Day
    BY <1>2
  <2>2. (n + 1) * Day = u + Day
    BY <1>2, <2>1
  <2> QED BY <1>2, <1>4, <1>9, <2>1, <2>2
<1>12. Periodic(first, Day, 1, n, x, y)
  BY <1>2, <1>9 DEF Periodic
<1>13. Part(h, 1..n) = TotalOf(PaidFrom(x, y))
  BY <1>6, <1>8, <1>12, RevenueInTurn
<1>11. Part(h, 1..n) = Dashboard(x).revenue - Dashboard(y).revenue
  BY <1>9, <1>10, <1>13, RevenueFrom
<1>14. SumOf(RevenueChart(s, n)) = Part(h, 1..n)
  BY <1>1, <1>6, SumIs
<1> QED BY <1>1, <1>10, <1>11, <1>14

(* Everything created, from a moment before on *)
LEMMA AllCreated ==
  ASSUME BooksAre, NEW x \in Int, NEW y \in Int, x <= Start, now < y
  PROVE  CreatedBetween(x, y - 1) = Rows
<1>1. \A i \in Rows : inv[i].created \in x..y - 1
  BY DateIs, TimeIs
<1> QED BY <1>1 DEF CreatedBetween

LEMMA DailyInvoicesAre ==
  ASSUME BooksAre, now = MaxNow
  PROVE  SumOf(DailyInvoices(Start, Cardinality(Days))) = Cardinality(Rows)
<1>1. PICK d, e : d = DayOf(Start) /\ e = DayOf(now)
  OBVIOUS
<1>2. /\ d \in Nat /\ e \in Nat /\ Day \in Nat \ {0}
      /\ d * Day <= Start /\ now < (e + 1) * Day /\ d <= e
  <2>1. now \in Nat /\ Start \in Nat /\ Start <= now /\ Day \in Nat \ {0}
    BY TimeIs
  <2>2. d \in Nat /\ e \in Nat
    BY <1>1, <2>1, Periods DEF DayOf
  <2>3. d * Day <= Start /\ now < (e + 1) * Day
    BY <1>1, <2>1, <2>2, Periods DEF DayOf
  <2>4. d * Day <= now
    <3>1. d * Day \in Int
      BY <2>1, <2>2
    <3> QED BY <2>1, <2>3, <3>1
  <2>5. d <= e
    BY <1>1, <2>1, <2>2, <2>4, Periods DEF DayOf
  <2> QED BY <2>1, <2>2, <2>3, <2>5
<1>3. PICK n : n = Cardinality(Days)
  OBVIOUS
<1>4. n = e - d + 1
  <2>1. Days = d..e
    BY <1>1 DEF Days
  <2> QED BY <1>2, <1>3, <2>1, FS_Interval
<1>5. PICK m \in Nat : m = n - 1 /\ m = e - d
  BY <1>2, <1>4
<1>6. PICK h : h = DailyInvoices(Start, n)
  OBVIOUS
<1>7. h = [c \in 0..n - 1 |-> Cardinality(CreatedBetween(Start + c * Day, Start + (c + 1) * Day - 1))]
  BY <1>6, Zenon DEF DailyInvoices
<1>8. IsOver(h, 0..m)
  BY <1>5, <1>7, Zenon DEF IsOver
<1>9. CreatedBy(h, Start, Day, 0..m)
  <2>1. SUFFICES ASSUME NEW c \in 0..m PROVE h[c] = CreatedIn(Start + c * Day, Start + (c + 1) * Day)
    BY DEF CreatedBy
  <2>2. PICK u \in Int : u = (c + 1) * Day
    BY <1>2
  <2>3. Start + (u - 1) = (Start + u) - 1
    BY TimeIs
  <2>4. c \in 0..n - 1
    BY <1>5
  <2>5. h[c] = Cardinality(CreatedBetween(Start + c * Day, Start + (u - 1)))
    BY <1>7, <2>2, <2>4, Zenon
  <2> QED BY <2>2, <2>3, <2>5, Zenon DEF CreatedIn
<1>11. PICK x, y \in Int : x = Start + 0 * Day /\ y = Start + (m + 1) * Day
  BY <1>2, TimeIs
<1>12. x <= Start /\ now < y
  <2>1. PICK u, v, w \in Nat : u = d * Day /\ v = (e + 1) * Day /\ w = (m + 1) * Day
    BY <1>2
  <2>2. v = u + w
    <3>1. e + 1 = d + (m + 1)
      BY <1>2, <1>5
    <3> QED BY <1>2, <2>1, <3>1
  <2> QED BY <1>2, <1>11, <2>1, <2>2, TimeIs
<1>13. CreatedBetween(x, y - 1) = Rows
  BY <1>12, AllCreated
<1>14. Part(h, 0..m) = Cardinality(CreatedBetween(x, y - 1))
  <2>1. Periodic(Start, Day, 0, m, x, y)
    BY <1>2, <1>11, TimeIs DEF Periodic
  <2> QED BY <1>8, <1>9, <2>1, CreatedInTurn
<1>15. SumOf(DailyInvoices(Start, n)) = Part(h, 0..m)
  BY <1>6, <1>8, SumIs
<1> QED BY <1>3, <1>13, <1>14, <1>15

-----------------------------------------------------------------------------
(* The days of the reports *)
LEMMA Everything ==
  ASSUME BooksAre
  PROVE  /\ CreatedBetween(Start, now) = Rows
         /\ ReceivedBetween(Start, now) = Paid
         /\ PaidBetween(Start, now) = {i \in Rows : inv[i].paidAt # Never}
<1>1. \A i \in Rows : inv[i].created \in Start..now /\ (inv[i].paidAt # Never => inv[i].paidAt \in Start..now)
  BY DateIs, TimeIs
<1>2. \A p \in Paid : pay[p].at \in Start..now
  BY PaymentIsThere
<1> QED BY <1>1, <1>2 DEF CreatedBetween, ReceivedBetween, PaidBetween

LEMMA DayIs ==
  ASSUME BooksAre, now = MaxNow
  PROVE  /\ IsFiniteSet(Days)
         /\ \A t \in Start..now : DayOf(t) \in Days
<1>1. PICK d, e \in Nat : d = DayOf(Start) /\ e = DayOf(now)
  BY TimeIs, Periods DEF DayOf
<1>2. Days = d..e
  BY <1>1 DEF Days
<1>3. ASSUME NEW t \in Start..now PROVE DayOf(t) \in d..e
  <2>1. t \in Nat /\ Start <= t /\ t <= now /\ Day \in Nat \ {0}
    BY TimeIs
  <2>2. PICK c \in Nat : c = DayOf(t)
    BY <2>1, Periods DEF DayOf
  <2>3. d * Day <= Start /\ c * Day <= t /\ d * Day \in Int /\ c * Day \in Int
    BY <1>1, <2>1, <2>2, TimeIs, Periods DEF DayOf
  <2>4. d * Day <= t /\ c * Day <= now
    BY <2>1, <2>3, TimeIs
  <2>5. d <= c
    BY <2>1, <2>2, <2>4, Periods DEF DayOf
  <2>6. c <= e
    BY <1>1, <2>1, <2>4, TimeIs, Periods DEF DayOf
  <2> QED BY <2>2, <2>5, <2>6
<1> QED BY <1>2, <1>3, FiniteSpan

AnyStatus == {"draft", "sent", "partially_paid", "overdue", "paid", "cancelled", "credit_note"}

LEMMA FiniteStatuses ==
  IsFiniteSet(AnyStatus) /\ IsFiniteSet(Counted)
<1>1. \A a, b, c, d, e, f, g : IsFiniteSet({a, b, c, d, e, f, g})
  <2>1. SUFFICES ASSUME NEW a, NEW b, NEW c, NEW d, NEW e, NEW f, NEW g
                 PROVE  IsFiniteSet({a, b, c, d, e, f, g})
    OBVIOUS
  <2>2. IsFiniteSet({a} \cup {b}) /\ IsFiniteSet({c} \cup {d}) /\ IsFiniteSet({e} \cup {f}) /\ IsFiniteSet({g})
    BY FS_Singleton, FS_Union
  <2>3. IsFiniteSet(({a} \cup {b}) \cup ({c} \cup {d})) /\ IsFiniteSet(({e} \cup {f}) \cup {g})
    BY <2>2, FS_Union
  <2>4. IsFiniteSet((({a} \cup {b}) \cup ({c} \cup {d})) \cup (({e} \cup {f}) \cup {g}))
    BY <2>3, FS_Union
  <2>5. (({a} \cup {b}) \cup ({c} \cup {d})) \cup (({e} \cup {f}) \cup {g}) = {a, b, c, d, e, f, g}
    OBVIOUS
  <2> QED BY <2>4, <2>5, Zenon
<1> QED BY <1>1, Zenon DEF AnyStatus, Counted

LEMMA InvoicesByDay ==
  ASSUME BooksAre, now = MaxNow
  PROVE  SumOf(GetInvoices(Start, now)) = Cardinality(Rows)
<1>1. PICK ST : ST = {inv[i].status : i \in Rows}
  OBVIOUS
<1>2. PICK K : K = Days \X ST
  OBVIOUS
<1>3. PICK h : h = GetInvoices(Start, now)
  OBVIOUS
<1>4. PICK k : k = [i \in Rows |-> <<DayOf(inv[i].created), inv[i].status>>]
  OBVIOUS
<1>5. h = [c \in K |-> Cardinality({i \in Rows : <<DayOf(inv[i].created), inv[i].status>> = c})]
  BY <1>1, <1>2, <1>3, Everything DEF GetInvoices
<1>6. IsOver(h, K)
  BY <1>5, Zenon DEF IsOver
<1>7. ASSUME NEW c \in K PROVE h[c] = Cardinality(OfKind(Rows, k, c))
  <2>1. {i \in Rows : <<DayOf(inv[i].created), inv[i].status>> = c} = OfKind(Rows, k, c)
    BY <1>4 DEF OfKind
  <2> QED BY <1>5, <2>1
<1>8. IsFiniteSet(K)
  <2>1. ST \subseteq AnyStatus
    BY <1>1, StatusIs DEF AnyStatus
  <2>2. IsFiniteSet(ST)
    BY <2>1, FiniteStatuses, FS_Subset
  <2> QED BY <1>2, <2>2, DayIs, FS_Product
<1>9. \A i \in Rows : k[i] \in K
  <2>1. \A i \in Rows : inv[i].created \in Start..now
    BY DateIs, TimeIs
  <2>2. \A i \in Rows : DayOf(inv[i].created) \in Days
    BY <2>1, DayIs
  <2> QED BY <1>1, <1>2, <1>4, <2>2
<1>10. Sorted(Rows, k, K, h) /\ CountsBy(h, Rows, k, K)
  BY <1>6, <1>7, <1>8, <1>9 DEF Sorted, CountsBy
<1>11. IsFiniteSet(Rows)
  BY RowsAdd DEF Summable
<1>12. Part(h, K) = Cardinality(Rows)
  BY <1>10, <1>11, CountByKind
<1> QED BY <1>3, <1>6, <1>12, SumIs

LEMMA RevenueByDay ==
  ASSUME BooksAre, now = MaxNow
  PROVE  SumOf(GetRevenue(Start, now)) = Overview(Start, now).revenue
<1>1. PICK S : S = PaidBetween(Start, now)
  OBVIOUS
<1>2. PICK h : h = GetRevenue(Start, now)
  OBVIOUS
<1>3. PICK k : k = [i \in Rows |-> DayOf(inv[i].paidAt)]
  OBVIOUS
<1>4. h = [d \in Days |-> PaidOf({i \in S : DayOf(inv[i].paidAt) = d})]
  BY <1>1, <1>2 DEF GetRevenue
<1>5. S \subseteq Rows /\ \A i \in S : inv[i].paidAt \in Start..now
  BY <1>1 DEF PaidBetween
<1>6. ASSUME NEW d \in Days PROVE h[d] = PaidOf(OfKind(S, k, d))
  <2>1. {i \in S : DayOf(inv[i].paidAt) = d} = OfKind(S, k, d)
    BY <1>3, <1>5 DEF OfKind
  <2> QED BY <1>4, <2>1
<1>7. \A i \in S : k[i] \in Days
  BY <1>3, <1>5, DayIs
<1>8. IsOver(h, Days)
  BY <1>4, Zenon DEF IsOver
<1>9. Sorted(S, k, Days, h) /\ PaidBy(h, S, k, Days)
  BY <1>6, <1>7, <1>8, DayIs DEF Sorted, PaidBy
<1>10. Part(h, Days) = PaidOf(S)
  BY <1>5, <1>9, PaidByKind
<1>11. Overview(Start, now).revenue = PaidOf(S)
  BY <1>1 DEF Overview
<1> QED BY <1>2, <1>8, <1>10, <1>11, SumIs

LEMMA DaysAre == ASSUME BooksAre, now = MaxNow PROVE DaysAddUp
<1>1. ASSUME NEW s \in {Start, Start + 1}
      PROVE  LET n      == Start + 2 - s
                 missed == Dashboard(s + n * Day).revenue
                 second == (DayOf(s) + 1) * Day
             IN  /\ SumOf(DailyRevenue(s, n)) = Dashboard(s).revenue - missed
                 /\ SumOf(RevenueChart(s, n)) =
                      Dashboard(second).revenue - Dashboard(second + n * Day).revenue
  <2>1. PICK n : n = Start + 2 - s
    OBVIOUS
  <2>2. s \in Nat /\ n \in Nat
    BY <2>1, TimeIs
  <2> QED BY <2>1, <2>2, DailyRevenueIs, RevenueChartIs
<1> QED BY <1>1, DailyInvoicesAre, InvoicesByDay, RevenueByDay DEF DaysAddUp

-----------------------------------------------------------------------------
(* By status, by client and by payment *)
LEMMA StatusesCount ==
  ASSUME BooksAre, NEW K, IsFiniteSet(K), NEW h, h = [status \in K |-> Cardinality(WithStatus({status}))]
  PROVE  SumOf(h) = Cardinality(WithStatus(K))
<1>1. PICK S, k : S = WithStatus(K) /\ k = [i \in Rows |-> inv[i].status]
  OBVIOUS
<1>2. IsFiniteSet(S) /\ S \subseteq Rows
  <2>1. IsFiniteSet(Rows)
    BY RowsAdd DEF Summable
  <2> QED BY <1>1, <2>1, FS_Subset DEF WithStatus
<1>3. \A c \in K : OfKind(S, k, c) = WithStatus({c})
  BY <1>1 DEF OfKind, WithStatus
<1>4. IsOver(h, K)
  BY Zenon DEF IsOver
<1>5. Sorted(S, k, K, h) /\ CountsBy(h, S, k, K)
  BY <1>1, <1>3, <1>4 DEF Sorted, CountsBy, WithStatus
<1>6. Part(h, K) = Cardinality(S)
  BY <1>2, <1>5, CountByKind
<1> QED BY <1>1, <1>4, <1>6, SumIs

Halves(S, A, B) == S = A \cup B /\ A \cap B = {}

LEMMA CountRest ==
  ASSUME BooksAre, NEW S, S \subseteq Rows, NEW A, NEW B, Halves(S, A, B)
  PROVE  /\ Cardinality(S) = Cardinality(A) + Cardinality(B)
         /\ Cardinality(A) \in Nat /\ Cardinality(B) \in Nat
<1>0. S = A \cup B /\ A \cap B = {}
  BY DEF Halves
<1>1. IsFiniteSet(A) /\ IsFiniteSet(B)
  <2>1. IsFiniteSet(S)
    BY RowsAdd DEF Summable
  <2> QED BY <1>0, <2>1, FS_Subset
<1>2. Cardinality(A \cap B) = 0
  BY <1>0, FS_EmptySet
<1>3. Cardinality(A) \in Nat /\ Cardinality(B) \in Nat
  BY <1>1, FS_CardinalityType
<1>4. Cardinality(A \cup B) = Cardinality(A) + Cardinality(B) - Cardinality(A \cap B)
  BY <1>1, FS_Union
<1> QED BY <1>0, <1>2, <1>3, <1>4

LEMMA FiniteClients ==
  ASSUME BooksAre, NEW S, S \subseteq Rows
  PROVE  IsFiniteSet(ClientsOf(S)) /\ \A i \in S : ClientOf(i) \in ClientsOf(S)
<1>1. PICK f : f = [i \in S |-> ClientOf(i)]
  OBVIOUS
<1>2. IsFiniteSet(S)
  BY RowsAdd DEF Summable
<1>3. f \in Surjection(S, ClientsOf(S))
  BY <1>1 DEF Surjection, ClientsOf
<1> QED BY <1>2, <1>3, FS_Surjection DEF ClientsOf

Whose == [i \in Rows |-> ClientOf(i)]

LEMMA ClientsHold ==
  ASSUME BooksAre, NEW S, S \subseteq Rows
  PROVE  /\ IsFiniteSet(ClientsOf(S)) /\ \A i \in S : Whose[i] \in ClientsOf(S)
         /\ \A c : OfKind(S, Whose, c) = {i \in S : ClientOf(i) = c}
BY FiniteClients DEF Whose, OfKind

LEMMA InvoicesAre7 == ASSUME BooksAre PROVE InvoicesAddUp
<1>1. IsFiniteSet(Rows) /\ Rows \subseteq Rows
  BY RowsAdd DEF Summable
<1>2. InvoiceStats(Start).total = SumOf(InvoiceStats(Start).count) + Cardinality(WithStatus({"credit_note"}))
  <2>1. PICK h : h = [status \in Counted |-> Cardinality(WithStatus({status}))]
    OBVIOUS
  <2>2. InvoiceStats(Start).count = h /\ InvoiceStats(Start).total = Cardinality(Rows)
    BY <2>1 DEF InvoiceStats
  <2>3. SumOf(h) = Cardinality(WithStatus(Counted))
    BY <2>1, FiniteStatuses, StatusesCount
  <2>4. Rows = WithStatus(Counted) \cup WithStatus({"credit_note"})
        /\ WithStatus(Counted) \cap WithStatus({"credit_note"}) = {}
    BY StatusIs DEF WithStatus, Counted
  <2>5. Cardinality(Rows) = Cardinality(WithStatus(Counted)) + Cardinality(WithStatus({"credit_note"}))
    <3>1. Halves(Rows, WithStatus(Counted), WithStatus({"credit_note"}))
      BY <2>4 DEF Halves
    <3> QED BY <1>1, <3>1, CountRest
  <2> QED BY <2>2, <2>3, <2>5
<1>3. SumOf(InvoicesOf(Start, now).byStatus) = InvoiceStats(Start).total
  <2>1. PICK K : K = {inv[i].status : i \in Rows}
    OBVIOUS
  <2>2. PICK h : h = [status \in K |-> Cardinality(WithStatus({status}))]
    OBVIOUS
  <2>3. \A status : Rows \cap WithStatus({status}) = WithStatus({status})
    BY DEF WithStatus
  <2>4. InvoicesOf(Start, now).byStatus = h
    BY <2>1, <2>2, <2>3, Everything DEF InvoicesOf
  <2>5. IsFiniteSet(K)
    <3>1. K \subseteq AnyStatus
      BY <2>1, StatusIs DEF AnyStatus
    <3> QED BY <3>1, FiniteStatuses, FS_Subset
  <2>6. WithStatus(K) = Rows
    BY <2>1 DEF WithStatus
  <2>7. SumOf(h) = Cardinality(Rows)
    BY <2>2, <2>5, <2>6, StatusesCount
  <2> QED BY <2>4, <2>7 DEF InvoiceStats
<1>4. LET whose == ClientRevenue(Start, now)
      IN  SumOf([c \in DOMAIN whose |-> whose[c].revenue]) = PaidOf(Rows)
  <2>1. PICK whose, K : whose = ClientRevenue(Start, now) /\ K = ClientsOf(Rows)
    OBVIOUS
  <2>2. PICK h : h = [c \in DOMAIN whose |-> whose[c].revenue]
    OBVIOUS
  <2>3. DOMAIN whose = K /\ \A c \in K : whose[c].revenue = PaidOf({i \in Rows : ClientOf(i) = c})
    BY <2>1, Everything DEF ClientRevenue
  <2>4. IsOver(h, K)
    BY <2>2, <2>3, Zenon DEF IsOver
  <2>5. Sorted(Rows, Whose, K, h) /\ PaidBy(h, Rows, Whose, K)
    BY <1>1, <2>1, <2>2, <2>3, <2>4, ClientsHold DEF Sorted, PaidBy
  <2>6. Part(h, K) = PaidOf(Rows)
    BY <1>1, <2>5, PaidByKind
  <2> QED BY <2>1, <2>2, <2>4, <2>6, SumIs
<1>5. MatchingStats.revenue
        + PaidOf(WithStatus({"overdue", "cancelled", "sent", "draft", "credit_note"})) = PaidOf(Rows)
  <2>1. PICK A, B : A = WithStatus({"paid", "partially_paid"})
                    /\ B = WithStatus({"overdue", "cancelled", "sent", "draft", "credit_note"})
    OBVIOUS
  <2>2. Rows = A \cup B /\ A \cap B = {}
    BY <2>1, StatusIs DEF WithStatus
  <2>3. PaidOf(Rows) = PaidOf(A) + PaidOf(B)
    BY <1>1, <2>2, RowsSplit
  <2> QED BY <2>1, <2>3 DEF MatchingStats
<1>6. SumOf(TopClients) - TotalOf(WithStatus({"partially_paid"})) = Dashboard(Start).allTime
  <2>1. PICK S, A, B : /\ S = WithStatus({"paid", "partially_paid"})
                       /\ A = WithStatus({"paid"}) /\ B = WithStatus({"partially_paid"})
    OBVIOUS
  <2>2. PICK h, K : h = TopClients /\ K = ClientsOf(S)
    OBVIOUS
  <2>3. h = [c \in K |-> TotalOf({i \in S : ClientOf(i) = c})]
    BY <2>1, <2>2 DEF TopClients
  <2>4. S \subseteq Rows /\ A \subseteq Rows /\ B \subseteq Rows /\ S = A \cup B /\ A \cap B = {}
    BY <2>1 DEF WithStatus
  <2>5. IsOver(h, K)
    BY <2>3, Zenon DEF IsOver
  <2>6. Sorted(S, Whose, K, h) /\ TotalsBy(h, S, Whose, K)
    <3>1. /\ IsFiniteSet(K) /\ \A i \in S : Whose[i] \in K
          /\ \A c : OfKind(S, Whose, c) = {i \in S : ClientOf(i) = c}
      <4>1. S \subseteq Rows
        BY <2>4
      <4> QED BY <2>2, <4>1, ClientsHold, Zenon
    <3> QED BY <2>3, <2>5, <3>1 DEF Sorted, TotalsBy
  <2>7. Part(h, K) = TotalOf(S)
    BY <2>4, <2>6, TotalByKind
  <2>8. TotalOf(S) = TotalOf(A) + TotalOf(B) /\ TotalOf(A) \in Int /\ TotalOf(B) \in Int
    <3>1. TotalOf(S) = TotalOf(A) + TotalOf(B)
      BY <2>4, RowsSplit
    <3> QED BY <2>4, <3>1, RowsAdd
  <2>9. SumOf(h) = TotalOf(S)
    BY <2>5, <2>7, SumIs
  <2>10. Dashboard(Start).allTime = TotalOf(A)
    BY <2>1 DEF Dashboard
  <2> QED BY <2>1, <2>2, <2>8, <2>9, <2>10
<1>7. InvoiceStats(Start).value = InvoiceStats(Start).paid + InvoiceStats(Start).outstanding + PaidOf(Pending)
                                    + TotalOf(WithStatus({"draft", "cancelled", "credit_note"}))
  <2>1. PICK A, P, B, R : /\ A = WithStatus({"paid"}) /\ P = Pending
                          /\ B = WithStatus({"draft", "cancelled", "credit_note"}) /\ R = P \cup B
    OBVIOUS
  <2>2. /\ Rows = A \cup R /\ A \cap R = {} /\ R \subseteq Rows /\ P \cap B = {}
        /\ A \subseteq Rows /\ P \subseteq Rows /\ B \subseteq Rows
    BY <2>1, StatusIs DEF WithStatus, Pending
  <2>3. TotalOf(Rows) = TotalOf(A) + TotalOf(R) /\ TotalOf(R) = TotalOf(P) + TotalOf(B)
    BY <1>1, <2>1, <2>2, RowsSplit
  <2>4. TotalOf(A) \in Int /\ TotalOf(P) \in Int /\ TotalOf(B) \in Int /\ PaidOf(P) \in Int
    BY <2>2, RowsAdd
  <2>5. Owed(P) = TotalOf(P) - PaidOf(P)
    BY DEF Owed
  <2>6. /\ InvoiceStats(Start).value = TotalOf(Rows) /\ InvoiceStats(Start).paid = TotalOf(A)
        /\ InvoiceStats(Start).outstanding = Owed(P)
    BY <2>1 DEF InvoiceStats
  <2>7. TotalOf(Rows) = TotalOf(A) + Owed(P) + PaidOf(P) + TotalOf(B)
    BY <2>3, <2>4, <2>5
  <2> QED BY <2>1, <2>6, <2>7
<1>8. ASSUME NEW zeroRated \in SUBSET Rows
      PROVE  LET declared == VATReturn(VATReport(Start, now, zeroRated), 0)
             IN  declared.box4 + declared.box6 = InvoiceStats(Start).value
  <2>1. PICK all, zero : all = TotalOf(Rows) /\ zero = TotalOf(Rows \cap zeroRated)
    OBVIOUS
  <2>2. all \in Int /\ zero \in Int
    <3>1. Rows \cap zeroRated \subseteq Rows
      OBVIOUS
    <3> QED BY <1>1, <2>1, <3>1, RowsAdd
  <2>3. PICK r : r = VATReport(Start, now, zeroRated)
    OBVIOUS
  <2>4. r.taxable = 0 /\ r.exempt = all - 0 - zero /\ r.zero = zero
    BY <2>1, <2>3, Everything DEF VATReport
  <2>5. VATReturn(r, 0).box4 = r.taxable + r.exempt /\ VATReturn(r, 0).box6 = r.zero
    BY DEF VATReturn
  <2>6. 0 + (all - 0 - zero) + zero = all
    BY <2>2
  <2>7. InvoiceStats(Start).value = all
    BY <2>1 DEF InvoiceStats
  <2> QED BY <2>3, <2>4, <2>5, <2>6, <2>7
<1> QED BY <1>2, <1>3, <1>4, <1>5, <1>6, <1>7, <1>8 DEF InvoicesAddUp

LEMMA NoAmount == ASSUME BooksAre PROVE AmountOf({}) = 0
<1>1. {} \subseteq Paid
  OBVIOUS
<1>2. Summable({}, Gets(pay)) /\ AmountOf({}) = Part(Gets(pay), {})
  BY <1>1, PaymentsAdd
<1> QED BY <1>2, PartTakes

LEMMA PaymentStatusIs ==
  ASSUME BooksAre, NEW p \in Paid PROVE pay[p].status \in {"completed", "refunded"}
BY PaymentIsThere DEF PaymentRows

LEMMA AmountByDay ==
  ASSUME BooksAre, now = MaxNow, NEW S, S \subseteq Paid,
         NEW h, h = [d \in Days |-> AmountOf({p \in S : DayOf(pay[p].at) = d})]
  PROVE  SumOf(h) = AmountOf(S)
<1>1. PICK k : k = [p \in Paid |-> DayOf(pay[p].at)]
  OBVIOUS
<1>2. \A d : OfKind(S, k, d) = {p \in S : DayOf(pay[p].at) = d}
  BY <1>1 DEF OfKind
<1>3. \A p \in S : pay[p].at \in Start..now
  BY PaymentIsThere
<1>4. \A p \in S : k[p] \in Days
  BY <1>1, <1>3, DayIs
<1>5. IsOver(h, Days)
  BY Zenon DEF IsOver
<1>6. Sorted(S, k, Days, h) /\ AmountsBy(h, S, k, Days)
  BY <1>2, <1>4, <1>5, DayIs DEF Sorted, AmountsBy
<1>7. Part(h, Days) = AmountOf(S)
  BY <1>6, AmountByKind
<1> QED BY <1>5, <1>7, SumIs

LEMMA PaymentsAre6 == ASSUME BooksAre, now = MaxNow PROVE PaymentsAddUp
<1>1. PICK done, back : /\ done = Completed(Paid)
                        /\ back = {p \in Paid : pay[p].status = "refunded"}
  OBVIOUS
<1>2. /\ Paid = done \cup back /\ done \cap back = {} /\ Paid \subseteq Paid
      /\ done \subseteq Paid /\ back \subseteq Paid
  BY <1>1, PaymentStatusIs DEF Completed
<1>3. AmountOf(Paid) = AmountOf(done) + AmountOf(back)
  BY <1>2, PaymentsSplit
<1>4. SumOf(CashFlow(Start, now)) = AmountOf(done)
  <2>1. CashFlow(Start, now) = [d \in Days |-> AmountOf({p \in done : DayOf(pay[p].at) = d})]
    BY <1>1, Everything DEF CashFlow
  <2> QED BY <1>2, <2>1, AmountByDay
<1>5. SumOf(GetPayments(Start, now)) = AmountOf(Paid)
  <2>1. GetPayments(Start, now) = [d \in Days |-> AmountOf({p \in Paid : DayOf(pay[p].at) = d})]
    BY Everything DEF GetPayments
  <2> QED BY <1>2, <2>1, AmountByDay
<1>6. Cardinality(Paid) = Cardinality(done) + Cardinality(back)
  <2>1. IsFiniteSet(Paid)
    BY PaymentsAdd DEF Summable
  <2>2. IsFiniteSet(done) /\ IsFiniteSet(back)
    BY <1>2, <2>1, FS_Subset
  <2>3. Cardinality(done \cup back) = Cardinality(done) + Cardinality(back) - Cardinality(done \cap back)
    BY <2>2, FS_Union
  <2>4. Cardinality(done \cap back) = 0 /\ Cardinality(done) \in Nat /\ Cardinality(back) \in Nat
    BY <1>2, <2>2, FS_EmptySet, FS_CardinalityType
  <2> QED BY <1>2, <2>3, <2>4
<1>7. PaymentSummary = [revenue |-> 0, pending |-> 0]
  <2>1. {p \in Paid : pay[p].status = "success"} = {} /\ {p \in Paid : pay[p].status = "pending"} = {}
    BY PaymentStatusIs
  <2> QED BY <2>1, NoAmount DEF PaymentSummary
<1>8. PICK page : page = PaymentsOf(Start, now)
  OBVIOUS
<1>9. /\ page.amount = AmountOf(Paid) /\ page.total = Cardinality(Paid)
      /\ page.success = Cardinality(done) /\ page.refunded = Cardinality(back)
  BY <1>1, <1>8, Everything DEF PaymentsOf
<1>10. Profitability(Start, now).net = AdvancedDashboard(Start, now).revenue
  BY DEF Profitability, AdvancedDashboard
<1>11. \A level \in DOMAIN FraudRisk(Start, now).levels : FraudRisk(Start, now).levels[level] = page.total
  BY <1>9, Everything DEF FraudRisk
<1> QED BY <1>1, <1>3, <1>4, <1>5, <1>6, <1>7, <1>8, <1>9, <1>10, <1>11 DEF PaymentsAddUp

-----------------------------------------------------------------------------
(* The dashboard *)

(* A sum lies between what its least and its most come to *)
LEMMA PartBetween ==
  ASSUME NEW S, NEW f, Summable(S, f),
         NEW lo \in Int, NEW hi \in Int, \A x \in S : lo <= f[x] /\ f[x] <= hi
  PROVE  Cardinality(S) * lo <= Part(f, S) /\ Part(f, S) <= Cardinality(S) * hi
<1>1. PICK G : G = {T \in SUBSET S : Cardinality(T) * lo <= Part(f, T) /\ Part(f, T) <= Cardinality(T) * hi}
  OBVIOUS
<1>2. {} \in G
  BY <1>1, PartTakes, FS_EmptySet
<1>3. ASSUME NEW T \in SUBSET S, NEW x \in T, T \ {x} \in G PROVE T \in G
  <2>1. PICK t : t = T \ {x}
    OBVIOUS
  <2>2. IsFiniteSet(T)
    BY FS_Subset DEF Summable
  <2>3. PICK n \in Nat : Cardinality(t) = n /\ Cardinality(T) = n + 1
    <3>1. Cardinality(t) = Cardinality(T) - 1 /\ Cardinality(t) \in Nat /\ Cardinality(T) \in Nat
      BY <2>1, <2>2, FS_RemoveElement, FS_CardinalityType
    <3> QED BY <3>1
  <2>4. Grown(f, T, x)
    BY GrowsOn
  <2>5. n * lo <= Part(f, t) /\ Part(f, t) <= n * hi
    BY <1>1, <1>3, <2>1, <2>3
  <2>6. PICK u, v \in Int : /\ u = n * lo /\ v = n * hi
                            /\ (n + 1) * lo = u + lo /\ (n + 1) * hi = v + hi
    OBVIOUS
  <2>7. u + lo <= Part(f, T) /\ Part(f, T) <= v + hi
    BY <2>1, <2>4, <2>5, <2>6 DEF Grown
  <2> QED BY <1>1, <2>3, <2>6, <2>7
<1>4. S \in G
  BY <1>2, <1>3, SetGrows DEF Grows, Summable
<1> QED BY <1>1, <1>4

(* ... and has the sign of all its parts *)
LEMMA PartHasSign ==
  ASSUME NEW S, NEW f, Summable(S, f)
  PROVE  /\ (\A x \in S : f[x] >= 0) => Part(f, S) >= 0
         /\ (\A x \in S : f[x] <= 0) => Part(f, S) <= 0
<1>1. PICK G : G = {T \in SUBSET S : /\ (\A x \in S : f[x] >= 0) => Part(f, T) >= 0
                                     /\ (\A x \in S : f[x] <= 0) => Part(f, T) <= 0}
  OBVIOUS
<1>2. {} \in G
  BY <1>1, PartTakes
<1>3. ASSUME NEW T \in SUBSET S, NEW x \in T, T \ {x} \in G PROVE T \in G
  <2>1. Grown(f, T, x)
    BY GrowsOn
  <2> QED BY <1>1, <1>3, <2>1 DEF Grown
<1>4. S \in G
  BY <1>2, <1>3, SetGrows DEF Grows, Summable
<1> QED BY <1>1, <1>4

LEMMA MonthsSoFarAre ==
  ASSUME BooksAre
  PROVE  LET a == MonthOf(Start)
             b == MonthOf(now)
             x == 0 + a * MonthLength
             y == 0 + (b + 1) * MonthLength
         IN  /\ MonthsOf(MonthsSoFar) = a..b
             /\ Periodic(0, MonthLength, a, b, x, y)
             /\ x <= Start /\ now < y
<1>1. PICK a, b \in Nat : a = MonthOf(Start) /\ b = MonthOf(now)
  BY TimeIs, MonthLengthAssumption, Periods DEF MonthOf
<1>2. PICK u, v \in Nat : u = a * MonthLength /\ v = (b + 1) * MonthLength
  BY <1>1, MonthLengthAssumption
<1>3. u <= Start /\ now < v
  BY <1>1, <1>2, TimeIs, MonthLengthAssumption, Periods DEF MonthOf
<1>4. a <= b
  <2>1. a * MonthLength <= now
    BY <1>2, <1>3, TimeIs
  <2> QED BY <1>1, <2>1, TimeIs, MonthLengthAssumption, Periods DEF MonthOf
<1>5. MonthsOf(MonthsSoFar) = a..b
  <2>1. MonthsSoFar = b - a + 1
    BY <1>1 DEF MonthsSoFar
  <2>2. b - ((b - a + 1) - 1) = a
    BY <1>1
  <2> QED BY <1>1, <2>1, <2>2 DEF MonthsOf
<1>6. Periodic(0, MonthLength, a, b, 0 + u, 0 + v)
  BY <1>1, <1>2, <1>4, MonthLengthAssumption DEF Periodic
<1> QED BY <1>1, <1>2, <1>3, <1>5, <1>6

LEMMA RevenueByMonth ==
  ASSUME BooksAre
  PROVE  SumOf(MonthlyRevenue(MonthsSoFar)) = Dashboard(Start).revenue
<1>1. PICK a, b : a = MonthOf(Start) /\ b = MonthOf(now)
  OBVIOUS
<1>2. PICK x, y : x = 0 + a * MonthLength /\ y = 0 + (b + 1) * MonthLength
  OBVIOUS
<1>3. /\ MonthsOf(MonthsSoFar) = a..b /\ Periodic(0, MonthLength, a, b, x, y)
      /\ x <= Start /\ now < y
  BY <1>1, <1>2, MonthsSoFarAre
<1>4. PICK h : h = MonthlyRevenue(MonthsSoFar)
  OBVIOUS
<1>5. h = [m \in a..b |-> TotalOf(PaidFrom(m * MonthLength, (m + 1) * MonthLength))]
  BY <1>3, <1>4 DEF MonthlyRevenue
<1>6. IsOver(h, a..b)
  BY <1>5, Zenon DEF IsOver
<1>7. RevenueBy(h, 0, MonthLength, a..b)
  <2>1. SUFFICES ASSUME NEW c \in a..b
                 PROVE  h[c] = TotalOf(PaidFrom(0 + c * MonthLength, 0 + (c + 1) * MonthLength))
    BY DEF RevenueBy
  <2>2. 0 + c * MonthLength = c * MonthLength /\ 0 + (c + 1) * MonthLength = (c + 1) * MonthLength
    BY <1>3, MonthLengthAssumption DEF Periodic
  <2> QED BY <1>5, <2>2
<1>8. Part(h, a..b) = TotalOf(PaidFrom(x, y))
  BY <1>3, <1>6, <1>7, RevenueInTurn
<1>9. PaidFrom(x, y) = {i \in WithStatus({"paid"}) : inv[i].paidAt # Never /\ inv[i].paidAt >= Start}
  <2>1. \A i \in WithStatus({"paid"}) : inv[i].paidAt # Never =>
          x <= inv[i].paidAt /\ inv[i].paidAt < y /\ inv[i].paidAt >= Start
    <3>1. ASSUME NEW i \in WithStatus({"paid"}), inv[i].paidAt # Never
          PROVE  x <= inv[i].paidAt /\ inv[i].paidAt < y /\ inv[i].paidAt >= Start
      <4>1. inv[i].paidAt \in Nat /\ Start <= inv[i].paidAt /\ inv[i].paidAt <= now
        BY <3>1, DateIs DEF WithStatus
      <4> QED BY <1>3, <4>1, TimeIs DEF Periodic
    <3> QED BY <3>1
  <2> QED BY <2>1 DEF PaidFrom
<1>10. Dashboard(Start).revenue = TotalOf(PaidFrom(x, y))
  BY <1>9 DEF Dashboard
<1> QED BY <1>4, <1>6, <1>8, <1>10, SumIs

LEMMA InvoicesByMonth ==
  ASSUME BooksAre
  PROVE  SumOf(MonthlyInvoices(MonthsSoFar)) = Cardinality(Rows)
<1>1. PICK a, b : a = MonthOf(Start) /\ b = MonthOf(now)
  OBVIOUS
<1>2. PICK x, y : x = 0 + a * MonthLength /\ y = 0 + (b + 1) * MonthLength
  OBVIOUS
<1>3. /\ MonthsOf(MonthsSoFar) = a..b /\ Periodic(0, MonthLength, a, b, x, y)
      /\ x <= Start /\ now < y
  BY <1>1, <1>2, MonthsSoFarAre
<1>4. PICK h : h = MonthlyInvoices(MonthsSoFar)
  OBVIOUS
<1>5. h = [m \in a..b |-> Cardinality(CreatedBetween(m * MonthLength, (m + 1) * MonthLength - 1))]
  BY <1>3, <1>4 DEF MonthlyInvoices
<1>6. IsOver(h, a..b)
  BY <1>5, Zenon DEF IsOver
<1>7. CreatedBy(h, 0, MonthLength, a..b)
  <2>1. SUFFICES ASSUME NEW c \in a..b
                 PROVE  h[c] = CreatedIn(0 + c * MonthLength, 0 + (c + 1) * MonthLength)
    BY DEF CreatedBy
  <2>2. 0 + c * MonthLength = c * MonthLength /\ 0 + (c + 1) * MonthLength = (c + 1) * MonthLength
    BY <1>3, MonthLengthAssumption DEF Periodic
  <2>3. h[c] = CreatedIn(c * MonthLength, (c + 1) * MonthLength)
    BY <1>5 DEF CreatedIn
  <2> QED BY <2>2, <2>3
<1>8. Part(h, a..b) = Cardinality(CreatedBetween(x, y - 1))
  BY <1>3, <1>6, <1>7, CreatedInTurn
<1>9. CreatedBetween(x, y - 1) = Rows
  BY <1>3, AllCreated DEF Periodic
<1> QED BY <1>4, <1>6, <1>8, <1>9, SumIs

LEMMA Collected ==
  ASSUME BooksAre
  PROVE  Collection.paid <= Collection.billed - TotalOf({i \in Rows : inv[i].total < 0})
<1>1. PICK A, N, P, Q, B, C1 : /\ A = WithStatus({"paid"})
                               /\ N = {i \in Rows : inv[i].total < 0} /\ P = Rows \ N
                               /\ Q = A \cap P /\ B = P \ A /\ C1 = A \cap N
  OBVIOUS
<1>2. /\ A \subseteq Rows /\ N \subseteq Rows /\ P \subseteq Rows /\ Q \subseteq Rows /\ B \subseteq Rows
      /\ C1 \subseteq Rows
      /\ Rows = N \cup P /\ N \cap P = {} /\ P = Q \cup B /\ Q \cap B = {}
      /\ A = Q \cup C1 /\ Q \cap C1 = {}
  BY <1>1 DEF WithStatus
<1>3. TotalOf(Rows) = TotalOf(N) + TotalOf(P)
  BY <1>2, RowsSplit
<1>4. TotalOf(P) = TotalOf(Q) + TotalOf(B)
  BY <1>2, RowsSplit
<1>5. TotalOf(A) = TotalOf(Q) + TotalOf(C1)
  BY <1>2, RowsSplit
<1>6. \A i \in Rows : i \in Invoices /\ Billed[i] = inv[i].total /\ Billed[i] \in Int
  BY RowIs DEF Billed, InvoiceRows
<1>7. TotalOf(B) >= 0
  <2>1. Summable(B, Billed) /\ TotalOf(B) = Part(Billed, B)
    BY <1>2, RowsAdd
  <2>2. \A i \in B : Billed[i] >= 0
    BY <1>1, <1>6
  <2> QED BY <2>1, <2>2, PartHasSign
<1>8. TotalOf(C1) <= 0
  <2>1. Summable(C1, Billed) /\ TotalOf(C1) = Part(Billed, C1)
    BY <1>2, RowsAdd
  <2>2. \A i \in C1 : Billed[i] <= 0
    BY <1>1, <1>6
  <2> QED BY <2>1, <2>2, PartHasSign
<1>9. TotalOf(N) \in Int /\ TotalOf(Q) \in Int /\ TotalOf(B) \in Int /\ TotalOf(C1) \in Int
  BY <1>2, RowsAdd
<1>10. TotalOf(A) <= TotalOf(Rows) - TotalOf(N)
  BY <1>3, <1>4, <1>5, <1>7, <1>8, <1>9
<1> QED BY <1>1, <1>10 DEF Collection

LEMMA DaysToPayAre == ASSUME BooksAre PROVE DaysToPay >= 0
<1>1. PICK dated, h : /\ dated = {i \in WithStatus({"paid"}) : inv[i].paidAt # Never}
                      /\ h = [i \in dated |-> inv[i].paidAt - inv[i].created]
  OBVIOUS
<1>2. dated \subseteq Rows
  BY <1>1 DEF WithStatus
<1>3. \A i \in dated : h[i] \in Int /\ h[i] >= 0
  BY <1>1, <1>2, DateIs
<1>4. IsFiniteSet(dated)
  <2>1. IsFiniteSet(Rows)
    BY RowsAdd DEF Summable
  <2> QED BY <1>2, <2>1, FS_Subset
<1>5. Part(h, dated) >= 0
  BY <1>3, <1>4, PartHasSign DEF Summable
<1>6. IsOver(h, dated)
  BY <1>1, Zenon DEF IsOver
<1>7. DaysToPay = SumOf(h)
  BY <1>1 DEF DaysToPay
<1> QED BY <1>5, <1>6, <1>7, SumIs

LEMMA ClientsAre ==
  ASSUME BooksAre
  PROVE  /\ DOMAIN GetUserClients = ClientsOf(Rows)
         /\ \A c \in ClientsOf(Rows) :
              /\ GetUserClients[c].billed = TotalOf(OfKind(Rows, Whose, c))
              /\ GetUserClients[c].paid = PaidOf(OfKind(Rows, Whose, c))
              /\ GetUserClients[c].count = Cardinality(OfKind(Rows, Whose, c))
<1>1. ASSUME NEW c \in ClientsOf(Rows)
      PROVE  Chosen("", c, Start, now) = OfKind(Rows, Whose, c)
  <2>1. c # NoRow
    BY ClientsAssumption DEF ClientsOf, Rows
  <2>2. \A i \in Rows : inv[i].created \in Start..now
    BY DateIs, TimeIs
  <2> QED BY <2>1, <2>2 DEF Chosen, OfKind, Whose
<1> QED BY <1>1 DEF GetUserClients

LEMMA ClientsAddUp ==
  ASSUME BooksAre
  PROVE  /\ 100 * SumOf(ClientChart) = TotalOf(Rows)
         /\ SumOf([c \in DOMAIN GetUserClients |-> GetUserClients[c].paid]) = PaidOf(Rows)
         /\ SumOf([c \in DOMAIN GetUserClients |-> GetUserClients[c].count]) = Cardinality(Rows)
<1>1. PICK K : K = ClientsOf(Rows)
  OBVIOUS
<1>2. /\ IsFiniteSet(K) /\ \A i \in Rows : Whose[i] \in K
      /\ IsFiniteSet(Rows) /\ Rows \subseteq Rows
  BY <1>1, ClientsHold, RowsAdd DEF Summable
<1>3. PICK billed, chart, paid, count :
        /\ billed = [c \in K |-> GetUserClients[c].billed]
        /\ chart = [c \in K |-> Shillings(GetUserClients[c].billed)]
        /\ paid = [c \in K |-> GetUserClients[c].paid]
        /\ count = [c \in K |-> GetUserClients[c].count]
  OBVIOUS
<1>4. IsOver(billed, K) /\ IsOver(chart, K) /\ IsOver(paid, K) /\ IsOver(count, K)
  BY <1>3, Zenon DEF IsOver
<1>5. Part(billed, K) = TotalOf(Rows)
  <2>1. Sorted(Rows, Whose, K, billed) /\ TotalsBy(billed, Rows, Whose, K)
    BY <1>1, <1>2, <1>3, <1>4, ClientsAre DEF Sorted, TotalsBy
  <2> QED BY <1>2, <2>1, TotalByKind
<1>6. Part(paid, K) = PaidOf(Rows)
  <2>1. Sorted(Rows, Whose, K, paid) /\ PaidBy(paid, Rows, Whose, K)
    BY <1>1, <1>2, <1>3, <1>4, ClientsAre DEF Sorted, PaidBy
  <2> QED BY <1>2, <2>1, PaidByKind
<1>7. Part(count, K) = Cardinality(Rows)
  <2>1. Sorted(Rows, Whose, K, count) /\ CountsBy(count, Rows, Whose, K)
    BY <1>1, <1>2, <1>3, <1>4, ClientsAre DEF Sorted, CountsBy
  <2> QED BY <1>2, <2>1, CountByKind
<1>8. Part(billed, K) = 100 * Part(chart, K)
  <2>1. ASSUME NEW c \in K PROVE chart[c] \in Int /\ billed[c] = 100 * chart[c]
    <3>1. PICK S : S = OfKind(Rows, Whose, c)
      OBVIOUS
    <3>2. S \subseteq Rows
      BY <3>1 DEF OfKind
    <3>3. billed[c] = TotalOf(S) /\ chart[c] = Shillings(TotalOf(S))
      BY <1>1, <1>3, <3>1, ClientsAre
    <3> QED BY <3>2, <3>3, TotalIsWhole
  <2>2. Summable(K, chart)
    BY <1>2, <2>1 DEF Summable
  <2> QED BY <2>1, <2>2, PartInCents
<1>9. ClientChart = chart /\ paid = [c \in DOMAIN GetUserClients |-> GetUserClients[c].paid]
      /\ count = [c \in DOMAIN GetUserClients |-> GetUserClients[c].count]
  BY <1>1, <1>3, ClientsAre DEF ClientChart
<1>10. SumOf(chart) = Part(chart, K) /\ SumOf(paid) = Part(paid, K) /\ SumOf(count) = Part(count, K)
  BY <1>4, SumIs
<1> QED BY <1>5, <1>6, <1>7, <1>8, <1>9, <1>10

LEMMA DashboardIs == ASSUME BooksAre PROVE DashboardAddsUp
<1>1. PICK page : page = GetDashboard(Start)
  OBVIOUS
<1>2. /\ page.counts = StatusCounts /\ page.top = {} /\ page.statuses = StatusChart
      /\ page.clients = ClientChart
  BY <1>1 DEF GetDashboard, TopPayingClients
<1>3. SumOf(StatusCounts) = Cardinality(Rows \ WithStatus({"credit_note"}))
  <2>1. PICK K : K = {"draft", "sent", "paid", "overdue", "partially_paid", "cancelled"}
    OBVIOUS
  <2>2. K \subseteq AnyStatus
    BY <2>1 DEF AnyStatus
  <2>3. IsFiniteSet(K)
    BY <2>2, FiniteStatuses, FS_Subset
  <2>4. StatusCounts = [status \in K |-> Cardinality(WithStatus({status}))]
    BY <2>1 DEF StatusCounts
  <2>5. WithStatus(K) = Rows \ WithStatus({"credit_note"})
    BY <2>1, StatusIs DEF WithStatus
  <2>6. SumOf(StatusCounts) = Cardinality(WithStatus(K))
    BY <2>3, <2>4, StatusesCount
  <2> QED BY <2>5, <2>6
<1>4. SumOf(StatusChart) = 0
  <2>1. PICK K : K = {"draft", "sent", "paid", "overdue"}
    OBVIOUS
  <2>2. K \subseteq AnyStatus
    BY <2>1 DEF AnyStatus
  <2>3. IsFiniteSet(K)
    BY <2>2, FiniteStatuses, FS_Subset
  <2>4. StatusChart = [status \in K |-> 0]
    BY <2>1 DEF StatusChart
  <2>5. IsOver(StatusChart, K)
    BY <2>4, Zenon DEF IsOver
  <2>6. Part(StatusChart, K) = 0
    BY <2>3, <2>4, PartNothing
  <2> QED BY <2>5, <2>6, SumIs
<1>5. Collection.billed = TotalOf(Rows)
  BY DEF Collection
<1> QED BY <1>1, <1>2, <1>3, <1>4, <1>5, RevenueByMonth, InvoicesByMonth, Collected, DaysToPayAre,
           ClientsAddUp DEF DashboardAddsUp

-----------------------------------------------------------------------------
(* Periods with both ends *)
AtTurns(G, len) == {p \in G : pay[p].at % len = 0 /\ pay[p].at > Start}
Within(G, len, c) == {p \in G : c * len <= pay[p].at /\ pay[p].at <= (c + 1) * len}

(* The periods from + a, ..., from + b are those from the first moment to the last *)
AllPeriods(len, from, a, b) ==
  /\ len \in Nat \ {0} /\ from \in Int /\ a \in Int /\ b \in Int
  /\ from + a = Start \div len /\ from + b = now \div len
WithinBy(h, G, len, from, K) == \A c \in K : h[c] = AmountOf(Within(G, len, from + c))

(* Which periods t is at the turn of, of those from the moment s on *)
AtTurn(t, len, s) ==
  /\ t \div len \in Nat /\ s \div len \in Nat /\ s \div len <= t \div len
  /\ t % len = 0 /\ t > s => t \div len > s \div len
  /\ \A c \in Int : (t = (c + 1) * len /\ c >= s \div len)
                      <=> (t % len = 0 /\ t > s /\ t \div len = c + 1)

LEMMA TurnIs ==
  ASSUME NEW t \in Nat, NEW len \in Nat \ {0}, NEW s \in Nat, s <= t
  PROVE  AtTurn(t, len, s)
<1>1. PICK q, a \in Nat : q = t \div len /\ a = s \div len
  BY Periods
<1>2. PICK r \in Nat : t = len * q + r /\ r < len /\ t % len = r
  <2>1. t % len \in Nat /\ t % len < len /\ t = len * (t \div len) + (t % len)
    OBVIOUS
  <2> QED BY <1>1, <2>1
<1>3. a * len <= s /\ s < (a + 1) * len /\ a * len \in Nat
  BY <1>1, Periods
<1>4. a <= q
  <2>1. a * len <= t
    BY <1>3
  <2> QED BY <1>1, <2>1, Periods
<1>5. ASSUME r = 0, t > s PROVE q > a
  <2>1. t = q * len
    BY <1>2, <1>5
  <2>2. CASE q = a
    <3>1. t <= s
      BY <1>3, <2>1, <2>2
    <3> QED BY <1>5, <3>1
  <2> QED BY <1>4, <2>2
<1>6. ASSUME NEW c \in Int
      PROVE  (t = (c + 1) * len /\ c >= a) <=> (r = 0 /\ t > s /\ q = c + 1)
  <2>1. ASSUME t = (c + 1) * len, c >= a PROVE r = 0 /\ t > s /\ q = c + 1
    <3>1. (c + 2) * len = (c + 1) * len + len
      OBVIOUS
    <3>2. t \div len = c + 1
      <4>1. c + 1 \in Int /\ (c + 1) * len <= t /\ t < ((c + 1) + 1) * len
        BY <2>1, <3>1
      <4> QED BY <4>1, Periods
    <3>3. r = 0
      <4>1. len * q = (c + 1) * len
        BY <1>1, <3>2
      <4> QED BY <1>2, <2>1, <4>1
    <3>4. t > s
      <4>1. PICK d \in Nat : c = a + d
        <5>1. c - a \in Nat /\ c = a + (c - a)
          BY <2>1
        <5> QED BY <5>1
      <4>2. PICK u, v \in Nat : u = d * len /\ v = (a + 1) * len
        OBVIOUS
      <4>3. (c + 1) * len = v + u
        BY <4>1, <4>2
      <4> QED BY <1>3, <2>1, <4>2, <4>3
    <3> QED BY <1>1, <3>2, <3>3, <3>4
  <2>2. ASSUME r = 0, t > s, q = c + 1 PROVE t = (c + 1) * len /\ c >= a
    <3>1. q > a
      BY <1>5, <2>2
    <3> QED BY <1>2, <2>2, <3>1
  <2> QED BY <2>1, <2>2
<1> QED BY <1>1, <1>2, <1>4, <1>5, <1>6 DEF AtTurn

LEMMA TurnsTwice ==
  ASSUME BooksAre, NEW G, G \subseteq Paid, NEW len, NEW from, NEW a, NEW b, AllPeriods(len, from, a, b),
         NEW h, IsOver(h, a..b), WithinBy(h, G, len, from, a..b)
  PROVE  Part(h, a..b) = AmountOf(G) + AmountOf(AtTurns(G, len))
<1>0. PICK K : K = a..b
  OBVIOUS
<1>1. PICK B : B = AtTurns(G, len)
  OBVIOUS
<1>2. B \subseteq Paid /\ B \subseteq G
  BY <1>1 DEF AtTurns
<1>3. PICK k, j : /\ k = [p \in Paid |-> (pay[p].at \div len) - from]
                  /\ j = [p \in Paid |-> (pay[p].at \div len) - 1 - from]
  OBVIOUS
<1>4. IsFiniteSet(K)
  BY <1>0, FiniteSpan DEF AllPeriods
<1>5. ASSUME NEW p \in G
      PROVE  /\ pay[p].at \in Nat
             /\ k[p] \in K /\ (p \in B => j[p] \in K)
             /\ \A c \in K : /\ k[p] = c <=> (from + c) * len <= pay[p].at /\ pay[p].at < (from + c + 1) * len
                             /\ p \in B /\ j[p] = c <=> pay[p].at = (from + c + 1) * len
  <2>1. PICK t \in Nat : t = pay[p].at /\ Start <= t /\ t <= now
    BY ReceiptIs
  <2>2. len \in Nat \ {0} /\ from \in Int /\ a \in Int /\ b \in Int /\ Start \in Nat /\ now \in Nat
    BY TimeIs DEF AllPeriods
  <2>3. PICK q \in Nat : q = t \div len
    BY <2>2, Periods
  <2>4. from + a = Start \div len /\ from + b = now \div len
    BY DEF AllPeriods
  <2>5. k[p] = q - from /\ j[p] = q - 1 - from
    BY <1>3, <2>1, <2>3
  <2>10. /\ Start \div len <= q /\ (t % len = 0 /\ t > Start => q > Start \div len)
         /\ \A c \in Int : (t = (c + 1) * len /\ c >= Start \div len)
                             <=> (t % len = 0 /\ t > Start /\ q = c + 1)
    <3>1. AtTurn(t, len, Start)
      BY <2>1, <2>2, TurnIs
    <3> QED BY <2>3, <3>1 DEF AtTurn
  <2>11. q <= now \div len
    <3>1. AtTurn(now, len, t)
      BY <2>1, <2>2, TurnIs
    <3> QED BY <2>3, <3>1 DEF AtTurn
  <2>6. from + a <= q /\ q <= from + b /\ (t % len = 0 /\ t > Start => q > from + a)
    BY <2>4, <2>10, <2>11
  <2>7. p \in B <=> t % len = 0 /\ t > Start
    BY <1>1, <2>1 DEF AtTurns
  <2>8. k[p] \in K /\ (p \in B => j[p] \in K)
    BY <1>0, <2>2, <2>5, <2>6, <2>7
  <2>9. ASSUME NEW c \in K
        PROVE  /\ k[p] = c <=> (from + c) * len <= t /\ t < (from + c + 1) * len
               /\ p \in B /\ j[p] = c <=> t = (from + c + 1) * len
    <3>0. c \in Int
      BY <1>0, <2>2
    <3>1. PICK d \in Int : d = from + c /\ d >= from + a
      BY <1>0, <2>2
    <3>2. q = d <=> d * len <= t /\ t < (d + 1) * len
      BY <2>2, <2>3, Periods
    <3>3. k[p] = c <=> q = d
      BY <2>2, <2>3, <2>5, <3>0, <3>1
    <3>4. t = (d + 1) * len <=> t % len = 0 /\ t > Start /\ q = d + 1
      BY <2>4, <2>10, <3>1
    <3>5. j[p] = c <=> q = d + 1
      <4>1. c \in Int /\ q \in Int /\ from \in Int /\ d = from + c
        BY <2>2, <3>0, <3>1
      <4>2. q - 1 - from = c <=> q = d + 1
        BY <4>1
      <4>3. j[p] = q - 1 - from
        BY <2>5
      <4> QED BY <4>2, <4>3, Zenon
    <3> QED BY <2>7, <3>1, <3>2, <3>3, <3>4, <3>5
  <2> QED BY <2>1, <2>8, <2>9
<1>6. PICK f, w : /\ f = [c \in K |-> AmountOf(OfKind(G, k, c))]
                  /\ w = [c \in K |-> AmountOf(OfKind(B, j, c))]
  OBVIOUS
<1>7. Part(f, K) = AmountOf(G)
  <2>1. IsOver(f, K)
    BY <1>6, Zenon DEF IsOver
  <2>2. Sorted(G, k, K, f) /\ AmountsBy(f, G, k, K)
    BY <1>4, <1>5, <1>6, <2>1 DEF Sorted, AmountsBy
  <2> QED BY <2>2, AmountByKind
<1>8. Part(w, K) = AmountOf(B)
  <2>1. IsOver(w, K)
    BY <1>6, Zenon DEF IsOver
  <2>2. Sorted(B, j, K, w) /\ AmountsBy(w, B, j, K)
    BY <1>2, <1>4, <1>5, <1>6, <2>1 DEF Sorted, AmountsBy
  <2> QED BY <1>2, <2>2, AmountByKind
<1>9. ASSUME NEW c \in K PROVE h[c] = f[c] + w[c] /\ f[c] \in Int /\ w[c] \in Int
  <2>1. PICK X, Y, Z : X = Within(G, len, from + c) /\ Y = OfKind(G, k, c) /\ Z = OfKind(B, j, c)
    OBVIOUS
  <2>2. PICK lo, hi \in Int : lo = (from + c) * len /\ hi = (from + c + 1) * len
    BY <1>0 DEF AllPeriods
  <2>3. lo <= hi
    <3>1. hi = lo + len
      BY <1>0, <2>2 DEF AllPeriods
    <3> QED BY <3>1 DEF AllPeriods
  <2>4. X = {p \in G : lo <= pay[p].at /\ pay[p].at <= hi}
    BY <2>1, <2>2 DEF Within
  <2>5. Y = {p \in G : lo <= pay[p].at /\ pay[p].at < hi}
    BY <1>5, <2>1, <2>2 DEF OfKind
  <2>6. Z = {p \in G : pay[p].at = hi}
    BY <1>2, <1>5, <2>1, <2>2 DEF OfKind
  <2>7. X = Y \cup Z /\ Y \cap Z = {} /\ X \subseteq Paid /\ Y \subseteq Paid /\ Z \subseteq Paid
    BY <1>5, <2>3, <2>4, <2>5, <2>6
  <2>8. AmountOf(X) = AmountOf(Y) + AmountOf(Z)
    BY <2>7, PaymentsSplit
  <2>9. AmountOf(Y) \in Int /\ AmountOf(Z) \in Int
    BY <2>7, PaymentsAdd
  <2> QED BY <1>0, <1>6, <2>1, <2>8, <2>9 DEF WithinBy
<1>10. Summable(K, f) /\ Summable(K, w)
  BY <1>4, <1>9 DEF Summable
<1>11. Part(h, K) = Part(f, K) + Part(w, K)
  BY <1>9, <1>10, PartAdds
<1> QED BY <1>0, <1>1, <1>7, <1>8, <1>11

LEMMA SettlementIs ==
  ASSUME BooksAre, NEW mpesa, mpesa \subseteq Paid, NEW d \in Int
  PROVE  /\ Settlement(d, mpesa).total = AmountOf(Within(Completed(mpesa), Day, d))
         /\ LET got == mpesa \cap ReceivedBetween(d * Day, (d + 1) * Day)
            IN  Settlement(d, mpesa).total + AmountOf({p \in got : pay[p].status = "refunded"}) = AmountOf(got)
<1>1. PICK got, done, back, none :
        /\ got = mpesa \cap ReceivedBetween(d * Day, (d + 1) * Day)
        /\ done = Completed(got)
        /\ back = {p \in got : pay[p].status = "refunded"}
        /\ none = {p \in got : pay[p].status = "pending"}
  OBVIOUS
<1>2. /\ got \subseteq Paid /\ done \subseteq Paid /\ back \subseteq Paid
      /\ got = done \cup back /\ done \cap back = {} /\ none = {}
  BY <1>1, PaymentStatusIs DEF Completed
<1>3. Settlement(d, mpesa).total = AmountOf(done) + AmountOf(none)
  BY <1>1 DEF Settlement
<1>4. AmountOf(got) = AmountOf(done) + AmountOf(back)
  BY <1>2, PaymentsSplit
<1>5. AmountOf(none) = 0 /\ AmountOf(done) \in Int
  BY <1>2, NoAmount, PaymentsAdd
<1>6. Settlement(d, mpesa).total = AmountOf(done)
  BY <1>3, <1>5
<1>7. done = Within(Completed(mpesa), Day, d)
  <2>1. d * Day \in Int /\ (d + 1) * Day \in Int
    BY TimeIs
  <2>2. \A p \in Paid : pay[p].at \in d * Day..(d + 1) * Day
                          <=> d * Day <= pay[p].at /\ pay[p].at <= (d + 1) * Day
    BY <2>1, ReceiptIs
  <2> QED BY <1>1, <1>2, <2>2 DEF Within, Completed, ReceivedBetween
<1> QED BY <1>1, <1>4, <1>6, <1>7

LEMMA SettlementsAddUp ==
  ASSUME BooksAre, now = MaxNow, NEW mpesa, mpesa \subseteq Paid
  PROVE  SumOf([d \in Days |-> Settlement(d, mpesa).total])
           = AmountOf(Completed(mpesa)) + AmountOf(AtTurns(Completed(mpesa), Day))
<1>1. PICK h : h = [d \in Days |-> Settlement(d, mpesa).total]
  OBVIOUS
<1>2. PICK a, b : a = DayOf(Start) /\ b = DayOf(now)
  OBVIOUS
<1>3. a \in Nat /\ b \in Nat /\ Days = a..b /\ Day \in Nat \ {0}
  BY <1>2, TimeIs, Periods DEF DayOf, Days
<1>4. AllPeriods(Day, 0, a, b)
  BY <1>2, <1>3 DEF AllPeriods, DayOf
<1>5. PICK G : G = Completed(mpesa)
  OBVIOUS
<1>6. G \subseteq Paid
  BY <1>5 DEF Completed
<1>7. WithinBy(h, G, Day, 0, a..b)
  <2>1. SUFFICES ASSUME NEW d \in a..b PROVE h[d] = AmountOf(Within(G, Day, 0 + d))
    BY DEF WithinBy
  <2>2. d \in Int /\ 0 + d = d
    BY <1>3
  <2>3. Settlement(d, mpesa).total = AmountOf(Within(G, Day, d))
    BY <1>5, <2>2, SettlementIs
  <2> QED BY <1>1, <1>3, <2>2, <2>3
<1>8. IsOver(h, a..b)
  BY <1>1, <1>3, Zenon DEF IsOver
<1>9. Part(h, a..b) = AmountOf(G) + AmountOf(AtTurns(G, Day))
  BY <1>4, <1>6, <1>7, <1>8, TurnsTwice
<1> QED BY <1>1, <1>5, <1>8, <1>9, SumIs

LEMMA HasEnds ==
  ASSUME NEW S, NEW f, Summable(S, f), S # {}
  PROVE  /\ \E x \in S : \A y \in S : f[x] <= f[y]
         /\ \E x \in S : \A y \in S : f[y] <= f[x]
<1>1. PICK G : G = {T \in SUBSET S : T # {} => /\ \E x \in T : \A y \in T : f[x] <= f[y]
                                              /\ \E x \in T : \A y \in T : f[y] <= f[x]}
  OBVIOUS
<1>2. {} \in G
  BY <1>1
<1>3. ASSUME NEW T \in SUBSET S, NEW z \in T, T \ {z} \in G PROVE T \in G
  <2>1. \A x \in T : f[x] \in Int
    BY DEF Summable
  <2>2. CASE T \ {z} = {}
    <3>1. \A x \in T : x = z
      BY <2>2
    <3>2. \A x, y \in T : f[x] <= f[y]
      BY <2>1, <3>1
    <3> QED BY <1>1, <3>2
  <2>3. CASE T \ {z} # {}
    <3>1. PICK x, v \in T \ {z} : \A y \in T \ {z} : f[x] <= f[y] /\ f[y] <= f[v]
      BY <1>1, <1>3, <2>3
    <3>2. \E u \in T : \A y \in T : f[u] <= f[y]
      <4>1. CASE f[x] <= f[z]
        BY <3>1, <4>1
      <4>2. CASE ~(f[x] <= f[z])
        <5>1. \A y \in T : f[z] <= f[y]
          BY <2>1, <3>1, <4>2
        <5> QED BY <5>1
      <4> QED BY <4>1, <4>2
    <3>3. \E u \in T : \A y \in T : f[y] <= f[u]
      <4>1. CASE f[z] <= f[v]
        BY <3>1, <4>1
      <4>2. CASE ~(f[z] <= f[v])
        <5>1. \A y \in T : f[y] <= f[z]
          BY <2>1, <3>1, <4>2
        <5> QED BY <5>1
      <4> QED BY <4>1, <4>2
    <3> QED BY <1>1, <3>2, <3>3
  <2> QED BY <2>2, <2>3
<1>4. S \in G
  BY <1>2, <1>3, SetGrows DEF Grows, Summable
<1> QED BY <1>1, <1>4

LEMMA LeastAndMost ==
  ASSUME BooksAre, NEW mpesa, mpesa \subseteq Paid, NEW d \in Int
  PROVE  LET day  == Settlement(d, mpesa)
             back == AmountOf({p \in mpesa \cap ReceivedBetween(d * Day, (d + 1) * Day) :
                                 pay[p].status = "refunded"})
         IN  /\ day.count * day.least <= day.total + back
             /\ day.total + back <= day.count * day.most
<1>1. PICK got, back, day : /\ got = mpesa \cap ReceivedBetween(d * Day, (d + 1) * Day)
                            /\ back = AmountOf({p \in got : pay[p].status = "refunded"})
                            /\ day = Settlement(d, mpesa)
  OBVIOUS
<1>2. day.total + back = AmountOf(got)
  BY <1>1, SettlementIs
<1>3. /\ day.count = Cardinality(got)
      /\ day.least = IF got = {} THEN 0 ELSE Min({pay[p].amount : p \in got})
      /\ day.most = IF got = {} THEN 0 ELSE Max({pay[p].amount : p \in got})
  BY <1>1 DEF Settlement
<1>4. PICK f : f = Gets(pay)
  OBVIOUS
<1>5. got \subseteq Paid
  BY <1>1
<1>6. Summable(got, f) /\ AmountOf(got) = Part(f, got)
  BY <1>4, <1>5, PaymentsAdd
<1>7. \A p \in got : f[p] = pay[p].amount
  BY <1>4, <1>5 DEF Gets, Paid
<1>8. CASE got = {}
  <2>1. AmountOf(got) = 0 /\ Cardinality(got) = 0 /\ day.least = 0 /\ day.most = 0
    BY <1>3, <1>8, NoAmount, FS_EmptySet
  <2> QED BY <1>1, <1>2, <1>3, <2>1
<1>9. CASE got # {}
  <2>1. PICK A : A = {pay[p].amount : p \in got}
    OBVIOUS
  <2>2. PICK x, z \in got : \A y \in got : f[x] <= f[y] /\ f[y] <= f[z]
    BY <1>6, <1>9, HasEnds
  <2>3. f[x] \in A /\ f[z] \in A /\ (\A n \in A : f[x] <= n /\ n <= f[z]) /\ A \subseteq Int
    BY <1>6, <1>7, <2>1, <2>2 DEF Summable
  <2>4. Min(A) \in A /\ \A n \in A : Min(A) <= n
    BY <2>3 DEF Min
  <2>5. Max(A) \in A /\ \A n \in A : n <= Max(A)
    BY <2>3 DEF Max
  <2>6. PICK lo, hi \in Int : lo = Min(A) /\ hi = Max(A)
    BY <2>3, <2>4, <2>5
  <2>7. \A p \in got : lo <= f[p] /\ f[p] <= hi
    BY <1>7, <2>1, <2>4, <2>5, <2>6
  <2>8. Cardinality(got) * lo <= Part(f, got) /\ Part(f, got) <= Cardinality(got) * hi
    BY <1>6, <2>7, PartBetween
  <2>9. day.least = lo /\ day.most = hi
    BY <1>3, <1>9, <2>1, <2>6
  <2> QED BY <1>1, <1>2, <1>3, <1>6, <2>8, <2>9
<1> QED BY <1>8, <1>9

LEMMA HistoryAddsUp ==
  ASSUME BooksAre
  PROVE  LET turn == {p \in Completed(Paid) : /\ MonthOf(pay[p].at) > MonthOf(Start)
                                              /\ pay[p].at % MonthLength = 0}
         IN  SumOf(History(MonthsSoFar)) = IncomeStatement(Start, now).net + AmountOf(turn)
<1>1. PICK a, b, len : a = MonthOf(Start) /\ b = MonthOf(now) /\ len = MonthLength
  OBVIOUS
<1>2. a \in Nat /\ b \in Nat /\ len \in Nat \ {0} /\ a = Start \div len /\ b = now \div len
  BY <1>1, TimeIs, MonthLengthAssumption, Periods DEF MonthOf
<1>3. PICK n, m \in Int : n = b - a + 1 /\ m = b - a /\ n = MonthsSoFar /\ n - 1 = m
  BY <1>1, <1>2 DEF MonthsSoFar
<1>4. PICK h, G : h = History(n) /\ G = Completed(Paid)
  OBVIOUS
<1>5. G \subseteq Paid
  BY <1>4 DEF Completed
<1>6. h = [k \in 0..m |-> AmountOf(Completed(ReceivedBetween((b - (n - 1 - k)) * len,
                                                            (b - (n - 1 - k)) * len + len)))]
  BY <1>1, <1>3, <1>4 DEF History
<1>7. WithinBy(h, G, len, a, 0..m)
  <2>1. SUFFICES ASSUME NEW k \in 0..m PROVE h[k] = AmountOf(Within(G, len, a + k))
    BY DEF WithinBy
  <2>2. b - (n - 1 - k) = a + k
    BY <1>2, <1>3
  <2>3. PICK lo, hi \in Int : lo = (a + k) * len /\ hi = (a + k + 1) * len /\ hi = lo + len
    BY <1>2
  <2>4. h[k] = AmountOf(Completed(ReceivedBetween(lo, hi)))
    BY <1>6, <2>2, <2>3
  <2>5. \A p \in Paid : pay[p].at \in lo..hi <=> lo <= pay[p].at /\ pay[p].at <= hi
    BY ReceiptIs
  <2>6. Completed(ReceivedBetween(lo, hi)) = Within(G, len, a + k)
    BY <1>4, <2>3, <2>5 DEF Completed, ReceivedBetween, Within
  <2> QED BY <2>4, <2>6
<1>8. IsOver(h, 0..m)
  BY <1>6, Zenon DEF IsOver
<1>9. AllPeriods(len, a, 0, m)
  BY <1>2, <1>3 DEF AllPeriods
<1>10. Part(h, 0..m) = AmountOf(G) + AmountOf(AtTurns(G, len))
  BY <1>5, <1>7, <1>8, <1>9, TurnsTwice
<1>11. AtTurns(G, len) = {p \in G : MonthOf(pay[p].at) > MonthOf(Start) /\ pay[p].at % len = 0}
  <2>1. ASSUME NEW p \in G
        PROVE  pay[p].at % len = 0 /\ pay[p].at > Start
               <=> MonthOf(pay[p].at) > MonthOf(Start) /\ pay[p].at % len = 0
    <3>1. PICK t \in Nat : t = pay[p].at /\ Start <= t
      BY <1>5, ReceiptIs
    <3>2. t % len = 0 /\ t > Start => t \div len > Start \div len
      <4>1. AtTurn(t, len, Start)
        BY <1>2, <3>1, TimeIs, TurnIs
      <4> QED BY <4>1 DEF AtTurn
    <3>3. t = Start => ~(t \div len > Start \div len)
      BY <1>2, TimeIs
    <3>4. MonthOf(t) = t \div len /\ MonthOf(Start) = Start \div len
      BY <1>1 DEF MonthOf
    <3> QED BY <3>1, <3>2, <3>3, <3>4, TimeIs
  <2> QED BY <2>1 DEF AtTurns
<1>12. IncomeStatement(Start, now).net = AmountOf(G)
  <2>1. AmountOf(G) \in Int
    BY <1>5, PaymentsAdd
  <2>2. IncomeStatement(Start, now).net = AmountOf(G) - 0 - 0
    BY <1>4, Everything DEF IncomeStatement
  <2> QED BY <2>1, <2>2
<1> QED BY <1>1, <1>3, <1>4, <1>8, <1>10, <1>11, <1>12, SumIs

LEMMA OnTimeOrLate ==
  ASSUME BooksAre
  PROVE  SumOf(ClientPaymentBehavior)
           + Cardinality({i \in WithStatus({"paid"}) : inv[i].due < inv[i].paidAt})
           + Cardinality({i \in WithStatus({"paid"}) : inv[i].paidAt = Never}) = StatusCounts["paid"]
<1>1. PICK A, T, L, N, B : /\ A = WithStatus({"paid"}) /\ T = PaidOnTime
                           /\ L = {i \in A : inv[i].due < inv[i].paidAt}
                           /\ N = {i \in A : inv[i].paidAt = Never} /\ B = L \cup N
  OBVIOUS
<1>2. \A i \in Rows : inv[i].due \in Nat /\ inv[i].paidAt \in Nat
  BY RowIs DEF InvoiceRows
<1>3. A \subseteq Rows
  BY <1>1 DEF WithStatus
<1>4. A = T \cup B /\ T \cap B = {} /\ B = L \cup N /\ L \cap N = {} /\ B \subseteq Rows /\ T \subseteq Rows
  BY <1>1, <1>2, <1>3 DEF PaidOnTime, Never
<1>5. Cardinality(A) = Cardinality(T) + Cardinality(B) /\ Cardinality(T) \in Nat
  <2>1. Halves(A, T, B)
    BY <1>4 DEF Halves
  <2> QED BY <1>3, <2>1, CountRest
<1>6. Cardinality(B) = Cardinality(L) + Cardinality(N) /\ Cardinality(L) \in Nat /\ Cardinality(N) \in Nat
  <2>1. Halves(B, L, N)
    BY <1>4 DEF Halves
  <2>2. B \subseteq Rows
    BY <1>4
  <2> QED BY <2>1, <2>2, CountRest
<1>7. SumOf(ClientPaymentBehavior) = Cardinality(T)
  <2>1. PICK h, K : h = ClientPaymentBehavior /\ K = ClientsOf(T)
    OBVIOUS
  <2>2. h = [c \in K |-> Cardinality({i \in T : ClientOf(i) = c})]
    BY <1>1, <2>1 DEF ClientPaymentBehavior
  <2>3. IsOver(h, K)
    BY <2>2, Zenon DEF IsOver
  <2>4. /\ IsFiniteSet(K) /\ \A i \in T : Whose[i] \in K
        /\ \A c : OfKind(T, Whose, c) = {i \in T : ClientOf(i) = c}
    BY <1>4, <2>1, ClientsHold
  <2>5. Sorted(T, Whose, K, h) /\ CountsBy(h, T, Whose, K)
    BY <2>2, <2>3, <2>4 DEF Sorted, CountsBy
  <2>6. IsFiniteSet(T)
    <3>1. IsFiniteSet(Rows)
      BY RowsAdd DEF Summable
    <3> QED BY <1>4, <3>1, FS_Subset
  <2>7. Part(h, K) = Cardinality(T)
    BY <2>5, <2>6, CountByKind
  <2> QED BY <2>1, <2>3, <2>7, SumIs
<1>8. StatusCounts["paid"] = Cardinality(A)
  BY <1>1 DEF StatusCounts
<1> QED BY <1>1, <1>5, <1>6, <1>7, <1>8

LEMMA TurnsAreTwice == ASSUME BooksAre, now = MaxNow PROVE TurnsCountTwice
<1>1. ASSUME NEW mpesa \in SUBSET Paid
      PROVE  LET total   == SumOf([d \in Days |-> Settlement(d, mpesa).total])
                 between == {p \in Completed(mpesa) : pay[p].at % Day = 0 /\ pay[p].at > Start}
             IN  /\ total = AmountOf(Completed(mpesa)) + AmountOf(between)
                 /\ \A d \in Days :
                      LET day  == Settlement(d, mpesa)
                          back == AmountOf({p \in mpesa \cap ReceivedBetween(d * Day, (d + 1) * Day) :
                                              pay[p].status = "refunded"})
                      IN  /\ day.count * day.least <= day.total + back
                          /\ day.total + back <= day.count * day.most
  <2>1. Days \subseteq Int
    BY DEF Days
  <2> QED BY <2>1, SettlementsAddUp, LeastAndMost DEF AtTurns
<1> QED BY <1>1, HistoryAddsUp, OnTimeOrLate DEF TurnsCountTwice

-----------------------------------------------------------------------------
(* The export *)
LEMMA NothingOwed ==
  ASSUME BooksAre, Rows = {}
  PROVE  Dashboard(Start).outstanding = 0 /\ AdvancedDashboard(Start, now).overdue = 0
<1>1. Pending = {} /\ WithStatus({"overdue"}) = {}
  BY DEF Pending, WithStatus
<1>2. Owed({}) = 0
  BY PaidInFull
<1> QED BY <1>1, <1>2 DEF Dashboard, AdvancedDashboard

LEMMA NothingIsPoor == Insights(0, 0, 0, 0, 0, 0) = {"margin_poor"}
<1>1. /\ ~(0 > 10) /\ ~(0 < 0 - 5) /\ ~(0 > 30) /\ 0 < 10 /\ ~(0 > 0) /\ ~(0 > 20)
  OBVIOUS
<1> QED BY <1>1 DEF Insights

LEMMA TablesAre ==
  ASSUME NEW type \in {"revenue", "invoices", "payments", "aging"}
  PROVE  /\ ExportReport("json", type, Start, now) = Answer(type, Start, now)
         /\ ExportReport("csv", type, Start, now) = NoRow
<1>1. Exported(type, Start, now) = Answer(type, Start, now)
  BY DEF Exported
<1>2. \A r : ToCSV(type, r) = NoRow
  BY DEF ToCSV
<1>3. "json" \notin {"csv", "excel"} /\ "csv" \in {"csv", "excel"}
  OBVIOUS
<1> QED BY <1>1, <1>2, <1>3 DEF ExportReport

LEMMA OthersAre ==
  /\ ExportReport("excel", "tax", Start, now) = Answer("vat", Start, now)
  /\ ExportReport("csv", "unknown", Start, now) = Answer("overview", Start, now)
<1>1. PICK tables : tables = {"revenue", "invoices", "payments", "aging"}
  OBVIOUS
<1>2. "tax" \notin tables /\ "unknown" \notin tables
  BY <1>1
<1>3. "excel" \in {"csv", "excel"} /\ "csv" \in {"csv", "excel"}
  OBVIOUS
<1>4. Answer("vat", Start, now) = VATReport(Start, now, {})
      /\ Answer("overview", Start, now) = Overview(Start, now)
  BY DEF Answer
<1>5. Exported("tax", Start, now) = VATReport(Start, now, {})
      /\ Exported("unknown", Start, now) = Overview(Start, now)
  BY <1>1, <1>2 DEF Exported
<1>6. \A r : ToCSV("tax", r) = r /\ ToCSV("unknown", r) = r
  BY <1>1, <1>2 DEF ToCSV
<1> QED BY <1>3, <1>4, <1>5, <1>6 DEF ExportReport

LEMMA ProfitsAgree ==
  ASSUME BooksAre
  PROVE  StatementAnswer("income-statement", Start, now).net = StatementAnswer("profit", Start, now).net
<1>1. /\ StatementAnswer("income-statement", Start, now) = IncomeStatement(Start, now)
      /\ StatementAnswer("profit", Start, now) = Profitability(Start, now)
  BY DEF StatementAnswer
<1>2. PICK S : S = Completed(ReceivedBetween(Start, now))
  OBVIOUS
<1>3. AmountOf(S) \in Int
  <2>1. S \subseteq Paid
    BY <1>2 DEF Completed, ReceivedBetween
  <2> QED BY <2>1, PaymentsAdd
<1>4. IncomeStatement(Start, now).net = AmountOf(S) - 0 - 0 /\ Profitability(Start, now).net = AmountOf(S)
  BY <1>2 DEF IncomeStatement, Profitability
<1> QED BY <1>1, <1>3, <1>4

LEMMA ExportIs == ASSUME BooksAre PROVE ExportIsThePage
BY NothingOwed, NothingIsPoor, TablesAre, OthersAre, ProfitsAgree DEF ExportIsThePage

-----------------------------------------------------------------------------
(* The forecast *)
LEMMA SixMonths ==
  ASSUME NEW f, \A x \in 0..5 : f[x] \in Int, IsOver(f, 0..5)
  PROVE  SumOf(f) = f[0] + f[1] + f[2] + f[3] + f[4] + f[5]
<1>1. ASSUME NEW n \in 0..5
      PROVE  Summable(0..n, f) /\ Part(f, 0..n) = f[n] + Part(f, (0..n) \ {n})
  <2>1. 0..n \subseteq 0..5 /\ n \in 0..n
    OBVIOUS
  <2>2. IsFiniteSet(0..n)
    <3>1. 0 \in Int /\ n \in Int
      OBVIOUS
    <3> QED BY <3>1, FiniteSpan
  <2>3. \A x \in 0..n : f[x] \in Int
    BY <2>1
  <2>4. Summable(0..n, f)
    BY <2>2, <2>3, Zenon DEF Summable
  <2> QED BY <2>1, <2>4, PartTakes
<1>2. /\ (0..5) \ {5} = 0..4 /\ (0..4) \ {4} = 0..3 /\ (0..3) \ {3} = 0..2 /\ (0..2) \ {2} = 0..1
      /\ (0..1) \ {1} = 0..0 /\ (0..0) \ {0} = {}
  OBVIOUS
<1>3. Part(f, {}) = 0
  BY FS_EmptySet, PartTakes DEF Summable
<1>4. /\ Part(f, 0..5) = f[5] + Part(f, 0..4)
      /\ Part(f, 0..4) = f[4] + Part(f, 0..3)
      /\ Part(f, 0..3) = f[3] + Part(f, 0..2)
      /\ Part(f, 0..2) = f[2] + Part(f, 0..1)
      /\ Part(f, 0..1) = f[1] + Part(f, 0..0)
      /\ Part(f, 0..0) = f[0] + 0
  <2>1. 0 \in 0..5 /\ 1 \in 0..5 /\ 2 \in 0..5 /\ 3 \in 0..5 /\ 4 \in 0..5 /\ 5 \in 0..5
    OBVIOUS
  <2>2. \A n \in 0..5 : Part(f, 0..n) = f[n] + Part(f, (0..n) \ {n})
    BY <1>1
  <2>3. /\ Part(f, 0..5) = f[5] + Part(f, (0..5) \ {5})
        /\ Part(f, 0..4) = f[4] + Part(f, (0..4) \ {4})
        /\ Part(f, 0..3) = f[3] + Part(f, (0..3) \ {3})
        /\ Part(f, 0..2) = f[2] + Part(f, (0..2) \ {2})
        /\ Part(f, 0..1) = f[1] + Part(f, (0..1) \ {1})
        /\ Part(f, 0..0) = f[0] + Part(f, (0..0) \ {0})
    BY <2>1, <2>2, Zenon
  <2> QED BY <1>2, <1>3, <2>3, Zenon
<1>5. Part(f, 0..5) = f[0] + f[1] + f[2] + f[3] + f[4] + f[5]
  BY <1>4
<1> QED BY <1>5, SumIs

LEMMA ForecastIs == ForecastIsTheLine
<1>1. SUFFICES ASSUME NEW a \in 0..2, NEW b \in 0..1, NEW k \in 1..3
               PROVE  LET forecast == PredictRevenue([x \in 0..5 |-> a + b * x], k)
                      IN  forecast.num = forecast.den * (a + b * (5 + k + 1))
  BY DEF ForecastIsTheLine
<1>2. PICK h, u, v, w : /\ h = [x \in 0..5 |-> a + b * x]
                        /\ u = [x \in 0..5 |-> x]
                        /\ v = [x \in 0..5 |-> x * h[x]]
                        /\ w = [x \in 0..5 |-> x * x]
  OBVIOUS
<1>3. IsOver(h, 0..5) /\ IsOver(u, 0..5) /\ IsOver(v, 0..5) /\ IsOver(w, 0..5)
  BY <1>2, Zenon DEF IsOver
<1>4. a \in Nat /\ b \in Nat /\ k \in Nat
  OBVIOUS
<1>5. /\ h[0] = a /\ h[1] = a + b /\ h[2] = a + b * 2 /\ h[3] = a + b * 3
      /\ h[4] = a + b * 4 /\ h[5] = a + b * 5
  BY <1>2, <1>4
<1>6. \A x \in 0..5 : h[x] \in Int /\ u[x] \in Int /\ v[x] \in Int /\ w[x] \in Int
  BY <1>2, <1>4
<1>7. SumOf(h) = 6 * a + 15 * b
  BY <1>3, <1>4, <1>5, <1>6, SixMonths
<1>8. SumOf(u) = 15
  BY <1>2, <1>3, <1>6, SixMonths
<1>9. SumOf(w) = 55
  BY <1>2, <1>3, <1>6, SixMonths
<1>10. SumOf(v) = 15 * a + 55 * b
  <2>1. /\ v[0] = 0 /\ v[1] = a + b /\ v[2] = 2 * (a + b * 2) /\ v[3] = 3 * (a + b * 3)
        /\ v[4] = 4 * (a + b * 4) /\ v[5] = 5 * (a + b * 5)
    BY <1>2, <1>4, <1>5
  <2> QED BY <1>3, <1>4, <1>6, <2>1, SixMonths
<1>11. DOMAIN h = 0..5 /\ Cardinality(0..5) = 6
  <2>1. PICK first, last \in Int : first = 0 /\ last = 5
    OBVIOUS
  <2>2. Cardinality(first..last) = IF first > last THEN 0 ELSE last - first + 1
    BY FS_Interval
  <2> QED BY <1>2, <2>1, <2>2
<1>12. PICK slope, den, intercept, at :
         /\ slope = 6 * SumOf(v) - SumOf(u) * SumOf(h)
         /\ den = 6 * SumOf(w) - SumOf(u) * SumOf(u)
         /\ intercept = SumOf(h) * den - slope * SumOf(u)
         /\ at = intercept + 6 * slope * (6 + k)
  OBVIOUS
<1>13. slope = 105 * b /\ den = 105 /\ intercept = 630 * a
  BY <1>4, <1>7, <1>8, <1>9, <1>10, <1>12
<1>14. at = 630 * (a + b * (5 + k + 1)) /\ at >= 0
  <2>1. PICK c \in Nat : c = b * (6 + k)
    BY <1>4
  <2>2. 6 * (105 * b) * (6 + k) = 630 * c
    BY <1>4, <2>1
  <2>3. b * (5 + k + 1) = c
    <3>1. 5 + k + 1 = 6 + k
      BY <1>4
    <3> QED BY <2>1, <3>1
  <2>4. 6 * slope * (6 + k) = 630 * c
    BY <1>13, <2>2
  <2>5. at = 630 * a + 630 * c
    BY <1>12, <1>13, <2>4
  <2> QED BY <1>4, <2>1, <2>3, <2>5
<1>15. PredictRevenue(h, k) = [num |-> at, den |-> 6 * den]
  BY <1>2, <1>11, <1>12, <1>14 DEF PredictRevenue
<1> QED BY <1>2, <1>4, <1>13, <1>14, <1>15

-----------------------------------------------------------------------------
(* The lists *)
Listed(q, S, at) ==
  /\ q \in [1..Cardinality(S) -> S] /\ Cardinality(S) \in Nat
  /\ q \in Seq(S) /\ Len(q) = Cardinality(S)
  /\ \A j, k \in 1..Cardinality(S) : q[j] = q[k] => j = k
  /\ \A x \in S : \E k \in 1..Cardinality(S) : q[k] = x
  /\ \A j, k \in 1..Cardinality(S) : j < k => at[q[j]] >= at[q[k]]

Moments(at, S) == at \in [S -> Int]

LEMMA ListIs ==
  ASSUME NEW S, IsFiniteSet(S), NEW at, Moments(at, S), NEW q \in Newest(at)
  PROVE  Listed(q, S, at)
<1>1. PICK n : n = Cardinality(S)
  OBVIOUS
<1>2. n \in Nat
  BY <1>1, FS_CardinalityType
<1>3. DOMAIN at = S
  BY DEF Moments
<1>4. /\ q \in [1..n -> S]
      /\ \A i, j \in 1..n : i # j => q[i] # q[j]
      /\ \A j, k \in 1..n : j < k => at[q[j]] >= at[q[k]]
  BY <1>1, <1>3, Zenon DEF Newest, SetToSeqs
<1>5. q \in Injection(1..n, S)
  BY <1>4 DEF Injection, IsInjective
<1>6. IsFiniteSet(1..n) /\ Cardinality(1..n) = n
  <2>1. PICK first \in Int : first = 1
    OBVIOUS
  <2>2. IsFiniteSet(first..n) /\ Cardinality(first..n) = IF first > n THEN 0 ELSE n - first + 1
    BY <1>2, FS_Interval
  <2> QED BY <1>2, <2>1, <2>2
<1>7. q \in Surjection(1..n, S)
  BY <1>1, <1>5, <1>6, FS_Injection
<1>8. q \in Seq(S) /\ Len(q) = n
  BY <1>2, <1>4
<1> QED BY <1>1, <1>2, <1>4, <1>7, <1>8 DEF Listed, Surjection

Later(x, S, at) == {y \in S : at[y] > at[x]}
OnItsOwn(x, S, at) == x \in S /\ \A y \in S \ {x} : at[y] # at[x]

(* What is alone in its moment comes after what is later, in any order *)
LEMMA PlaceIs ==
  ASSUME NEW S, IsFiniteSet(S), NEW at, Moments(at, S), NEW q, Listed(q, S, at),
         NEW x, OnItsOwn(x, S, at)
  PROVE  /\ Cardinality(Later(x, S, at)) + 1 \in 1..Cardinality(S)
         /\ q[Cardinality(Later(x, S, at)) + 1] = x
<1>1. PICK n \in Nat : n = Cardinality(S)
  BY DEF Listed
<1>2. /\ q \in [1..n -> S]
      /\ \A j, k \in 1..n : q[j] = q[k] => j = k
      /\ \A y \in S : \E k \in 1..n : q[k] = y
      /\ \A j, k \in 1..n : j < k => at[q[j]] >= at[q[k]]
  BY <1>1 DEF Listed
<1>3. PICK k \in 1..n : q[k] = x
  BY <1>2 DEF OnItsOwn
<1>4. PICK before, f : before = 1..(k - 1) /\ f = [j \in before |-> q[j]]
  OBVIOUS
<1>5. \A j \in 1..n : at[q[j]] \in Int
  BY <1>2 DEF Moments
<1>6. \A j \in before : j \in 1..n /\ j < k
  BY <1>1, <1>3, <1>4
<1>7. \A j \in before : q[j] \in Later(x, S, at)
  <2> SUFFICES ASSUME NEW j \in before PROVE q[j] \in Later(x, S, at)
    OBVIOUS
  <2>1. j \in 1..n /\ j < k
    BY <1>6
  <2>2. at[q[j]] >= at[x] /\ q[j] \in S
    BY <1>2, <1>3, <2>1
  <2>3. q[j] # x
    BY <1>1, <1>2, <1>3, <2>1
  <2>4. at[q[j]] # at[x]
    BY <2>2, <2>3 DEF OnItsOwn
  <2>5. at[q[j]] > at[x]
    BY <1>3, <1>5, <2>1, <2>2, <2>4
  <2> QED BY <2>2, <2>5 DEF Later
<1>8. \A y \in Later(x, S, at) : \E j \in before : q[j] = y
  <2> SUFFICES ASSUME NEW y \in Later(x, S, at) PROVE \E j \in before : q[j] = y
    OBVIOUS
  <2>1. y \in S /\ at[y] > at[x]
    BY DEF Later
  <2>2. PICK j \in 1..n : q[j] = y
    BY <1>2, <2>1
  <2>3. ~(j > k)
    <3>1. k < j => at[q[k]] >= at[q[j]]
      BY <1>2, <1>3
    <3> QED BY <1>3, <1>5, <2>1, <2>2, <3>1
  <2>4. j # k
    BY <1>3, <1>5, <2>1, <2>2
  <2> QED BY <1>1, <1>3, <1>4, <2>2, <2>3, <2>4
<1>9. f \in Injection(before, Later(x, S, at)) /\ f \in Surjection(before, Later(x, S, at))
  <2>1. f \in [before -> Later(x, S, at)] /\ \A y \in Later(x, S, at) : \E j \in before : f[j] = y
    BY <1>4, <1>7, <1>8
  <2>2. \A i, j \in before : f[i] = f[j] => i = j
    BY <1>2, <1>4, <1>6
  <2> QED BY <2>1, <2>2 DEF Injection, IsInjective, Surjection
<1>10. IsFiniteSet(before) /\ Cardinality(before) = k - 1
  <2>1. PICK first, last \in Int : first = 1 /\ last = k - 1
    BY <1>3
  <2>2. IsFiniteSet(first..last) /\ Cardinality(first..last) = IF first > last THEN 0 ELSE last - first + 1
    BY FS_Interval
  <2> QED BY <1>3, <1>4, <2>1, <2>2
<1>11. Cardinality(Later(x, S, at)) = k - 1
  BY <1>9, <1>10, FS_Surjection
<1> QED BY <1>1, <1>3, <1>11

LEMMA CutOne ==
  ASSUME NEW S, NEW q \in Seq(S), NEW n \in 1..Len(q)
  PROVE  {Cut(q, n - 1, 1)[k] : k \in DOMAIN Cut(q, n - 1, 1)} = {q[n]}
<1>1. n \in Nat /\ Len(q) \in Nat /\ 1 <= n /\ n <= Len(q)
  OBVIOUS
<1>2. Cut(q, n - 1, 1) = SubSeq(q, n, n)
  <2>1. n - 1 + 1 = n
    BY <1>1
  <2>2. (IF n - 1 + 1 < Len(q) THEN n - 1 + 1 ELSE Len(q)) = n
    BY <1>1
  <2> QED BY <2>1, <2>2 DEF Cut
<1>3. PICK c : c = SubSeq(q, n, n)
  OBVIOUS
<1>4. \A i \in n..n : q[i] \in S
  BY <1>1
<1>5. c \in Seq(S) /\ Len(c) = 1 /\ c[1] = q[n]
  <2>1. /\ c \in Seq(S)
        /\ Len(c) = IF n <= n THEN n - n + 1 ELSE 0
        /\ \A i \in 1 .. n - n + 1 : c[i] = q[n + i - 1]
    BY <1>1, <1>3, <1>4, SubSeqProperties
  <2> QED BY <1>1, <2>1
<1>6. DOMAIN c = {1}
  BY <1>5
<1> QED BY <1>2, <1>3, <1>5, <1>6

(* A list cut into pages of one *)
OneEach(pages, S, at) ==
  /\ DOMAIN pages = 1..Cardinality(S)
  /\ \A n \in 1..Cardinality(S) : \A shown \in Shown(pages[n]) : \E q \in Newest(at) : shown = {q[n]}

LEMMA AloneOnOnePage ==
  ASSUME NEW S, IsFiniteSet(S), NEW at, Moments(at, S), NEW pages, OneEach(pages, S, at),
         NEW x, OnItsOwn(x, S, at)
  PROVE  OnePage(pages, x)
<1>1. PICK k : k = Cardinality(Later(x, S, at)) + 1
  OBVIOUS
<1>2. \A q \in Newest(at) : Listed(q, S, at) /\ k \in 1..Cardinality(S) /\ q[k] = x
  BY <1>1, ListIs, PlaceIs
<1>3. k \in DOMAIN pages
  <2>1. PICK later : later = Later(x, S, at)
    OBVIOUS
  <2>2. later \subseteq S /\ x \in S /\ x \notin later
    <3>1. at[x] \in Int
      BY DEF Moments, OnItsOwn
    <3> QED BY <2>1, <3>1 DEF Later, OnItsOwn
  <2>3. /\ Cardinality(S) \in Nat /\ Cardinality(later) \in Nat /\ Cardinality(later) <= Cardinality(S)
        /\ Cardinality(S) = Cardinality(later) => S = later
    BY <2>2, FS_Subset, FS_CardinalityType
  <2> QED BY <1>1, <2>1, <2>2, <2>3 DEF OneEach
<1>4. \A shown \in Shown(pages[k]) : x \in shown
  BY <1>2, <1>3 DEF OneEach
<1>5. \A m \in DOMAIN pages \ {k} : \A shown \in Shown(pages[m]) : x \notin shown
  BY <1>2, <1>3 DEF OneEach, Listed
<1> QED BY <1>3, <1>4, <1>5 DEF OnePage

LEMMA InvoiceMoments ==
  ASSUME BooksAre
  PROVE  IsFiniteSet(Rows) /\ Moments(InvoiceAt(Rows), Rows)
<1>1. IsFiniteSet(Rows)
  BY RowsAdd DEF Summable
<1>2. \A i \in Rows : inv[i].created \in Int
  BY DateIs
<1> QED BY <1>1, <1>2 DEF Moments, InvoiceAt

LEMMA PaymentMoments ==
  ASSUME BooksAre
  PROVE  IsFiniteSet(Paid) /\ Moments(PaymentAt(Paid), Paid)
<1>1. IsFiniteSet(Paid)
  BY PaymentsAdd DEF Summable
<1>2. \A p \in Paid : pay[p].at \in Int
  BY ReceiptIs
<1> QED BY <1>1, <1>2 DEF Moments, PaymentAt

LEMMA InvoicePagesAre ==
  ASSUME BooksAre
  PROVE  OneEach([n \in 1..Cardinality(Rows) |-> InvoicePage(Rows, n, 1)], Rows, InvoiceAt(Rows))
<1>1. PICK total, pages : total = Cardinality(Rows) /\ pages = [n \in 1..total |-> InvoicePage(Rows, n, 1)]
  OBVIOUS
<1>2. total \in Nat
  BY <1>1, InvoiceMoments, FS_CardinalityType
<1>3. ASSUME NEW n \in 1..total, NEW shown \in Shown(pages[n])
      PROVE  \E q \in Newest(InvoiceAt(Rows)) : shown = {q[n]}
  <2>1. n \in Nat /\ ~(n < 1) /\ n - 1 \in Nat /\ ~(n - 1 < 0) /\ (n - 1) * 1 = n - 1 /\ 1 \in 1..100
    BY <1>2, <1>3
  <2>2. (IF 1 \in 1..100 THEN 1 ELSE 20) = 1 /\ (IF n < 1 THEN 0 ELSE n - 1) = n - 1
        /\ (IF n - 1 < 0 THEN 0 ELSE n - 1) = n - 1
    BY <2>1, Zenon
  <2>3. pages[n] = GetUserInvoices(Rows, n - 1, 1)
    <3>1. pages[n] = InvoicePage(Rows, n, 1)
      BY <1>1, <1>3
    <3>2. InvoicePage(Rows, n, 1) = GetUserInvoices(Rows, (n - 1) * 1, 1)
      BY <2>2, Zenon DEF InvoicePage
    <3> QED BY <2>1, <3>1, <3>2
  <2>4. GetUserInvoices(Rows, n - 1, 1) = {Cut(q, n - 1, 1) : q \in Newest(InvoiceAt(Rows))}
    BY <2>1, <2>2 DEF GetUserInvoices
  <2>5. PICK c \in pages[n] : shown = {c[k] : k \in DOMAIN c}
    BY <1>3, Zenon DEF Shown
  <2>6. PICK q \in Newest(InvoiceAt(Rows)) : c = Cut(q, n - 1, 1)
    BY <2>3, <2>4, <2>5, Zenon
  <2>7. q \in Seq(Rows) /\ n \in 1..Len(q)
    BY <1>1, <1>3, ListIs, InvoiceMoments DEF Listed
  <2>8. shown = {q[n]}
    BY <2>5, <2>6, <2>7, CutOne, Zenon
  <2> QED BY <2>8
<1> QED BY <1>1, <1>3 DEF OneEach

LEMMA PaymentPagesAre ==
  ASSUME BooksAre
  PROVE  OneEach([n \in 1..Cardinality(Paid) |-> PaymentPage(Paid, n, 1)], Paid, PaymentAt(Paid))
<1>1. PICK total, pages : total = Cardinality(Paid) /\ pages = [n \in 1..total |-> PaymentPage(Paid, n, 1)]
  OBVIOUS
<1>2. total \in Nat
  BY <1>1, PaymentMoments, FS_CardinalityType
<1>3. ASSUME NEW n \in 1..total, NEW shown \in Shown(pages[n])
      PROVE  \E q \in Newest(PaymentAt(Paid)) : shown = {q[n]}
  <2>1. n \in Nat /\ n - 1 \in Nat /\ ~(n - 1 < 0) /\ (n - 1) * 1 = n - 1 /\ 1 \in 1..100
    BY <1>2, <1>3
  <2>2. (IF 1 \in 1..100 THEN 1 ELSE 20) = 1 /\ (IF (n - 1) * 1 < 0 THEN 0 ELSE (n - 1) * 1) = n - 1
    BY <2>1, Zenon
  <2>3. pages[n] = PaymentPage(Paid, n, 1)
    BY <1>1, <1>3
  <2>4. PaymentPage(Paid, n, 1) = {Cut(q, n - 1, 1) : q \in Newest(PaymentAt(Paid))}
    BY <2>1, <2>2 DEF PaymentPage
  <2>5. PICK c \in pages[n] : shown = {c[k] : k \in DOMAIN c}
    BY <1>3, Zenon DEF Shown
  <2>6. PICK q \in Newest(PaymentAt(Paid)) : c = Cut(q, n - 1, 1)
    BY <2>3, <2>4, <2>5, Zenon
  <2>7. q \in Seq(Paid) /\ n \in 1..Len(q)
    BY <1>1, <1>3, ListIs, PaymentMoments DEF Listed
  <2>8. shown = {q[n]}
    BY <2>5, <2>6, <2>7, CutOne, Zenon
  <2> QED BY <2>8
<1> QED BY <1>1, <1>3 DEF OneEach

(* Without a limit every page is the first one *)
LEMMA NoLimit ==
  \A n \in 1..3 : PaymentPage(Paid, n, 0) = PaymentPage(Paid, 1, 0)
<1>1. \A n \in 1..3 : (n - 1) * 0 = 0
  OBVIOUS
<1>2. (1 - 1) * 0 = 0
  OBVIOUS
<1> QED BY <1>1, <1>2, Zenon DEF PaymentPage

(* What a client's timeline has to choose from: the events of the rows R *)
Happened(R, sent) ==
  {<<"created", i, inv[i].created>> : i \in R}
    \cup {<<"sent", i, sent[i]>> : i \in {j \in R : sent[j] # Never}}
    \cup {<<"paid", i, inv[i].paidAt>> : i \in {j \in R : inv[j].paidAt # Never}}

LEMMA FiniteEvents ==
  ASSUME BooksAre, NEW R, R \subseteq Rows, NEW sent
  PROVE  IsFiniteSet(Happened(R, sent))
<1>1. IsFiniteSet(R)
  BY RowsAdd DEF Summable
<1>2. PICK paid, gone : paid = {j \in R : inv[j].paidAt # Never} /\ gone = {j \in R : sent[j] # Never}
  OBVIOUS
<1>3. IsFiniteSet(paid) /\ IsFiniteSet(gone)
  BY <1>1, <1>2, FS_Subset
<1>4. PICK f, g, h : f = [i \in R |-> <<"created", i, inv[i].created>>]
                     /\ g = [i \in paid |-> <<"paid", i, inv[i].paidAt>>]
                     /\ h = [i \in gone |-> <<"sent", i, sent[i]>>]
  OBVIOUS
<1>5. PICK A, B, G : A = {<<"created", i, inv[i].created>> : i \in R}
                     /\ B = {<<"paid", i, inv[i].paidAt>> : i \in paid}
                     /\ G = {<<"sent", i, sent[i]>> : i \in gone}
  OBVIOUS
<1>6. f \in Surjection(R, A)
  BY <1>4, <1>5 DEF Surjection
<1>7. g \in Surjection(paid, B) /\ h \in Surjection(gone, G)
  BY <1>4, <1>5 DEF Surjection
<1>8. IsFiniteSet(A) /\ IsFiniteSet(B) /\ IsFiniteSet(G)
  BY <1>1, <1>3, <1>6, <1>7, FS_Surjection
<1>9. IsFiniteSet(A \cup G \cup B)
  BY <1>8, FS_Union
<1>10. Happened(R, sent) = A \cup G \cup B
  BY <1>2, <1>5, Zenon DEF Happened
<1> QED BY <1>9, <1>10

(* The events of a page, a payment that is not shown, and why: limit      *)
(* events are as late, or limit invoices as new                            *)
Timeline(q, limit, sent, shown) ==
  LET found == Happened({q[k] : k \in DOMAIN q}, sent)
  IN  /\ shown \in SUBSET found
      /\ Cardinality(shown) = IF Cardinality(found) < limit THEN Cardinality(found) ELSE limit
      /\ \A event \in shown, other \in found \ shown : event[3] >= other[3]

LEMMA TimelineIs ==
  ASSUME NEW limit \in 1..100, NEW sent, NEW shown \in ClientActivity(Rows, limit, sent)
  PROVE  \E q \in Newest(InvoiceAt(Rows)) : Timeline(Cut(q, 0, limit), limit, sent, shown)
<1> DEFINE happened(q) == UNION {LET i == q[k] IN
                                 {<<"created", i, inv[i].created>>}
                                   \cup (IF sent[i] = Never THEN {} ELSE {<<"sent", i, sent[i]>>})
                                   \cup (IF inv[i].paidAt = Never THEN {} ELSE {<<"paid", i, inv[i].paidAt>>}) :
                               k \in DOMAIN q}
           latest(found) == {K \in SUBSET found :
                           /\ Cardinality(K) = IF Cardinality(found) < limit THEN Cardinality(found) ELSE limit
                           /\ \A event \in K, other \in found \ K : event[3] >= other[3]}
<1>1. ClientActivity(Rows, limit, sent) =
        UNION {latest(happened(q)) : q \in GetUserInvoices(Rows, 0, limit)}
  BY Zenon DEF ClientActivity
<1>2. PICK c \in GetUserInvoices(Rows, 0, limit) : shown \in latest(happened(c))
  BY <1>1, Zenon
<1>3. PICK q \in Newest(InvoiceAt(Rows)) : c = Cut(q, 0, limit)
  <2>1. ~(0 < 0)
    OBVIOUS
  <2>2. (IF limit \in 1..100 THEN limit ELSE 20) = limit /\ (IF 0 < 0 THEN 0 ELSE 0) = 0
    BY <2>1, Zenon
  <2>3. GetUserInvoices(Rows, 0, limit) = {Cut(r, 0, limit) : r \in Newest(InvoiceAt(Rows))}
    BY <2>1, <2>2 DEF GetUserInvoices
  <2> QED BY <1>2, <2>3, Zenon
<1>4. happened(c) = Happened({c[k] : k \in DOMAIN c}, sent)
  <2>1. \A event : event \in happened(c) <=>
          \E k \in DOMAIN c : \/ event = <<"created", c[k], inv[c[k]].created>>
                              \/ sent[c[k]] # Never /\ event = <<"sent", c[k], sent[c[k]]>>
                              \/ inv[c[k]].paidAt # Never /\ event = <<"paid", c[k], inv[c[k]].paidAt>>
    <3> DEFINE Of(k) == {<<"created", c[k], inv[c[k]].created>>}
                          \cup (IF sent[c[k]] = Never THEN {} ELSE {<<"sent", c[k], sent[c[k]]>>})
                          \cup (IF inv[c[k]].paidAt = Never THEN {} ELSE {<<"paid", c[k], inv[c[k]].paidAt>>})
    <3>1. happened(c) = UNION {Of(k) : k \in DOMAIN c}
      OBVIOUS
    <3>2. \A k, event : event \in Of(k) <=>
            \/ event = <<"created", c[k], inv[c[k]].created>>
            \/ sent[c[k]] # Never /\ event = <<"sent", c[k], sent[c[k]]>>
            \/ inv[c[k]].paidAt # Never /\ event = <<"paid", c[k], inv[c[k]].paidAt>>
      OBVIOUS
    <3> HIDE DEF Of, happened
    <3> QED BY <3>1, <3>2
  <2>2. \A event : event \in Happened({c[k] : k \in DOMAIN c}, sent) <=>
          \E k \in DOMAIN c : \/ event = <<"created", c[k], inv[c[k]].created>>
                              \/ sent[c[k]] # Never /\ event = <<"sent", c[k], sent[c[k]]>>
                              \/ inv[c[k]].paidAt # Never /\ event = <<"paid", c[k], inv[c[k]].paidAt>>
    BY Zenon DEF Happened
  <2> HIDE DEF happened
  <2> QED BY <2>1, <2>2
<1>5. Timeline(c, limit, sent, shown)
  <2>1. PICK found : found = happened(c)
    OBVIOUS
  <2>2. shown \in latest(found)
    BY <1>2, <2>1
  <2> HIDE DEF happened
  <2>3. found = Happened({c[k] : k \in DOMAIN c}, sent)
    BY <1>4, <2>1
  <2> QED BY <2>2, <2>3, Zenon DEF Timeline
<1> QED BY <1>3, <1>5

AsNew(i) == {j \in Rows \ {i} : inv[j].created >= inv[i].created}

(* An invoice that is not among the newest has as many that are as new *)
LEMMA NewerFirst ==
  ASSUME BooksAre, NEW limit \in 1..100, NEW q, Listed(q, Rows, InvoiceAt(Rows)), NEW i \in Rows,
         \A k \in DOMAIN Cut(q, 0, limit) : Cut(q, 0, limit)[k] # i
  PROVE  Cardinality(AsNew(i)) >= limit
<1>1. PICK n \in Nat : n = Cardinality(Rows)
  BY DEF Listed
<1>2. PICK at : at = InvoiceAt(Rows)
  OBVIOUS
<1>3. /\ q \in [1..n -> Rows]
      /\ q \in Seq(Rows) /\ Len(q) = n
      /\ \A j, k \in 1..n : q[j] = q[k] => j = k
      /\ \A x \in Rows : \E k \in 1..n : q[k] = x
      /\ \A j, k \in 1..n : j < k => at[q[j]] >= at[q[k]]
  BY <1>1, <1>2 DEF Listed
<1>4. \A j \in Rows : at[j] = inv[j].created /\ at[j] \in Int
  BY <1>2, InvoiceMoments DEF InvoiceAt, Moments
<1>5. PICK k \in 1..n : q[k] = i
  BY <1>3
<1>6. PICK last \in Nat : last = IF limit < n THEN limit ELSE n
  OBVIOUS
<1>7. PICK c : c = SubSeq(q, 1, last)
  OBVIOUS
<1>8. Cut(q, 0, limit) = c
  <2>1. 0 + limit = limit /\ 0 + 1 = 1
    OBVIOUS
  <2> QED BY <1>3, <1>6, <1>7, <2>1 DEF Cut
<1>9. DOMAIN c = 1..last /\ \A j \in 1..last : c[j] = q[j]
  <2>1. \A j \in 1..last : q[j] \in Rows
    BY <1>3, <1>6
  <2>2. /\ c \in Seq(Rows)
        /\ Len(c) = IF 1 <= last THEN last - 1 + 1 ELSE 0
        /\ \A j \in 1 .. last - 1 + 1 : c[j] = q[1 + j - 1]
    BY <1>7, <2>1, SubSeqProperties
  <2>3. Len(c) = last /\ last - 1 + 1 = last /\ \A j \in 1..last : 1 + j - 1 = j
    BY <1>6, <2>2
  <2> QED BY <2>2, <2>3
<1>10. ~(k <= last)
  BY <1>5, <1>8, <1>9
<1>11. last = limit /\ limit < k
  BY <1>5, <1>6, <1>10
<1>12. PICK first, f : first = 1..limit /\ f = [j \in first |-> q[j]]
  OBVIOUS
<1>13. \A j \in first : j \in 1..n /\ j < k
  BY <1>5, <1>11, <1>12
<1>14. \A j \in first : q[j] \in AsNew(i)
  <2> SUFFICES ASSUME NEW j \in first PROVE q[j] \in AsNew(i)
    OBVIOUS
  <2>1. j \in 1..n /\ j < k
    BY <1>13
  <2>2. q[j] \in Rows /\ at[q[j]] >= at[i]
    BY <1>3, <1>5, <2>1
  <2>3. q[j] # i
    BY <1>3, <1>5, <2>1
  <2> QED BY <1>4, <2>2, <2>3 DEF AsNew
<1>15. f \in Injection(first, AsNew(i))
  <2>1. f \in [first -> AsNew(i)]
    BY <1>12, <1>14
  <2>2. \A j, m \in first : f[j] = f[m] => j = m
    BY <1>3, <1>12, <1>13
  <2> QED BY <2>1, <2>2 DEF Injection, IsInjective
<1>16. IsFiniteSet(AsNew(i)) /\ Cardinality(AsNew(i)) \in Nat
  <2>1. AsNew(i) \subseteq Rows /\ IsFiniteSet(Rows)
    BY InvoiceMoments DEF AsNew
  <2> QED BY <2>1, FS_Subset, FS_CardinalityType
<1>17. Cardinality(first) = limit
  <2>1. PICK from \in Int : from = 1
    OBVIOUS
  <2>2. Cardinality(from..limit) = IF from > limit THEN 0 ELSE limit - from + 1
    BY FS_Interval
  <2> QED BY <1>12, <2>1, <2>2
<1>18. Cardinality(first) <= Cardinality(AsNew(i))
  BY <1>15, <1>16, FS_Injection
<1> QED BY <1>16, <1>17, <1>18

LEMMA PaymentIsMissing ==
  ASSUME BooksAre, NEW limit \in 1..100, NEW sent, NEW shown \in ClientActivity(Rows, limit, sent),
         NEW i \in Rows, inv[i].paidAt # Never, <<"paid", i, inv[i].paidAt>> \notin shown
  PROVE  \/ Cardinality({event \in shown : event[3] >= inv[i].paidAt}) = limit
         \/ Cardinality({j \in Rows \ {i} : inv[j].created >= inv[i].created}) >= limit
<1>1. PICK q \in Newest(InvoiceAt(Rows)) : Timeline(Cut(q, 0, limit), limit, sent, shown)
  BY TimelineIs
<1>2. Listed(q, Rows, InvoiceAt(Rows))
  BY InvoiceMoments, ListIs
<1>3. PICK c : c = Cut(q, 0, limit)
  OBVIOUS
<1>4. CASE \A k \in DOMAIN c : c[k] # i
  <2>1. Cardinality(AsNew(i)) >= limit
    BY <1>2, <1>3, <1>4, NewerFirst
  <2> QED BY <2>1 DEF AsNew
<1>5. CASE \E k \in DOMAIN c : c[k] = i
  <2>1. PICK R : R = {c[k] : k \in DOMAIN c} \cap Rows
    OBVIOUS
  <2>2. PICK found : found = Happened({c[k] : k \in DOMAIN c}, sent)
    OBVIOUS
  <2>3. <<"paid", i, inv[i].paidAt>> \in found
    BY <1>5, <2>2, Zenon DEF Happened
  <2>4. /\ shown \subseteq found
        /\ Cardinality(shown) = IF Cardinality(found) < limit THEN Cardinality(found) ELSE limit
        /\ \A event \in shown, other \in found \ shown : event[3] >= other[3]
    BY <1>1, <1>3, <2>2, Zenon DEF Timeline
  <2>5. \A event \in shown : event[3] >= inv[i].paidAt
    BY <2>3, <2>4
  <2>6. {event \in shown : event[3] >= inv[i].paidAt} = shown
    BY <2>5
  <2>7. IsFiniteSet(found)
    <3>1. {c[k] : k \in DOMAIN c} \subseteq Rows
      <4>1. PICK last \in Nat : c = SubSeq(q, 1, last) /\ last <= Len(q)
        <5>1. Len(q) \in Nat /\ 0 + 1 = 1
          BY <1>2 DEF Listed
        <5> QED BY <1>3, <5>1 DEF Cut
      <4>2. q \in Seq(Rows) /\ \A j \in 1..last : q[j] \in Rows
        BY <1>2, <4>1 DEF Listed
      <4>3. c \in Seq(Rows)
        BY <4>1, <4>2, SubSeqProperties
      <4> QED BY <4>3
    <3> QED BY <2>2, <3>1, FiniteEvents
  <2>8. shown # found
    BY <2>3
  <2>9. Cardinality(shown) # Cardinality(found)
    BY <2>4, <2>7, <2>8, FS_Subset
  <2> QED BY <2>4, <2>6, <2>9
<1> QED BY <1>4, <1>5

LEMMA ListsAreWhole == ASSUME BooksAre PROVE ListsShowAll
<1>1. ASSUME NEW i \in Rows, \A j \in Rows \ {i} : inv[j].created # inv[i].created
      PROVE  OnePage([n \in 1..Cardinality(Rows) |-> InvoicePage(Rows, n, 1)], i)
  <2>1. OnItsOwn(i, Rows, InvoiceAt(Rows))
    BY <1>1 DEF OnItsOwn, InvoiceAt
  <2> QED BY <2>1, InvoiceMoments, InvoicePagesAre, AloneOnOnePage
<1>2. ASSUME NEW p \in Paid, \A q \in Paid \ {p} : pay[q].at # pay[p].at
      PROVE  OnePage([n \in 1..Cardinality(Paid) |-> PaymentPage(Paid, n, 1)], p)
  <2>1. OnItsOwn(p, Paid, PaymentAt(Paid))
    BY <1>2 DEF OnItsOwn, PaymentAt
  <2> QED BY <2>1, PaymentMoments, PaymentPagesAre, AloneOnOnePage
<1>3. 1..2 \subseteq 1..100
  OBVIOUS
<1>4. ASSUME NEW limit \in 1..2, NEW sent \in [Rows -> {Never} \cup Start..now],
             NEW shown \in ClientActivity(Rows, limit, sent), NEW i \in Rows, inv[i].paidAt # Never, <<"paid", i, inv[i].paidAt>> \notin shown
      PROVE  \/ Cardinality({event \in shown : event[3] >= inv[i].paidAt}) = limit
             \/ Cardinality({j \in Rows \ {i} : inv[j].created >= inv[i].created}) >= limit
  BY <1>3, <1>4, PaymentIsMissing
<1> QED BY <1>1, <1>2, <1>4, NoLimit, Zenon DEF ListsShowAll

LEMMA PagesAre == ASSUME BooksAre PROVE PagesAddUp
<1>1. ASSUME now = MaxNow PROVE FiguresAddUp
  BY <1>1, DaysAre, InvoicesAre7, PaymentsAre6 DEF FiguresAddUp
<1> QED BY <1>1, ListsAreWhole, DashboardIs, TurnsAreTwice, ExportIs, ForecastIs DEF PagesAddUp

(* On the last day, what the pages show adds up: the days, statuses, buckets, *)
(* clients and months of each report to its total; every row is on one page   *)
(* of its list, whatever order rows of one moment come in; what comes in at   *)
(* the turn of a period is counted in both; and an export is what the page    *)
(* shows.                                                                     *)
THEOREM PagesAgree == BooksSpec => []PagesAddUp
<1>1. BooksAre => PagesAddUp
  BY PagesAre
<1> QED BY <1>1, BooksAlways, PTL

-----------------------------------------------------------------------------
(* The expenses *)

ExpenseRows == [status: Statuses \cup {"approved"}, date: Nat, attachments: Int]

(* A request and what it holds *)
Asks(x) ==
  /\ x.at # "idle" => x.of \in ExpenseIDs
  /\ x.at = "save" => x.row \in ExpenseRows /\ (x.to # NoRow => x.row.status = x.to)
  /\ x.at = "remove" => x.file \in Attachments
  /\ x.at = "count" => x.by \in {1, 0 - 1}

On(x, e) == x.at # "idle" /\ x.of = e

(* How many attachments each expense has *)
Filed(files) == [e \in ExpenseIDs |-> Cardinality({a \in Attachments : files[a] = e})]

(* What a request is still to count, and what all are *)
OwesBy(x, e, k) == x.at = "count" /\ x.of = e /\ x.by = k
Owes(x, e)        == IF OwesBy(x, e, 1) THEN 1 ELSE IF OwesBy(x, e, 0 - 1) THEN 0 - 1 ELSE 0
Due(calls, e, k)  == Cardinality({r \in Requests : OwesBy(calls[r], e, k)})
Owing(calls, e)   == Due(calls, e, 1) - Due(calls, e, 0 - 1)

(* A row as it was asked for, and one whose n attachments are counted, or   *)
(* will be                                                                  *)
AsAsked(row, wish) == IF wish = NoRow THEN row = NoRow ELSE row # NoRow /\ row.status = wish
Tallied(row, n, owing) == row # NoRow => row.attachments + owing = n

AllAsAsked(old, rows, wishes) == \A e \in ExpenseIDs \ old : AsAsked(rows[e], wishes[e])
AllTallied(off, rows, counts, calls) ==
  \A e \in ExpenseIDs \ off : Tallied(rows[e], counts[e], Owing(calls, e))

(* An id that was not used is nowhere *)
Unspent(ids, rows, files, calls, wishes) ==
  /\ \A e \in ExpenseIDs \ ids : /\ rows[e] = NoRow
                                 /\ wishes[e] = NoRow
                                 /\ \A a \in Attachments : files[a] # e
                                 /\ \A r \in Requests : ~On(calls[r], e)
  /\ \A a \in Attachments \ ids : files[a] = NoRow

(* Who removes an attachment found it with the expense: it is there still,  *)
(* or was removed since                                                     *)
HasFound(x, ids, files) ==
  x.at = "remove" => x.file \in ids /\ files[x.file] \in {x.of, NoRow}

ExpensesTyped ==
  /\ today \in Nat
  /\ expense \in [ExpenseIDs -> ExpenseRows \cup {NoRow}]
  /\ file \in [Attachments -> ExpenseIDs \cup {NoRow}]
  /\ DOMAIN req = Requests
  /\ \A r \in Requests : Asks(req[r])
  /\ DOMAIN asked = ExpenseIDs

ExpensesAre ==
  /\ ExpensesTyped
  /\ Unspent(used, expense, file, req, asked)
  /\ \A r \in Requests : HasFound(req[r], used, file)
  /\ AllAsAsked(stale, expense, asked)
  /\ AllTallied(stale \cup miscounted, expense, Filed(file), req)

-----------------------------------------------------------------------------
(* Counts still to be made *)
LEMMA DueIs == ASSUME NEW calls, NEW e, NEW k PROVE Due(calls, e, k) \in Nat
<1>1. PICK S : S = {r \in Requests : OwesBy(calls[r], e, k)}
  OBVIOUS
<1>2. IsFiniteSet(S)
  BY <1>1, FS_Subset, ExpenseIDsAssumption
<1> QED BY <1>1, <1>2, FS_CardinalityType DEF Due

LEMMA DueChanges ==
  ASSUME NEW calls, NEW later, NEW r \in Requests, NEW e, NEW k,
         \A s \in Requests : s # r => later[s] = calls[s]
  PROVE  Due(later, e, k) = Due(calls, e, k) + (IF OwesBy(later[r], e, k) THEN 1 ELSE 0)
                                             - (IF OwesBy(calls[r], e, k) THEN 1 ELSE 0)
<1>1. PICK S : S = {s \in Requests : OwesBy(calls[s], e, k)}
  OBVIOUS
<1>2. PICK T : T = {s \in Requests : OwesBy(later[s], e, k)}
  OBVIOUS
<1>3. IsFiniteSet(S) /\ IsFiniteSet(T)
  BY <1>1, <1>2, FS_Subset, ExpenseIDsAssumption
<1>4. Cardinality(S) \in Nat /\ Cardinality(T) \in Nat
  BY <1>3, FS_CardinalityType
<1>5. (r \in S <=> OwesBy(calls[r], e, k)) /\ (r \in T <=> OwesBy(later[r], e, k))
  BY <1>1, <1>2
<1>6. \A s : s # r => (s \in S <=> s \in T)
  BY <1>1, <1>2
<1>7. Due(calls, e, k) = Cardinality(S) /\ Due(later, e, k) = Cardinality(T)
  BY <1>1, <1>2 DEF Due
<1>8. CASE r \in S /\ r \notin T
  <2>1. T = S \ {r}
    BY <1>6, <1>8
  <2>2. Cardinality(T) = Cardinality(S) - 1
    BY <1>3, <1>8, <2>1, FS_RemoveElement
  <2> QED BY <1>4, <1>5, <1>7, <1>8, <2>2
<1>9. CASE r \notin S /\ r \in T
  <2>1. T = S \cup {r}
    BY <1>6, <1>9
  <2>2. Cardinality(T) = Cardinality(S) + 1
    BY <1>3, <1>9, <2>1, FS_AddElement
  <2> QED BY <1>4, <1>5, <1>7, <1>9, <2>2
<1>10. CASE r \in S <=> r \in T
  <2>1. T = S
    BY <1>6, <1>10
  <2> QED BY <1>4, <1>5, <1>7, <1>10, <2>1
<1> QED BY <1>8, <1>9, <1>10

LEMMA OwingChanges ==
  ASSUME NEW calls, NEW later, NEW r \in Requests, NEW e,
         \A s \in Requests : s # r => later[s] = calls[s]
  PROVE  /\ Owing(calls, e) \in Int
         /\ Owes(calls[r], e) \in Int /\ Owes(later[r], e) \in Int
         /\ Owing(later, e) = Owing(calls, e) + Owes(later[r], e) - Owes(calls[r], e)
<1>1. ASSUME NEW x PROVE /\ OwesBy(x, e, 1) => ~OwesBy(x, e, 0 - 1)
                         /\ Owes(x, e) \in Int
                         /\ Owes(x, e) = (IF OwesBy(x, e, 1) THEN 1 ELSE 0)
                                       - (IF OwesBy(x, e, 0 - 1) THEN 1 ELSE 0)
  <2>1. OwesBy(x, e, 1) => ~OwesBy(x, e, 0 - 1)
    BY DEF OwesBy
  <2> QED BY <2>1 DEF Owes
<1>2. /\ Due(calls, e, 1) \in Nat /\ Due(calls, e, 0 - 1) \in Nat
      /\ Due(later, e, 1) \in Nat /\ Due(later, e, 0 - 1) \in Nat
  BY DueIs
<1>3. /\ Due(later, e, 1) = Due(calls, e, 1) + (IF OwesBy(later[r], e, 1) THEN 1 ELSE 0)
                                             - (IF OwesBy(calls[r], e, 1) THEN 1 ELSE 0)
      /\ Due(later, e, 0 - 1) = Due(calls, e, 0 - 1)
                                + (IF OwesBy(later[r], e, 0 - 1) THEN 1 ELSE 0)
                                - (IF OwesBy(calls[r], e, 0 - 1) THEN 1 ELSE 0)
  BY DueChanges
<1>4. /\ Owes(later[r], e) = (IF OwesBy(later[r], e, 1) THEN 1 ELSE 0)
                             - (IF OwesBy(later[r], e, 0 - 1) THEN 1 ELSE 0)
      /\ Owes(calls[r], e) = (IF OwesBy(calls[r], e, 1) THEN 1 ELSE 0)
                             - (IF OwesBy(calls[r], e, 0 - 1) THEN 1 ELSE 0)
      /\ Owes(later[r], e) \in Int /\ Owes(calls[r], e) \in Int
  BY <1>1
<1> QED BY <1>2, <1>3, <1>4 DEF Owing

(* Expenses counts as this module does *)
LEMMA ExpensesCount == \A S : E!Cardinality(S) = Cardinality(S)
BY DEF Cardinality, E!Cardinality

LEMMA FilesAre ==
  \A e \in ExpenseIDs : /\ Filed(file)[e] = E!Cardinality(E!FilesOf(e))
                        /\ Filed(file)[e] \in Nat
<1>1. SUFFICES ASSUME NEW e \in ExpenseIDs
               PROVE  Filed(file)[e] = E!Cardinality(E!FilesOf(e)) /\ Filed(file)[e] \in Nat
  OBVIOUS
<1>2. PICK S : S = {a \in Attachments : file[a] = e}
  OBVIOUS
<1>3. IsFiniteSet(S)
  BY <1>2, FS_Subset, ExpenseIDsAssumption
<1>4. Cardinality(S) \in Nat
  BY <1>3, FS_CardinalityType
<1>5. Filed(file)[e] = Cardinality(S)
  BY <1>2 DEF Filed
<1>6. E!FilesOf(e) = S
  BY <1>2 DEF E!FilesOf
<1> QED BY <1>4, <1>5, <1>6, ExpensesCount

(* One attachment more, or one less *)
LEMMA FileComes ==
  ASSUME NEW files, NEW a \in Attachments, NEW e \in ExpenseIDs, files[a] = NoRow,
         NEW later, later[a] = e, \A b \in Attachments : b # a => later[b] = files[b]
  PROVE  /\ Filed(later)[e] = Filed(files)[e] + 1
         /\ \A d \in ExpenseIDs : d # e => Filed(later)[d] = Filed(files)[d]
<1>1. PICK S : S = {b \in Attachments : files[b] = e}
  OBVIOUS
<1>2. PICK T : T = {b \in Attachments : later[b] = e}
  OBVIOUS
<1>3. NoRow \notin ExpenseIDs
  BY NoExpenseAssumption
<1>4. T = S \cup {a} /\ a \notin S
  BY <1>1, <1>2, <1>3
<1>5. IsFiniteSet(S)
  BY <1>1, FS_Subset, ExpenseIDsAssumption
<1>6. Cardinality(T) = Cardinality(S) + 1
  BY <1>4, <1>5, FS_AddElement
<1>7. ASSUME NEW d \in ExpenseIDs, d # e PROVE Filed(later)[d] = Filed(files)[d]
  <2>1. {b \in Attachments : later[b] = d} = {b \in Attachments : files[b] = d}
    BY <1>3, <1>7
  <2> QED BY <2>1 DEF Filed
<1> QED BY <1>1, <1>2, <1>6, <1>7 DEF Filed

LEMMA FileGoes ==
  ASSUME NEW files, NEW a \in Attachments,
         NEW later, later[a] = NoRow, \A b \in Attachments : b # a => later[b] = files[b]
  PROVE  \A d \in ExpenseIDs : /\ files[a] = d => Filed(later)[d] = Filed(files)[d] - 1
                               /\ files[a] # d => Filed(later)[d] = Filed(files)[d]
<1>0. NoRow \notin ExpenseIDs
  BY NoExpenseAssumption
<1>1. ASSUME NEW d \in ExpenseIDs, files[a] = d PROVE Filed(later)[d] = Filed(files)[d] - 1
  <2>1. PICK S : S = {b \in Attachments : files[b] = d}
    OBVIOUS
  <2>2. PICK T : T = {b \in Attachments : later[b] = d}
    OBVIOUS
  <2>3. T = S \ {a} /\ a \in S
    BY <1>0, <1>1, <2>1, <2>2
  <2>4. IsFiniteSet(S)
    BY <2>1, FS_Subset, ExpenseIDsAssumption
  <2>5. Cardinality(T) = Cardinality(S) - 1
    BY <2>3, <2>4, FS_RemoveElement
  <2> QED BY <2>1, <2>2, <2>5 DEF Filed
<1>2. ASSUME NEW d \in ExpenseIDs, files[a] # d PROVE Filed(later)[d] = Filed(files)[d]
  <2>1. {b \in Attachments : later[b] = d} = {b \in Attachments : files[b] = d}
    BY <1>0, <1>2
  <2> QED BY <2>1 DEF Filed
<1> QED BY <1>1, <1>2

LEMMA ExpensesBegin == ASSUME E!Init PROVE ExpensesAre
<1>1. today = FirstDay /\ expense = [e \in ExpenseIDs |-> NoRow]
      /\ file = [a \in Attachments |-> NoRow] /\ asked = [e \in ExpenseIDs |-> NoRow]
      /\ used = {} /\ req = [r \in Requests |-> E!Idle]
  BY DEF E!Init
<1>2. PICK x : x = E!Idle
  OBVIOUS
<1>3. x.at = "idle"
  BY <1>2 DEF E!Idle
<1>4. \A r \in Requests : req[r].at = "idle"
  BY <1>1, <1>2, <1>3
<1>5. ExpensesTyped
  BY <1>1, <1>4, MonthsAssumption DEF ExpensesTyped, Asks
<1>6. \A r \in Requests, e \in ExpenseIDs : ~On(req[r], e)
  BY <1>4 DEF On
<1>7. NoRow \notin ExpenseIDs
  BY NoExpenseAssumption
<1>8. Unspent(used, expense, file, req, asked)
  BY <1>1, <1>6, <1>7 DEF Unspent
<1>9. \A r \in Requests : HasFound(req[r], used, file)
  BY <1>4 DEF HasFound
<1>10. \A e \in ExpenseIDs : expense[e] = NoRow /\ asked[e] = NoRow
  BY <1>1
<1>11. AllAsAsked(stale, expense, asked) /\ AllTallied(stale \cup miscounted, expense, Filed(file), req)
  BY <1>10 DEF AllAsAsked, AllTallied, AsAsked, Tallied
<1> QED BY <1>5, <1>8, <1>9, <1>11 DEF ExpensesAre

(* The count of an expense moves as what is to be counted does *)
MovesWith(row, to, n, m, x, y) ==
  to # NoRow => /\ row # NoRow
                /\ row.attachments \in Int /\ to.attachments \in Int
                /\ to.attachments + x - y = row.attachments + m - n

LEMMA TalliedStill ==
  ASSUME NEW row, NEW to, NEW n \in Int, NEW m \in Int, NEW o \in Int, NEW p \in Int,
         NEW x \in Int, NEW y \in Int, Tallied(row, n, o), p = o + x - y,
         MovesWith(row, to, n, m, x, y)
  PROVE  Tallied(to, m, p)
<1>1. ASSUME to # NoRow PROVE to.attachments + p = m
  <2>1. PICK a \in Int, b \in Int : a = row.attachments /\ b = to.attachments
    BY <1>1 DEF MovesWith
  <2>2. a + o = n /\ b + x - y = a + m - n
    BY <1>1, <2>1 DEF Tallied, MovesWith
  <2>3. b + p = b + (o + x - y)
    OBVIOUS
  <2>4. b + (o + x - y) = (b + x - y) + o
    OBVIOUS
  <2>5. (b + x - y) + o = (a + m - n) + o
    BY <2>2
  <2>6. (a + m - n) + o = (a + o) - n + m
    OBVIOUS
  <2> QED BY <2>1, <2>2, <2>3, <2>4, <2>5, <2>6
<1> QED BY <1>1 DEF Tallied

LEMMA FiledIs == ASSUME NEW files, NEW e \in ExpenseIDs PROVE Filed(files)[e] \in Nat
<1>1. PICK S : S = {a \in Attachments : files[a] = e}
  OBVIOUS
<1>2. IsFiniteSet(S)
  BY <1>1, FS_Subset, ExpenseIDsAssumption
<1> QED BY <1>1, <1>2, FS_CardinalityType DEF Filed

LEMMA RequestKeeps ==
  ASSUME ExpensesAre, NEW r \in Requests, NEW x, E!Goes(r, x), Asks(x),
         UNCHANGED today,
         expense' \in [ExpenseIDs -> ExpenseRows \cup {NoRow}],
         file' \in [Attachments -> ExpenseIDs \cup {NoRow}],
         DOMAIN asked' = ExpenseIDs,
         stale \subseteq stale', miscounted \subseteq miscounted', used \subseteq used',
         \A e \in ExpenseIDs \ used' : /\ expense'[e] = expense[e]
                                       /\ asked'[e] = asked[e]
                                       /\ \A a \in Attachments : file'[a] # e
                                       /\ ~On(x, e),
         \A a \in Attachments \ used' : file'[a] = file[a],
         HasFound(x, used', file'),
         \A s \in Requests : s # r => HasFound(req[s], used', file'),
         \A e \in ExpenseIDs \ stale' :
            AsAsked(expense[e], asked[e]) => AsAsked(expense'[e], asked'[e]),
         \A e \in ExpenseIDs \ (stale' \cup miscounted') :
            expense'[e] # NoRow =>
              /\ expense[e] # NoRow
              /\ expense'[e].attachments + Owes(x, e) - Owes(req[r], e)
                   = expense[e].attachments + Filed(file')[e] - Filed(file)[e]
  PROVE  ExpensesAre'
<1>1. /\ DOMAIN req' = Requests
      /\ req'[r] = x
      /\ \A s \in Requests : s # r => req'[s] = req[s]
  BY DEF ExpensesAre, ExpensesTyped, E!Goes
<1>2. \A s \in Requests : req'[s] = x \/ req'[s] = req[s]
  BY <1>1
<1>3. ExpensesTyped'
  <2>1. \A s \in Requests : Asks(req'[s])
    BY <1>2 DEF ExpensesAre, ExpensesTyped
  <2> QED BY <1>1, <2>1 DEF ExpensesAre, ExpensesTyped
<1>4. Unspent(used', expense', file', req', asked')
  <2>1. ASSUME NEW e \in ExpenseIDs \ used'
        PROVE  /\ expense'[e] = NoRow
               /\ asked'[e] = NoRow
               /\ \A a \in Attachments : file'[a] # e
               /\ \A s \in Requests : ~On(req'[s], e)
    <3>1. /\ expense[e] = NoRow
          /\ asked[e] = NoRow
          /\ \A s \in Requests : ~On(req[s], e)
      BY <2>1 DEF ExpensesAre, Unspent
    <3>2. \A s \in Requests : ~On(req'[s], e)
      <4>1. ASSUME NEW s \in Requests PROVE ~On(req'[s], e)
        <5>1. ~On(x, e) /\ ~On(req[s], e)
          BY <3>1
        <5> QED BY <1>2, <5>1
      <4> QED BY <4>1
    <3> QED BY <3>1, <3>2
  <2>2. \A a \in Attachments \ used' : file'[a] = NoRow
    BY DEF ExpensesAre, Unspent
  <2> QED BY <2>1, <2>2 DEF Unspent
<1>5. \A s \in Requests : HasFound(req'[s], used', file')
  BY <1>1
<1>6. AllAsAsked(stale', expense', asked')
  BY DEF ExpensesAre, AllAsAsked
<1>7. ASSUME NEW e \in ExpenseIDs \ (stale' \cup miscounted')
      PROVE  Tallied(expense'[e], Filed(file')[e], Owing(req', e))
  <2>1. Tallied(expense[e], Filed(file)[e], Owing(req, e))
    BY DEF ExpensesAre, AllTallied
  <2>2. Filed(file)[e] \in Nat /\ Filed(file')[e] \in Nat
    BY FiledIs
  <2>3. /\ expense[e] # NoRow => expense[e].attachments \in Int
        /\ expense'[e] # NoRow => expense'[e].attachments \in Int
    BY DEF ExpensesAre, ExpensesTyped, ExpenseRows
  <2>4. expense'[e] # NoRow =>
          /\ expense[e] # NoRow
          /\ expense'[e].attachments + Owes(req'[r], e) - Owes(req[r], e)
               = expense[e].attachments + Filed(file')[e] - Filed(file)[e]
    BY <1>1
  <2>5. PICK o, p, x2, y : /\ o = Owing(req, e) /\ p = Owing(req', e)
                           /\ x2 = Owes(req'[r], e) /\ y = Owes(req[r], e)
    OBVIOUS
  <2>6. o \in Int /\ x2 \in Int /\ y \in Int /\ p = o + x2 - y
    BY <1>1, <2>5, OwingChanges
  <2>7. PICK n, m, row, to : /\ n = Filed(file)[e] /\ m = Filed(file')[e]
                             /\ row = expense[e] /\ to = expense'[e]
    OBVIOUS
  <2>8. p \in Int /\ n \in Int /\ m \in Int
    BY <2>2, <2>6, <2>7
  <2>9. MovesWith(row, to, n, m, x2, y)
    BY <2>3, <2>4, <2>5, <2>7 DEF MovesWith
  <2>10. Tallied(row, n, o)
    BY <2>1, <2>5, <2>7
  <2>11. Tallied(to, m, p)
    BY <2>6, <2>8, <2>9, <2>10, TalliedStill
  <2> QED BY <2>5, <2>7, <2>11
<1>8. AllTallied(stale' \cup miscounted', expense', Filed(file'), req')
  BY <1>7 DEF AllTallied
<1> QED BY <1>3, <1>4, <1>5, <1>6, <1>8 DEF ExpensesAre

(* What is not nowhere is used *)
LEMMA ThereIsUsed ==
  ASSUME ExpensesAre
  PROVE  /\ \A e \in ExpenseIDs : expense[e] # NoRow => e \in used /\ expense[e] \in ExpenseRows
         /\ \A a \in Attachments : file[a] # NoRow => a \in used /\ file[a] \in ExpenseIDs /\ file[a] \in used
         /\ \A r \in Requests : req[r].at # "idle" => req[r].of \in ExpenseIDs /\ req[r].of \in used
<1>1. \A e \in ExpenseIDs : expense[e] # NoRow => e \in used /\ expense[e] \in ExpenseRows
  BY DEF ExpensesAre, ExpensesTyped, Unspent
<1>2. \A a \in Attachments : file[a] # NoRow => a \in used /\ file[a] \in ExpenseIDs /\ file[a] \in used
  BY DEF ExpensesAre, ExpensesTyped, Unspent
<1>3. \A r \in Requests : req[r].at # "idle" => req[r].of \in ExpenseIDs /\ req[r].of \in used
  BY DEF ExpensesAre, ExpensesTyped, Unspent, Asks, On
<1> QED BY <1>1, <1>2, <1>3

(* A request begins at an expense or goes on with it, and writes its row    *)
(* at most                                                                  *)
LEMMA GoesOnKeeps ==
  ASSUME ExpensesAre, NEW r \in Requests, NEW e \in ExpenseIDs, NEW x, E!Goes(r, x), Asks(x),
         e \in used, x.at # "idle" => x.of = e, req[r].at # "idle" => req[r].of = e,
         HasFound(x, used, file),
         UNCHANGED <<today, file, used>>, stale \subseteq stale', miscounted \subseteq miscounted',
         expense' \in [ExpenseIDs -> ExpenseRows \cup {NoRow}], DOMAIN asked' = ExpenseIDs,
         \A d \in ExpenseIDs : d # e => expense'[d] = expense[d] /\ asked'[d] = asked[d],
         e \notin stale' /\ AsAsked(expense[e], asked[e]) => AsAsked(expense'[e], asked'[e]),
         e \notin stale' /\ e \notin miscounted' /\ expense'[e] # NoRow =>
           /\ expense[e] # NoRow
           /\ expense'[e].attachments + Owes(x, e) - Owes(req[r], e) = expense[e].attachments
  PROVE  ExpensesAre'
<1>1. \A s \in Requests : HasFound(req[s], used', file')
  BY DEF ExpensesAre
<1>2. HasFound(x, used', file')
  OBVIOUS
<1>3. /\ file' \in [Attachments -> ExpenseIDs \cup {NoRow}]
      /\ \A d \in ExpenseIDs \ used' : \A a \in Attachments : file'[a] # d
  BY DEF ExpensesAre, ExpensesTyped, Unspent
<1>4. \A d \in ExpenseIDs \ stale' : AsAsked(expense[d], asked[d]) => AsAsked(expense'[d], asked'[d])
  <2>1. ASSUME NEW d \in ExpenseIDs \ stale', AsAsked(expense[d], asked[d])
        PROVE  AsAsked(expense'[d], asked'[d])
    <3>1. CASE d = e
      BY <2>1, <3>1
    <3>2. CASE d # e
      BY <2>1, <3>2
    <3> QED BY <3>1, <3>2
  <2> QED BY <2>1
<1>5. ASSUME NEW d \in ExpenseIDs \ (stale' \cup miscounted'), expense'[d] # NoRow
      PROVE  /\ expense[d] # NoRow
             /\ expense'[d].attachments + Owes(x, d) - Owes(req[r], d)
                  = expense[d].attachments + Filed(file')[d] - Filed(file)[d]
  <2>1. Filed(file')[d] = Filed(file)[d] /\ Filed(file)[d] \in Nat
    BY FilesAre
  <2>2. expense[d] # NoRow => expense[d].attachments \in Int
    BY DEF ExpensesAre, ExpensesTyped, ExpenseRows
  <2>3. CASE d = e
    <3>1. /\ expense[e] # NoRow
          /\ expense'[e].attachments + Owes(x, e) - Owes(req[r], e) = expense[e].attachments
      BY <1>5, <2>3
    <3> QED BY <2>1, <2>2, <2>3, <3>1
  <2>4. CASE d # e
    <3>1. Owes(x, d) = 0 /\ Owes(req[r], d) = 0
      BY <2>4 DEF Owes, OwesBy
    <3>2. expense'[d] = expense[d]
      BY <2>4
    <3> QED BY <1>5, <2>1, <2>2, <3>1, <3>2
  <2> QED BY <2>3, <2>4
<1>6. \A d \in ExpenseIDs \ used' : expense'[d] = expense[d] /\ asked'[d] = asked[d] /\ ~On(x, d)
  <2>1. \A d \in ExpenseIDs \ used' : d # e
    OBVIOUS
  <2> QED BY <2>1 DEF On
<1> QED BY <1>1, <1>2, <1>3, <1>4, <1>5, <1>6, RequestKeeps

(* Nor its row *)
LEMMA OnlyGoesOn ==
  ASSUME ExpensesAre, NEW r \in Requests, NEW e \in ExpenseIDs, NEW x, E!Goes(r, x), Asks(x),
         e \in used, x.at # "idle" => x.of = e, req[r].at # "idle" => req[r].of = e,
         HasFound(x, used, file), x.at # "count",
         UNCHANGED <<today, expense, file, used, asked, stale>>, miscounted \subseteq miscounted',
         req[r].at = "count" => e \in miscounted'
  PROVE  ExpensesAre'
<1>1. /\ expense' \in [ExpenseIDs -> ExpenseRows \cup {NoRow}]
      /\ DOMAIN asked' = ExpenseIDs
      /\ \A d \in ExpenseIDs : expense'[d] = expense[d] /\ asked'[d] = asked[d]
  BY DEF ExpensesAre, ExpensesTyped
<1>2. ASSUME e \notin miscounted', expense'[e] # NoRow
      PROVE  /\ expense[e] # NoRow
             /\ expense'[e].attachments + Owes(x, e) - Owes(req[r], e) = expense[e].attachments
  <2>1. Owes(x, e) = 0 /\ Owes(req[r], e) = 0
    BY <1>2 DEF Owes, OwesBy
  <2>2. expense[e] # NoRow /\ expense[e].attachments \in Int
    BY <1>1, <1>2 DEF ExpensesAre, ExpensesTyped, ExpenseRows
  <2> QED BY <1>1, <2>1, <2>2
<1> QED BY <1>1, <1>2, GoesOnKeeps

-----------------------------------------------------------------------------
(* The requests that take several steps *)
LEMMA EditedIs ==
  ASSUME NEW row \in ExpenseRows, NEW status \in Statuses \cup {"approved", NoRow},
         NEW date \in Dates \cup {NoRow}
  PROVE  /\ E!Edited(row, status, date) \in ExpenseRows
         /\ E!Edited(row, status, date).attachments = row.attachments
         /\ E!Edited(row, status, date).status = IF status = NoRow THEN row.status ELSE status
<1>1. PICK once : once = [row EXCEPT !.status = IF status = NoRow THEN @ ELSE status]
  OBVIOUS
<1>2. once \in ExpenseRows /\ once.attachments = row.attachments
      /\ once.status = IF status = NoRow THEN row.status ELSE status
  BY <1>1 DEF ExpenseRows
<1>3. PICK twice : twice = [once EXCEPT !.date = IF date = NoRow THEN @ ELSE date]
  OBVIOUS
<1>4. twice \in ExpenseRows /\ twice.attachments = once.attachments /\ twice.status = once.status
  BY <1>2, <1>3, MonthsAssumption DEF ExpenseRows
<1>5. E!Edited(row, status, date) = twice
  BY <1>1, <1>3 DEF E!Edited, ExpenseRows
<1> QED BY <1>2, <1>4, <1>5

LEMMA UpdateExpenseKeeps ==
  ASSUME ExpensesAre, NEW r \in Requests, NEW e \in ExpenseIDs, E!UpdateExpense(r, e)
  PROVE  ExpensesAre'
<1>1. PICK status \in Statuses \cup {NoRow}, date \in Dates \cup {NoRow} :
        /\ E!At(r, "idle") /\ E!Exists(e)
        /\ E!Goes(r, [at |-> "save", of |-> e, to |-> status,
                      row |-> E!Edited(expense[e], status, date)])
        /\ UNCHANGED <<today, expense, file, used, asked, stale, miscounted>>
  BY DEF E!UpdateExpense
<1>2. PICK row : row = E!Edited(expense[e], status, date)
  OBVIOUS
<1>3. PICK x : x = [at |-> "save", of |-> e, to |-> status, row |-> row]
  OBVIOUS
<1>4. e \in used /\ expense[e] \in ExpenseRows /\ req[r].at = "idle"
  BY <1>1, ThereIsUsed DEF E!Exists, E!At
<1>5. /\ row \in ExpenseRows
      /\ status # NoRow => row.status = status
  BY <1>2, <1>4, EditedIs
<1>6. x.at = "save" /\ x.of = e /\ x.row = row /\ x.to = status
  BY <1>3
<1>7. Asks(x) /\ E!Goes(r, x) /\ HasFound(x, used, file)
  BY <1>1, <1>2, <1>3, <1>5, <1>6 DEF Asks, HasFound
<1> QED BY <1>1, <1>4, <1>6, <1>7, OnlyGoesOn

LEMMA BulkApproveKeeps ==
  ASSUME ExpensesAre, NEW r \in Requests, NEW e \in ExpenseIDs, E!BulkApprove(r, e)
  PROVE  ExpensesAre'
<1>1. /\ E!At(r, "idle") /\ E!Exists(e)
      /\ E!Goes(r, [at |-> "approve", of |-> e])
      /\ UNCHANGED <<today, expense, file, used, asked, stale, miscounted>>
  BY DEF E!BulkApprove
<1>2. PICK x : x = [at |-> "approve", of |-> e]
  OBVIOUS
<1>3. e \in used /\ req[r].at = "idle"
  BY <1>1, ThereIsUsed DEF E!Exists, E!At
<1>4. x.at = "approve" /\ x.of = e
  BY <1>2
<1>5. Asks(x) /\ E!Goes(r, x) /\ HasFound(x, used, file)
  BY <1>1, <1>2, <1>4 DEF Asks, HasFound
<1> QED BY <1>1, <1>3, <1>4, <1>5, OnlyGoesOn

LEMMA FindAttachmentKeeps ==
  ASSUME ExpensesAre, NEW r \in Requests, NEW a \in Attachments, E!FindAttachment(r, a)
  PROVE  ExpensesAre'
<1>0. PICK e : e = file[a]
  OBVIOUS
<1>1. /\ E!At(r, "idle") /\ e # NoRow
      /\ E!Goes(r, [at |-> "remove", of |-> e, file |-> a])
      /\ UNCHANGED <<today, expense, file, used, asked, stale, miscounted>>
  BY <1>0 DEF E!FindAttachment
<1>2. PICK x : x = [at |-> "remove", of |-> e, file |-> a]
  OBVIOUS
<1>3. e \in ExpenseIDs /\ e \in used /\ a \in used /\ req[r].at = "idle"
  BY <1>0, <1>1, ThereIsUsed DEF E!At
<1>4. x.at = "remove" /\ x.of = e /\ x.file = a
  BY <1>2
<1>5. Asks(x) /\ E!Goes(r, x) /\ HasFound(x, used, file)
  BY <1>0, <1>1, <1>2, <1>3, <1>4 DEF Asks, HasFound
<1> QED BY <1>1, <1>3, <1>4, <1>5, OnlyGoesOn

(* Done *)
LEMMA IdleIs ==
  /\ E!Idle.at = "idle"
  /\ Asks(E!Idle)
  /\ HasFound(E!Idle, used, file)
BY DEF E!Idle, Asks, HasFound

LEMMA SaveExpenseKeeps ==
  ASSUME ExpensesAre, NEW r \in Requests, E!SaveExpense(r)
  PROVE  ExpensesAre'
<1>1. PICK x, e, row, to : x = E!Idle /\ e = req[r].of /\ row = req[r].row /\ to = req[r].to
  OBVIOUS
<1>2. /\ req[r].at = "save"
      /\ expense' = [expense EXCEPT ![e] = row]
      /\ asked' = IF to = NoRow THEN asked ELSE [asked EXCEPT ![e] = to]
      /\ stale' = IF E!GivesBack(row, to, e) THEN stale \cup {e} ELSE stale
      /\ E!Goes(r, x)
      /\ UNCHANGED <<today, file, used, miscounted>>
  BY <1>1 DEF E!SaveExpense, E!At
<1>3. /\ e \in ExpenseIDs /\ e \in used
      /\ row \in ExpenseRows /\ (to # NoRow => row.status = to)
  BY <1>1, <1>2, ThereIsUsed DEF ExpensesAre, ExpensesTyped, Asks
<1>4. /\ expense' \in [ExpenseIDs -> ExpenseRows \cup {NoRow}]
      /\ DOMAIN asked' = ExpenseIDs
      /\ \A d \in ExpenseIDs : d # e => expense'[d] = expense[d] /\ asked'[d] = asked[d]
      /\ expense'[e] = row
      /\ asked'[e] = IF to = NoRow THEN asked[e] ELSE to
  BY <1>2, <1>3 DEF ExpensesAre, ExpensesTyped
<1>5. stale \subseteq stale' /\ (e \notin stale' => ~E!GivesBack(row, to, e))
  BY <1>2
<1>6. row # NoRow /\ row.attachments \in Int
  BY <1>3, NoExpenseAssumption DEF ExpenseRows
<1>7. ASSUME e \notin stale', AsAsked(expense[e], asked[e]) PROVE AsAsked(expense'[e], asked'[e])
  <2>1. expense[e] # NoRow /\ (to = NoRow => row.status = expense[e].status)
    BY <1>5, <1>7 DEF E!GivesBack, E!Exists
  <2> QED BY <1>3, <1>4, <1>6, <1>7, <2>1 DEF AsAsked
<1>8. ASSUME e \notin stale'
      PROVE  /\ expense[e] # NoRow
             /\ expense'[e].attachments + Owes(x, e) - Owes(req[r], e) = expense[e].attachments
  <2>1. expense[e] # NoRow /\ row.attachments = expense[e].attachments
    BY <1>5, <1>8 DEF E!GivesBack, E!Exists
  <2>2. Owes(x, e) = 0 /\ Owes(req[r], e) = 0
    BY <1>1, <1>2, IdleIs DEF Owes, OwesBy
  <2> QED BY <1>4, <1>6, <2>1, <2>2
<1>9. x.at = "idle" /\ Asks(x) /\ HasFound(x, used, file)
  BY <1>1, IdleIs
<1> QED BY <1>1, <1>2, <1>3, <1>4, <1>5, <1>7, <1>8, <1>9, GoesOnKeeps

LEMMA ReadToApproveKeeps ==
  ASSUME ExpensesAre, NEW r \in Requests, E!ReadToApprove(r)
  PROVE  ExpensesAre'
<1>1. E!At(r, "approve") /\ UNCHANGED <<today, expense, file, used, asked, stale, miscounted>>
  BY DEF E!ReadToApprove
<1>2. PICK e : e = req[r].of
  OBVIOUS
<1>3. req[r].at = "approve" /\ e \in ExpenseIDs /\ e \in used
  BY <1>1, <1>2, ThereIsUsed DEF E!At, ExpensesAre, ExpensesTyped, Asks
<1>4. CASE E!Exists(e)
  <2>1. PICK row : row = E!Edited(expense[e], "approved", NoRow)
    OBVIOUS
  <2>2. PICK x : x = [at |-> "save", of |-> e, to |-> "approved", row |-> row]
    OBVIOUS
  <2>3. E!Goes(r, x)
    BY <1>2, <1>4, <2>1, <2>2 DEF E!ReadToApprove
  <2>4. expense[e] \in ExpenseRows /\ "approved" # NoRow
    BY <1>3, <1>4, ThereIsUsed, NoExpenseAssumption DEF E!Exists
  <2>5. row \in ExpenseRows /\ row.status = "approved"
    BY <2>1, <2>4, EditedIs
  <2>6. x.at = "save" /\ x.of = e /\ x.row = row /\ x.to = "approved"
    BY <2>2
  <2>7. Asks(x) /\ HasFound(x, used, file)
    BY <1>3, <2>5, <2>6 DEF Asks, HasFound
  <2> QED BY <1>1, <1>2, <1>3, <2>3, <2>6, <2>7, OnlyGoesOn
<1>5. CASE ~E!Exists(e)
  <2>1. PICK x : x = E!Idle
    OBVIOUS
  <2>2. E!Goes(r, x) /\ x.at = "idle" /\ Asks(x) /\ HasFound(x, used, file)
    BY <1>2, <1>5, <2>1, IdleIs DEF E!ReadToApprove
  <2> QED BY <1>1, <1>2, <1>3, <2>2, OnlyGoesOn
<1> QED BY <1>4, <1>5

LEMMA FailsKeeps ==
  ASSUME ExpensesAre, NEW r \in Requests, E!Fails(r)
  PROVE  ExpensesAre'
<1>1. PICK x, e : x = E!Idle /\ e = req[r].of
  OBVIOUS
<1>2. /\ req[r].at # "idle"
      /\ E!Goes(r, x)
      /\ miscounted' = IF req[r].at = "count" THEN miscounted \cup {e} ELSE miscounted
      /\ UNCHANGED <<today, expense, file, used, asked, stale>>
  BY <1>1 DEF E!Fails, E!At, E!Miscounts
<1>3. e \in ExpenseIDs /\ e \in used
  BY <1>1, <1>2, ThereIsUsed
<1>4. x.at = "idle" /\ Asks(x) /\ HasFound(x, used, file)
  BY <1>1, IdleIs
<1>5. miscounted \subseteq miscounted' /\ (req[r].at = "count" => e \in miscounted')
  BY <1>2
<1> QED BY <1>1, <1>2, <1>3, <1>4, <1>5, OnlyGoesOn

LEMMA CountAttachmentKeeps ==
  ASSUME ExpensesAre, NEW r \in Requests, E!CountAttachment(r)
  PROVE  ExpensesAre'
<1>1. /\ E!At(r, "count")
      /\ E!Goes(r, E!Idle)
      /\ UNCHANGED <<today, file, used, asked, stale, miscounted>>
  BY DEF E!CountAttachment
<1>2. PICK x, e, k : x = E!Idle /\ e = req[r].of /\ k = req[r].by
  OBVIOUS
<1>3. req[r].at = "count" /\ e \in ExpenseIDs /\ e \in used /\ k \in {1, 0 - 1}
  BY <1>1, <1>2, ThereIsUsed DEF E!At, ExpensesAre, ExpensesTyped, Asks
<1>4. x.at = "idle" /\ Asks(x) /\ E!Goes(r, x) /\ HasFound(x, used, file)
  BY <1>1, <1>2, IdleIs
<1>5. Owes(x, e) = 0 /\ Owes(req[r], e) = k
  BY <1>2, <1>3, <1>4 DEF Owes, OwesBy
<1>6. CASE ~E!Exists(e)
  <2>1. /\ expense' \in [ExpenseIDs -> ExpenseRows \cup {NoRow}]
        /\ DOMAIN asked' = ExpenseIDs
        /\ \A d \in ExpenseIDs : expense'[d] = expense[d] /\ asked'[d] = asked[d]
    BY <1>1, <1>2, <1>6 DEF E!CountAttachment, ExpensesAre, ExpensesTyped
  <2>2. expense'[e] = NoRow
    BY <1>3, <1>6, <2>1 DEF E!Exists
  <2> QED BY <1>1, <1>2, <1>3, <1>4, <2>1, <2>2, GoesOnKeeps
<1>7. CASE E!Exists(e)
  <2>1. PICK row : row = [expense[e] EXCEPT !.attachments = @ + k]
    OBVIOUS
  <2>2. expense[e] \in ExpenseRows /\ expense[e] # NoRow
    BY <1>3, <1>7, ThereIsUsed DEF E!Exists
  <2>3. /\ row \in ExpenseRows
        /\ row.attachments = expense[e].attachments + k
        /\ row.status = expense[e].status
        /\ expense[e].attachments \in Int
    BY <1>3, <2>1, <2>2 DEF ExpenseRows
  <2>4. expense' = [expense EXCEPT ![e] = row]
    BY <1>2, <1>7, <2>1 DEF E!CountAttachment
  <2>5. /\ expense' \in [ExpenseIDs -> ExpenseRows \cup {NoRow}]
        /\ DOMAIN asked' = ExpenseIDs
        /\ \A d \in ExpenseIDs : asked'[d] = asked[d] /\ (d # e => expense'[d] = expense[d])
        /\ expense'[e] = row
    BY <1>1, <1>3, <2>3, <2>4 DEF ExpensesAre, ExpensesTyped
  <2>6. row # NoRow
    BY <2>3, NoExpenseAssumption DEF ExpenseRows
  <2>7. AsAsked(expense[e], asked[e]) => AsAsked(expense'[e], asked'[e])
    BY <1>3, <2>2, <2>3, <2>5, <2>6 DEF AsAsked
  <2>8. expense'[e].attachments + Owes(x, e) - Owes(req[r], e) = expense[e].attachments
    BY <1>3, <1>5, <2>3, <2>5
  <2> QED BY <1>1, <1>2, <1>3, <1>4, <2>2, <2>5, <2>7, <2>8, GoesOnKeeps
<1> QED BY <1>6, <1>7

(* An attachment comes or goes, and is still to be counted *)
LEMMA UploadFileKeeps ==
  ASSUME ExpensesAre, NEW r \in Requests, NEW e \in ExpenseIDs, NEW a \in Attachments,
         E!UploadFile(r, e, a)
  PROVE  ExpensesAre'
<1>1. /\ E!At(r, "idle") /\ E!Exists(e) /\ a \notin used
      /\ file' = [file EXCEPT ![a] = e]
      /\ used' = used \cup {a}
      /\ E!Goes(r, [at |-> "count", of |-> e, by |-> 1])
      /\ UNCHANGED <<today, expense, asked, stale, miscounted>>
  BY DEF E!UploadFile
<1>2. PICK x : x = [at |-> "count", of |-> e, by |-> 1]
  OBVIOUS
<1>3. x.at = "count" /\ x.of = e /\ x.by = 1 /\ req[r].at = "idle" /\ E!Goes(r, x)
  BY <1>1, <1>2 DEF E!At
<1>4. e \in used /\ expense[e] # NoRow /\ file[a] = NoRow /\ DOMAIN file = Attachments
  BY <1>1, ThereIsUsed DEF E!Exists, ExpensesAre, ExpensesTyped, Unspent
<1>5. Asks(x) /\ HasFound(x, used', file')
  BY <1>3 DEF Asks, HasFound
<1>6. /\ expense' \in [ExpenseIDs -> ExpenseRows \cup {NoRow}]
      /\ file' \in [Attachments -> ExpenseIDs \cup {NoRow}]
      /\ DOMAIN asked' = ExpenseIDs
      /\ \A b \in Attachments : b # a => file'[b] = file[b]
      /\ file'[a] = e
  BY <1>1 DEF ExpensesAre, ExpensesTyped
<1>7. \A s \in Requests : HasFound(req[s], used', file')
  <2>1. ASSUME NEW s \in Requests PROVE HasFound(req[s], used', file')
    <3>1. HasFound(req[s], used, file)
      BY DEF ExpensesAre
    <3>2. req[s].at = "remove" => req[s].file \in Attachments
      BY DEF ExpensesAre, ExpensesTyped, Asks
    <3> QED BY <1>1, <1>6, <3>1, <3>2 DEF HasFound
  <2> QED BY <2>1
<1>8. /\ Filed(file')[e] = Filed(file)[e] + 1
      /\ \A d \in ExpenseIDs : d # e => Filed(file')[d] = Filed(file)[d]
      /\ \A d \in ExpenseIDs : Filed(file)[d] \in Nat
  BY <1>4, <1>6, FileComes, FilesAre
<1>9. ASSUME NEW d \in ExpenseIDs, expense'[d] # NoRow
      PROVE  /\ expense[d] # NoRow
             /\ expense'[d].attachments + Owes(x, d) - Owes(req[r], d)
                  = expense[d].attachments + Filed(file')[d] - Filed(file)[d]
  <2>1. expense'[d] = expense[d] /\ expense[d].attachments \in Int
    BY <1>1, <1>9 DEF ExpensesAre, ExpensesTyped, ExpenseRows
  <2>2. Owes(req[r], d) = 0 /\ Owes(x, d) = IF d = e THEN 1 ELSE 0
    BY <1>3 DEF Owes, OwesBy
  <2>3. CASE d = e
    BY <1>8, <1>9, <2>1, <2>2, <2>3
  <2>4. CASE d # e
    BY <1>8, <1>9, <2>1, <2>2, <2>4
  <2> QED BY <2>3, <2>4
<1>10. ASSUME NEW d \in ExpenseIDs \ used'
       PROVE  /\ \A b \in Attachments : file'[b] # d
              /\ ~On(x, d)
  <2>1. d # e /\ \A b \in Attachments : file[b] # d
    BY <1>1, <1>4 DEF ExpensesAre, Unspent
  <2> QED BY <1>3, <1>6, <2>1 DEF On
<1>11. \A b \in Attachments \ used' : file'[b] = file[b]
  BY <1>1, <1>6
<1> QED BY <1>1, <1>3, <1>5, <1>6, <1>7, <1>9, <1>10, <1>11, RequestKeeps

LEMMA DeleteAttachmentKeeps ==
  ASSUME ExpensesAre, NEW r \in Requests, E!DeleteAttachment(r)
  PROVE  ExpensesAre'
<1>0. PICK e, a : e = req[r].of /\ a = req[r].file
  OBVIOUS
<1>1. /\ E!At(r, "remove")
      /\ file' = [file EXCEPT ![a] = NoRow]
      /\ miscounted' = IF file[a] = NoRow THEN miscounted \cup {e} ELSE miscounted
      /\ E!Goes(r, [at |-> "count", of |-> e, by |-> 0 - 1])
      /\ UNCHANGED <<today, expense, used, asked, stale>>
  BY <1>0 DEF E!DeleteAttachment, E!Miscounts
<1>2. PICK x : x = [at |-> "count", of |-> e, by |-> 0 - 1]
  OBVIOUS
<1>3. x.at = "count" /\ x.of = e /\ x.by = 0 - 1 /\ req[r].at = "remove" /\ E!Goes(r, x)
  BY <1>1, <1>2 DEF E!At
<1>4. e \in ExpenseIDs /\ e \in used /\ a \in Attachments /\ DOMAIN file = Attachments
  BY <1>0, <1>3, ThereIsUsed DEF ExpensesAre, ExpensesTyped, Asks
<1>5. Asks(x) /\ HasFound(x, used', file')
  BY <1>3, <1>4 DEF Asks, HasFound
<1>6. /\ expense' \in [ExpenseIDs -> ExpenseRows \cup {NoRow}]
      /\ file' \in [Attachments -> ExpenseIDs \cup {NoRow}]
      /\ DOMAIN asked' = ExpenseIDs
      /\ \A b \in Attachments : b # a => file'[b] = file[b]
      /\ file'[a] = NoRow
  BY <1>1, <1>4 DEF ExpensesAre, ExpensesTyped
<1>7. a \in used /\ file[a] \in {e, NoRow} /\ miscounted \subseteq miscounted'
      /\ (e \notin miscounted' => file[a] = e)
  BY <1>0, <1>1, <1>3 DEF ExpensesAre, HasFound
<1>8. \A s \in Requests : HasFound(req[s], used', file')
  <2>1. ASSUME NEW s \in Requests PROVE HasFound(req[s], used', file')
    <3>1. HasFound(req[s], used, file) /\ Asks(req[s])
      BY DEF ExpensesAre, ExpensesTyped
    <3> QED BY <1>1, <1>6, <3>1 DEF HasFound, Asks
  <2> QED BY <2>1
<1>9. \A d \in ExpenseIDs : /\ file[a] = d => Filed(file')[d] = Filed(file)[d] - 1
                            /\ file[a] # d => Filed(file')[d] = Filed(file)[d]
                            /\ Filed(file)[d] \in Nat
  BY <1>4, <1>6, FileGoes, FilesAre
<1>10. ASSUME NEW d \in ExpenseIDs \ (stale' \cup miscounted'), expense'[d] # NoRow
       PROVE  /\ expense[d] # NoRow
              /\ expense'[d].attachments + Owes(x, d) - Owes(req[r], d)
                   = expense[d].attachments + Filed(file')[d] - Filed(file)[d]
  <2>1. expense'[d] = expense[d] /\ expense[d].attachments \in Int
    BY <1>1, <1>10 DEF ExpensesAre, ExpensesTyped, ExpenseRows
  <2>2. Owes(req[r], d) = 0 /\ Owes(x, d) = IF d = e THEN 0 - 1 ELSE 0
    BY <1>3 DEF Owes, OwesBy
  <2>3. CASE d = e
    <3>1. Filed(file')[d] = Filed(file)[d] - 1 /\ Filed(file)[d] \in Nat
      BY <1>7, <1>9, <1>10, <2>3
    <3> QED BY <1>10, <2>1, <2>2, <2>3, <3>1
  <2>4. CASE d # e
    <3>1. Filed(file')[d] = Filed(file)[d] /\ Filed(file)[d] \in Nat
      BY <1>7, <1>9, <2>4, NoExpenseAssumption
    <3> QED BY <1>10, <2>1, <2>2, <2>4, <3>1
  <2> QED BY <2>3, <2>4
<1>11. ASSUME NEW d \in ExpenseIDs \ used'
       PROVE  /\ \A b \in Attachments : file'[b] # d
              /\ ~On(x, d)
  <2>1. d # e /\ d # NoRow /\ \A b \in Attachments : file[b] # d
    BY <1>1, <1>4, NoExpenseAssumption DEF ExpensesAre, Unspent
  <2> QED BY <1>3, <1>6, <2>1 DEF On
<1>12. \A b \in Attachments \ used' : file'[b] = file[b]
  BY <1>1, <1>6, <1>7
<1>13. \A d \in ExpenseIDs \ used' : /\ expense'[d] = expense[d]
                                     /\ asked'[d] = asked[d]
                                     /\ \A b \in Attachments : file'[b] # d
                                     /\ ~On(x, d)
  BY <1>1, <1>11
<1>14. /\ UNCHANGED today /\ stale \subseteq stale' /\ used \subseteq used'
       /\ \A d \in ExpenseIDs : AsAsked(expense[d], asked[d]) => AsAsked(expense'[d], asked'[d])
  BY <1>1
<1> QED BY <1>3, <1>5, <1>6, <1>7, <1>8, <1>10, <1>12, <1>13, <1>14, RequestKeeps

-----------------------------------------------------------------------------
(* The requests that are done at once *)
LEMMA RequestsAsk ==
  ASSUME ExpensesAre, UNCHANGED req
  PROVE  DOMAIN req' = Requests /\ \A r \in Requests : Asks(req'[r])
BY DEF ExpensesAre, ExpensesTyped

LEMMA CreateExpenseKeeps ==
  ASSUME ExpensesAre, NEW e \in ExpenseIDs, E!CreateExpense(e)
  PROVE  ExpensesAre'
<1>1. PICK date \in Dates \cup {today}, status \in Statuses :
        /\ e \notin used
        /\ expense' = [expense EXCEPT ![e] = [status |-> status, date |-> date, attachments |-> 0]]
        /\ asked' = [asked EXCEPT ![e] = status]
        /\ used' = used \cup {e}
        /\ UNCHANGED <<today, file, req, stale, miscounted>>
  BY DEF E!CreateExpense
<1>2. PICK row : row = [status |-> status, date |-> date, attachments |-> 0]
  OBVIOUS
<1>3. row \in ExpenseRows /\ row.status = status /\ row.attachments = 0
  <2>1. date \in Nat
    BY MonthsAssumption DEF ExpensesAre, ExpensesTyped
  <2> QED BY <1>2, <2>1 DEF ExpenseRows
<1>4. row # NoRow /\ status # NoRow
  BY <1>3, NoExpenseAssumption DEF ExpenseRows
<1>5. /\ expense' \in [ExpenseIDs -> ExpenseRows \cup {NoRow}]
      /\ expense'[e] = row
      /\ \A d \in ExpenseIDs : d # e => expense'[d] = expense[d] /\ asked'[d] = asked[d]
      /\ DOMAIN asked' = ExpenseIDs /\ asked'[e] = status
  BY <1>1, <1>2, <1>3 DEF ExpensesAre, ExpensesTyped
<1>6. ExpensesTyped'
  BY <1>1, <1>5, RequestsAsk DEF ExpensesAre, ExpensesTyped
<1>7. /\ \A a \in Attachments : file[a] # e
      /\ \A r \in Requests : ~On(req[r], e)
  BY <1>1 DEF ExpensesAre, Unspent
<1>8. Unspent(used', expense', file', req', asked')
  BY <1>1, <1>5 DEF ExpensesAre, Unspent
<1>9. \A r \in Requests : HasFound(req[r], used', file')
  BY <1>1 DEF ExpensesAre, HasFound
<1>10. Filed(file)[e] = 0
  <2>1. {a \in Attachments : file[a] = e} = {}
    BY <1>7
  <2> QED BY <2>1, FS_EmptySet DEF Filed
<1>11. Owing(req, e) = 0
  <2>1. \A r \in Requests, k \in {1, 0 - 1} : ~OwesBy(req[r], e, k)
    BY <1>7 DEF OwesBy, On
  <2>2. /\ {r \in Requests : OwesBy(req[r], e, 1)} = {}
        /\ {r \in Requests : OwesBy(req[r], e, 0 - 1)} = {}
    BY <2>1
  <2> QED BY <2>2, FS_EmptySet DEF Owing, Due
<1>12. AllAsAsked(stale', expense', asked')
  <2>1. AsAsked(row, status)
    BY <1>3, <1>4 DEF AsAsked
  <2>2. ASSUME NEW d \in ExpenseIDs \ stale PROVE AsAsked(expense'[d], asked'[d])
    <3>1. AsAsked(expense[d], asked[d])
      BY DEF ExpensesAre, AllAsAsked
    <3> QED BY <1>5, <2>1, <3>1
  <2> QED BY <1>1, <2>2 DEF AllAsAsked
<1>13. AllTallied(stale' \cup miscounted', expense', Filed(file'), req')
  <2>1. Tallied(row, 0, 0)
    BY <1>3 DEF Tallied
  <2>2. ASSUME NEW d \in ExpenseIDs \ (stale \cup miscounted)
        PROVE  Tallied(expense'[d], Filed(file)[d], Owing(req, d))
    <3>1. Tallied(expense[d], Filed(file)[d], Owing(req, d))
      BY DEF ExpensesAre, AllTallied
    <3>2. CASE d = e
      BY <1>5, <1>10, <1>11, <2>1, <3>2
    <3>3. CASE d # e
      BY <1>5, <3>1, <3>3
    <3> QED BY <3>2, <3>3
  <2> QED BY <1>1, <2>2 DEF AllTallied
<1> QED BY <1>1, <1>6, <1>8, <1>9, <1>12, <1>13 DEF ExpensesAre

LEMMA DeleteExpenseKeeps ==
  ASSUME ExpensesAre, NEW e \in ExpenseIDs, E!DeleteExpense(e)
  PROVE  ExpensesAre'
<1>1. /\ E!Exists(e)
      /\ expense' = [expense EXCEPT ![e] = NoRow]
      /\ asked' = [asked EXCEPT ![e] = NoRow]
      /\ UNCHANGED <<today, file, req, used, stale, miscounted>>
  BY DEF E!DeleteExpense
<1>2. /\ expense' \in [ExpenseIDs -> ExpenseRows \cup {NoRow}]
      /\ expense'[e] = NoRow
      /\ \A d \in ExpenseIDs : d # e => expense'[d] = expense[d] /\ asked'[d] = asked[d]
      /\ DOMAIN asked' = ExpenseIDs /\ asked'[e] = NoRow
  BY <1>1 DEF ExpensesAre, ExpensesTyped
<1>3. ExpensesTyped'
  BY <1>1, <1>2, RequestsAsk DEF ExpensesAre, ExpensesTyped
<1>4. Unspent(used', expense', file', req', asked')
  BY <1>1, <1>2 DEF ExpensesAre, Unspent
<1>5. \A r \in Requests : HasFound(req[r], used', file')
  BY <1>1 DEF ExpensesAre
<1>6. AllAsAsked(stale', expense', asked')
  <2>1. ASSUME NEW d \in ExpenseIDs \ stale PROVE AsAsked(expense'[d], asked'[d])
    <3>1. AsAsked(expense[d], asked[d])
      BY DEF ExpensesAre, AllAsAsked
    <3> QED BY <1>2, <3>1 DEF AsAsked
  <2> QED BY <1>1, <2>1 DEF AllAsAsked
<1>7. AllTallied(stale' \cup miscounted', expense', Filed(file'), req')
  <2>1. ASSUME NEW d \in ExpenseIDs \ (stale \cup miscounted)
        PROVE  Tallied(expense'[d], Filed(file)[d], Owing(req, d))
    <3>1. Tallied(expense[d], Filed(file)[d], Owing(req, d))
      BY DEF ExpensesAre, AllTallied
    <3> QED BY <1>2, <3>1 DEF Tallied
  <2> QED BY <1>1, <2>1 DEF AllTallied
<1> QED BY <1>1, <1>3, <1>4, <1>5, <1>6, <1>7 DEF ExpensesAre

LEMMA ExpensesGoOn == ASSUME ExpensesAre, [E!Next]_expenses PROVE ExpensesAre'
<1>1. CASE UNCHANGED <<expense, file, req, used, asked, stale, miscounted>> /\ today' \in Nat
  <2>1. ExpensesTyped'
    BY <1>1, RequestsAsk DEF ExpensesAre, ExpensesTyped
  <2> QED BY <1>1, <2>1 DEF ExpensesAre
<1>2. CASE E!Tick
  BY <1>1, <1>2 DEF E!Tick, ExpensesAre, ExpensesTyped
<1>3. CASE UNCHANGED expenses
  BY <1>1, <1>3 DEF expenses, ExpensesAre, ExpensesTyped
<1>4. ASSUME NEW e \in ExpenseIDs, E!CreateExpense(e) \/ E!DeleteExpense(e) PROVE ExpensesAre'
  BY <1>4, CreateExpenseKeeps, DeleteExpenseKeeps
<1>5. ASSUME NEW r \in Requests, NEW e \in ExpenseIDs, E!UpdateExpense(r, e) \/ E!BulkApprove(r, e)
      PROVE  ExpensesAre'
  BY <1>5, UpdateExpenseKeeps, BulkApproveKeeps
<1>6. ASSUME NEW r \in Requests, NEW e \in ExpenseIDs, NEW a \in Attachments, E!UploadFile(r, e, a)
      PROVE  ExpensesAre'
  BY <1>6, UploadFileKeeps
<1>7. ASSUME NEW r \in Requests, NEW a \in Attachments, E!FindAttachment(r, a) PROVE ExpensesAre'
  BY <1>7, FindAttachmentKeeps
<1>8. ASSUME NEW r \in Requests, \/ E!SaveExpense(r) \/ E!ReadToApprove(r)
                                 \/ E!DeleteAttachment(r) \/ E!CountAttachment(r)
                                 \/ E!Fails(r)
      PROVE  ExpensesAre'
  BY <1>8, SaveExpenseKeeps, ReadToApproveKeeps, DeleteAttachmentKeeps, CountAttachmentKeeps,
     FailsKeeps
<1> QED BY <1>2, <1>3, <1>4, <1>5, <1>6, <1>7, <1>8 DEF E!Next

LEMMA OwedIs == \A e \in ExpenseIDs : E!Owed(e) = Owing(req, e)
BY ExpensesCount DEF E!Owed, E!At, Owing, Due, OwesBy

LEMMA CausesAreNamed == ASSUME ExpensesAre PROVE E!WrongHasACause
<1>1. SUFFICES ASSUME NEW e \in ExpenseIDs \ stale
               PROVE  IF asked[e] = NoRow THEN ~E!Exists(e)
                      ELSE /\ E!Exists(e)
                           /\ expense[e].status = asked[e]
                           /\ e \notin miscounted =>
                                expense[e].attachments + E!Owed(e) = E!Cardinality(E!FilesOf(e))
  BY DEF E!WrongHasACause
<1>2. AsAsked(expense[e], asked[e])
  BY DEF ExpensesAre, AllAsAsked
<1>3. e \notin miscounted => Tallied(expense[e], Filed(file)[e], Owing(req, e))
  BY DEF ExpensesAre, AllTallied
<1>4. Filed(file)[e] = E!Cardinality(E!FilesOf(e)) /\ E!Owed(e) = Owing(req, e)
  BY FilesAre, OwedIs
<1> QED BY <1>2, <1>3, <1>4 DEF AsAsked, Tallied, E!Exists

-----------------------------------------------------------------------------
(* The months of a trend *)
LEMMA Divides ==
  ASSUME NEW m \in Nat, NEW d \in Nat \ {0}
  PROVE  \E q, r \in Nat : m = d * q + r /\ r < d /\ r = m % d
<1>1. m \div d \in Nat /\ m % d \in Nat /\ m % d < d
  OBVIOUS
<1>2. m = d * (m \div d) + (m % d)
  OBVIOUS
<1> QED BY <1>1, <1>2

LEMMA MonthIs ==
  ASSUME ExpensesTyped
  PROVE  /\ E!MonthStart \in Int /\ E!MonthStart <= today /\ today < E!MonthStart + Month
         /\ E!Midnight \in Int /\ E!MonthStart <= E!Midnight /\ E!Midnight <= today
<1>1. today \in Nat /\ Month \in Nat \ {0} /\ Day \in Nat \ {0} /\ Month % Day = 0
  BY MonthsAssumption, DayAssumption DEF ExpensesTyped
<1>2. PICK q, r \in Nat : today = Month * q + r /\ r < Month /\ r = today % Month
  BY <1>1, Divides
<1>3. PICK p \in Nat : Month = Day * p
  <2>1. PICK q1, r1 \in Nat : Month = Day * q1 + r1 /\ r1 = Month % Day
    BY <1>1, Divides
  <2> QED BY <1>1, <2>1
<1>4. PICK a, b \in Nat : today = Day * a + b /\ b < Day /\ b = today % Day
  BY <1>1, Divides
<1>5. E!MonthStart = Month * q /\ E!Midnight = Day * a
  <2>1. E!MonthStart = today - (today % Month) /\ E!Midnight = today - (today % Day)
    BY DEF E!MonthStart, E!Midnight
  <2>2. E!MonthStart = today - r /\ E!Midnight = today - b
    BY <1>2, <1>4, <2>1
  <2>3. PICK u, v \in Nat : u = Month * q /\ v = Day * a
    BY <1>1, <1>2, <1>4
  <2>4. today = u + r /\ today = v + b
    BY <1>2, <1>4, <2>3
  <2>5. today - r = u /\ today - b = v
    <3>1. \A t, x, y \in Nat : t = x + y => t - y = x
      OBVIOUS
    <3>2. today - r = u
      BY <1>1, <2>4, <3>1
    <3>3. today - b = v
      BY <1>1, <2>4, <3>1
    <3> QED BY <3>2, <3>3
  <2> QED BY <2>2, <2>3, <2>5, Zenon
<1>6. PICK c \in Nat : c = p * q
  BY <1>2, <1>3
<1>7. Month * q = Day * c
  BY <1>1, <1>2, <1>3, <1>6
<1>8. c <= a
  <2>1. SUFFICES ASSUME a + 1 <= c PROVE FALSE
    BY <1>4, <1>6
  <2>2. Day * (a + 1) <= Day * c
    BY <1>1, <1>4, <1>6, <2>1
  <2>3. Day * (a + 1) = Day * a + Day
    BY <1>1, <1>4
  <2>4. Day * a \in Nat /\ Day * c \in Nat
    BY <1>1, <1>4, <1>6
  <2> QED BY <1>1, <1>2, <1>4, <1>7, <2>2, <2>3, <2>4
<1>9. Day * c <= Day * a
  BY <1>1, <1>4, <1>6, <1>8
<1>10. Month * q \in Nat /\ Day * a \in Nat
  BY <1>1, <1>2, <1>4
<1> QED BY <1>1, <1>2, <1>4, <1>5, <1>7, <1>9, <1>10

(* What was spent on the days from first to last *)
Booked(rows) == {e \in ExpenseIDs : rows[e] # NoRow /\ rows[e].status \in {"approved", "paid"}}
Dated(rows, first, last) == {e \in Booked(rows) : rows[e].date \in first..last}
HowMany(S) == Cardinality(S)

LEMMA SpentIs ==
  \A first, last : E!Spent(first, last) = Dated(expense, first, last)
BY DEF E!Spent, E!Exists, Dated, Booked

LEMMA SomeExpenses ==
  ASSUME NEW S, S \subseteq ExpenseIDs
  PROVE  IsFiniteSet(S) /\ E!Cardinality(S) = HowMany(S) /\ HowMany(S) \in Nat
<1>1. IsFiniteSet(S)
  BY FS_Subset, ExpenseIDsAssumption
<1> QED BY <1>1, FS_CardinalityType, ExpensesCount DEF HowMany

LEMMA UnionOf ==
  ASSUME NEW A, NEW B, A \subseteq ExpenseIDs, B \subseteq ExpenseIDs
  PROVE  HowMany(A \cup B) = HowMany(A) + HowMany(B) - HowMany(A \cap B)
<1>1. IsFiniteSet(A) /\ IsFiniteSet(B)
  BY SomeExpenses
<1> QED BY <1>1, FS_Union DEF HowMany

LEMMA UnionApart ==
  ASSUME NEW A, NEW B, A \subseteq ExpenseIDs, B \subseteq ExpenseIDs, A \cap B = {}
  PROVE  HowMany(A \cup B) = HowMany(A) + HowMany(B)
<1>1. HowMany({}) = 0
  BY FS_EmptySet DEF HowMany
<1>2. HowMany(A) \in Nat /\ HowMany(B) \in Nat
  BY SomeExpenses
<1>3. HowMany(A \cap B) = 0
  BY <1>1
<1>4. HowMany(A \cup B) = HowMany(A) + HowMany(B) - HowMany(A \cap B)
  BY UnionOf
<1> QED BY <1>2, <1>3, <1>4

(* The month that is back months ago starts here *)
Ago(start, back) == start - back * Month

LEMMA MonthsAgo ==
  ASSUME NEW start \in Int
  PROVE  /\ Ago(start, 0) = start
         /\ \A n \in Nat : Ago(start, n) \in Int /\ Ago(start, n + 1) = Ago(start, n) - Month
         /\ \A n, k \in Nat : k < n => Ago(start, n) < Ago(start, k)
<1>1. Month \in Nat \ {0}
  BY MonthsAssumption
<1>2. Ago(start, 0) = start
  BY <1>1 DEF Ago
<1>3. \A n \in Nat : Ago(start, n) \in Int /\ Ago(start, n + 1) = Ago(start, n) - Month
  BY <1>1 DEF Ago
<1>4. ASSUME NEW n \in Nat, NEW k \in Nat, k < n PROVE Ago(start, n) < Ago(start, k)
  <2>1. PICK d \in Nat : n = k + d /\ d > 0
    BY <1>4
  <2>2. n * Month = k * Month + d * Month /\ d * Month > 0
    BY <1>1, <2>1
  <2>3. k * Month \in Nat /\ d * Month \in Nat
    BY <1>1, <2>1
  <2> QED BY <2>2, <2>3 DEF Ago
<1> QED BY <1>2, <1>3, <1>4

(* The months from one on, and what was spent as one of them ended          *)
Turns(rows, start, n) ==
  {e \in Booked(rows) : \E k \in 0..n - 1 : rows[e].date = Ago(start, k)}
Monthly(rows, start) ==
  [k \in Nat |-> HowMany(Dated(rows, Ago(start, k), Ago(start, k) + Month))]

LEMMA OneMonthMore ==
  ASSUME NEW rows, \A e \in Booked(rows) : rows[e].date \in Int,
         NEW start \in Int, NEW n \in Nat
  PROVE  HowMany(Dated(rows, Ago(start, n + 1), start + Month)) + HowMany(Turns(rows, start, n + 1))
           = Monthly(rows, start)[n + 1]
             + (HowMany(Dated(rows, Ago(start, n), start + Month)) + HowMany(Turns(rows, start, n)))
<1>1. PICK a, b : a = Ago(start, n + 1) /\ b = Ago(start, n)
  OBVIOUS
<1>2. Month \in Nat /\ Month > 0
  BY MonthsAssumption
<1>3. a \in Int /\ b \in Int /\ a + Month = b /\ a < b /\ b <= start + Month
  <2>1. b <= start
    <3>1. n = 0 => b = start
      BY <1>1, MonthsAgo
    <3>2. n > 0 => b < start
      BY <1>1, MonthsAgo
    <3>3. b \in Int
      BY <1>1, MonthsAgo
    <3> QED BY <3>1, <3>2, <3>3
  <2>2. a \in Int /\ b \in Int /\ a = b - Month
    BY <1>1, MonthsAgo
  <2> QED BY <1>2, <2>1, <2>2
<1>4. PICK A, B, I : A = Dated(rows, a, b) /\ B = Dated(rows, b, start + Month) /\ I = Dated(rows, b, b)
  OBVIOUS
<1>5. PICK T, U : T = Turns(rows, start, n) /\ U = Turns(rows, start, n + 1)
  OBVIOUS
<1>6. A \cup B = Dated(rows, a, start + Month) /\ A \cap B = I
  <2>1. PICK c : c = start + Month /\ c \in Int /\ b <= c
    BY <1>2, <1>3
  <2>2. \A d \in Int : /\ d \in a..c <=> d \in a..b \/ d \in b..c
                       /\ d \in b..b <=> d \in a..b /\ d \in b..c
    BY <1>3, <2>1
  <2>3. ASSUME NEW e \in Booked(rows)
        PROVE  /\ e \in Dated(rows, a, c) <=> e \in A \/ e \in B
               /\ e \in I <=> e \in A /\ e \in B
    <3>1. PICK d \in Int : d = rows[e].date
      OBVIOUS
    <3>2. /\ e \in A <=> d \in a..b
          /\ e \in B <=> d \in b..c
          /\ e \in I <=> d \in b..b
          /\ e \in Dated(rows, a, c) <=> d \in a..c
      BY <1>4, <2>1, <3>1 DEF Dated
    <3>3. /\ d \in a..c <=> d \in a..b \/ d \in b..c
          /\ d \in b..b <=> d \in a..b /\ d \in b..c
      BY <2>2, <3>1
    <3> QED BY <3>2, <3>3
  <2>4. A \subseteq Booked(rows) /\ B \subseteq Booked(rows) /\ I \subseteq Booked(rows)
        /\ Dated(rows, a, c) \subseteq Booked(rows)
    BY <1>4 DEF Dated
  <2>5. A \cup B = Dated(rows, a, c) /\ A \cap B = I
    BY <2>3, <2>4
  <2> QED BY <2>1, <2>5
<1>7. U = T \cup I
  <2>1. ASSUME NEW e \in Booked(rows)
        PROVE  e \in U <=> e \in T \/ e \in I
    <3>1. e \in I <=> rows[e].date = b
      BY <1>3, <1>4 DEF Dated
    <3>2. 0..(n + 1) - 1 = (0..n - 1) \cup {n}
      OBVIOUS
    <3>3. e \in T <=> \E k \in 0..n - 1 : rows[e].date = Ago(start, k)
      BY <1>5 DEF Turns
    <3>4. e \in U <=> \E k \in (0..n - 1) \cup {n} : rows[e].date = Ago(start, k)
      BY <1>5, <3>2 DEF Turns
    <3> QED BY <1>1, <3>1, <3>3, <3>4
  <2>2. T \subseteq Booked(rows) /\ U \subseteq Booked(rows) /\ I \subseteq Booked(rows)
    BY <1>4, <1>5 DEF Turns, Dated
  <2> QED BY <2>1, <2>2
<1>8. T \cap I = {}
  <2>1. SUFFICES ASSUME NEW e \in T, e \in I PROVE FALSE
    OBVIOUS
  <2>2. rows[e].date = b
    BY <1>3, <1>4, <2>1 DEF Dated
  <2>3. PICK k \in 0..n - 1 : rows[e].date = Ago(start, k)
    BY <1>5 DEF Turns
  <2>4. k \in Nat /\ k < n
    BY <2>3
  <2>5. b < Ago(start, k) /\ Ago(start, k) \in Int
    BY <1>1, <2>4, MonthsAgo
  <2> QED BY <1>3, <2>2, <2>3, <2>5
<1>9. A \subseteq ExpenseIDs /\ B \subseteq ExpenseIDs /\ I \subseteq ExpenseIDs /\ T \subseteq ExpenseIDs
  BY <1>4, <1>5 DEF Dated, Turns, Booked
<1>10. /\ HowMany(A \cup B) = HowMany(A) + HowMany(B) - HowMany(I)
       /\ HowMany(U) = HowMany(T) + HowMany(I)
  BY <1>6, <1>7, <1>8, <1>9, UnionOf, UnionApart
<1>11. HowMany(A) \in Nat /\ HowMany(B) \in Nat /\ HowMany(I) \in Nat /\ HowMany(T) \in Nat
  BY <1>9, SomeExpenses
<1>12. Monthly(rows, start)[n + 1] = HowMany(A)
  BY <1>1, <1>3, <1>4 DEF Monthly
<1>13. HowMany(A \cup B) + HowMany(U) = HowMany(A) + (HowMany(B) + HowMany(T))
  BY <1>10, <1>11
<1> QED BY <1>1, <1>4, <1>5, <1>6, <1>12, <1>13

LEMMA MonthsSum ==
  ASSUME NEW rows, \A e \in Booked(rows) : rows[e].date \in Int,
         NEW start \in Int, NEW n \in Nat
  PROVE  Part(Monthly(rows, start), 0..n)
           = HowMany(Dated(rows, Ago(start, n), start + Month)) + HowMany(Turns(rows, start, n))
<1>1. PICK f : f = Monthly(rows, start)
  OBVIOUS
<1>2. PICK g : g = [k \in Nat |-> HowMany(Dated(rows, Ago(start, k), start + Month))
                                  + HowMany(Turns(rows, start, k))]
  OBVIOUS
<1>3. \A k \in Nat : f[k] \in Int
  <2>1. ASSUME NEW k \in Nat PROVE f[k] \in Int
    <3>1. Dated(rows, Ago(start, k), Ago(start, k) + Month) \subseteq ExpenseIDs
      BY DEF Dated, Booked
    <3> QED BY <1>1, <3>1, SomeExpenses DEF Monthly
  <2> QED BY <2>1
<1>4. \A k \in Nat : g[k + 1] = f[k + 1] + g[k]
  <2>1. ASSUME NEW k \in Nat PROVE g[k + 1] = f[k + 1] + g[k]
    <3>1. k + 1 \in Nat
      OBVIOUS
    <3>2. g[k + 1] = HowMany(Dated(rows, Ago(start, k + 1), start + Month))
                       + HowMany(Turns(rows, start, k + 1))
      BY <1>2, <3>1
    <3>3. g[k] = HowMany(Dated(rows, Ago(start, k), start + Month)) + HowMany(Turns(rows, start, k))
      BY <1>2
    <3>4. HowMany(Dated(rows, Ago(start, k + 1), start + Month)) + HowMany(Turns(rows, start, k + 1))
            = Monthly(rows, start)[k + 1]
              + (HowMany(Dated(rows, Ago(start, k), start + Month)) + HowMany(Turns(rows, start, k)))
      BY OneMonthMore
    <3> QED BY <1>1, <3>2, <3>3, <3>4, Zenon
  <2> QED BY <2>1
<1>5. g[0] = f[0]
  <2>1. Turns(rows, start, 0) = {}
    BY DEF Turns
  <2>2. HowMany({}) = 0
    BY FS_EmptySet DEF HowMany
  <2>3. Ago(start, 0) = start
    BY MonthsAgo
  <2>4. f[0] = HowMany(Dated(rows, start, start + Month))
    BY <1>1, <2>3 DEF Monthly
  <2>5. g[0] = HowMany(Dated(rows, start, start + Month)) + 0
    BY <1>2, <2>1, <2>2, <2>3
  <2> QED BY <1>3, <2>4, <2>5
<1>6. \A k \in Nat : Summable(0..k, f)
  BY <1>3, FS_Interval DEF Summable
<1>7. PICK X : X = {k \in Nat : Part(f, 0..k) # g[k]}
  OBVIOUS
<1>8. X = {}
  <2>1. SUFFICES ASSUME X # {} PROVE FALSE
    OBVIOUS
  <2>2. PICK k \in X : \A j \in X : k <= j
    BY <1>7, <2>1, LeastNumber
  <2>3. k \in Nat /\ Part(f, 0..k) # g[k]
    BY <1>7, <2>2
  <2>4. Part(f, 0..k) = f[k] + Part(f, (0..k) \ {k})
    BY <1>6, <2>3, PartTakes
  <2>5. CASE k = 0
    <3>1. (0..k) \ {k} = {}
      BY <2>5
    <3>2. Part(f, {}) = 0
      BY <1>6, PartTakes
    <3>3. Part(f, 0..k) = f[0] + 0
      BY <2>4, <2>5, <3>1, <3>2, Zenon
    <3>4. f[0] \in Int
      BY <1>3
    <3> QED BY <1>5, <2>3, <2>5, <3>3, <3>4
  <2>6. CASE k # 0
    <3>1. k - 1 \in Nat /\ k - 1 \notin X
      BY <2>2, <2>3, <2>6
    <3>2. (0..k) \ {k} = 0..k - 1
      BY <2>3
    <3>3. Part(f, 0..k - 1) = g[k - 1]
      BY <1>7, <3>1
    <3>4. g[k] = f[k] + g[k - 1]
      <4>1. PICK j \in Nat : j = k - 1
        BY <3>1
      <4>2. k = j + 1
        BY <2>3, <4>1
      <4> QED BY <1>4, <4>1, <4>2
    <3> QED BY <2>3, <2>4, <3>2, <3>3, <3>4
  <2> QED BY <2>5, <2>6
<1> QED BY <1>1, <1>2, <1>7, <1>8

LEMMA DatesAre ==
  ASSUME ExpensesTyped
  PROVE  \A e \in Booked(expense) : expense[e].date \in Int
BY DEF ExpensesTyped, ExpenseRows, Booked

LEMMA SpentCounts ==
  ASSUME NEW first, NEW last
  PROVE  /\ E!Cardinality(E!Spent(first, last)) = HowMany(Dated(expense, first, last))
         /\ HowMany(Dated(expense, first, last)) \in Nat
<1>1. Dated(expense, first, last) \subseteq ExpenseIDs
  BY DEF Dated, Booked
<1> QED BY <1>1, SpentIs, SomeExpenses

LEMMA TrendOf ==
  ASSUME ExpensesTyped, NEW k \in Nat
  PROVE  E!Trend(k) = Monthly(expense, E!MonthStart)[k] /\ E!Trend(k) \in Nat
<1>1. PICK a : a = Ago(E!MonthStart, k)
  OBVIOUS
<1>2. E!Trend(k) = E!Cardinality(E!Spent(a, a + Month))
  BY <1>1 DEF E!Trend, Ago
<1>3. Monthly(expense, E!MonthStart)[k] = HowMany(Dated(expense, a, a + Month))
  BY <1>1 DEF Monthly
<1> QED BY <1>2, <1>3, SpentCounts

TrendAdds(g, S) == g = [T \in SUBSET S |-> IF T = {} THEN 0 ELSE E!Trend(Pick(T)) + g[T \ {Pick(T)}]]

LEMMA TrendIs ==
  ASSUME ExpensesTyped, NEW n \in Nat
  PROVE  E!MapThenSumSet(E!Trend, 0..n) = Part(Monthly(expense, E!MonthStart), 0..n)
<1>1. PICK S, f : S = 0..n /\ f = Monthly(expense, E!MonthStart)
  OBVIOUS
<1>2. \A k \in S : f[k] = E!Trend(k) /\ f[k] \in Int
  BY <1>1, TrendOf
<1>3. Summable(S, f)
  <2>1. IsFiniteSet(S)
    BY <1>1, FS_Interval
  <2> QED BY <1>2, <2>1 DEF Summable
<1>4. \A g : TrendAdds(g, S) <=> Adds(g, S, f)
  <2>1. \A T \in SUBSET S : T # {} => f[Pick(T)] = E!Trend(Pick(T))
    BY <1>2, PickIs
  <2> QED BY <2>1 DEF TrendAdds, Adds
<1>5. PICK k : k = CHOOSE g : TrendAdds(g, S)
  OBVIOUS
<1>6. Adds(k, S, f)
  BY <1>3, <1>4, <1>5, AddsExists, Zenon
<1>7. E!MapThenSumSet(E!Trend, S) = k[S]
  BY <1>5 DEF E!MapThenSumSet, E!MapThenFoldSet, TrendAdds, Pick
<1> QED BY <1>1, <1>3, <1>6, <1>7, PartIs

(* What was spent at the turn of a month, as the property and as Turns say it *)
LEMMA TurnsAre ==
  ASSUME ExpensesTyped
  PROVE  LET first == E!MonthStart - (Months - 1) * Month
             turns == {first + k * Month : k \in 1..Months - 1}
         IN  {e \in E!Spent(first, today + Month) : expense[e].date \in turns}
               = Turns(expense, E!MonthStart, Months - 1)
<1>1. PICK start, first, last : /\ start = E!MonthStart /\ last = today + Month
                                /\ first = E!MonthStart - (Months - 1) * Month
  OBVIOUS
<1>2. PICK n \in Nat : n = Months - 1
  BY MonthsAssumption
<1>3. /\ start \in Int /\ last \in Int /\ start <= last
      /\ first = Ago(start, n) /\ first \in Int
  <2>1. Month \in Nat /\ today \in Nat
    BY MonthsAssumption DEF ExpensesTyped
  <2>2. start \in Int /\ start <= today
    BY <1>1, MonthIs
  <2>3. first = Ago(start, n)
    BY <1>1, <1>2 DEF Ago
  <2>4. Ago(start, n) \in Int
    BY <2>2, MonthsAgo
  <2> QED BY <1>1, <2>1, <2>2, <2>3, <2>4
<1>4. PICK turns : turns = {first + k * Month : k \in 1..n}
  OBVIOUS
<1>5. \A d : d \in turns <=> \E k \in 0..n - 1 : d = Ago(start, k)
  <2>1. \A j, k \in Nat : j + k = n => first + j * Month = Ago(start, k)
    <3>1. SUFFICES ASSUME NEW j \in Nat, NEW k \in Nat, j + k = n
                   PROVE  first + j * Month = Ago(start, k)
      OBVIOUS
    <3>2. Month \in Nat
      BY MonthsAssumption
    <3>3. PICK u, v \in Nat : u = j * Month /\ v = k * Month
      BY <3>1, <3>2
    <3>4. n * Month = u + v
      BY <3>1, <3>2, <3>3
    <3>5. first = start - (u + v) /\ Ago(start, k) = start - v
      BY <1>3, <3>3, <3>4 DEF Ago
    <3> QED BY <1>3, <3>3, <3>5
  <2>2. ASSUME NEW d, d \in turns PROVE \E k \in 0..n - 1 : d = Ago(start, k)
    <3>1. PICK j \in 1..n : d = first + j * Month
      BY <1>4, <2>2
    <3>2. PICK k \in 0..n - 1 : j + k = n
      <4>1. n - j \in 0..n - 1 /\ j + (n - j) = n
        BY <1>2, <3>1
      <4> QED BY <4>1
    <3> QED BY <1>2, <2>1, <3>1, <3>2
  <2>3. ASSUME NEW k \in 0..n - 1 PROVE Ago(start, k) \in turns
    <3>1. PICK j \in 1..n : j + k = n
      <4>1. n - k \in 1..n /\ (n - k) + k = n
        BY <1>2, <2>3
      <4> QED BY <4>1
    <3>2. first + j * Month = Ago(start, k)
      BY <1>2, <2>1, <2>3, <3>1
    <3> QED BY <1>4, <3>1, <3>2
  <2> QED BY <2>2, <2>3
<1>6. \A k \in 0..n - 1 : Ago(start, k) \in first..last
  <2>1. SUFFICES ASSUME NEW k \in 0..n - 1 PROVE Ago(start, k) \in first..last
    OBVIOUS
  <2>2. k \in Nat /\ k < n /\ Ago(start, k) \in Int
    BY <1>2, <1>3, <2>1, MonthsAgo
  <2>3. first < Ago(start, k)
    BY <1>2, <1>3, <2>2, MonthsAgo
  <2>4. Ago(start, k) <= start
    <3>1. k = 0 => Ago(start, k) = start
      BY <1>3, MonthsAgo
    <3>2. k > 0 => Ago(start, k) < Ago(start, 0) /\ Ago(start, 0) = start
      BY <1>3, <2>2, MonthsAgo
    <3> QED BY <1>3, <2>2, <3>1, <3>2
  <2> QED BY <1>3, <2>2, <2>3, <2>4
<1>7. {e \in Dated(expense, first, last) : expense[e].date \in turns} = Turns(expense, start, n)
  <2>1. ASSUME NEW e \in Booked(expense)
        PROVE  /\ expense[e].date \in first..last /\ expense[e].date \in turns
               <=> \E k \in 0..n - 1 : expense[e].date = Ago(start, k)
    BY <1>5, <1>6
  <2>2. Turns(expense, start, n) \subseteq Booked(expense)
        /\ Dated(expense, first, last) \subseteq Booked(expense)
    BY DEF Turns, Dated
  <2> QED BY <2>1, <2>2 DEF Turns, Dated
<1> QED BY <1>1, <1>2, <1>4, <1>7, SpentIs

(* This month, and its summary *)
LEMMA SplitAt ==
  ASSUME ExpensesTyped, NEW first \in Int, NEW mid \in Int, NEW last \in Int,
         first <= mid + 1, mid <= last
  PROVE  HowMany(Dated(expense, first, mid))
           = HowMany(Dated(expense, first, last)) - HowMany(Dated(expense, mid + 1, last))
<1>1. PICK A, B, W : /\ A = Dated(expense, first, mid) /\ B = Dated(expense, mid + 1, last)
                     /\ W = Dated(expense, first, last)
  OBVIOUS
<1>2. A \subseteq Booked(expense) /\ B \subseteq Booked(expense) /\ W \subseteq Booked(expense)
  BY <1>1 DEF Dated
<1>3. \A d \in Int : /\ d \in first..last <=> d \in first..mid \/ d \in (mid + 1)..last
                     /\ ~(d \in first..mid /\ d \in (mid + 1)..last)
  OBVIOUS
<1>4. ASSUME NEW e \in Booked(expense)
      PROVE  (e \in W <=> e \in A \/ e \in B) /\ ~(e \in A /\ e \in B)
  <2>1. PICK d \in Int : d = expense[e].date
    BY DatesAre
  <2>2. /\ e \in A <=> d \in first..mid
        /\ e \in B <=> d \in (mid + 1)..last
        /\ e \in W <=> d \in first..last
    BY <1>1, <2>1 DEF Dated
  <2>3. /\ d \in first..last <=> d \in first..mid \/ d \in (mid + 1)..last
        /\ ~(d \in first..mid /\ d \in (mid + 1)..last)
    BY <1>3, <2>1
  <2> QED BY <2>2, <2>3
<1>5. W = A \cup B /\ A \cap B = {}
  BY <1>2, <1>4
<1>6. A \subseteq ExpenseIDs /\ B \subseteq ExpenseIDs
  BY <1>2 DEF Booked
<1>7. HowMany(W) = HowMany(A) + HowMany(B) /\ HowMany(A) \in Nat /\ HowMany(B) \in Nat
  BY <1>5, <1>6, UnionApart, SomeExpenses
<1>8. \A w, a, b \in Int : w = a + b => a = w - b
  OBVIOUS
<1>9. HowMany(W) \in Int
  BY <1>7
<1> QED BY <1>1, <1>7, <1>8, <1>9

LEMMA ThisMonthIs ==
  ASSUME ExpensesTyped
  PROVE  E!ThisMonth = E!Trend(0) - E!Cardinality(E!Spent(today + 1, E!MonthStart + Month))
<1>1. PICK start, last : start = E!MonthStart /\ last = E!MonthStart + Month
  OBVIOUS
<1>2. start \in Int /\ last \in Int /\ today \in Int /\ start <= today + 1 /\ today <= last
  <2>1. start \in Int /\ start <= today /\ today < start + Month /\ last = start + Month
    BY <1>1, MonthIs
  <2>2. Month \in Nat /\ today \in Nat
    BY MonthsAssumption DEF ExpensesTyped
  <2> QED BY <2>1, <2>2
<1>3. E!ThisMonth = HowMany(Dated(expense, start, today))
  BY <1>1, SpentCounts DEF E!ThisMonth
<1>4. E!Trend(0) = HowMany(Dated(expense, start, last))
  <2>1. E!Trend(0) = Monthly(expense, start)[0]
    BY <1>1, TrendOf
  <2>2. Ago(start, 0) = start
    BY <1>2, MonthsAgo
  <2> QED BY <1>1, <2>1, <2>2 DEF Monthly
<1>5. HowMany(Dated(expense, start, today))
        = HowMany(Dated(expense, start, last)) - HowMany(Dated(expense, today + 1, last))
  BY <1>2, SplitAt
<1>6. E!Cardinality(E!Spent(today + 1, last)) = HowMany(Dated(expense, today + 1, last))
  BY SpentCounts
<1> QED BY <1>1, <1>3, <1>4, <1>5, <1>6

InMonth(status) ==
  {e \in ExpenseIDs : /\ expense[e] # NoRow /\ expense[e].status = status
                      /\ expense[e].date \in E!MonthStart..E!Midnight}

LEMMA SummaryIs ==
  ASSUME ExpensesTyped
  PROVE  E!SummaryOfMonth("approved") + E!SummaryOfMonth("paid")
           = E!ThisMonth - E!Cardinality(E!Spent(E!Midnight + 1, today))
<1>1. PICK start, mid : start = E!MonthStart /\ mid = E!Midnight
  OBVIOUS
<1>2. start \in Int /\ mid \in Int /\ today \in Int /\ start <= mid + 1 /\ mid <= today
  <2>1. start \in Int /\ mid \in Int /\ start <= mid /\ mid <= today
    BY <1>1, MonthIs
  <2>2. today \in Nat
    BY DEF ExpensesTyped
  <2> QED BY <2>1, <2>2
<1>3. PICK A, P : A = InMonth("approved") /\ P = InMonth("paid")
  OBVIOUS
<1>4. A \subseteq ExpenseIDs /\ P \subseteq ExpenseIDs /\ A \cap P = {}
  BY <1>3 DEF InMonth
<1>5. A \cup P = Dated(expense, start, mid)
  BY <1>1, <1>3 DEF InMonth, Dated, Booked
<1>6. E!SummaryOfMonth("approved") = HowMany(A) /\ E!SummaryOfMonth("paid") = HowMany(P)
  <2>1. E!SummaryOfMonth("approved") = E!Cardinality(A)
    BY <1>3 DEF E!SummaryOfMonth, E!Exists, InMonth
  <2>2. E!SummaryOfMonth("paid") = E!Cardinality(P)
    BY <1>3 DEF E!SummaryOfMonth, E!Exists, InMonth
  <2> QED BY <1>4, <2>1, <2>2, SomeExpenses
<1>7. HowMany(Dated(expense, start, mid)) = HowMany(A) + HowMany(P)
  BY <1>4, <1>5, UnionApart
<1>8. E!ThisMonth = HowMany(Dated(expense, start, today))
  BY <1>1, SpentCounts DEF E!ThisMonth
<1>9. HowMany(Dated(expense, start, mid))
        = HowMany(Dated(expense, start, today)) - HowMany(Dated(expense, mid + 1, today))
  BY <1>2, SplitAt
<1>10. E!Cardinality(E!Spent(mid + 1, today)) = HowMany(Dated(expense, mid + 1, today))
  BY SpentCounts
<1> QED BY <1>1, <1>6, <1>7, <1>8, <1>9, <1>10

LEMMA ListsAre ==
  ASSUME ExpensesTyped, NEW status
  PROVE  /\ E!Cardinality(E!GetExpenses("month", status)) = E!SummaryOfMonth(status)
         /\ E!GetExpenses("today", status) = E!GetExpenses("month", status)
              \ {e \in E!GetExpenses("month", status) : expense[e].date < E!Midnight}
<1>1. PICK start, mid : start = E!MonthStart /\ mid = E!Midnight
  OBVIOUS
<1>2. start \in Int /\ mid \in Int /\ start <= mid
  BY <1>1, MonthIs
<1>3. PICK M, N : M = E!GetExpenses("month", status) /\ N = E!GetExpenses("today", status)
  OBVIOUS
<1>4. M = {e \in ExpenseIDs : /\ expense[e] # NoRow /\ expense[e].status = status
                              /\ expense[e].date \in start..mid}
  BY <1>1, <1>3 DEF E!GetExpenses, E!Exists
<1>5. N = {e \in ExpenseIDs : /\ expense[e] # NoRow /\ expense[e].status = status
                              /\ expense[e].date \in mid..mid}
  BY <1>1, <1>3 DEF E!GetExpenses, E!Exists
<1>6. E!Cardinality(M) = E!SummaryOfMonth(status)
  BY <1>1, <1>4 DEF E!SummaryOfMonth, E!Exists
<1>7. N = M \ {e \in M : expense[e].date < mid}
  <2>1. \A d \in Int : d \in mid..mid <=> d \in start..mid /\ ~(d < mid)
    BY <1>2
  <2>2. ASSUME NEW e \in ExpenseIDs, expense[e] # NoRow
        PROVE  expense[e].date \in Int
    BY <2>2 DEF ExpensesTyped, ExpenseRows
  <2>3. ASSUME NEW e \in ExpenseIDs
        PROVE  e \in N <=> e \in M /\ ~(expense[e].date < mid)
    BY <1>4, <1>5, <2>1, <2>2
  <2>4. M \subseteq ExpenseIDs /\ N \subseteq ExpenseIDs
    BY <1>4, <1>5
  <2> QED BY <2>3, <2>4
<1> QED BY <1>1, <1>3, <1>6, <1>7

LEMMA MonthsAre == ASSUME ExpensesTyped PROVE E!MonthsAddUp
<1>1. PICK first, turns, onTurn :
        /\ first = E!MonthStart - (Months - 1) * Month
        /\ turns = {first + k * Month : k \in 1..Months - 1}
        /\ onTurn = {e \in E!Spent(first, today + Month) : expense[e].date \in turns}
  OBVIOUS
<1>2. PICK n \in Nat : n = Months - 1
  BY MonthsAssumption
<1>3. onTurn = Turns(expense, E!MonthStart, n)
  BY <1>1, <1>2, TurnsAre
<1>4. first = Ago(E!MonthStart, n)
  BY <1>1, <1>2 DEF Ago
<1>5. E!MonthStart \in Int
  BY MonthIs
<1>6. E!MapThenSumSet(E!Trend, 0..n) = Part(Monthly(expense, E!MonthStart), 0..n)
  BY <1>2, TrendIs
<1>7. Part(Monthly(expense, E!MonthStart), 0..n)
        = HowMany(Dated(expense, first, E!MonthStart + Month)) + HowMany(onTurn)
  BY <1>2, <1>3, <1>4, <1>5, DatesAre, MonthsSum
<1>8. E!Cardinality(E!Spent(first, E!MonthStart + Month))
        = HowMany(Dated(expense, first, E!MonthStart + Month))
  BY SpentCounts
<1>9. E!Cardinality(onTurn) = HowMany(onTurn)
  <2>1. onTurn \subseteq ExpenseIDs
    BY <1>3 DEF Turns, Booked
  <2> QED BY <2>1, SomeExpenses
<1>10. E!MapThenSumSet(E!Trend, 0..Months - 1)
         = E!Cardinality(E!Spent(first, E!MonthStart + Month)) + E!Cardinality(onTurn)
  BY <1>2, <1>6, <1>7, <1>8, <1>9
<1> QED BY <1>1, <1>10, ThisMonthIs, SummaryIs, ListsAre DEF E!MonthsAddUp

LEMMA ExpenseSteps == ASSUME BooksNext PROVE [E!Next]_expenses
BY DEF BooksNext, BooksStep, ExpensesStep, ClientsStep

(* What the reports say of the expenses of any number of months adds up,   *)
(* but for what is dated at the turn of a month, later than now, or today  *)
(* without a date; and what was last asked for an expense stands, its      *)
(* attachments counted right with what is still to be counted, however     *)
(* requests overlap, unless an edit gave back what it had read, a count    *)
(* failed, or one attachment was removed twice.                            *)
THEOREM ExpensesAgree == BooksSpec => []ExpensesAddUp
<1>1. BooksInit => ExpensesAre
  BY ExpensesBegin DEF BooksInit
<1>2. ExpensesAre /\ [BooksNext]_<<part, vars, expenses, clients>> => ExpensesAre'
  <2>1. ASSUME [BooksNext]_<<part, vars, expenses, clients>> PROVE [E!Next]_expenses
    BY <2>1, ExpenseSteps
  <2> QED BY <2>1, ExpensesGoOn
<1>3. ExpensesAre => ExpensesAddUp
  BY CausesAreNamed, MonthsAre DEF ExpensesAre, ExpensesAddUp
<1> QED BY <1>1, <1>2, <1>3, PTL DEF BooksSpec

-----------------------------------------------------------------------------
(* The clients *)

(* A row of an invoice *)
Row == [client: ClientIDs, status: {"sent", "partially_paid", "overdue"}, paid: Nat]

(* What the theorems assume: no row, and no invoice, is taken for none, and *)
(* payments can be counted                                                  *)
Countable == NoRow \notin Row /\ NoRow \notin Bills /\ IsFiniteSet(Receipts)

(* A request with what it holds *)
Edits(x) == x.at \in {"holds client", "holds all"}

Typed(x) ==
  /\ x.at \in {"found", "holds client", "holds all"} => x.client \in ClientIDs
  /\ Edits(x) =>
       /\ DOMAIN x.invoices \subseteq Bills
       /\ \A i \in DOMAIN x.invoices : x.invoices[i] \in Row
  /\ x.at = "holds all" =>
       /\ DOMAIN x.payments \subseteq Receipts
       /\ \A p \in DOMAIN x.payments : x.payments[p] \in DOMAIN x.invoices

TypeOK ==
  /\ cli \in [ClientIDs -> BOOLEAN]
  /\ invoice \in [Bills -> Row \cup {NoRow}]
  /\ paidBy \in [Receipts -> Bills \cup {NoRow}]
  /\ DOMAIN call = Requests
  /\ \A r \in Requests : Typed(call[r])
  /\ deletion \in [Bills -> {"none", "refused", "held", "done"}]

(* An id that was not spent is nowhere *)
Fresh ==
  /\ \A i \in Bills : i \notin spent =>
       /\ ~C!Exists(i)
       /\ deletion[i] = "none"
       /\ \A p \in Receipts : paidBy[p] # i
  /\ \A p \in Receipts : p \notin spent => paidBy[p] = NoRow

(* An invoice that is held and gone was deleted while it was held *)
InvoicesKnown(x) ==
  Edits(x) =>
    \A i \in DOMAIN x.invoices :
      /\ i \in spent
      /\ deletion[i] # "done"
      /\ deletion[i] = "none" => C!Exists(i)

(* A payment that is held is for the invoice it was for, or gone with it *)
PaymentsKnown(x) ==
  x.at = "holds all" =>
    \A p \in DOMAIN x.payments :
      /\ p \in spent
      /\ paidBy[p] \in {x.payments[p], NoRow}
      /\ deletion[x.payments[p]] = "none" => paidBy[p] = x.payments[p]

(* Two requests that hold a payment hold it alike *)
Alike(x, y) ==
  x.at = "holds all" /\ y.at = "holds all" =>
    \A p \in DOMAIN x.payments \cap DOMAIN y.payments : x.payments[p] = y.payments[p]

Known ==
  /\ \A r \in Requests : InvoicesKnown(call[r]) /\ PaymentsKnown(call[r])
  /\ \A r, s \in Requests : Alike(call[r], call[s])

IInv == TypeOK /\ Fresh /\ Known /\ EditsTakeNothingBack

(* Clients counts as this module does *)
LEMMA CountsAlike == \A S : C!Cardinality(S) = Cardinality(S)
BY DEF Cardinality, C!Cardinality

-----------------------------------------------------------------------------
(* The initial states *)
LEMMA InitIsSound == ASSUME Countable, C!Init PROVE IInv
<1> USE DEF C!Init, C!Idle
<1>1. TypeOK
  BY DEF TypeOK, Typed, Edits
<1>2. Fresh
  BY DEF Fresh, C!Exists, Countable
<1>3. Known
  BY DEF Known, InvoicesKnown, PaymentsKnown, Alike, Edits
<1>4. EditsTakeNothingBack
  BY DEF EditsTakeNothingBack, C!EditsTakeNothingBack, C!Exists
<1> QED BY <1>1, <1>2, <1>3, <1>4 DEF IInv

-----------------------------------------------------------------------------
(* A step of a request that only reads, or only writes clients, leaves the *)
(* invariant if what the request takes is known.                           *)
LEMMA Takes ==
  ASSUME Countable, IInv,
         NEW r \in Requests, NEW x, C!Goes(r, x), Typed(x),
         InvoicesKnown(x), PaymentsKnown(x),
         \A s \in Requests : Alike(x, call[s]) /\ Alike(call[s], x),
         cli' \in [ClientIDs -> BOOLEAN],
         UNCHANGED <<invoice, paidBy, spent, deletion>>
  PROVE  IInv'
<1>1. /\ DOMAIN call' = Requests
      /\ call'[r] = x
      /\ \A s \in Requests : s # r => call'[s] = call[s]
  BY DEF IInv, TypeOK, C!Goes
<1>2. TypeOK'
  BY <1>1 DEF IInv, TypeOK
<1>3. Fresh'
  BY DEF IInv, Fresh, C!Exists
<1>4. ASSUME NEW s \in Requests PROVE (InvoicesKnown(call[s]) /\ PaymentsKnown(call[s]))'
  <2>1. PICK y : y = call'[s]
    OBVIOUS
  <2>2. InvoicesKnown(y) /\ PaymentsKnown(y)
    BY <1>1, <2>1 DEF IInv, Known
  <2> QED BY <2>1, <2>2 DEF InvoicesKnown, PaymentsKnown, C!Exists, Edits
<1>5. Alike(x, x)
  BY DEF Alike
<1>6. ASSUME NEW s \in Requests, NEW t \in Requests PROVE Alike(call[s], call[t])'
  <2>1. PICK y, z : y = call'[s] /\ z = call'[t]
    OBVIOUS
  <2>2. Alike(y, z)
    BY <1>1, <1>5, <2>1 DEF IInv, Known
  <2> QED BY <2>1, <2>2 DEF Alike
<1>7. Known'
  BY <1>4, <1>6 DEF Known
<1>8. EditsTakeNothingBack'
  BY DEF IInv, EditsTakeNothingBack, C!EditsTakeNothingBack, C!Exists, C!PaymentsOf
<1> QED BY <1>2, <1>3, <1>7, <1>8 DEF IInv

(* One that holds nothing then *)
LEMMA LetsGo ==
  ASSUME Countable, IInv,
         NEW r \in Requests, NEW x, C!Goes(r, x), ~Edits(x),
         x.at = "found" => x.client \in ClientIDs,
         cli' \in [ClientIDs -> BOOLEAN],
         UNCHANGED <<invoice, paidBy, spent, deletion>>
  PROVE  IInv'
<1>1. Typed(x) /\ InvoicesKnown(x) /\ PaymentsKnown(x)
  BY DEF Typed, InvoicesKnown, PaymentsKnown, Edits
<1>2. \A s \in Requests : Alike(x, call[s]) /\ Alike(call[s], x)
  BY DEF Alike, Edits
<1> QED BY <1>1, <1>2, Takes

LEMMA FindClientStep ==
  ASSUME Countable, IInv, NEW r \in Requests, C!FindClient(r) PROVE IInv'
<1>1. PICK c \in ClientIDs : /\ C!Goes(r, [at |-> "found", client |-> c])
                             /\ UNCHANGED <<cli, invoice, paidBy, spent, deletion>>
  BY DEF C!FindClient
<1>2. cli' \in [ClientIDs -> BOOLEAN]
  BY <1>1 DEF IInv, TypeOK
<1>3. ~Edits([at |-> "found", client |-> c])
  BY DEF Edits
<1> QED BY <1>1, <1>2, <1>3, LetsGo

LEMMA DeleteClientStep ==
  ASSUME Countable, IInv, NEW r \in Requests, NEW tenant, NEW id, C!DeleteClient(r, tenant, id) PROVE IInv'
<1>x. PICK x : x = [at |-> "counted", tenant |-> tenant, id |-> id]
  OBVIOUS
<1>1. C!Goes(r, x) /\ UNCHANGED <<cli, invoice, paidBy, spent, deletion>>
  BY <1>x DEF C!DeleteClient
<1>2. cli' \in [ClientIDs -> BOOLEAN]
  BY <1>1 DEF IInv, TypeOK
<1>3. ~Edits(x) /\ x.at # "found"
  BY <1>x DEF Edits
<1> QED BY <1>1, <1>2, <1>3, LetsGo

LEMMA DeleteStep ==
  ASSUME Countable, IInv, NEW r \in Requests, C!Delete(r) PROVE IInv'
<1>0. C!Goes(r, C!Idle) \/ C!Goes(r, [at |-> "not found"])
  BY DEF C!Delete
<1>1. PICK x : C!Goes(r, x) /\ (x = C!Idle \/ x = [at |-> "not found"])
  <2>1. CASE C!Goes(r, C!Idle)
    BY <2>1
  <2>2. CASE C!Goes(r, [at |-> "not found"])
    BY <2>2
  <2> QED BY <1>0, <2>1, <2>2
<1>2. cli' \in [ClientIDs -> BOOLEAN]
  BY DEF IInv, TypeOK, C!Delete, C!Found
<1>3. ~Edits(x) /\ x.at # "found"
  <2>1. C!Idle.at = "idle" /\ [at |-> "not found"].at = "not found"
    BY DEF C!Idle
  <2>2. x.at = "idle" \/ x.at = "not found"
    BY <1>1, <2>1
  <2> QED BY <2>2 DEF Edits
<1>4. UNCHANGED <<invoice, paidBy, spent, deletion>>
  BY DEF C!Delete
<1> QED BY <1>1, <1>2, <1>3, <1>4, LetsGo

LEMMA AnswersStep ==
  ASSUME Countable, IInv, NEW r \in Requests, C!Answers(r) PROVE IInv'
<1>1. C!Goes(r, C!Idle) /\ UNCHANGED <<cli, invoice, paidBy, spent, deletion>>
  BY DEF C!Answers
<1>2. cli' \in [ClientIDs -> BOOLEAN]
  BY <1>1 DEF IInv, TypeOK
<1>3. ~Edits(C!Idle) /\ C!Idle.at # "found"
  BY DEF Edits, C!Idle
<1> QED BY <1>1, <1>2, <1>3, LetsGo

(* The client is read with the invoices it has at that moment *)
LEMMA UpdateClientStep ==
  ASSUME Countable, IInv, NEW r \in Requests, NEW tenant, NEW id, C!UpdateClient(r, tenant, id) PROVE IInv'
<1>0. UNCHANGED <<cli, invoice, paidBy, spent, deletion>>
  BY DEF C!UpdateClient
<1>1. cli' \in [ClientIDs -> BOOLEAN]
  BY <1>0 DEF IInv, TypeOK
<1>2. CASE ~C!Found(tenant, id)
  <2>1. C!Goes(r, [at |-> "not found"])
    BY <1>2 DEF C!UpdateClient
  <2>2. ~Edits([at |-> "not found"])
    BY DEF Edits
  <2> QED BY <1>0, <1>1, <2>1, <2>2, LetsGo
<1>3. CASE C!Found(tenant, id)
  <2>x. PICK x : x = [at |-> "holds client", client |-> id,
                      invoices |-> [i \in C!InvoicesOf(id) |-> invoice[i]]]
    OBVIOUS
  <2>1. C!Goes(r, x) /\ id \in ClientIDs
    BY <1>3, <2>x DEF C!UpdateClient, C!Found
  <2>2. \A i \in C!InvoicesOf(id) : i \in Bills /\ C!Exists(i) /\ invoice[i] \in Row
    BY DEF C!InvoicesOf, C!Exists, IInv, TypeOK
  <2>3. Typed(x)
    BY <2>x, <2>1, <2>2 DEF Typed, Edits
  <2>4. InvoicesKnown(x)
    BY <2>x, <2>2 DEF InvoicesKnown, IInv, Fresh, EditsTakeNothingBack, C!EditsTakeNothingBack
  <2>5. x.at # "holds all"
    BY <2>x
  <2>6. PaymentsKnown(x) /\ \A s \in Requests : Alike(x, call[s]) /\ Alike(call[s], x)
    BY <2>5 DEF PaymentsKnown, Alike
  <2> QED BY <1>0, <1>1, <2>1, <2>3, <2>4, <2>6, Takes
<1> QED BY <1>2, <1>3

(* The payments that are there are for the invoice that any other request  *)
(* that holds them has them for                                            *)
LEMMA ReadPaymentsStep ==
  ASSUME Countable, IInv, NEW r \in Requests, C!ReadPayments(r) PROVE IInv'
<1>x. PICK x : x = [at |-> "holds all", client |-> call[r].client, invoices |-> call[r].invoices,
                    payments |-> [p \in C!PaymentsOf(DOMAIN call[r].invoices) |-> paidBy[p]]]
  OBVIOUS
<1>1. /\ C!At(r, "holds client")
      /\ C!Goes(r, x)
      /\ UNCHANGED <<cli, invoice, paidBy, spent, deletion>>
  BY <1>x DEF C!ReadPayments
<1>2. cli' \in [ClientIDs -> BOOLEAN]
  BY <1>1 DEF IInv, TypeOK
<1>3. Typed(call[r]) /\ InvoicesKnown(call[r]) /\ Edits(call[r]) /\ call[r].at = "holds client"
  BY <1>1 DEF IInv, TypeOK, Known, C!At, Edits
<1>4. /\ x.at = "holds all"
      /\ x.client = call[r].client
      /\ x.invoices = call[r].invoices
      /\ DOMAIN x.payments = C!PaymentsOf(DOMAIN call[r].invoices)
      /\ \A p \in DOMAIN x.payments : x.payments[p] = paidBy[p]
  BY <1>x
<1>5. \A p \in DOMAIN x.payments : p \in Receipts /\ paidBy[p] \in DOMAIN call[r].invoices
  BY <1>4 DEF C!PaymentsOf
<1>6. Edits(x)
  BY <1>4 DEF Edits
<1>7. Typed(x)
  BY <1>3, <1>4, <1>5, <1>6 DEF Typed
<1>8. InvoicesKnown(x)
  BY <1>3, <1>4, <1>6 DEF InvoicesKnown
<1>9. \A p \in DOMAIN x.payments : p \in spent /\ paidBy[p] # NoRow
  BY <1>3, <1>5 DEF Typed, IInv, Fresh, Countable
<1>10. PaymentsKnown(x)
  BY <1>4, <1>9 DEF PaymentsKnown
<1>11. ASSUME NEW s \in Requests PROVE Alike(x, call[s]) /\ Alike(call[s], x)
  BY <1>4, <1>9 DEF IInv, Known, PaymentsKnown, Alike
<1> QED BY <1>1, <1>2, <1>7, <1>8, <1>10, <1>11, Takes
-----------------------------------------------------------------------------
(* A step that leaves the requests leaves what holds by their types, and    *)
(* what they hold alike.                                                    *)
LEMMA RequestsStay ==
  ASSUME IInv, UNCHANGED call
  PROVE  /\ DOMAIN call' = Requests
         /\ \A r \in Requests : Typed(call[r])'
         /\ \A r, s \in Requests : Alike(call[r], call[s])'
<1>1. DOMAIN call' = Requests
  BY DEF IInv, TypeOK
<1>2. ASSUME NEW r \in Requests PROVE Typed(call[r])'
  BY DEF IInv, TypeOK, Typed, Edits
<1>3. ASSUME NEW r \in Requests, NEW s \in Requests PROVE Alike(call[r], call[s])'
  BY DEF IInv, Known, Alike
<1> QED BY <1>1, <1>2, <1>3

LEMMA CreateClientStep ==
  ASSUME Countable, IInv, NEW c \in ClientIDs, C!CreateClient(c) PROVE IInv'
<1> USE DEF C!CreateClient
<1>1. TypeOK'
  BY RequestsStay DEF IInv, TypeOK
<1>2. Fresh'
  BY DEF IInv, Fresh, C!Exists
<1>3. ASSUME NEW r \in Requests PROVE (InvoicesKnown(call[r]) /\ PaymentsKnown(call[r]))'
  BY DEF IInv, Known, InvoicesKnown, PaymentsKnown, C!Exists, Edits
<1>4. Known'
  BY <1>3, RequestsStay DEF Known
<1>5. EditsTakeNothingBack'
  BY DEF IInv, EditsTakeNothingBack, C!EditsTakeNothingBack, C!Exists, C!PaymentsOf
<1> QED BY <1>1, <1>2, <1>4, <1>5 DEF IInv

LEMMA MarkOverdueStep ==
  ASSUME Countable, IInv, NEW i \in Bills, C!MarkOverdue(i) PROVE IInv'
<1>1. /\ invoice[i] \in Row
      /\ invoice' \in [Bills -> Row \cup {NoRow}]
      /\ invoice'[i] # NoRow
      /\ invoice'[i].paid = invoice[i].paid
      /\ \A j \in Bills : j # i => invoice'[j] = invoice[j]
      /\ UNCHANGED <<cli, paidBy, call, spent, deletion>>
  BY DEF C!MarkOverdue, C!Exists, IInv, TypeOK, Row, Countable
<1>2. \A j \in Bills : C!Exists(j)' <=> C!Exists(j)
  BY <1>1 DEF C!Exists, Countable
<1>3. TypeOK'
  BY <1>1, RequestsStay DEF IInv, TypeOK
<1>4. Fresh'
  BY <1>1, <1>2 DEF IInv, Fresh
<1>5. ASSUME NEW r \in Requests PROVE (InvoicesKnown(call[r]) /\ PaymentsKnown(call[r]))'
  BY <1>1, <1>2 DEF IInv, TypeOK, Known, InvoicesKnown, PaymentsKnown, Edits, Typed
<1>6. Known'
  BY <1>1, <1>5, RequestsStay DEF Known
<1>7. EditsTakeNothingBack'
  BY <1>1, <1>2 DEF IInv, EditsTakeNothingBack, C!EditsTakeNothingBack, C!PaymentsOf
<1> QED BY <1>3, <1>4, <1>6, <1>7 DEF IInv

(* The invoice is new, so it is held by nobody and has no payments *)
LEMMA CreateInvoiceStep ==
  ASSUME Countable, IInv, NEW r \in Requests, NEW i \in Bills, C!CreateInvoice(r, i) PROVE IInv'
<1>1. /\ C!Goes(r, C!Idle)
      /\ i \notin spent
      /\ spent' = spent \cup {i}
      /\ UNCHANGED <<cli, paidBy, deletion>>
  BY DEF C!CreateInvoice
<1>2. PICK row : row = [client |-> call[r].client, status |-> "sent", paid |-> 0]
  OBVIOUS
<1>3. /\ row \in Row
      /\ row # NoRow
      /\ row.paid = 0
  <2>1. call[r].client \in ClientIDs
    BY DEF C!CreateInvoice, C!At, IInv, TypeOK, Typed
  <2>2. row \in Row /\ row.paid = 0
    BY <1>2, <2>1 DEF Row
  <2> QED BY <2>2 DEF Countable
<1>4. invoice' = invoice \/ invoice' = [invoice EXCEPT ![i] = row]
  BY <1>2 DEF C!CreateInvoice
<1>5. /\ \A j \in Bills : j # i => invoice'[j] = invoice[j]
      /\ invoice'[i] \in {invoice[i], row}
      /\ invoice' \in [Bills -> Row \cup {NoRow}]
  BY <1>3, <1>4 DEF IInv, TypeOK
<1>6. \A j \in Bills : C!Exists(j) => C!Exists(j)'
  BY <1>3, <1>5 DEF C!Exists
<1>7. /\ DOMAIN call' = Requests
      /\ call'[r] = C!Idle
      /\ \A s \in Requests : s # r => call'[s] = call[s]
  BY <1>1 DEF IInv, TypeOK, C!Goes
<1>8. PICK x : x = C!Idle
  OBVIOUS
<1>9. x.at = "idle"
  BY <1>8 DEF C!Idle
<1>10. \A s \in Requests : call'[s] = x \/ call'[s] = call[s]
  BY <1>7, <1>8
<1>11. TypeOK'
  <2>1. ASSUME NEW s \in Requests PROVE Typed(call[s])'
    <3>1. PICK y : y = call'[s]
      OBVIOUS
    <3>2. Typed(y)
      BY <1>9, <1>10, <3>1 DEF IInv, TypeOK, Typed, Edits
    <3> QED BY <3>1, <3>2 DEF Typed, Edits
  <2> QED BY <1>1, <1>5, <1>7, <2>1 DEF IInv, TypeOK
<1>12. Fresh'
  BY <1>1, <1>5 DEF IInv, Fresh, C!Exists
<1>13. ASSUME NEW s \in Requests PROVE (InvoicesKnown(call[s]) /\ PaymentsKnown(call[s]))'
  <2>1. PICK y : y = call'[s]
    OBVIOUS
  <2>2. Typed(y) /\ InvoicesKnown(y) /\ PaymentsKnown(y)
    <3>1. CASE y = x
      BY <1>9, <3>1 DEF Typed, InvoicesKnown, PaymentsKnown, Edits
    <3>2. CASE y = call[s]
      BY <3>2 DEF IInv, TypeOK, Known
    <3> QED BY <1>10, <2>1, <3>1, <3>2
  <2>3. InvoicesKnown(y)'
    BY <1>1, <1>6, <2>2 DEF InvoicesKnown, Typed, Edits
  <2>4. PaymentsKnown(y)'
    BY <1>1, <2>2 DEF PaymentsKnown
  <2> QED BY <2>1, <2>3, <2>4 DEF InvoicesKnown, PaymentsKnown, Edits
<1>14. ASSUME NEW s \in Requests, NEW t \in Requests PROVE Alike(call[s], call[t])'
  <2>1. PICK y, z : y = call'[s] /\ z = call'[t]
    OBVIOUS
  <2>2. Alike(y, z)
    <3>1. \A u : Alike(x, u) /\ Alike(u, x)
      BY <1>9 DEF Alike
    <3> QED BY <1>10, <2>1, <3>1 DEF IInv, Known
  <2> QED BY <2>1, <2>2 DEF Alike
<1>15. C!PaymentsOf({i}) = {} /\ C!PaymentsOf({i})' = {}
  BY <1>1 DEF IInv, Fresh, C!PaymentsOf
<1>16. Cardinality({}) = 0
  BY FS_EmptySet
<1>17. EditsTakeNothingBack'
  <2>1. ASSUME NEW j \in Bills, j # i, C!Exists(j)'
        PROVE  /\ deletion'[j] = "none" => invoice'[j].paid = Cardinality(C!PaymentsOf({j})')
               /\ deletion'[j] # "done"
    BY <1>1, <1>5, <2>1, CountsAlike DEF IInv, EditsTakeNothingBack, C!EditsTakeNothingBack, C!Exists, C!PaymentsOf
  <2>2. ~C!Exists(i) /\ deletion[i] = "none"
    BY <1>1 DEF IInv, Fresh
  <2>3. ASSUME C!Exists(i)'
        PROVE  invoice'[i].paid = Cardinality(C!PaymentsOf({i})') /\ deletion'[i] # "done"
    BY <1>1, <1>3, <1>5, <1>15, <1>16, <2>2, <2>3 DEF C!Exists
  <2> QED BY <2>1, <2>3, CountsAlike DEF EditsTakeNothingBack, C!EditsTakeNothingBack
<1> QED BY <1>11, <1>12, <1>13, <1>14, <1>17 DEF IInv, Known

(* The payment is new, so nobody holds it, and it is counted once more *)
LEMMA RecordPaymentStep ==
  ASSUME Countable, IInv, NEW i \in Bills, NEW p \in Receipts, C!RecordPayment(i, p) PROVE IInv'
<1>1. /\ C!Exists(i)
      /\ p \notin spent
      /\ spent' = spent \cup {p}
      /\ UNCHANGED <<cli, call, deletion>>
  BY DEF C!RecordPayment
<1>2. invoice[i] \in Row
  BY <1>1 DEF IInv, TypeOK, C!Exists
<1>3. /\ invoice' \in [Bills -> Row \cup {NoRow}]
      /\ invoice'[i].paid = invoice[i].paid + 1
      /\ invoice'[i] \in Row
      /\ \A j \in Bills : j # i => invoice'[j] = invoice[j]
  <2>1. PICK more : more = [invoice[i] EXCEPT !.paid = @ + 1]
    OBVIOUS
  <2>2. PICK row : row = [more EXCEPT !.status = "partially_paid"]
    OBVIOUS
  <2>3. more \in Row /\ more.paid = invoice[i].paid + 1
    BY <1>2, <2>1 DEF Row
  <2>4. row \in Row /\ row.paid = more.paid
    BY <2>2, <2>3 DEF Row
  <2>5. /\ DOMAIN invoice' = Bills
        /\ invoice'[i] = row
        /\ \A j \in Bills : j # i => invoice'[j] = invoice[j]
    BY <2>1, <2>2 DEF C!RecordPayment, IInv, TypeOK
  <2>6. invoice' = [j \in Bills |-> invoice'[j]]
    BY DEF C!RecordPayment, IInv, TypeOK
  <2> QED BY <2>3, <2>4, <2>5, <2>6 DEF IInv, TypeOK
<1>4. \A j \in Bills : C!Exists(j)' <=> C!Exists(j)
  BY <1>1, <1>3 DEF C!Exists, Countable
<1>5. /\ paidBy' \in [Receipts -> Bills \cup {NoRow}]
      /\ paidBy'[p] = i
      /\ \A q \in Receipts : q # p => paidBy'[q] = paidBy[q]
      /\ paidBy[p] = NoRow
  BY <1>1 DEF C!RecordPayment, IInv, TypeOK, Fresh
<1>6. i \in spent
  BY <1>1 DEF IInv, Fresh
<1>7. TypeOK'
  BY <1>1, <1>3, <1>5, RequestsStay DEF IInv, TypeOK
<1>8. Fresh'
  BY <1>1, <1>4, <1>5, <1>6 DEF IInv, Fresh
<1>9. ASSUME NEW s \in Requests PROVE (InvoicesKnown(call[s]) /\ PaymentsKnown(call[s]))'
  <2>1. PICK y : y = call[s]
    OBVIOUS
  <2>2. Typed(y) /\ InvoicesKnown(y) /\ PaymentsKnown(y)
    BY <2>1 DEF IInv, TypeOK, Known
  <2>3. InvoicesKnown(y)'
    BY <1>1, <1>4, <2>2 DEF InvoicesKnown, Typed, Edits
  <2>4. PaymentsKnown(y)'
    BY <1>1, <1>5, <2>2 DEF PaymentsKnown, Typed, Edits
  <2> QED BY <1>1, <2>1, <2>3, <2>4 DEF InvoicesKnown, PaymentsKnown, Edits
<1>10. Known'
  BY <1>1, <1>9, RequestsStay DEF Known
<1>11. \A j \in Bills : j # i => C!PaymentsOf({j})' = C!PaymentsOf({j})
  BY <1>5 DEF C!PaymentsOf, Countable
<1>12. Cardinality(C!PaymentsOf({i})') = Cardinality(C!PaymentsOf({i})) + 1
  <2>1. C!PaymentsOf({i})' = C!PaymentsOf({i}) \cup {p} /\ p \notin C!PaymentsOf({i})
    BY <1>5 DEF C!PaymentsOf, Countable
  <2>2. IsFiniteSet(C!PaymentsOf({i}))
    BY FS_Subset DEF C!PaymentsOf, Countable
  <2> QED BY <2>1, <2>2, FS_AddElement
<1>13. EditsTakeNothingBack'
  BY <1>1, <1>3, <1>4, <1>11, <1>12, CountsAlike DEF IInv, EditsTakeNothingBack, C!EditsTakeNothingBack
<1> QED BY <1>7, <1>8, <1>10, <1>13 DEF IInv

(* The deletion is noted, so that nothing more is said of what is paid     *)
LEMMA DeleteInvoiceStep ==
  ASSUME Countable, IInv, NEW i \in Bills, C!DeleteInvoice(i) PROVE IInv'
<1>1. /\ C!Exists(i)
      /\ i \in spent
      /\ UNCHANGED <<cli, call, spent>>
  BY DEF C!DeleteInvoice, IInv, Fresh
<1>2. /\ paidBy' \in [Receipts -> Bills \cup {NoRow}]
      /\ \A p \in Receipts : paidBy'[p] = IF paidBy[p] = i THEN NoRow ELSE paidBy[p]
  BY DEF C!DeleteInvoice, IInv, TypeOK
<1>3. /\ invoice' \in [Bills -> Row \cup {NoRow}]
      /\ invoice'[i] \in {invoice[i], NoRow}
      /\ \A j \in Bills : j # i => invoice'[j] = invoice[j]
  BY DEF C!DeleteInvoice, IInv, TypeOK
<1>4. /\ deletion' \in [Bills -> {"none", "refused", "held", "done"}]
      /\ deletion'[i] # "none"
      /\ C!Holding(i) => deletion'[i] # "done"
      /\ deletion'[i] = "done" => invoice'[i] = NoRow
      /\ \A j \in Bills : j # i => deletion'[j] = deletion[j]
  BY DEF C!DeleteInvoice, IInv, TypeOK
<1>5. TypeOK'
  BY <1>1, <1>2, <1>3, <1>4, RequestsStay DEF IInv, TypeOK
<1>6. Fresh'
  BY <1>1, <1>2, <1>3, <1>4 DEF IInv, Fresh, C!Exists, Countable
<1>7. ASSUME NEW r \in Requests PROVE (InvoicesKnown(call[r]) /\ PaymentsKnown(call[r]))'
  <2>1. PICK y : y = call[r]
    OBVIOUS
  <2>2. Typed(y) /\ InvoicesKnown(y) /\ PaymentsKnown(y)
    BY <2>1 DEF IInv, TypeOK, Known
  <2>3. Edits(y) /\ i \in DOMAIN y.invoices => C!Holding(i)
    BY <2>1 DEF Edits, C!Holding, C!Holds, C!At
  <2>4. InvoicesKnown(y)'
    BY <1>1, <1>3, <1>4, <2>2, <2>3 DEF InvoicesKnown, Typed, Edits, C!Exists
  <2>5. PaymentsKnown(y)'
    BY <1>1, <1>2, <1>4, <2>2 DEF PaymentsKnown, Typed, Edits
  <2> QED BY <1>1, <2>1, <2>4, <2>5 DEF InvoicesKnown, PaymentsKnown, Edits
<1>8. Known'
  BY <1>1, <1>7, RequestsStay DEF Known
<1>9. \A j \in Bills : j # i => C!PaymentsOf({j})' = C!PaymentsOf({j})
  BY <1>2 DEF C!PaymentsOf, Countable
<1>10. EditsTakeNothingBack'
  BY <1>3, <1>4, <1>9 DEF IInv, EditsTakeNothingBack, C!EditsTakeNothingBack, C!Exists
<1> QED BY <1>5, <1>6, <1>8, <1>10 DEF IInv

(* What is stored again was deleted, or is there as it is stored           *)
LEMMA SaveStep ==
  ASSUME Countable, IInv, NEW r \in Requests, C!Save(r) PROVE IInv'
<1>1. /\ C!At(r, "holds all")
      /\ C!Goes(r, C!Idle)
      /\ cli' = [cli EXCEPT ![call[r].client] = TRUE]
      /\ UNCHANGED <<spent, deletion>>
  BY DEF C!Save
<1>2. PICK x : x = call[r]
  OBVIOUS
<1>3. x.at = "holds all" /\ Edits(x) /\ Typed(x) /\ InvoicesKnown(x) /\ PaymentsKnown(x)
  BY <1>1, <1>2 DEF C!At, Edits, IInv, TypeOK, Known
<1>4. /\ x.client \in ClientIDs
      /\ DOMAIN x.invoices \subseteq Bills
      /\ \A i \in DOMAIN x.invoices : x.invoices[i] \in Row
      /\ DOMAIN x.payments \subseteq Receipts
      /\ \A p \in DOMAIN x.payments : x.payments[p] \in DOMAIN x.invoices
  BY <1>3 DEF Typed
<1>5. /\ invoice' = [i \in Bills |-> IF i \in DOMAIN x.invoices /\ ~C!Exists(i)
                                        THEN x.invoices[i] ELSE invoice[i]]
      /\ paidBy' = [p \in Receipts |-> IF p \in DOMAIN x.payments THEN x.payments[p] ELSE paidBy[p]]
  BY <1>2 DEF C!Save
<1>6. cli' \in [ClientIDs -> BOOLEAN]
  BY <1>1, <1>2, <1>4 DEF IInv, TypeOK
<1>7. /\ invoice' \in [Bills -> Row \cup {NoRow}]
      /\ \A i \in Bills : C!Exists(i) => invoice'[i] = invoice[i]
      /\ \A i \in Bills : C!Exists(i)' /\ ~C!Exists(i) => i \in DOMAIN x.invoices
  BY <1>4, <1>5 DEF IInv, TypeOK, C!Exists
<1>8. /\ paidBy' \in [Receipts -> Bills \cup {NoRow}]
      /\ \A p \in Receipts \ DOMAIN x.payments : paidBy'[p] = paidBy[p]
      /\ \A p \in DOMAIN x.payments : paidBy'[p] = x.payments[p]
  BY <1>4, <1>5 DEF IInv, TypeOK
<1>9. /\ \A i \in DOMAIN x.invoices :
           /\ i \in spent
           /\ deletion[i] # "done"
           /\ deletion[i] = "none" => C!Exists(i)
      /\ \A p \in DOMAIN x.payments :
           /\ p \in spent
           /\ paidBy[p] \in {x.payments[p], NoRow}
           /\ deletion[x.payments[p]] = "none" => paidBy[p] = x.payments[p]
  BY <1>3 DEF InvoicesKnown, PaymentsKnown
<1>10. /\ DOMAIN call' = Requests
       /\ call'[r] = C!Idle
       /\ \A s \in Requests : s # r => call'[s] = call[s]
  BY <1>1 DEF IInv, TypeOK, C!Goes
<1>11. PICK z : z = C!Idle
  OBVIOUS
<1>12. z.at = "idle"
  BY <1>11 DEF C!Idle
<1>13. \A s \in Requests : call'[s] = z \/ call'[s] = call[s]
  BY <1>10, <1>11
<1>14. ASSUME NEW s \in Requests
       PROVE  (Typed(call[s]) /\ InvoicesKnown(call[s]) /\ PaymentsKnown(call[s]))'
  <2>1. PICK y : y = call'[s]
    OBVIOUS
  <2>2. Typed(y) /\ InvoicesKnown(y) /\ PaymentsKnown(y) /\ Alike(x, y)
    <3>1. CASE y = z
      BY <1>12, <3>1 DEF Typed, InvoicesKnown, PaymentsKnown, Edits, Alike
    <3>2. CASE y = call[s]
      BY <1>2, <3>2 DEF IInv, TypeOK, Known
    <3> QED BY <1>13, <2>1, <3>1, <3>2
  <2>3. InvoicesKnown(y)'
    BY <1>1, <1>7, <2>2 DEF InvoicesKnown, Typed, Edits, C!Exists
  <2>4. PaymentsKnown(y)'
    BY <1>1, <1>3, <1>4, <1>8, <1>9, <2>2 DEF PaymentsKnown, Alike, Typed, Edits
  <2> QED BY <2>1, <2>2, <2>3, <2>4 DEF Typed, InvoicesKnown, PaymentsKnown, Edits
<1>15. ASSUME NEW s \in Requests, NEW t \in Requests PROVE Alike(call[s], call[t])'
  <2>1. PICK y, w : y = call'[s] /\ w = call'[t]
    OBVIOUS
  <2>2. Alike(y, w)
    <3>1. \A u : Alike(z, u) /\ Alike(u, z)
      BY <1>12 DEF Alike
    <3> QED BY <1>13, <2>1, <3>1 DEF IInv, Known
  <2> QED BY <2>1, <2>2 DEF Alike
<1>16. TypeOK'
  BY <1>1, <1>6, <1>7, <1>8, <1>10, <1>14 DEF IInv, TypeOK
<1>17. Fresh'
  <2>1. ASSUME NEW i \in Bills, i \notin spent
        PROVE  ~C!Exists(i)' /\ deletion[i] = "none" /\ \A p \in Receipts : paidBy'[p] # i
    <3>1. ~C!Exists(i) /\ deletion[i] = "none" /\ \A p \in Receipts : paidBy[p] # i
      BY <2>1 DEF IInv, Fresh
    <3>2. i \notin DOMAIN x.invoices
      BY <1>9, <2>1
    <3> QED BY <1>4, <1>7, <1>8, <3>1, <3>2
  <2>2. ASSUME NEW p \in Receipts, p \notin spent PROVE paidBy'[p] = NoRow
    BY <1>8, <1>9, <2>2 DEF IInv, Fresh
  <2> QED BY <1>1, <2>1, <2>2 DEF Fresh
<1>18. ASSUME NEW i \in Bills, deletion[i] = "none"
       PROVE  C!PaymentsOf({i})' = C!PaymentsOf({i})
  BY <1>4, <1>8, <1>9, <1>18 DEF C!PaymentsOf, Countable
<1>19. EditsTakeNothingBack'
  BY <1>1, <1>7, <1>9, <1>18 DEF IInv, EditsTakeNothingBack, C!EditsTakeNothingBack
<1> QED BY <1>14, <1>15, <1>16, <1>17, <1>19 DEF IInv, Known

-----------------------------------------------------------------------------
(* Every step *)
LEMMA NextIsSound == ASSUME Countable, IInv, [C!Next]_clients PROVE IInv'
<1>1. ASSUME NEW c \in ClientIDs, C!CreateClient(c) PROVE IInv'
  BY <1>1, CreateClientStep
<1>2. ASSUME NEW i \in Bills, C!MarkOverdue(i) PROVE IInv'
  BY <1>2, MarkOverdueStep
<1>3. ASSUME NEW i \in Bills, C!DeleteInvoice(i) PROVE IInv'
  BY <1>3, DeleteInvoiceStep
<1>4. ASSUME NEW i \in Bills, NEW p \in Receipts, C!RecordPayment(i, p) PROVE IInv'
  BY <1>4, RecordPaymentStep
<1>5. ASSUME NEW r \in Requests, NEW i \in Bills, C!CreateInvoice(r, i) PROVE IInv'
  BY <1>5, CreateInvoiceStep
<1>6. ASSUME NEW r \in Requests, C!FindClient(r) PROVE IInv'
  BY <1>6, FindClientStep
<1>7. ASSUME NEW r \in Requests, C!HandleUpdate(r) \/ C!SetBuyerType(r) PROVE IInv'
  BY <1>7, UpdateClientStep DEF C!HandleUpdate, C!SetBuyerType
<1>8. ASSUME NEW r \in Requests, C!HandleDelete(r) PROVE IInv'
  BY <1>8, DeleteClientStep DEF C!HandleDelete
<1>9. ASSUME NEW r \in Requests, C!ReadPayments(r) PROVE IInv'
  BY <1>9, ReadPaymentsStep
<1>10. ASSUME NEW r \in Requests, C!Save(r) PROVE IInv'
  BY <1>10, SaveStep
<1>11. ASSUME NEW r \in Requests, C!Delete(r) PROVE IInv'
  BY <1>11, DeleteStep
<1>12. ASSUME NEW r \in Requests, C!Answers(r) PROVE IInv'
  BY <1>12, AnswersStep
<1>13. CASE UNCHANGED clients
  <2>1. UNCHANGED <<cli, invoice, paidBy, call, spent, deletion>>
    BY <1>13 DEF clients
  <2>2. TypeOK'
    BY <2>1, RequestsStay DEF IInv, TypeOK
  <2>3. Fresh'
    BY <2>1 DEF IInv, Fresh, C!Exists
  <2>4. Known'
    BY <2>1, RequestsStay DEF IInv, Known, InvoicesKnown, PaymentsKnown, C!Exists, Edits
  <2>5. EditsTakeNothingBack'
    BY <2>1 DEF IInv, EditsTakeNothingBack, C!EditsTakeNothingBack, C!Exists, C!PaymentsOf
  <2> QED BY <2>2, <2>3, <2>4, <2>5 DEF IInv
<1> QED
  BY <1>1, <1>2, <1>3, <1>4, <1>5, <1>6, <1>7, <1>8, <1>9, <1>10, <1>11, <1>12, <1>13 DEF C!Next

(* Steps of the other parts do not touch the clients *)
LEMMA StepsOfBooks == ASSUME BooksNext PROVE [C!Next]_clients
BY DEF BooksNext, BooksStep, ExpensesStep, ClientsStep

(* An edit of a client takes no money back, and an invoice that was deleted *)
(* is only there because an edit held it then: whatever is created, paid,   *)
(* marked, edited and deleted between an edit's reads and its save, over    *)
(* either database.                                                        *)
THEOREM NothingIsTakenBack == BooksSpec => []EditsTakeNothingBack
<1>0. Countable
  BY ReceiptsAssumption, NoRowAssumption DEF Countable, Row
<1>1. BooksInit => IInv
  BY <1>0, InitIsSound DEF BooksInit
<1>2. IInv /\ [BooksNext]_<<part, vars, expenses, clients>> => IInv'
  <2>1. ASSUME [BooksNext]_<<part, vars, expenses, clients>> PROVE [C!Next]_clients
    BY <2>1, StepsOfBooks
  <2> QED BY <1>0, <2>1, NextIsSound
<1>3. IInv => EditsTakeNothingBack
  BY DEF IInv
<1> QED BY <1>1, <1>2, <1>3, PTL DEF BooksSpec
=============================================================================
