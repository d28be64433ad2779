------------------------- MODULE Transcript_proofs -------------------------
(***************************************************************************)
(* For any texts, whatever their words, times and pauses: the segments of  *)
(* a result and of a payload hold every word once and in the order said,   *)
(* and their times do not run backwards by more than a millisecond; and    *)
(* redaction only ever hides, each piece whole or down to what is allowed. *)
(*                                                                         *)
(* The segments are made by folds, and their times are sums.  What a fold  *)
(* makes is shown by induction over the sets it goes through, as sets of   *)
(* sets: the library's theorems about formulas cannot be instantiated.     *)
(***************************************************************************)
EXTENDS Transcript, FiniteSetTheorems, SequenceTheorems, TLAPS

-----------------------------------------------------------------------------
(* Recursion over the subsets of a finite set *)

LEMMA Minimal ==
    ASSUME NEW D, IsFiniteSet(D), NEW F, F \subseteq SUBSET D, F # {}
    PROVE  \E m \in F : \A k \in F : k \subseteq m => k = m
<1>1. F \subseteq FiniteSubsetsOf(D)
  BY FS_FiniteSubsetsOfFinite
<1>2. PICK m \in F : \A k \in F : <<k, m>> \notin StrictSubsetOrdering(D)
  BY <1>1, FS_StrictSubsetOrderingWellFounded, WFMin
<1>3. QED
  BY <1>2 DEF StrictSubsetOrdering

\* Induction over a set, where a formula would be an operator's argument.
LEMMA NatSetInduction ==
    ASSUME NEW T, 0 \in T, \A n \in Nat : n \in T => n + 1 \in T
    PROVE  \A n \in Nat : n \in T
<1> SUFFICES ASSUME NEW n \in Nat, n \notin T
             PROVE  FALSE
  OBVIOUS
<1> DEFINE left == {k \in 0..n : k \notin T}
           initials == {0..k : k \in left}
<1>1. initials \subseteq SUBSET (0..n) /\ initials # {}
  OBVIOUS
<1>2. PICK m \in initials : \A s \in initials : s \subseteq m => s = m
  <2> DEFINE D == 0..n
  <2>1. IsFiniteSet(D) /\ initials \subseteq SUBSET D /\ initials # {}
    BY <1>1, FS_Interval
  <2> HIDE DEF initials, D
  <2>2. QED
    BY <2>1, Minimal
<1>3. PICK k \in left : m = 0..k
  BY <1>2
<1>4. k \in Nat /\ k # 0 /\ k \notin T
  <2>1. k \in left
    BY <1>3
  <2>2. QED
    BY <2>1
<1>5. k - 1 \in left
  BY <1>4
<1>6. 0..(k - 1) \in initials
  BY <1>5
<1>7. k \in 0..k /\ k \notin 0..(k - 1) /\ 0..(k - 1) \subseteq 0..k
  BY <1>4
<1>8. QED
  BY <1>2, <1>3, <1>6, <1>7

\* One step of a fold: the element that pick takes out of s goes last.
Folded(g, base, step, pick, s) ==
    IF s = {} THEN base ELSE step[pick[s]][g[s \ {pick[s]}]]

IsFold(g, base, step, pick, D) ==
    \A s \in SUBSET D : g[s] = Folded(g, base, step, pick, s)

Picks(pick, D) == \A s \in SUBSET D : s # {} => pick[s] \in s

\* A fold over a finite set has a result: one that is right for sets of n
\* elements gives one for sets of n + 1.
LEMMA FoldExists ==
    ASSUME NEW D, IsFiniteSet(D), NEW Type, NEW base \in Type,
           NEW step \in [D -> [Type -> Type]], NEW pick,
           Picks(pick, D)
    PROVE  \E g \in [SUBSET D -> Type] : IsFold(g, base, step, pick, D)
<1> DEFINE Upto(g, n) ==
             \A s \in SUBSET D : Cardinality(s) <= n => g[s] = Folded(g, base, step, pick, s)
           reach == {n \in Nat : \E g \in [SUBSET D -> Type] : Upto(g, n)}
<1>1. \A s \in SUBSET D : IsFiniteSet(s) /\ Cardinality(s) \in Nat /\ Cardinality(s) <= Cardinality(D)
  BY FS_Subset, FS_CardinalityType
<1>2. 0 \in reach
  <2> DEFINE g == [s \in SUBSET D |-> base]
  <2>1. \A s \in SUBSET D : Cardinality(s) <= 0 => s = {}
    BY <1>1, FS_EmptySet
  <2>2. Upto(g, 0) /\ g \in [SUBSET D -> Type]
    BY <2>1 DEF Folded
  <2>3. QED
    BY <2>2
<1>3. ASSUME NEW n \in Nat, n \in reach
      PROVE  n + 1 \in reach
  <2>1. PICK g \in [SUBSET D -> Type] : Upto(g, n)
    BY <1>3
  <2> DEFINE h == [s \in SUBSET D |-> Folded(g, base, step, pick, s)]
  <2>2. h \in [SUBSET D -> Type]
    <3>1. ASSUME NEW s \in SUBSET D
          PROVE  Folded(g, base, step, pick, s) \in Type
      <4>1. CASE s = {}
        BY <4>1 DEF Folded
      <4>2. CASE s # {}
        <5>1. pick[s] \in D /\ s \ {pick[s]} \in SUBSET D
          BY <4>2 DEF Picks
        <5>2. QED
          BY <4>2, <5>1, <2>1 DEF Folded
      <4>3. QED
        BY <4>1, <4>2
    <3>2. QED
      BY <3>1
  <2>3. ASSUME NEW s \in SUBSET D, Cardinality(s) <= n + 1
        PROVE  h[s] = Folded(h, base, step, pick, s)
    <3>1. CASE s = {}
      BY <3>1 DEF Folded
    <3>2. CASE s # {}
      <4> DEFINE r == s \ {pick[s]}
      <4>1. pick[s] \in s
        BY <3>2 DEF Picks
      <4>2. r \in SUBSET D /\ Cardinality(r) = Cardinality(s) - 1
        BY <1>1, <4>1, FS_RemoveElement
      <4>3. h[r] = g[r]
        BY <1>1, <2>1, <2>3, <4>2
      <4>4. QED
        BY <3>2, <4>3 DEF Folded
    <3>3. QED
      BY <3>1, <3>2
  <2> HIDE DEF h
  <2>4. QED
    BY <2>2, <2>3
<1> HIDE DEF reach
<1>4. \A n \in Nat : n \in reach
  BY <1>2, <1>3, NatSetInduction
<1>5. Cardinality(D) \in reach
  BY <1>1, <1>4
<1>6. QED
  BY <1>1, <1>5 DEF reach, IsFold

-----------------------------------------------------------------------------
(* Sums *)

Chosen(s) == CHOOSE x \in s : TRUE

\* g gives the sum of w over every subset of D.
IsSum(g, w, D) ==
    g = [s \in SUBSET D |-> IF s = {} THEN 0 ELSE w[Chosen(s)] + g[s \ {Chosen(s)}]]

\* Any term can be taken out of it.
Splits(g, w, D) == \A s \in SUBSET D : \A x \in s : g[s] = w[x] + g[s \ {x}]

LEMMA SumExists ==
    ASSUME NEW D, IsFiniteSet(D), NEW w, \A x \in D : w[x] \in Nat
    PROVE  \E g : IsSum(g, w, D)
<1> DEFINE step == [x \in D |-> [v \in Nat |-> w[x] + v]]
           pick == [s \in SUBSET D |-> Chosen(s)]
<1>1. step \in [D -> [Nat -> Nat]]
  OBVIOUS
<1>2. \A s \in SUBSET D : s # {} => pick[s] \in s /\ pick[s] = Chosen(s)
  BY DEF Chosen
<1>3. PICK g \in [SUBSET D -> Nat] : IsFold(g, 0, step, pick, D)
  <2>1. Picks(pick, D) /\ 0 \in Nat
    BY <1>2 DEF Picks
  <2> HIDE DEF step, pick
  <2>2. QED
    BY <1>1, <2>1, FoldExists
<1>4. ASSUME NEW s \in SUBSET D, s # {}
      PROVE  g[s] = w[Chosen(s)] + g[s \ {Chosen(s)}]
  <2>1. pick[s] = Chosen(s) /\ Chosen(s) \in D /\ s \ {Chosen(s)} \in SUBSET D
    BY <1>2, <1>4
  <2>2. g[s \ {Chosen(s)}] \in Nat
    BY <1>3, <2>1
  <2>3. g[s] = step[Chosen(s)][g[s \ {Chosen(s)}]]
    BY <1>3, <1>4, <2>1 DEF IsFold, Folded
  <2>4. QED
    BY <2>1, <2>2, <2>3
<1>5. g[{}] = 0
  BY <1>3 DEF IsFold, Folded
<1>6. QED
  BY <1>3, <1>4, <1>5 DEF IsSum

LEMMA SumType ==
    ASSUME NEW D, IsFiniteSet(D), NEW w, \A x \in D : w[x] \in Nat, NEW g, IsSum(g, w, D)
    PROVE  g[{}] = 0 /\ \A s \in SUBSET D : g[s] \in Nat
<1> DEFINE bad == {s \in SUBSET D : g[s] \notin Nat}
<1>1. SUFFICES ASSUME bad # {}
               PROVE  FALSE
  BY DEF IsSum
<1>2. PICK s \in bad : \A t \in bad : t \subseteq s => t = s
  <2>1. bad \subseteq SUBSET D
    OBVIOUS
  <2> HIDE DEF bad
  <2>2. QED
    BY <1>1, <2>1, Minimal
<1>3. s \in SUBSET D /\ g[s] \notin Nat
  BY <1>2
<1>4. CASE s = {}
  BY <1>3, <1>4 DEF IsSum
<1>5. CASE s # {}
  <2>1. Chosen(s) \in s
    BY <1>5 DEF Chosen
  <2>2. g[s \ {Chosen(s)}] \in Nat /\ w[Chosen(s)] \in Nat
    BY <1>2, <1>3, <2>1
  <2>3. g[s] = w[Chosen(s)] + g[s \ {Chosen(s)}]
    BY <1>3, <1>5 DEF IsSum
  <2>4. QED
    BY <1>3, <2>2, <2>3
<1>6. QED
  BY <1>4, <1>5

LEMMA SumSplits ==
    ASSUME NEW D, IsFiniteSet(D), NEW w, \A x \in D : w[x] \in Nat, NEW g, IsSum(g, w, D)
    PROVE  Splits(g, w, D)
<1> DEFINE Good(s) == \A x \in s : g[s] = w[x] + g[s \ {x}]
           bad == {s \in SUBSET D : ~Good(s)}
<1>1. SUFFICES ASSUME bad # {}
               PROVE  FALSE
  BY DEF Splits
<1>2. PICK s \in bad : \A t \in bad : t \subseteq s => t = s
  <2>1. bad \subseteq SUBSET D
    OBVIOUS
  <2> HIDE DEF bad
  <2>2. QED
    BY <1>1, <2>1, Minimal
<1>3. PICK x \in s : g[s] # w[x] + g[s \ {x}]
  BY <1>2
<1> DEFINE c == Chosen(s)
<1>4. s \in SUBSET D /\ c \in s /\ g[s] = w[c] + g[s \ {c}]
  BY <1>2, <1>3 DEF IsSum, Chosen
<1>5. x # c
  BY <1>3, <1>4
<1>6. ASSUME NEW y \in s
      PROVE  \A z \in s \ {y} : g[s \ {y}] = w[z] + g[(s \ {y}) \ {z}]
  <2>1. s \ {y} \in SUBSET D /\ s \ {y} \subseteq s /\ s \ {y} # s
    BY <1>4
  <2>2. s \ {y} \notin bad
    BY <1>2, <2>1
  <2>3. QED
    BY <2>1, <2>2
<1> DEFINE r == (s \ {c}) \ {x}
<1>7. g[s \ {c}] = w[x] + g[r] /\ g[s \ {x}] = w[c] + g[r]
  <2>1. x \in s \ {c} /\ c \in s \ {x} /\ (s \ {x}) \ {c} = r
    BY <1>4, <1>5
  <2>2. QED
    BY <1>6, <2>1
<1>8. w[x] \in Nat /\ w[c] \in Nat /\ g[r] \in Nat
  BY <1>4, SumType
<1>9. QED
  <2> HIDE DEF c, r
  <2>1. QED
    BY <1>3, <1>4, <1>7, <1>8

\* Two sums of the same terms are the same.
LEMMA SumsAgree ==
    ASSUME NEW D, IsFiniteSet(D), NEW E, E \subseteq D, NEW v, NEW w, NEW g, NEW h,
           IsSum(g, w, D), IsSum(h, v, E), \A x \in E : v[x] = w[x]
    PROVE  \A s \in SUBSET E : h[s] = g[s]
<1> DEFINE bad == {s \in SUBSET E : h[s] # g[s]}
<1>1. SUFFICES ASSUME bad # {}
               PROVE  FALSE
  OBVIOUS
<1>2. PICK s \in bad : \A t \in bad : t \subseteq s => t = s
  <2>1. bad \subseteq SUBSET D
    OBVIOUS
  <2> HIDE DEF bad
  <2>2. QED
    BY <1>1, <2>1, Minimal
<1>3. s \in SUBSET E /\ s \in SUBSET D /\ h[s] # g[s]
  BY <1>2
<1>4. s # {}
  BY <1>3 DEF IsSum
<1>5. Chosen(s) \in s
  BY <1>4 DEF Chosen
<1>6. h[s \ {Chosen(s)}] = g[s \ {Chosen(s)}]
  BY <1>2, <1>3, <1>5
<1>7. QED
  BY <1>3, <1>4, <1>5, <1>6 DEF IsSum

\* The sum over two sets without a common element.
LEMMA SumJoins ==
    ASSUME NEW D, IsFiniteSet(D), NEW w, \A x \in D : w[x] \in Nat, NEW g, IsSum(g, w, D),
           NEW s \in SUBSET D
    PROVE  \A t \in SUBSET (D \ s) : g[s \cup t] = g[s] + g[t]
<1> DEFINE bad == {t \in SUBSET (D \ s) : g[s \cup t] # g[s] + g[t]}
<1>1. SUFFICES ASSUME bad # {}
               PROVE  FALSE
  OBVIOUS
<1>2. PICK t \in bad : \A u \in bad : u \subseteq t => u = t
  <2>1. bad \subseteq SUBSET D
    OBVIOUS
  <2> HIDE DEF bad
  <2>2. QED
    BY <1>1, <2>1, Minimal
<1>3. t \in SUBSET (D \ s) /\ g[s \cup t] # g[s] + g[t]
  BY <1>2
<1>4. g[{}] = 0 /\ g[s] \in Nat
  BY SumType
<1>5. t # {}
  <2>1. s \cup {} = s
    OBVIOUS
  <2>2. QED
    BY <1>3, <1>4, <2>1
<1>6. PICK x : x \in t
  BY <1>5
<1> DEFINE r == t \ {x}
<1>7. x \in D /\ x \notin s /\ r \in SUBSET (D \ s) /\ r # t
  BY <1>3, <1>6
<1>8. g[s \cup r] = g[s] + g[r]
  BY <1>2, <1>7
<1>9. (s \cup t) \ {x} = s \cup r /\ s \cup t \in SUBSET D /\ t \in SUBSET D /\ x \in s \cup t
  BY <1>3, <1>6, <1>7
<1>10. g[t] = w[x] + g[r] /\ g[s \cup t] = w[x] + g[s \cup r]
  <2>1. g[t] = w[x] + g[t \ {x}] /\ g[s \cup t] = w[x] + g[(s \cup t) \ {x}]
    BY <1>6, <1>9, SumSplits DEF Splits
  <2>2. QED
    BY <1>9, <2>1
<1>11. w[x] \in Nat /\ g[r] \in Nat
  BY <1>7, SumType
<1>12. QED
  <2> HIDE DEF r
  <2>1. QED
    BY <1>3, <1>4, <1>8, <1>10, <1>11

-----------------------------------------------------------------------------
(* Runs of words, and rows of runs *)

Tip(words) == words[Len(words)]

\* Words that follow each other.
IsRun(words) ==
    /\ words \in Seq(Nat) /\ words # <<>>
    /\ \A k \in 1..Len(words) : words[k] = words[1] + k - 1

\* Rows of the words from a to b, each after the one before it.
Chain(rows, a, b) ==
    /\ rows \in Seq(Seq(Nat)) /\ rows # <<>>
    /\ \A r \in 1..Len(rows) : IsRun(rows[r]) /\ a <= rows[r][1] /\ Tip(rows[r]) <= b
    /\ \A r \in 1..(Len(rows) - 1) : rows[r + 1][1] = Tip(rows[r]) + 1
    /\ rows[1][1] = a /\ Tip(rows[Len(rows)]) = b

LEMMA RunLength ==
    ASSUME NEW words, IsRun(words)
    PROVE  /\ Len(words) \in Nat /\ Len(words) = Tip(words) - words[1] + 1
           /\ words[1] \in Nat /\ Tip(words) \in Nat /\ words[1] <= Tip(words)
           /\ {words[k] : k \in DOMAIN words} = words[1]..Tip(words)
<1>1. Len(words) \in Nat /\ Len(words) >= 1 /\ DOMAIN words = 1..Len(words)
  BY EmptySeq, LenProperties DEF IsRun
<1>2. words[1] \in Nat /\ Tip(words) \in Nat /\ Tip(words) = words[1] + Len(words) - 1
  BY <1>1, ElementOfSeq DEF IsRun, Tip
<1>3. \A x \in words[1]..Tip(words) : x - words[1] + 1 \in 1..Len(words) /\ words[x - words[1] + 1] = x
  BY <1>1, <1>2 DEF IsRun
<1>4. \A k \in 1..Len(words) : words[k] \in words[1]..Tip(words)
  BY <1>1, <1>2 DEF IsRun
<1>5. QED
  BY <1>1, <1>2, <1>3, <1>4

\* The next word begins a row.
LEMMA ChainAppends ==
    ASSUME NEW rows, NEW a \in Nat, NEW b \in Nat, Chain(rows, a, b)
    PROVE  Chain(Append(rows, <<b + 1>>), a, b + 1)
<1> DEFINE more == Append(rows, <<b + 1>>)
           m == Len(rows)
<1>1. m \in Nat /\ m >= 1 /\ DOMAIN rows = 1..m
  BY EmptySeq, LenProperties DEF Chain
<1>2. /\ more \in Seq(Seq(Nat)) /\ Len(more) = m + 1 /\ more[m + 1] = <<b + 1>>
      /\ \A r \in 1..m : more[r] = rows[r]
  BY <1>1 DEF Chain
<1>3. IsRun(<<b + 1>>) /\ Tip(<<b + 1>>) = b + 1 /\ <<b + 1>>[1] = b + 1
  BY DEF IsRun, Tip
<1>4. /\ \A r \in 1..m : IsRun(rows[r]) /\ a <= rows[r][1] /\ Tip(rows[r]) <= b /\ Tip(rows[r]) \in Nat
      /\ \A r \in 1..(m - 1) : rows[r + 1][1] = Tip(rows[r]) + 1
      /\ rows[1][1] = a /\ Tip(rows[m]) = b
  BY RunLength DEF Chain
<1>5. a <= b
  <2>1. IsRun(rows[1]) /\ rows[1][1] = a /\ Tip(rows[1]) <= b
    BY <1>1, <1>4
  <2>2. QED
    BY <2>1, RunLength
<1> HIDE DEF more, m
<1>6. \A r \in 1..(m + 1) : IsRun(more[r]) /\ a <= more[r][1] /\ Tip(more[r]) <= b + 1
  <2> SUFFICES ASSUME NEW r \in 1..(m + 1)
               PROVE  IsRun(more[r]) /\ a <= more[r][1] /\ Tip(more[r]) <= b + 1
    OBVIOUS
  <2>1. CASE r = m + 1
    <3>1. more[r] = <<b + 1>>
      BY <1>2, <2>1
    <3>2. a <= b + 1
      BY <1>5
    <3>3. QED
      BY <1>3, <3>1, <3>2
  <2>2. CASE r \in 1..m
    <3>1. /\ more[r] = rows[r] /\ IsRun(rows[r])
          /\ a <= rows[r][1] /\ Tip(rows[r]) <= b /\ Tip(rows[r]) \in Nat
      BY <1>2, <1>4, <2>2
    <3>2. Tip(rows[r]) <= b + 1
      BY <3>1
    <3>3. QED
      BY <3>1, <3>2
  <2>3. QED
    BY <1>1, <2>1, <2>2
<1>7. \A r \in 1..m : more[r + 1][1] = Tip(more[r]) + 1
  <2> SUFFICES ASSUME NEW r \in 1..m
               PROVE  more[r + 1][1] = Tip(more[r]) + 1
    OBVIOUS
  <2>1. CASE r = m
    BY <1>1, <1>2, <1>3, <1>4, <2>1
  <2>2. CASE r \in 1..(m - 1)
    <3>1. r \in 1..m /\ r + 1 \in 1..m
      BY <1>1, <2>2
    <3>2. more[r] = rows[r] /\ more[r + 1] = rows[r + 1] /\ rows[r + 1][1] = Tip(rows[r]) + 1
      BY <1>2, <1>4, <2>2, <3>1
    <3>3. QED
      BY <3>2
  <2>3. QED
    BY <1>1, <2>1, <2>2
<1>8. more[1][1] = a /\ Tip(more[m + 1]) = b + 1 /\ more # <<>>
  BY <1>1, <1>2, <1>3, <1>4
<1>9. QED
  BY <1>1, <1>2, <1>6, <1>7, <1>8 DEF Chain, more

\* The next word goes to the last row.
LEMMA ChainExtends ==
    ASSUME NEW rows, NEW a \in Nat, NEW b \in Nat, Chain(rows, a, b)
    PROVE  Chain([rows EXCEPT ![Len(rows)] = Append(@, b + 1)], a, b + 1)
<1> DEFINE m == Len(rows)
           words == Append(rows[m], b + 1)
           more == [rows EXCEPT ![m] = words]
<1>1. m \in Nat /\ m >= 1 /\ DOMAIN rows = 1..m
  BY EmptySeq, LenProperties DEF Chain
<1>2. /\ \A r \in 1..m : IsRun(rows[r]) /\ a <= rows[r][1] /\ Tip(rows[r]) <= b /\ Tip(rows[r]) \in Nat
      /\ \A r \in 1..(m - 1) : rows[r + 1][1] = Tip(rows[r]) + 1
      /\ rows[1][1] = a /\ Tip(rows[m]) = b
  BY RunLength DEF Chain
<1>3. IsRun(rows[m]) /\ a <= rows[m][1] /\ Tip(rows[m]) = b
  BY <1>1, <1>2
<1>4. IsRun(words) /\ Tip(words) = b + 1 /\ words[1] = rows[m][1]
  <2> DEFINE w == rows[m]
  <2>1. /\ w \in Seq(Nat) /\ Len(w) \in Nat /\ Len(w) >= 1 /\ w[1] \in Nat
        /\ Len(w) = b - w[1] + 1 /\ \A k \in 1..Len(w) : w[k] = w[1] + k - 1
    <3>1. IsRun(w) /\ Tip(w) = b
      BY <1>3
    <3> HIDE DEF w
    <3>2. Len(w) \in Nat /\ Len(w) = b - w[1] + 1 /\ w[1] \in Nat /\ w[1] <= b
      BY <3>1, RunLength
    <3>3. QED
      BY <3>1, <3>2 DEF IsRun
  <2> DEFINE v == Append(w, b + 1)
  <2>2. v = words
    OBVIOUS
  <2> HIDE DEF w, words
  <2>3. /\ v \in Seq(Nat) /\ Len(v) = Len(w) + 1 /\ v[Len(w) + 1] = b + 1
        /\ \A k \in 1..Len(w) : v[k] = w[k]
    BY <2>1
  <2> HIDE DEF v
  <2>4. v[1] = w[1]
    BY <2>1, <2>3
  <2>5. \A k \in 1..(Len(w) + 1) : v[k] = w[1] + k - 1
    <3> SUFFICES ASSUME NEW k \in 1..(Len(w) + 1)
                 PROVE  v[k] = w[1] + k - 1
      OBVIOUS
    <3>1. CASE k = Len(w) + 1
      <4>1. v[k] = b + 1
        BY <2>3, <3>1
      <4>2. w[1] \in Nat /\ Len(w) \in Nat /\ Len(w) = b - w[1] + 1
        BY <2>1
      <4>3. b + 1 = w[1] + k - 1
        BY <4>2, <3>1
      <4>4. QED
        BY <4>1, <4>3
    <3>2. CASE k \in 1..Len(w)
      BY <2>1, <2>3, <3>2
    <3>3. QED
      BY <2>1, <3>1, <3>2
  <2>6. IsRun(v) /\ Tip(v) = b + 1
    <3>1. v # <<>>
      BY <2>1, <2>3
    <3>2. QED
      BY <2>3, <2>4, <2>5, <3>1 DEF IsRun, Tip
  <2>7. QED
    BY <2>2, <2>4, <2>6 DEF w
<1>5. /\ more \in Seq(Seq(Nat)) /\ Len(more) = m /\ more[m] = words
      /\ \A r \in 1..(m - 1) : more[r] = rows[r]
  <2>1. words \in Seq(Nat)
    BY <1>4 DEF IsRun
  <2>2. m \in 1..Len(rows) /\ rows \in Seq(Seq(Nat))
    BY <1>1 DEF Chain
  <2> HIDE DEF words, m
  <2>3. /\ more \in Seq(Seq(Nat)) /\ Len(more) = Len(rows)
        /\ \A j \in 1..Len(rows) : more[j] = IF j = m THEN words ELSE rows[j]
    BY <2>1, <2>2, ExceptSeq
  <2>4. Len(rows) = m
    BY DEF m
  <2> HIDE DEF more
  <2>5. more[m] = words /\ \A r \in 1..(m - 1) : more[r] = rows[r]
    BY <1>1, <2>3, <2>4
  <2>6. QED
    BY <2>3, <2>4, <2>5
<1>6. \A r \in 1..(m - 1) : Tip(rows[r]) <= b + 1
  BY <1>1, <1>2
<1> HIDE DEF more, m, words
<1>7. \A r \in 1..m : IsRun(more[r]) /\ a <= more[r][1] /\ Tip(more[r]) <= b + 1
  <2> SUFFICES ASSUME NEW r \in 1..m
               PROVE  IsRun(more[r]) /\ a <= more[r][1] /\ Tip(more[r]) <= b + 1
    OBVIOUS
  <2>1. CASE r = m
    BY <1>3, <1>4, <1>5, <2>1
  <2>2. CASE r \in 1..(m - 1)
    BY <1>1, <1>2, <1>5, <1>6, <2>2
  <2>3. QED
    BY <1>1, <2>1, <2>2
<1>8. \A r \in 1..(m - 1) : more[r + 1][1] = Tip(more[r]) + 1
  <2> SUFFICES ASSUME NEW r \in 1..(m - 1)
               PROVE  more[r + 1][1] = Tip(more[r]) + 1
    OBVIOUS
  <2>1. rows[r + 1][1] = Tip(rows[r]) + 1 /\ more[r] = rows[r]
    BY <1>2, <1>5
  <2>2. more[r + 1][1] = rows[r + 1][1]
    <3>1. CASE r = m - 1
      BY <1>1, <1>4, <1>5, <3>1
    <3>2. CASE r + 1 \in 1..(m - 1)
      BY <1>5, <3>2
    <3>3. QED
      BY <1>1, <3>1, <3>2
  <2>3. QED
    BY <2>1, <2>2
<1>9. more[1][1] = a /\ Tip(more[m]) = b + 1 /\ more # <<>>
  <2>1. CASE m = 1
    BY <1>1, <1>2, <1>4, <1>5, <2>1
  <2>2. CASE 1 \in 1..(m - 1)
    BY <1>1, <1>2, <1>4, <1>5, <2>2
  <2>3. QED
    BY <1>1, <2>1, <2>2
<1>10. QED
  BY <1>1, <1>5, <1>7, <1>8, <1>9 DEF Chain, more, m, words

-----------------------------------------------------------------------------
(* The folds that make the rows *)

\* The word that is i-th goes to a row of its own, or to the last row.
Placed(rows, cut, words, i) ==
    IF i \in cut THEN Append(rows, <<words[i]>>)
    ELSE [rows EXCEPT ![Len(rows)] = Append(@, words[i])]

IsGrouping(g, cut, words) ==
    g = [s \in SUBSET (DOMAIN words) |->
           IF s = {} THEN <<>> ELSE Placed(g[s \ {Max(s)}], cut, words, Max(s))]

LEMMA MaxOfNats ==
    ASSUME NEW n \in Nat
    PROVE  /\ \A s \in SUBSET (1..n) : s # {} => Max(s) \in s
           /\ n > 0 => Max(1..n) = n
<1>1. \A s \in SUBSET (1..n) : s # {} => \E x \in s : \A y \in s : x >= y
  <2> SUFFICES ASSUME NEW s \in SUBSET (1..n), s # {}
               PROVE  \E x \in s : \A y \in s : x >= y
    OBVIOUS
  <2>1. ASSUME \A x \in s : \E y \in s : ~(x >= y)
        PROVE  FALSE
    <3> DEFINE low == {k \in Nat : \A y \in s : y + k <= n}
    <3>1. ASSUME NEW k \in Nat, k \in low
          PROVE  k + 1 \in low
      <4> SUFFICES ASSUME NEW x \in s
                   PROVE  x + (k + 1) <= n
        OBVIOUS
      <4>1. PICK y \in s : ~(x >= y)
        BY <2>1
      <4>2. x \in Nat /\ y \in Nat /\ y + k <= n
        BY <3>1
      <4>3. QED
        BY <4>1, <4>2
    <3>2. 0 \in low
      OBVIOUS
    <3> HIDE DEF low
    <3>3. \A k \in Nat : k \in low
      BY <3>1, <3>2, NatSetInduction
    <3>4. n \in low
      BY <3>3
    <3>5. PICK y \in s : TRUE
      OBVIOUS
    <3>6. QED
      BY <3>4, <3>5 DEF low
  <2>2. QED
    BY <2>1
<1>2. \A s \in SUBSET (1..n) : s # {} => Max(s) \in s /\ \A y \in s : Max(s) >= y
  BY <1>1 DEF Max
<1>3. n > 0 => Max(1..n) = n
  <2> SUFFICES ASSUME n > 0 PROVE Max(1..n) = n
    OBVIOUS
  <2> DEFINE s == 1..n
  <2>1. s \in SUBSET (1..n) /\ s # {} /\ n \in s
    OBVIOUS
  <2>2. Max(s) \in s /\ Max(s) >= n
    <3> HIDE DEF s
    <3>1. QED
      BY <1>2, <2>1
  <2>3. QED
    BY <2>2
<1>4. QED
  BY <1>2, <1>3

LEMMA GroupingExists ==
    ASSUME NEW words \in Seq(Nat), NEW cut
    PROVE  \E g : IsGrouping(g, cut, words)
<1> DEFINE D == DOMAIN words
           Rows == Seq(Seq(Nat))
           step == [i \in D |-> [rows \in Rows |-> Placed(rows, cut, words, i)]]
           pick == [s \in SUBSET D |-> Max(s)]
<1>1. D = 1..Len(words) /\ Len(words) \in Nat /\ IsFiniteSet(D)
  BY LenProperties, FS_Interval
<1>2. ASSUME NEW i \in D, NEW rows \in Rows
      PROVE  Placed(rows, cut, words, i) \in Rows
  <2>1. words[i] \in Nat
    BY <1>1, ElementOfSeq
  <2>2. <<words[i]>> \in Seq(Nat)
    BY <2>1
  <2>3. Append(rows, <<words[i]>>) \in Rows
    BY <2>2
  <2>4. [rows EXCEPT ![Len(rows)] = Append(@, words[i])] \in Rows
    <3>1. CASE rows = <<>>
      <4>1. Len(rows) \notin DOMAIN rows
        BY <3>1
      <4>2. [rows EXCEPT ![Len(rows)] = Append(@, words[i])] = rows
        BY <4>1
      <4>3. QED
        BY <4>2
    <3>2. CASE rows # <<>>
      <4>1. Len(rows) \in 1..Len(rows)
        BY <3>2, EmptySeq
      <4>2. rows[Len(rows)] \in Seq(Nat)
        BY <4>1, ElementOfSeq
      <4>3. Append(rows[Len(rows)], words[i]) \in Seq(Nat)
        BY <2>1, <4>2
      <4>4. QED
        BY <4>1, <4>3, ExceptSeq
    <3>3. QED
      BY <3>1, <3>2
  <2>5. QED
    BY <2>3, <2>4 DEF Placed
<1>3. step \in [D -> [Rows -> Rows]]
  BY <1>2
<1>4. Picks(pick, D)
  BY <1>1, MaxOfNats DEF Picks
<1>5. <<>> \in Rows
  OBVIOUS
<1>6. PICK g \in [SUBSET D -> Rows] : IsFold(g, <<>>, step, pick, D)
  <2> HIDE DEF D, Rows, step, pick
  <2>1. QED
    BY <1>1, <1>3, <1>4, <1>5, FoldExists
<1>7. ASSUME NEW s \in SUBSET D
      PROVE  g[s] = IF s = {} THEN <<>> ELSE Placed(g[s \ {Max(s)}], cut, words, Max(s))
  <2>1. CASE s = {}
    BY <1>6, <2>1 DEF IsFold, Folded
  <2>2. CASE s # {}
    <3>1. pick[s] = Max(s) /\ Max(s) \in D /\ s \ {Max(s)} \in SUBSET D
      BY <1>1, <2>2, MaxOfNats
    <3>2. g[s \ {Max(s)}] \in Rows
      BY <1>6, <3>1
    <3>3. g[s] = step[Max(s)][g[s \ {Max(s)}]]
      BY <1>6, <2>2, <3>1 DEF IsFold, Folded
    <3>4. QED
      BY <2>2, <3>1, <3>2, <3>3
  <2>3. QED
    BY <2>1, <2>2
<1>8. QED
  <2> HIDE DEF Rows, step, pick
  <2>1. QED
    BY <1>6, <1>7 DEF IsGrouping

\* Of words that follow each other it makes rows that do.
LEMMA GroupingChains ==
    ASSUME NEW words, IsRun(words), NEW cut, 1 \in cut, NEW g, IsGrouping(g, cut, words)
    PROVE  Chain(g[DOMAIN words], words[1], Tip(words))
<1> DEFINE n == Len(words)
           a == words[1]
           chained == {i \in Nat : i < n => Chain(g[1..(i + 1)], a, a + i)}
<1>1. /\ DOMAIN words = 1..n /\ n \in Nat /\ n >= 1 /\ a \in Nat /\ Tip(words) = a + n - 1
      /\ \A i \in 1..n : words[i] = a + i - 1
  <2>1. DOMAIN words = 1..n /\ words \in Seq(Nat)
    BY LenProperties DEF IsRun
  <2>2. n \in Nat /\ a \in Nat /\ a <= Tip(words) /\ Tip(words) \in Nat /\ n = Tip(words) - a + 1
    BY RunLength
  <2>3. \A i \in 1..n : words[i] = a + i - 1
    BY DEF IsRun
  <2> HIDE DEF n, a
  <2>4. n >= 1 /\ Tip(words) = a + n - 1
    BY <2>2
  <2>5. QED
    BY <2>1, <2>2, <2>3, <2>4
<1> HIDE DEF n, a
<1>2. g[{}] = <<>>
  BY DEF IsGrouping
<1>3. ASSUME NEW i \in 1..n
      PROVE  g[1..i] = Placed(g[1..(i - 1)], cut, words, i)
  <2>1. (1..i) \ {i} = 1..(i - 1) /\ 1..i # {} /\ 1..i \in SUBSET (DOMAIN words) /\ i \in Nat /\ i > 0
    BY <1>1
  <2>2. Max(1..i) = i
    BY <2>1, MaxOfNats
  <2> DEFINE s == 1..i
  <2> HIDE DEF s
  <2>3. s # {} /\ s \in SUBSET (DOMAIN words) /\ Max(s) = i /\ s \ {i} = 1..(i - 1)
    BY <2>1, <2>2 DEF s
  <2>4. g[s] = Placed(g[s \ {Max(s)}], cut, words, Max(s))
    BY <2>3 DEF IsGrouping
  <2>5. QED
    BY <2>3, <2>4 DEF s
<1>4. 0 \in chained
  <2>1. 1..(1 - 1) = {} /\ 1 \in 1..n /\ 0 + 1 = 1 /\ words[1] = a /\ a + 0 = a
    BY <1>1 DEF a
  <2>2. g[1..1] = Append(<<>>, <<a>>)
    BY <1>2, <1>3, <2>1 DEF Placed
  <2>3. g[1..1] = <<<<a>>>>
    BY <2>2
  <2>4. Chain(<<<<a>>>>, a, a)
    <3>1. IsRun(<<a>>) /\ Tip(<<a>>) = a /\ <<a>>[1] = a
      BY <1>1 DEF IsRun, Tip
    <3> DEFINE row == <<a>>
    <3>2. row \in Seq(Nat)
      BY <1>1
    <3> HIDE DEF row
    <3>3. <<row>> \in Seq(Seq(Nat)) /\ <<row>> # <<>> /\ Len(<<row>>) = 1 /\ <<row>>[1] = row
      BY <3>2
    <3>4. IsRun(row) /\ Tip(row) = a /\ row[1] = a
      BY <3>1 DEF row
    <3>5. Chain(<<row>>, a, a)
      BY <1>1, <3>3, <3>4 DEF Chain
    <3>6. QED
      BY <3>5 DEF row
  <2>5. QED
    BY <2>1, <2>3, <2>4
<1>5. ASSUME NEW i \in Nat, i \in chained
      PROVE  i + 1 \in chained
  <2> SUFFICES ASSUME i + 1 < n
               PROVE  Chain(g[1..((i + 1) + 1)], a, a + (i + 1))
    OBVIOUS
  <2>1. Chain(g[1..(i + 1)], a, a + i)
    BY <1>1, <1>5
  <2> DEFINE rows == g[1..(i + 1)]
  <2>2. /\ i + 2 \in 1..n /\ (i + 2) - 1 = i + 1 /\ (i + 1) + 1 = i + 2
        /\ words[i + 2] = (a + i) + 1 /\ a + (i + 1) = (a + i) + 1 /\ a + i \in Nat
    BY <1>1
  <2>3. g[1..(i + 2)] = Placed(rows, cut, words, i + 2)
    BY <1>3, <2>2
  <2> HIDE DEF rows
  <2>4. Chain(rows, a, a + i)
    BY <2>1 DEF rows
  <2>5. CASE i + 2 \in cut
    <3>1. g[1..(i + 2)] = Append(rows, <<(a + i) + 1>>)
      BY <2>2, <2>3, <2>5 DEF Placed
    <3>2. QED
      BY <1>1, <2>2, <2>4, <3>1, ChainAppends
  <2>6. CASE i + 2 \notin cut
    <3>1. g[1..(i + 2)] = [rows EXCEPT ![Len(rows)] = Append(@, (a + i) + 1)]
      BY <2>2, <2>3, <2>6 DEF Placed
    <3> DEFINE b == a + i
    <3>2. b \in Nat /\ Chain(rows, a, b) /\ g[1..(i + 2)] = [rows EXCEPT ![Len(rows)] = Append(@, b + 1)]
      BY <2>2, <2>4, <3>1
    <3> HIDE DEF b
    <3>3. Chain([rows EXCEPT ![Len(rows)] = Append(@, b + 1)], a, b + 1)
      BY <1>1, <3>2, ChainExtends
    <3>4. Chain(g[1..(i + 2)], a, b + 1)
      BY <3>2, <3>3
    <3>5. QED
      BY <2>2, <3>4 DEF b
  <2>7. QED
    BY <2>5, <2>6
<1> HIDE DEF chained
<1>6. n - 1 \in chained
  <2>1. \A i \in Nat : i \in chained
    BY <1>4, <1>5, NatSetInduction
  <2>2. QED
    BY <1>1, <2>1
<1>7. Chain(g[1..((n - 1) + 1)], a, a + (n - 1))
  BY <1>1, <1>6 DEF chained
<1>8. (n - 1) + 1 = n /\ a + (n - 1) = a + n - 1
  BY <1>1
<1>9. QED
  BY <1>1, <1>7, <1>8 DEF a

\* Wherever the rows are cut, they are of all the words.
LEMMA RowsChain ==
    ASSUME heard \in Seq(Items), heard # <<>>, NEW at
    PROVE  \E rows : /\ Chain(rows, 1, Len(heard))
                     /\ RowsAt(at) = [r \in DOMAIN rows |-> Row(rows[r])]
<1> DEFINE words == [i \in DOMAIN heard |-> i]
           cut == {i \in DOMAIN words : i = 1 \/ i \in at}
           Solves(g) ==
             g = [s \in SUBSET (DOMAIN words) |->
                    IF s = {} THEN <<>>
                    ELSE IF words[Max(s)] = 1 \/ words[Max(s)] \in at
                         THEN Append(g[s \ {Max(s)}], <<words[Max(s)]>>)
                         ELSE [g[s \ {Max(s)}] EXCEPT ![Len(g[s \ {Max(s)}])] = Append(@, words[Max(s)])]]
           all == (CHOOSE g : Solves(g))[DOMAIN words]
<1>1. RowsAt(at) = [r \in DOMAIN all |-> Row(all[r])]
  BY DEF RowsAt, FoldLeftDomain, FoldLeft, MapThenFoldSet
<1>2. /\ DOMAIN words = 1..Len(heard) /\ Len(heard) \in Nat /\ Len(heard) >= 1
      /\ \A i \in 1..Len(heard) : words[i] = i
  BY EmptySeq, LenProperties
<1>3. words \in Seq(Nat) /\ Len(words) = Len(heard)
  BY <1>2
<1>4. IsRun(words) /\ words[1] = 1 /\ Tip(words) = Len(heard)
  <2> HIDE DEF words
  <2>1. words # <<>>
    BY <1>2, <1>3
  <2>2. QED
    BY <1>2, <1>3, <2>1 DEF IsRun, Tip
<1>5. ASSUME NEW g
      PROVE  IsGrouping(g, cut, words) <=> Solves(g)
  <2> DEFINE made(s) == IF s = {} THEN <<>> ELSE Placed(g[s \ {Max(s)}], cut, words, Max(s))
             solved(s) ==
               IF s = {} THEN <<>>
               ELSE IF words[Max(s)] = 1 \/ words[Max(s)] \in at
                    THEN Append(g[s \ {Max(s)}], <<words[Max(s)]>>)
                    ELSE [g[s \ {Max(s)}] EXCEPT ![Len(g[s \ {Max(s)}])] = Append(@, words[Max(s)])]
  <2>1. ASSUME NEW s \in SUBSET (DOMAIN words)
        PROVE  made(s) = solved(s)
    <3>1. CASE s = {}
      BY <3>1
    <3>2. CASE s # {}
      <4>1. Max(s) \in DOMAIN words /\ words[Max(s)] = Max(s)
        BY <1>2, <3>2, MaxOfNats
      <4>2. Max(s) \in cut <=> words[Max(s)] = 1 \/ words[Max(s)] \in at
        BY <4>1
      <4> HIDE DEF cut, words
      <4>3. QED
        BY <3>2, <4>1, <4>2 DEF Placed
    <3>3. QED
      BY <3>1, <3>2
  <2> HIDE DEF made, solved
  <2>2. [s \in SUBSET (DOMAIN words) |-> made(s)] = [s \in SUBSET (DOMAIN words) |-> solved(s)]
    BY <2>1
  <2>3. IsGrouping(g, cut, words) <=> g = [s \in SUBSET (DOMAIN words) |-> made(s)]
    BY DEF IsGrouping, made
  <2>4. Solves(g) <=> g = [s \in SUBSET (DOMAIN words) |-> solved(s)]
    BY <1>2 DEF solved
  <2>5. QED
    BY <2>2, <2>3, <2>4
<1> HIDE DEF cut, words, Solves, all
<1>6. Solves(CHOOSE g : Solves(g))
  BY <1>3, <1>5, GroupingExists
<1>7. 1 \in cut
  BY <1>2 DEF cut
<1>8. Chain(all, 1, Len(heard))
  <2> DEFINE g == CHOOSE h : Solves(h)
  <2>1. IsGrouping(g, cut, words)
    BY <1>5, <1>6
  <2>2. all = g[DOMAIN words]
    BY DEF all
  <2> HIDE DEF g
  <2>3. QED
    BY <1>4, <1>7, <2>1, <2>2, GroupingChains
<1>9. QED
  BY <1>1, <1>8

\* Nothing heard, no rows.
LEMMA NoWordsNoRows ==
    ASSUME heard = <<>>, NEW at
    PROVE  RowsAt(at) = <<>>
<1> DEFINE words == [i \in DOMAIN heard |-> i]
           cut == {i \in DOMAIN words : i = 1 \/ i \in at}
           Solves(g) ==
             g = [s \in SUBSET (DOMAIN words) |->
                    IF s = {} THEN <<>>
                    ELSE IF words[Max(s)] = 1 \/ words[Max(s)] \in at
                         THEN Append(g[s \ {Max(s)}], <<words[Max(s)]>>)
                         ELSE [g[s \ {Max(s)}] EXCEPT ![Len(g[s \ {Max(s)}])] = Append(@, words[Max(s)])]]
           all == (CHOOSE g : Solves(g))[DOMAIN words]
<1>1. RowsAt(at) = [r \in DOMAIN all |-> Row(all[r])]
  BY DEF RowsAt, FoldLeftDomain, FoldLeft, MapThenFoldSet
<1>2. DOMAIN words = {}
  OBVIOUS
<1> HIDE DEF words
<1>3. \A g : Solves(g) <=> g = [s \in {{}} |-> <<>>]
  <2>1. SUBSET (DOMAIN words) = {{}}
    BY <1>2
  <2>2. QED
    BY <2>1
<1>4. Solves([s \in {{}} |-> <<>>])
  BY <1>3
<1> HIDE DEF Solves, all
<1>5. Solves(CHOOSE g : Solves(g))
  BY <1>4
<1>6. all = <<>>
  BY <1>2, <1>3, <1>5 DEF all
<1>7. QED
  BY <1>1, <1>6

\* refine_segments makes rows of the words of a segment.
LEMMA SentencesChain ==
    ASSUME NEW words, IsRun(words)
    PROVE  Chain(Sentences(words), words[1], Tip(words))
<1> DEFINE ids == [i \in DOMAIN words |-> i]
           cut == {i \in DOMAIN words : i = 1 \/ heard[words[i - 1]].sep = ". "}
           Solves(g) ==
             g = [s \in SUBSET (DOMAIN ids) |->
                    IF s = {} THEN <<>>
                    ELSE IF ids[Max(s)] = 1 \/ heard[words[ids[Max(s)] - 1]].sep = ". "
                         THEN Append(g[s \ {Max(s)}], <<words[ids[Max(s)]]>>)
                         ELSE [g[s \ {Max(s)}] EXCEPT ![Len(g[s \ {Max(s)}])] = Append(@, words[ids[Max(s)]])]]
           all == (CHOOSE g : Solves(g))[DOMAIN ids]
<1>1. Sentences(words) = all
  BY DEF Sentences, FoldLeftDomain, FoldLeft, MapThenFoldSet
<1>2. /\ DOMAIN words = 1..Len(words) /\ Len(words) \in Nat /\ Len(words) >= 1 /\ words \in Seq(Nat)
      /\ DOMAIN ids = DOMAIN words /\ \A i \in DOMAIN words : ids[i] = i
  BY EmptySeq, LenProperties DEF IsRun
<1>3. ASSUME NEW g
      PROVE  IsGrouping(g, cut, words) <=> Solves(g)
  <2> DEFINE made(s) == IF s = {} THEN <<>> ELSE Placed(g[s \ {Max(s)}], cut, words, Max(s))
             solved(s) ==
               IF s = {} THEN <<>>
               ELSE IF ids[Max(s)] = 1 \/ heard[words[ids[Max(s)] - 1]].sep = ". "
                    THEN Append(g[s \ {Max(s)}], <<words[ids[Max(s)]]>>)
                    ELSE [g[s \ {Max(s)}] EXCEPT ![Len(g[s \ {Max(s)}])] = Append(@, words[ids[Max(s)]])]
  <2>1. ASSUME NEW s \in SUBSET (DOMAIN words)
        PROVE  made(s) = solved(s)
    <3>1. CASE s = {}
      BY <3>1
    <3>2. CASE s # {}
      <4>1. Max(s) \in DOMAIN words /\ ids[Max(s)] = Max(s)
        BY <1>2, <3>2, MaxOfNats
      <4>2. Max(s) \in cut <=> ids[Max(s)] = 1 \/ heard[words[ids[Max(s)] - 1]].sep = ". "
        BY <4>1
      <4> HIDE DEF cut, ids
      <4>3. QED
        BY <3>2, <4>1, <4>2 DEF Placed
    <3>3. QED
      BY <3>1, <3>2
  <2> HIDE DEF made, solved
  <2>2. [s \in SUBSET (DOMAIN words) |-> made(s)] = [s \in SUBSET (DOMAIN words) |-> solved(s)]
    BY <2>1
  <2>3. IsGrouping(g, cut, words) <=> g = [s \in SUBSET (DOMAIN words) |-> made(s)]
    BY DEF IsGrouping, made
  <2>4. Solves(g) <=> g = [s \in SUBSET (DOMAIN words) |-> solved(s)]
    BY <1>2 DEF solved
  <2>5. QED
    BY <2>2, <2>3, <2>4
<1> HIDE DEF cut, ids, Solves
<1>4. Solves(CHOOSE g : Solves(g))
  BY <1>2, <1>3, GroupingExists
<1>5. 1 \in cut
  BY <1>2 DEF cut
<1> DEFINE g == CHOOSE h : Solves(h)
<1>6. IsGrouping(g, cut, words) /\ all = g[DOMAIN words]
  BY <1>2, <1>3, <1>4
<1> HIDE DEF g, all
<1>7. QED
  BY <1>1, <1>5, <1>6, GroupingChains

-----------------------------------------------------------------------------
(* FlattenSeq *)

\* Nothing is flattened to nothing.
LEMMA FlattenOfNone == FlattenSeq(<<>>) = <<>>
BY DEF FlattenSeq

LEMMA FlattenUnfolds ==
    ASSUME NEW seqs, Len(seqs) \in Nat, Len(seqs) >= 1
    PROVE  \E f : /\ f[1] = seqs[1] /\ FlattenSeq(seqs) = f[Len(seqs)]
                  /\ \A i \in 2..Len(seqs) : f[i] = f[i - 1] \o seqs[i]
<1> DEFINE n == Len(seqs)
           Part(f, i) == IF i = 1 THEN seqs[i] ELSE f[i - 1] \o seqs[i]
           Solves(f) == f = [i \in 1..n |-> Part(f, i)]
           reach == {k \in Nat : \E f : \A i \in 1..n : i <= k => f[i] = Part(f, i)}
<1>1. 0 \in reach
  OBVIOUS
<1>2. ASSUME NEW k \in Nat, k \in reach
      PROVE  k + 1 \in reach
  <2>1. PICK f : \A i \in 1..n : i <= k => f[i] = Part(f, i)
    BY <1>2
  <2> DEFINE h == [i \in 1..n |-> Part(f, i)]
  <2>2. ASSUME NEW i \in 1..n, i <= k + 1
        PROVE  h[i] = Part(h, i)
    <3>1. CASE i = 1
      BY <3>1
    <3>2. CASE i # 1
      <4>1. i - 1 \in 1..n /\ i - 1 <= k
        BY <2>2, <3>2
      <4>2. h[i - 1] = f[i - 1]
        BY <2>1, <4>1
      <4>3. h[i] = f[i - 1] \o seqs[i]
        BY <3>2
      <4> HIDE DEF h
      <4>4. QED
        BY <3>2, <4>2, <4>3
    <3>3. QED
      BY <3>1, <3>2
  <2> HIDE DEF h
  <2>3. QED
    BY <2>2
<1> HIDE DEF reach
<1>3. \A k \in Nat : k \in reach
  BY <1>1, <1>2, NatSetInduction
<1>4. n \in reach
  BY <1>3
<1>5. PICK f : \A i \in 1..n : f[i] = Part(f, i)
  BY <1>4 DEF reach
<1> DEFINE h == [i \in 1..n |-> f[i]]
<1>6. ASSUME NEW i \in 1..n
      PROVE  Part(h, i) = Part(f, i)
  <2>1. CASE i = 1
    BY <2>1
  <2>2. CASE i # 1
    <3>1. i - 1 \in 1..n
      BY <2>2
    <3>2. h[i - 1] = f[i - 1]
      BY <3>1
    <3> HIDE DEF h
    <3>3. QED
      BY <2>2, <3>2
  <2>3. QED
    BY <2>1, <2>2
<1>7. Solves(h)
  BY <1>5, <1>6
<1>8. FlattenSeq(seqs) = (CHOOSE g : Solves(g))[n]
  BY DEF FlattenSeq
<1>9. Solves(CHOOSE g : Solves(g))
  <2> HIDE DEF Solves, h
  <2>1. QED
    BY <1>7
<1> DEFINE g == CHOOSE g : Solves(g)
<1>10. g[1] = seqs[1] /\ \A i \in 2..n : g[i] = g[i - 1] \o seqs[i]
  <2> HIDE DEF g
  <2>1. \A i \in 1..n : g[i] = Part(g, i)
    BY <1>9 DEF g
  <2>2. 1 \in 1..n /\ \A i \in 2..n : i \in 1..n /\ i # 1
    OBVIOUS
  <2>3. QED
    BY <2>1, <2>2
<1>11. QED
  <2>1. FlattenSeq(seqs) = g[n]
    BY <1>8
  <2> HIDE DEF g
  <2>2. QED
    BY <1>10, <2>1

-----------------------------------------------------------------------------
(* The times of the words *)

Length == [k \in DOMAIN heard |-> heard[k].dur + heard[k].pause]

\* The characters of a word and of what follows it.
Cost == [k \in DOMAIN heard |-> heard[k].n + (IF heard[k].sep = ". " THEN 2 ELSE 1)]

LEMMA HeardFacts ==
    ASSUME heard \in Seq(Items)
    PROVE  /\ DOMAIN heard = 1..Len(heard) /\ Len(heard) \in Nat
           /\ \A k \in 1..Len(heard) :
                /\ heard[k].dur \in Nat /\ heard[k].pause \in Nat
                /\ Length[k] \in Nat /\ Length[k] = heard[k].dur + heard[k].pause
                /\ Cost[k] \in Nat /\ Cost[k] >= 1
                /\ Cost[k] = heard[k].n + (IF heard[k].sep = ". " THEN 2 ELSE 1)
<1>1. DOMAIN heard = 1..Len(heard) /\ Len(heard) \in Nat
  BY LenProperties
<1>2. \A k \in 1..Len(heard) : heard[k] \in Items
  BY ElementOfSeq
<1>3. \A k \in 1..Len(heard) :
         heard[k].dur \in Nat /\ heard[k].pause \in Nat /\ heard[k].n \in Nat
  BY <1>2 DEF Items
<1>4. ASSUME NEW k \in 1..Len(heard)
      PROVE  /\ Length[k] \in Nat /\ Length[k] = heard[k].dur + heard[k].pause
             /\ Cost[k] \in Nat /\ Cost[k] >= 1
             /\ Cost[k] = heard[k].n + (IF heard[k].sep = ". " THEN 2 ELSE 1)
  <2>1. Length[k] = heard[k].dur + heard[k].pause
    BY <1>1 DEF Length
  <2>2. Cost[k] = heard[k].n + (IF heard[k].sep = ". " THEN 2 ELSE 1)
    BY <1>1 DEF Cost
  <2>3. heard[k].dur \in Nat /\ heard[k].pause \in Nat /\ heard[k].n \in Nat
    BY <1>3
  <2>4. Cost[k] \in Nat /\ Cost[k] >= 1
    <3> DEFINE m == heard[k].n
    <3>1. Cost[k] = m + 2 \/ Cost[k] = m + 1
      BY <2>2
    <3>2. m \in Nat
      BY <2>3
    <3> HIDE DEF m
    <3>3. QED
      BY <3>1, <3>2
  <2>5. Length[k] \in Nat
    BY <2>1, <2>3
  <2>6. QED
    BY <2>1, <2>2, <2>4, <2>5
<1>5. QED
  BY <1>1, <1>3, <1>4

LEMMA StartIs ==
    ASSUME heard \in Seq(Items), NEW i \in 1..(Len(heard) + 1)
    PROVE  \E g : IsSum(g, Length, 1..(i - 1)) /\ Start(i) = g[1..(i - 1)]
<1> DEFINE D == 1..(i - 1)
           term(k) == heard[k].dur + heard[k].pause
           Solves(g) == g = [s \in SUBSET D |->
                               IF s = {} THEN 0 ELSE term(Chosen(s)) + g[s \ {Chosen(s)}]]
<1>1. Start(i) = (CHOOSE g : Solves(g))[D]
  BY DEF Start, MapThenSumSet, MapThenFoldSet, Chosen
<1>2. IsFiniteSet(D) /\ D \subseteq 1..Len(heard)
  <2>1. Len(heard) \in Nat
    BY HeardFacts
  <2>2. i - 1 \in Int /\ D \subseteq 1..Len(heard) /\ 1 \in Int
    BY <2>1
  <2>3. QED
    BY <2>2, FS_Interval
<1>3. \A k \in D : Length[k] \in Nat /\ Length[k] = term(k)
  BY <1>2, HeardFacts
<1>4. \E g : IsSum(g, Length, D)
  <2> HIDE DEF D
  <2>1. QED
    BY <1>2, <1>3, SumExists
<1>5. ASSUME NEW g
      PROVE  Solves(g) <=> IsSum(g, Length, D)
  <2> HIDE DEF D, term
  <2>1. \A s \in SUBSET D : s # {} => Length[Chosen(s)] = term(Chosen(s))
    BY <1>3 DEF Chosen
  <2>2. [s \in SUBSET D |-> IF s = {} THEN 0 ELSE term(Chosen(s)) + g[s \ {Chosen(s)}]]
          = [s \in SUBSET D |-> IF s = {} THEN 0 ELSE Length[Chosen(s)] + g[s \ {Chosen(s)}]]
    BY <2>1
  <2>3. QED
    BY <2>2 DEF IsSum
<1>6. QED
  <2> HIDE DEF Solves, D
  <2>1. Solves(CHOOSE g : Solves(g))
    BY <1>4, <1>5
  <2>2. QED
    BY <1>1, <1>5, <2>1 DEF D

LEMMA StartSteps ==
    ASSUME heard \in Seq(Items)
    PROVE  \A i \in 1..Len(heard) :
             /\ Start(i) \in Nat /\ End(i) \in Nat /\ Start(i) <= End(i)
             /\ Start(i + 1) \in Nat /\ End(i) <= Start(i + 1)
<1> DEFINE n == Len(heard)
           D == 1..n
<1>1. n \in Nat /\ IsFiniteSet(D) /\ \A k \in D : Length[k] \in Nat
  <2>1. n \in Nat /\ \A k \in D : Length[k] \in Nat
    BY HeardFacts
  <2>2. n \in Int /\ 1 \in Int
    BY <2>1
  <2>3. QED
    BY <2>1, <2>2, FS_Interval
<1>2. PICK g : IsSum(g, Length, D)
  <2> HIDE DEF D
  <2>1. QED
    BY <1>1, SumExists
<1>3. \A i \in 1..(n + 1) : Start(i) = g[1..(i - 1)]
  <2> SUFFICES ASSUME NEW i \in 1..(n + 1)
               PROVE  Start(i) = g[1..(i - 1)]
    OBVIOUS
  <2> DEFINE E == 1..(i - 1)
  <2>1. PICK h : IsSum(h, Length, E) /\ Start(i) = h[E]
    BY StartIs
  <2>2. E \subseteq D
    BY <1>1
  <2> HIDE DEF D, E
  <2>3. h[E] = g[E]
    BY <1>1, <1>2, <2>1, <2>2, SumsAgree
  <2>4. QED
    BY <2>1, <2>3 DEF E
<1> SUFFICES ASSUME NEW i \in 1..n
             PROVE  /\ Start(i) \in Nat /\ End(i) \in Nat /\ Start(i) <= End(i)
                    /\ Start(i + 1) \in Nat /\ End(i) <= Start(i + 1)
  OBVIOUS
<1>4. g[1..i] = Length[i] + g[1..(i - 1)] /\ g[1..(i - 1)] \in Nat
  <2> DEFINE s == 1..i
  <2>1. s \in SUBSET D /\ i \in s /\ s \ {i} = 1..(i - 1) /\ s \ {i} \in SUBSET D
    BY <1>1
  <2> HIDE DEF D, s
  <2>2. g[s] = Length[i] + g[s \ {i}]
    <3>1. Splits(g, Length, D)
      BY <1>1, <1>2, SumSplits
    <3>2. QED
      BY <2>1, <3>1 DEF Splits
  <2>3. g[s \ {i}] \in Nat
    BY <1>1, <1>2, <2>1, SumType
  <2>4. QED
    BY <2>1, <2>2, <2>3 DEF s
<1>5. Start(i) = g[1..(i - 1)] /\ Start(i + 1) = g[1..i]
  <2>1. i \in 1..(n + 1) /\ i + 1 \in 1..(n + 1) /\ (i + 1) - 1 = i
    BY <1>1
  <2>2. QED
    BY <1>3, <2>1
<1>6. heard[i].dur \in Nat /\ heard[i].pause \in Nat /\ Length[i] = heard[i].dur + heard[i].pause
  BY HeardFacts
<1>7. QED
  <2>1. End(i) = Start(i) + heard[i].dur
    BY DEF End
  <2>2. QED
    BY <1>4, <1>5, <1>6, <2>1

\* No word begins before an earlier one.
LEMMA StartsRise ==
    ASSUME heard \in Seq(Items), NEW a \in 1..Len(heard)
    PROVE  \A b \in 1..Len(heard) : a <= b => Start(a) <= Start(b)
<1> DEFINE rise == {k \in Nat : a + k <= Len(heard) => Start(a) <= Start(a + k)}
<1>1. Len(heard) \in Nat
  BY HeardFacts
<1>2. 0 \in rise
  <2>1. a + 0 = a /\ Start(a) \in Nat
    BY StartSteps
  <2>2. QED
    BY <2>1
<1>3. ASSUME NEW k \in Nat, k \in rise
      PROVE  k + 1 \in rise
  <2> SUFFICES ASSUME a + (k + 1) <= Len(heard)
               PROVE  Start(a) <= Start(a + (k + 1))
    OBVIOUS
  <2>1. a + k \in 1..Len(heard) /\ a + (k + 1) = (a + k) + 1
    BY <1>1
  <2> DEFINE i == a + k
  <2>2. Start(a) <= Start(i)
    BY <1>3, <2>1
  <2>3. /\ Start(i) \in Nat /\ End(i) \in Nat /\ Start(i) <= End(i)
        /\ Start(i + 1) \in Nat /\ End(i) <= Start(i + 1) /\ Start(a) \in Nat
    <3> HIDE DEF i
    <3>1. i \in 1..Len(heard)
      BY <2>1 DEF i
    <3>2. QED
      BY <3>1, StartSteps
  <2>4. Start(a) <= Start(i + 1)
    BY <2>2, <2>3
  <2>5. QED
    BY <2>1, <2>4
<1> HIDE DEF rise
<1>4. \A k \in Nat : k \in rise
  BY <1>2, <1>3, NatSetInduction
<1>5. QED
  <2> SUFFICES ASSUME NEW b \in 1..Len(heard), a <= b
               PROVE  Start(a) <= Start(b)
    OBVIOUS
  <2>1. b - a \in Nat /\ a + (b - a) = b
    BY <1>1
  <2>2. b - a \in rise
    BY <1>4, <2>1
  <2>3. QED
    BY <1>1, <2>1, <2>2 DEF rise

-----------------------------------------------------------------------------
(* The widths of the sentences *)

LEMMA WidthIs ==
    ASSUME heard \in Seq(Items), NEW words, IsRun(words),
           words[1] >= 1, Tip(words) <= Len(heard)
    PROVE  \E g : /\ IsSum(g, Cost, words[1]..Tip(words))
                  /\ Width(words) = g[words[1]..Tip(words)] - 1
<1> DEFINE D == {words[k] : k \in DOMAIN words}
           term(k) == heard[k].n + (IF heard[k].sep = ". " THEN 2 ELSE 1)
           Solves(g) == g = [s \in SUBSET D |->
                               IF s = {} THEN 0 ELSE term(Chosen(s)) + g[s \ {Chosen(s)}]]
<1>1. Width(words) = (CHOOSE g : Solves(g))[D] - 1
  BY DEF Width, MapThenSumSet, MapThenFoldSet, Chosen
<1>2. D = words[1]..Tip(words) /\ words[1] \in Nat /\ Tip(words) \in Nat
  BY RunLength
<1> HIDE DEF D
<1>3. IsFiniteSet(D) /\ D \subseteq 1..Len(heard)
  <2> DEFINE a == words[1]
             b == Tip(words)
  <2>0. Len(heard) \in Nat
    BY HeardFacts
  <2>1. a \in Int /\ b \in Int /\ a >= 1 /\ b <= Len(heard) /\ D = a..b
    BY <1>2
  <2> HIDE DEF a, b
  <2>2. IsFiniteSet(a..b) /\ a..b \subseteq 1..Len(heard)
    BY <2>0, <2>1, FS_Interval
  <2>3. QED
    BY <2>1, <2>2
<1>4. \A k \in D : Cost[k] \in Nat /\ Cost[k] = term(k)
  BY <1>3, HeardFacts
<1>5. \E g : IsSum(g, Cost, D)
  BY <1>3, <1>4, SumExists
<1>6. ASSUME NEW g
      PROVE  Solves(g) <=> IsSum(g, Cost, D)
  <2> HIDE DEF term
  <2>1. \A s \in SUBSET D : s # {} => Cost[Chosen(s)] = term(Chosen(s))
    BY <1>4 DEF Chosen
  <2>2. [s \in SUBSET D |-> IF s = {} THEN 0 ELSE term(Chosen(s)) + g[s \ {Chosen(s)}]]
          = [s \in SUBSET D |-> IF s = {} THEN 0 ELSE Cost[Chosen(s)] + g[s \ {Chosen(s)}]]
    BY <2>1
  <2>3. QED
    BY <2>2 DEF IsSum
<1>7. QED
  <2> HIDE DEF Solves
  <2>1. Solves(CHOOSE g : Solves(g))
    BY <1>5, <1>6
  <2>2. QED
    BY <1>1, <1>2, <1>6, <2>1

\* One sum over all words gives every width.
LEMMA WidthsAdd ==
    ASSUME heard \in Seq(Items), NEW g, IsSum(g, Cost, 1..Len(heard)), NEW words, IsRun(words),
           words[1] >= 1, Tip(words) <= Len(heard)
    PROVE  /\ Width(words) \in Nat
           /\ g[words[1]..Tip(words)] = Width(words) + 1
<1> DEFINE D == 1..Len(heard)
           E == words[1]..Tip(words)
<1>1. /\ IsFiniteSet(D) /\ E \subseteq D /\ words[1] \in E /\ words[1] \in D
      /\ \A k \in D : Cost[k] \in Nat /\ Cost[k] >= 1
  <2>1. Len(heard) \in Nat /\ \A k \in D : Cost[k] \in Nat /\ Cost[k] >= 1
    BY HeardFacts
  <2>2. words[1] \in Nat /\ Tip(words) \in Nat /\ words[1] <= Tip(words)
    BY RunLength
  <2>3. IsFiniteSet(D)
    BY <2>1, FS_Interval
  <2>4. E \subseteq D /\ words[1] \in E /\ words[1] \in D
    BY <2>1, <2>2
  <2>5. QED
    BY <2>1, <2>3, <2>4
<1>2. PICK h : IsSum(h, Cost, E) /\ Width(words) = h[E] - 1
  BY WidthIs
<1>3. IsSum(g, Cost, D)
  OBVIOUS
<1> HIDE DEF D, E
<1>4. h[E] = g[E]
  BY <1>1, <1>2, <1>3, SumsAgree
<1>5. g[E] = Cost[words[1]] + g[E \ {words[1]}] /\ g[E \ {words[1]}] \in Nat
  <2>1. Splits(g, Cost, D)
    BY <1>1, <1>3, SumSplits
  <2>2. E \in SUBSET D /\ E \ {words[1]} \in SUBSET D
    BY <1>1
  <2>3. g[E \ {words[1]}] \in Nat
    BY <1>1, <1>3, <2>2, SumType
  <2>4. QED
    BY <1>1, <2>1, <2>2, <2>3 DEF Splits
<1>6. Cost[words[1]] \in Nat /\ Cost[words[1]] >= 1
  BY <1>1
<1>7. QED
  <2>1. Width(words) = g[E] - 1 /\ g[E] \in Nat /\ g[E] >= 1
    BY <1>2, <1>4, <1>5, <1>6
  <2>2. QED
    BY <2>1 DEF E

\* The characters of the sentences before one.
Before(parts, p) == MapThenSumSet(LAMBDA q : Width(parts[q]) + 1, 1..(p - 1))

LEMMA BeforeIs ==
    ASSUME NEW parts, NEW widths, NEW p \in Nat, p >= 1,
           \A q \in 1..(p - 1) : widths[q] \in Nat /\ widths[q] = Width(parts[q]) + 1
    PROVE  \E g : IsSum(g, widths, 1..(p - 1)) /\ Before(parts, p) = g[1..(p - 1)]
<1> DEFINE D == 1..(p - 1)
           term(q) == Width(parts[q]) + 1
           Solves(g) == g = [s \in SUBSET D |->
                               IF s = {} THEN 0 ELSE term(Chosen(s)) + g[s \ {Chosen(s)}]]
<1>1. Before(parts, p) = (CHOOSE g : Solves(g))[D]
  BY DEF Before, MapThenSumSet, MapThenFoldSet, Chosen
<1>2. IsFiniteSet(D)
  <2>1. p - 1 \in Int /\ 1 \in Int
    OBVIOUS
  <2>2. QED
    BY <2>1, FS_Interval
<1>3. \A q \in D : widths[q] \in Nat /\ widths[q] = term(q)
  OBVIOUS
<1> HIDE DEF term
<1>4. \E g : IsSum(g, widths, D)
  <2> HIDE DEF D
  <2>1. QED
    BY <1>2, <1>3, SumExists
<1>5. ASSUME NEW g
      PROVE  Solves(g) <=> IsSum(g, widths, D)
  <2> HIDE DEF D
  <2>1. \A s \in SUBSET D : s # {} => widths[Chosen(s)] = term(Chosen(s))
    BY <1>3 DEF Chosen
  <2>2. [s \in SUBSET D |-> IF s = {} THEN 0 ELSE term(Chosen(s)) + g[s \ {Chosen(s)}]]
          = [s \in SUBSET D |-> IF s = {} THEN 0 ELSE widths[Chosen(s)] + g[s \ {Chosen(s)}]]
    BY <2>1
  <2>3. QED
    BY <2>2 DEF IsSum
<1>6. QED
  <2> HIDE DEF Solves, D
  <2>1. Solves(CHOOSE g : Solves(g))
    BY <1>4, <1>5
  <2>2. QED
    BY <1>1, <1>5, <2>1 DEF D

LEMMA ChainFacts ==
    ASSUME NEW rows, NEW a \in Nat, NEW b \in Nat, Chain(rows, a, b)
    PROVE  /\ Len(rows) \in Nat /\ Len(rows) >= 1 /\ DOMAIN rows = 1..Len(rows)
           /\ \A r \in 1..Len(rows) :
                /\ rows[r] \in Seq(Nat) /\ IsRun(rows[r])
                /\ rows[r][1] \in Nat /\ Tip(rows[r]) \in Nat
                /\ a <= rows[r][1] /\ rows[r][1] <= Tip(rows[r]) /\ Tip(rows[r]) <= b
<1>1. Len(rows) \in Nat /\ Len(rows) >= 1 /\ DOMAIN rows = 1..Len(rows)
  BY EmptySeq, LenProperties DEF Chain
<1>2. ASSUME NEW r \in 1..Len(rows)
      PROVE  /\ rows[r] \in Seq(Nat) /\ IsRun(rows[r])
             /\ rows[r][1] \in Nat /\ Tip(rows[r]) \in Nat
             /\ a <= rows[r][1] /\ rows[r][1] <= Tip(rows[r]) /\ Tip(rows[r]) <= b
  <2>1. IsRun(rows[r]) /\ a <= rows[r][1] /\ Tip(rows[r]) <= b
    BY DEF Chain
  <2>2. rows[r][1] \in Nat /\ Tip(rows[r]) \in Nat /\ rows[r][1] <= Tip(rows[r])
    BY <2>1, RunLength
  <2>3. rows[r] \in Seq(Nat)
    BY <2>1 DEF IsRun
  <2>4. QED
    BY <2>1, <2>2, <2>3
<1>3. QED
  BY <1>1, <1>2

\* The sentences with a character between two take what the segment takes.
LEMMA BeforeSteps ==
    ASSUME heard \in Seq(Items), NEW words, IsRun(words), words[1] >= 1, Tip(words) <= Len(heard),
           NEW parts, Chain(parts, words[1], Tip(words))
    PROVE  /\ \A p \in 1..Len(parts) : Width(parts[p]) \in Nat /\ Before(parts, p) \in Nat
           /\ Before(parts, 1) = 0
           /\ \A p \in 1..(Len(parts) - 1) :
                Before(parts, p + 1) = Before(parts, p) + Width(parts[p]) + 1
           /\ Before(parts, Len(parts)) + Width(parts[Len(parts)]) = Width(words)
           /\ Width(words) \in Nat
<1> DEFINE D == 1..Len(heard)
           P == Len(parts)
           Q == 1..P
           widths == [q \in Q |-> Width(parts[q]) + 1]
           a == words[1]
           b == Tip(words)
<1>1. a \in Nat /\ b \in Nat /\ a <= b /\ a >= 1 /\ b <= Len(heard) /\ Chain(parts, a, b)
  BY RunLength
<1>2. Len(heard) \in Nat /\ IsFiniteSet(D) /\ \A k \in D : Cost[k] \in Nat
  <2>1. Len(heard) \in Nat /\ \A k \in D : Cost[k] \in Nat
    BY HeardFacts
  <2>2. QED
    BY <2>1, FS_Interval
<1>3. PICK G : IsSum(G, Cost, D)
  <2> HIDE DEF D
  <2>1. QED
    BY <1>2, SumExists
<1>4. Width(words) \in Nat /\ G[a..b] = Width(words) + 1
  BY <1>3, WidthsAdd
<1> HIDE DEF a, b
<1>5. /\ P \in Nat /\ P >= 1
      /\ \A q \in Q : /\ IsRun(parts[q]) /\ parts[q][1] \in Nat /\ Tip(parts[q]) \in Nat
                       /\ a <= parts[q][1] /\ parts[q][1] <= Tip(parts[q]) /\ Tip(parts[q]) <= b
      /\ parts[1][1] = a /\ Tip(parts[P]) = b
      /\ \A q \in 1..(P - 1) : parts[q + 1][1] = Tip(parts[q]) + 1
  <2>1. P \in Nat /\ P >= 1
    BY <1>1, ChainFacts
  <2>2. \A q \in Q : /\ IsRun(parts[q]) /\ parts[q][1] \in Nat /\ Tip(parts[q]) \in Nat
                     /\ a <= parts[q][1] /\ parts[q][1] <= Tip(parts[q]) /\ Tip(parts[q]) <= b
    BY <1>1, ChainFacts
  <2>3. QED
    BY <1>1, <2>1, <2>2 DEF Chain
<1>6. ASSUME NEW q \in Q
      PROVE  /\ Width(parts[q]) \in Nat /\ widths[q] \in Nat /\ widths[q] = Width(parts[q]) + 1
             /\ G[parts[q][1]..Tip(parts[q])] = Width(parts[q]) + 1
  <2>1. IsRun(parts[q]) /\ parts[q][1] >= 1 /\ Tip(parts[q]) <= Len(heard)
    <3> DEFINE f == parts[q][1]
               l == Tip(parts[q])
    <3>1. IsRun(parts[q]) /\ f \in Nat /\ l \in Nat /\ a <= f /\ l <= b
      BY <1>5
    <3> HIDE DEF f, l
    <3>2. f >= 1 /\ l <= Len(heard)
      BY <1>1, <1>2, <3>1
    <3>3. QED
      BY <3>1, <3>2 DEF f, l
  <2>2. Width(parts[q]) \in Nat /\ G[parts[q][1]..Tip(parts[q])] = Width(parts[q]) + 1
    BY <1>3, <2>1, WidthsAdd
  <2>3. QED
    BY <2>2
<1>7. IsFiniteSet(Q) /\ \A q \in Q : widths[q] \in Nat
  <2>1. IsFiniteSet(Q)
    BY <1>5, FS_Interval
  <2>2. QED
    BY <1>6, <2>1
<1> HIDE DEF widths, P
<1>8. PICK H : IsSum(H, widths, Q)
  <2> HIDE DEF Q
  <2>1. QED
    BY <1>7, SumExists
<1>9. \A p \in 1..(P + 1) : Before(parts, p) = H[1..(p - 1)] /\ Before(parts, p) \in Nat
  <2> SUFFICES ASSUME NEW p \in 1..(P + 1)
               PROVE  Before(parts, p) = H[1..(p - 1)] /\ Before(parts, p) \in Nat
    OBVIOUS
  <2> DEFINE E == 1..(p - 1)
  <2>1. p \in Nat /\ p >= 1 /\ E \subseteq Q
    BY <1>5
  <2>2. PICK h : IsSum(h, widths, E) /\ Before(parts, p) = h[E]
    <3>1. \A q \in 1..(p - 1) : widths[q] \in Nat /\ widths[q] = Width(parts[q]) + 1
      BY <1>6, <2>1
    <3>2. QED
      BY <2>1, <3>1, BeforeIs
  <2> HIDE DEF E, Q
  <2>3. h[E] = H[E] /\ H[E] \in Nat
    <3>1. h[E] = H[E]
      BY <1>7, <1>8, <2>1, <2>2, SumsAgree
    <3>2. H[E] \in Nat
      BY <1>7, <1>8, <2>1, SumType
    <3>3. QED
      BY <3>1, <3>2
  <2>4. QED
    BY <2>2, <2>3 DEF E
<1>10. ASSUME NEW p \in Q
       PROVE  Before(parts, p + 1) = Before(parts, p) + Width(parts[p]) + 1
  <2> DEFINE s == 1..p
  <2>1. /\ s \in SUBSET Q /\ p \in s /\ s \ {p} = 1..(p - 1)
        /\ p \in 1..(P + 1) /\ p + 1 \in 1..(P + 1) /\ (p + 1) - 1 = p
    BY <1>5
  <2>2. Splits(H, widths, Q)
    <3> HIDE DEF Q
    <3>1. QED
      BY <1>7, <1>8, SumSplits
  <2>3. H[s] = widths[p] + H[s \ {p}]
    <3> HIDE DEF Q, s
    <3>1. QED
      BY <2>1, <2>2 DEF Splits
  <2>4. Before(parts, p + 1) = H[s] /\ Before(parts, p) = H[s \ {p}] /\ Before(parts, p) \in Nat
    BY <1>9, <2>1
  <2>5. widths[p] = Width(parts[p]) + 1 /\ Width(parts[p]) \in Nat
    BY <1>6
  <2> HIDE DEF s
  <2>6. QED
    BY <2>3, <2>4, <2>5
<1>11. Before(parts, 1) = 0
  <2>1. 1 \in 1..(P + 1) /\ 1..(1 - 1) = {}
    BY <1>5
  <2>2. H[{}] = 0
    BY <1>7, <1>8, SumType
  <2>3. QED
    BY <1>9, <2>1, <2>2
<1> DEFINE told == {k \in Nat : k < P => Before(parts, (k + 1) + 1) = G[a..Tip(parts[k + 1])]}
<1>12. 0 \in told
  <2>1. 1 \in Q /\ 0 + 1 = 1
    BY <1>5
  <2>2. Before(parts, 1 + 1) = 0 + Width(parts[1]) + 1 /\ Width(parts[1]) \in Nat
    BY <1>6, <1>10, <1>11, <2>1
  <2>3. G[a..Tip(parts[1])] = Width(parts[1]) + 1
    BY <1>5, <1>6, <2>1
  <2>4. QED
    BY <2>1, <2>2, <2>3
<1>13. ASSUME NEW k \in Nat, k \in told
       PROVE  k + 1 \in told
  <2> SUFFICES ASSUME k + 1 < P
               PROVE  Before(parts, ((k + 1) + 1) + 1) = G[a..Tip(parts[(k + 1) + 1])]
    OBVIOUS
  <2> DEFINE q == k + 1
             x == Tip(parts[q])
             y == Tip(parts[q + 1])
  <2>1. q \in Q /\ q + 1 \in Q /\ q \in 1..(P - 1)
    BY <1>5
  <2>2. Before(parts, q + 1) = G[a..x]
    BY <1>5, <1>13
  <2> HIDE DEF q, told
  <2>3. /\ x \in Nat /\ y \in Nat /\ a <= x /\ y <= b /\ parts[q + 1][1] = x + 1 /\ x + 1 <= y
    <3>1. parts[q + 1][1] = x + 1 /\ x \in Nat /\ y \in Nat /\ y <= b
      BY <1>5, <2>1
    <3>2. parts[q + 1][1] <= y
      BY <1>5, <2>1
    <3> DEFINE f == parts[q][1]
    <3>3. f \in Nat /\ a <= f /\ f <= x
      BY <1>5, <2>1
    <3> HIDE DEF f, x, y
    <3>4. a <= x
      BY <1>1, <3>1, <3>3
    <3>5. QED
      BY <3>1, <3>2, <3>4
  <2> HIDE DEF x, y
  <2>4. G[a..y] = G[a..x] + G[(x + 1)..y]
    <3>1. /\ a..x \in SUBSET D /\ (x + 1)..y \in SUBSET (D \ (a..x))
          /\ (a..x) \cup ((x + 1)..y) = a..y
      BY <1>1, <1>2, <2>3
    <3> DEFINE s == a..x
               t == (x + 1)..y
    <3> HIDE DEF D, s, t
    <3>2. s \in SUBSET D /\ t \in SUBSET (D \ s) /\ s \cup t = a..y
      BY <3>1 DEF s, t
    <3>3. G[s \cup t] = G[s] + G[t]
      BY <1>2, <1>3, <3>2, SumJoins
    <3>4. QED
      BY <3>2, <3>3 DEF s, t
  <2>5. G[(x + 1)..y] = Width(parts[q + 1]) + 1 /\ Width(parts[q + 1]) \in Nat
    BY <1>6, <2>1, <2>3 DEF y
  <2>6. Before(parts, (q + 1) + 1) = Before(parts, q + 1) + Width(parts[q + 1]) + 1
    BY <1>10, <2>1
  <2>7. Before(parts, q + 1) \in Nat
    <3>1. q + 1 \in 1..(P + 1)
      BY <1>5, <2>1
    <3>2. QED
      BY <1>9, <3>1
  <2>8. Before(parts, (q + 1) + 1) = G[a..y]
    BY <2>2, <2>4, <2>5, <2>6, <2>7
  <2>9. QED
    BY <2>8 DEF q, y
<1> HIDE DEF told
<1>14. \A k \in Nat : k \in told
  BY <1>12, <1>13, NatSetInduction
<1>15. Before(parts, P) + Width(parts[P]) = Width(words)
  <2>1. P - 1 \in Nat /\ P - 1 < P /\ (P - 1) + 1 = P /\ P \in Q /\ P \in 1..(P + 1)
    BY <1>5
  <2>2. P - 1 \in told
    BY <1>14, <2>1
  <2>3. Before(parts, P + 1) = G[a..Tip(parts[P])]
    BY <2>1, <2>2 DEF told
  <2>4. Before(parts, P + 1) = Before(parts, P) + Width(parts[P]) + 1
    BY <1>10, <2>1
  <2>5. Before(parts, P) \in Nat /\ Width(parts[P]) \in Nat
    BY <1>6, <1>9, <2>1
  <2>6. G[a..Tip(parts[P])] = Width(words) + 1
    BY <1>4, <1>5
  <2>7. QED
    BY <1>4, <2>3, <2>4, <2>5, <2>6
<1>16. \A p \in 1..P : Width(parts[p]) \in Nat /\ Before(parts, p) \in Nat
  <2> SUFFICES ASSUME NEW p \in 1..P
               PROVE  Width(parts[p]) \in Nat /\ Before(parts, p) \in Nat
    OBVIOUS
  <2>1. p \in 1..(P + 1)
    BY <1>5
  <2>2. QED
    BY <1>6, <1>9, <2>1
<1>17. \A p \in 1..(P - 1) : Before(parts, p + 1) = Before(parts, p) + Width(parts[p]) + 1
  BY <1>5, <1>10
<1>18. QED
  BY <1>4, <1>11, <1>15, <1>16, <1>17 DEF P

-----------------------------------------------------------------------------
(* Rows with their times *)

Segments == [words : Seq(Nat), start : Nat, end : Nat, den : Nat]

\* The words of s are those after r's, and it begins after r ends.
After(r, s) ==
    /\ s.words[1] = Tip(r.words) + 1
    /\ r.end * s.den <= (s.start + s.den) * r.den

\* Rows of the words from a to b, the first of which begins when word a does and
\* the last of which ends when word b does.
Timed(rows, a, b) ==
    /\ rows \in Seq(Segments) /\ rows # <<>>
    /\ \A r \in 1..Len(rows) : IsRun(rows[r].words) /\ rows[r].start <= rows[r].end + rows[r].den
    /\ \A r \in 1..(Len(rows) - 1) : After(rows[r], rows[r + 1])
    /\ rows[1].words[1] = a /\ rows[1].start = Start(a) * rows[1].den
    /\ Tip(rows[Len(rows)].words) = b /\ rows[Len(rows)].end = End(b) * rows[Len(rows)].den

LEMMA TimesMonotonic ==
    ASSUME NEW x \in Nat, NEW y \in Nat, NEW k \in Nat, x <= y
    PROVE  x * k <= y * k /\ k * x <= k * y /\ x * k \in Nat /\ k * x = x * k
OBVIOUS

\* The time at a character of a segment is not after its end, but for the
\* millisecond that a segment of no length is taken to last.
LEMMA Interpolates ==
    ASSUME NEW from \in Nat, NEW to \in Nat, from <= to, NEW den \in Nat, NEW x \in 0..den
    PROVE  /\ Max({to - from, 1}) \in Nat
           /\ from * den + Max({to - from, 1}) * x <= to * den + den
<1> DEFINE span == Max({to - from, 1})
<1>1. span \in Nat /\ from + span <= to + 1
  <2>1. CASE to - from >= 1
    <3>1. span = to - from
      BY <2>1 DEF Max
    <3>2. QED
      BY <2>1, <3>1
  <2>2. CASE ~(to - from >= 1)
    <3>1. span = 1
      BY <2>2 DEF Max
    <3>2. QED
      BY <2>2, <3>1
  <2>3. QED
    BY <2>1, <2>2
<1> HIDE DEF span
<1>2. span * x <= span * den /\ span * x \in Nat /\ span * den \in Nat
  BY <1>1, TimesMonotonic
<1>3. (from + span) * den <= (to + 1) * den
  BY <1>1, TimesMonotonic
<1>4. (from + span) * den = from * den + span * den /\ (to + 1) * den = to * den + den
  BY <1>1
<1>5. from * den \in Nat /\ to * den \in Nat
  BY TimesMonotonic
<1>6. QED
  BY <1>1, <1>2, <1>3, <1>4, <1>5 DEF span

\* What grouping makes, and refine_segments is given.
Made(seg) ==
    /\ seg \in Segments /\ IsRun(seg.words)
    /\ seg.words[1] >= 1 /\ Tip(seg.words) <= Len(heard)
    /\ seg.start = Start(seg.words[1]) /\ seg.end = End(Tip(seg.words)) /\ seg.den = 1

LEMMA MadeFacts ==
    ASSUME heard \in Seq(Items), NEW seg, Made(seg)
    PROVE  /\ seg.words[1] \in 1..Len(heard) /\ Tip(seg.words) \in 1..Len(heard)
           /\ seg.words[1] <= Tip(seg.words) /\ Len(heard) \in Nat
           /\ seg.start \in Nat /\ seg.end \in Nat /\ seg.start <= seg.end
<1> DEFINE a == seg.words[1]
           b == Tip(seg.words)
<1>1. a \in Nat /\ b \in Nat /\ a <= b /\ a >= 1 /\ b <= Len(heard)
  BY RunLength DEF Made
<1>2. seg.start = Start(a) /\ seg.end = End(b)
  BY DEF Made
<1> HIDE DEF a, b
<1>3. Len(heard) \in Nat
  BY HeardFacts
<1>4. a \in 1..Len(heard) /\ b \in 1..Len(heard)
  BY <1>1, <1>3
<1>5. Start(a) \in Nat /\ Start(b) \in Nat /\ End(b) \in Nat /\ Start(b) <= End(b)
  BY <1>4, StartSteps
<1>6. Start(a) <= Start(b)
  BY <1>1, <1>4, StartsRise
<1>7. Start(a) <= End(b)
  BY <1>5, <1>6
<1>8. QED
  BY <1>1, <1>2, <1>3, <1>4, <1>5, <1>7 DEF a, b

LEMMA AloneTimed ==
    ASSUME heard \in Seq(Items), NEW seg, Made(seg)
    PROVE  Timed(<<seg>>, seg.words[1], Tip(seg.words))
<1>1. seg.start \in Nat /\ seg.end \in Nat /\ seg.start <= seg.end /\ seg.den = 1 /\ seg \in Segments
  BY MadeFacts DEF Made
<1>2. <<seg>> \in Seq(Segments) /\ <<seg>> # <<>> /\ Len(<<seg>>) = 1 /\ <<seg>>[1] = seg
  BY <1>1
<1>3. seg.start <= seg.end + seg.den /\ seg.start = seg.start * seg.den /\ seg.end = seg.end * seg.den
  BY <1>1
<1>4. IsRun(seg.words) /\ seg.start = Start(seg.words[1]) /\ seg.end = End(Tip(seg.words))
  BY DEF Made
<1>5. QED
  BY <1>2, <1>3, <1>4 DEF Timed

\* refine_segments keeps the words of a segment, and its times.
LEMMA RefineTimed ==
    ASSUME heard \in Seq(Items), NEW seg, Made(seg)
    PROVE  Timed(Refine(seg), seg.words[1], Tip(seg.words))
<1> DEFINE parts == Sentences(seg.words)
           P == Len(parts)
           den == Width(seg.words)
           span == Max({seg.end - seg.start, 1})
           at(p) == seg.start * den + span * Before(parts, p)
           Cut(p) == [words |-> parts[p], den |-> den, start |-> at(p),
                      end |-> IF p = P THEN seg.end * den
                              ELSE seg.start * den + span * (Before(parts, p) + Width(parts[p]))]
           rows == [p \in DOMAIN parts |-> Cut(p)]
           a == seg.words[1]
           b == Tip(seg.words)
<1>1. Refine(seg) = IF P <= 1 THEN <<seg>> ELSE rows
  BY DEF Refine, Before
<1>2. CASE P <= 1
  BY <1>1, <1>2, AloneTimed
<1>3. CASE ~(P <= 1)
  <2>1. /\ a \in 1..Len(heard) /\ b \in 1..Len(heard) /\ Len(heard) \in Nat
        /\ seg.start \in Nat /\ seg.end \in Nat /\ seg.start <= seg.end
        /\ seg.start = Start(a) /\ seg.end = End(b)
    BY MadeFacts DEF Made
  <2>2. IsRun(seg.words) /\ Chain(parts, a, b)
    BY SentencesChain DEF Made
  <2>3. /\ \A p \in 1..P : Width(parts[p]) \in Nat /\ Before(parts, p) \in Nat
        /\ Before(parts, 1) = 0
        /\ \A p \in 1..(P - 1) : Before(parts, p + 1) = Before(parts, p) + Width(parts[p]) + 1
        /\ Before(parts, P) + Width(parts[P]) = den
        /\ den \in Nat
    BY <2>2, BeforeSteps DEF Made
  <2> HIDE DEF den, a, b
  <2>4. a \in Nat /\ b \in Nat
    BY <2>1
  <2>5. P \in Nat /\ P >= 1 /\ DOMAIN parts = 1..P
    BY <2>2, <2>4, ChainFacts
  <2>6. \A p \in 1..P : parts[p] \in Seq(Nat) /\ IsRun(parts[p])
    BY <2>2, <2>4, ChainFacts
  <2>7. parts[1][1] = a /\ Tip(parts[P]) = b /\ \A p \in 1..(P - 1) : parts[p + 1][1] = Tip(parts[p]) + 1
    BY <2>2 DEF Chain
  <2> DEFINE S == seg.start
             E == seg.end
  <2>8. S \in Nat /\ E \in Nat /\ S <= E /\ S = Start(a) /\ E = End(b)
    BY <2>1
  <2> HIDE DEF parts, P, S, E
  <2>9. span \in Nat
    <3>1. 0 \in 0..den
      BY <2>3
    <3>2. span = Max({E - S, 1})
      BY DEF S, E
    <3>3. Max({E - S, 1}) \in Nat
      BY <2>3, <2>8, <3>1, Interpolates
    <3>4. QED
      BY <3>2, <3>3
  <2>10. \A x \in 0..den : S * den + span * x <= E * den + den
    <3>1. span = Max({E - S, 1})
      BY DEF S, E
    <3> HIDE DEF span
    <3>2. QED
      BY <2>3, <2>8, <3>1, Interpolates
  <2> HIDE DEF span
  <2>11. S * den \in Nat /\ E * den \in Nat
    BY <2>3, <2>8, TimesMonotonic
  <2>12. \A p \in 1..P : at(p) \in Nat /\ at(p) = S * den + span * Before(parts, p)
    <3> SUFFICES ASSUME NEW p \in 1..P
                 PROVE  at(p) \in Nat /\ at(p) = S * den + span * Before(parts, p)
      OBVIOUS
    <3>1. at(p) = S * den + span * Before(parts, p)
      BY DEF S
    <3>2. Before(parts, p) \in Nat
      BY <2>3
    <3>3. span * Before(parts, p) \in Nat
      BY <2>9, <3>2, TimesMonotonic
    <3> HIDE DEF at
    <3>4. QED
      BY <2>11, <3>1, <3>3
  <2> HIDE DEF at
  <2>13. ASSUME NEW p \in 1..(P - 1)
         PROVE  /\ Cut(p).end \in Nat /\ at(p) <= Cut(p).end
                /\ Cut(p).end <= at(p + 1)
    <3>1. p \in 1..P /\ p + 1 \in 1..P /\ p # P
      BY <2>5
    <3> DEFINE x == Before(parts, p)
               y == Width(parts[p])
    <3>2. x \in Nat /\ y \in Nat /\ Before(parts, p + 1) = x + y + 1
      BY <2>3, <3>1
    <3>3. Cut(p).end = S * den + span * (x + y)
      BY <3>1 DEF S
    <3>4. at(p) = S * den + span * x /\ at(p + 1) = S * den + span * (x + y + 1)
      BY <2>12, <3>1, <3>2
    <3> HIDE DEF x, y, Cut
    <3>5. span * x <= span * (x + y) /\ span * x \in Nat
      <4>1. x + y \in Nat /\ x <= x + y
        BY <3>2
      <4>2. QED
        BY <2>9, <3>2, <4>1, TimesMonotonic
    <3>6. span * (x + y) <= span * (x + y + 1) /\ span * (x + y) \in Nat
      <4>1. x + y \in Nat /\ x + y + 1 \in Nat /\ x + y <= x + y + 1
        BY <3>2
      <4>2. QED
        BY <2>9, <4>1, TimesMonotonic
    <3>7. span * (x + y + 1) \in Nat
      <4>1. x + y + 1 \in Nat
        BY <3>2
      <4>2. QED
        BY <2>9, <4>1, TimesMonotonic
    <3>8. QED
      BY <2>11, <3>3, <3>4, <3>5, <3>6, <3>7
  <2>14. Cut(P).end = E * den /\ Cut(P).end \in Nat /\ at(P) <= Cut(P).end + den
    <3>1. P \in 1..P
      BY <2>5
    <3>2. Before(parts, P) \in 0..den
      BY <2>3, <3>1
    <3>3. at(P) <= E * den + den
      BY <2>10, <2>12, <3>1, <3>2
    <3>4. Cut(P).end = E * den
      BY DEF E
    <3> HIDE DEF Cut
    <3>5. QED
      BY <2>11, <3>3, <3>4
  <2>15. \A p : Cut(p).words = parts[p] /\ Cut(p).den = den /\ Cut(p).start = at(p)
    OBVIOUS
  <2>16. ASSUME NEW p \in 1..P
         PROVE  /\ Cut(p) \in Segments /\ IsRun(Cut(p).words)
                /\ Cut(p).start <= Cut(p).end + Cut(p).den
    <3>1. Cut(p).end \in Nat /\ at(p) <= Cut(p).end + den
      <4>1. CASE p = P
        BY <2>14, <4>1
      <4>2. CASE p \in 1..(P - 1)
        <5>1. Cut(p).end \in Nat /\ at(p) <= Cut(p).end
          BY <2>13, <4>2
        <5>2. at(p) \in Nat
          BY <2>12
        <5> HIDE DEF Cut
        <5>3. QED
          BY <2>3, <5>1, <5>2
      <4>3. QED
        BY <2>5, <4>1, <4>2
    <3>2. parts[p] \in Seq(Nat) /\ IsRun(parts[p]) /\ at(p) \in Nat
      BY <2>6, <2>12
    <3> DEFINE end == Cut(p).end
    <3>3. end \in Nat
      BY <3>1
    <3>4. Cut(p) = [words |-> parts[p], den |-> den, start |-> at(p), end |-> end]
      OBVIOUS
    <3> HIDE DEF end
    <3>5. [words |-> parts[p], den |-> den, start |-> at(p), end |-> end] \in Segments
      BY <2>3, <3>2, <3>3 DEF Segments
    <3> HIDE DEF Cut
    <3>6. QED
      BY <2>15, <3>1, <3>2, <3>4, <3>5
  <2>17. ASSUME NEW p \in 1..(P - 1)
         PROVE  After(Cut(p), Cut(p + 1))
    <3>1. Cut(p).end \in Nat /\ Cut(p).end <= at(p + 1) /\ at(p + 1) \in Nat
      <4>1. p + 1 \in 1..P
        BY <2>5
      <4>2. QED
        BY <2>12, <2>13, <4>1
    <3>2. /\ Cut(p).words = parts[p] /\ Cut(p + 1).words = parts[p + 1]
          /\ Cut(p).den = den /\ Cut(p + 1).den = den /\ Cut(p + 1).start = at(p + 1)
      BY <2>15
    <3>3. parts[p + 1][1] = Tip(parts[p]) + 1
      BY <2>7
    <3> DEFINE x == Cut(p).end
               y == at(p + 1)
    <3>4. x \in Nat /\ y \in Nat /\ x <= y
      BY <3>1
    <3> HIDE DEF x, y
    <3>5. y + den \in Nat /\ x <= y + den
      BY <2>3, <3>4
    <3>6. x * den <= (y + den) * den
      BY <2>3, <3>4, <3>5, TimesMonotonic
    <3>7. Cut(p).end * Cut(p + 1).den <= (Cut(p + 1).start + Cut(p + 1).den) * Cut(p).den
      BY <3>2, <3>6 DEF x, y
    <3> HIDE DEF Cut
    <3>8. QED
      BY <3>2, <3>3, <3>7 DEF After
  <2>18. Cut(1).start = S * den
    <3>1. 1 \in 1..P /\ span * 0 = 0 /\ S * den + 0 = S * den
      BY <2>5, <2>9, <2>11
    <3>2. QED
      BY <2>3, <2>12, <2>15, <3>1
  <2> HIDE DEF Cut
  <2>19. rows \in Seq(Segments) /\ Len(rows) = P /\ \A p \in 1..P : rows[p] = Cut(p)
    BY <2>5, <2>16
  <2> HIDE DEF rows
  <2>20. rows # <<>>
    BY <2>5, <2>19
  <2>21. \A p \in 1..P : IsRun(rows[p].words) /\ rows[p].start <= rows[p].end + rows[p].den
    BY <2>16, <2>19
  <2>22. \A p \in 1..(P - 1) : After(rows[p], rows[p + 1])
    <3> SUFFICES ASSUME NEW p \in 1..(P - 1)
                 PROVE  After(rows[p], rows[p + 1])
      OBVIOUS
    <3>1. p \in 1..P /\ p + 1 \in 1..P
      BY <2>5
    <3>2. QED
      BY <2>17, <2>19, <3>1
  <2>23. 1 \in 1..P /\ P \in 1..P
    BY <2>5
  <2>24. rows[1].words[1] = a /\ rows[1].start = Start(a) * rows[1].den
    BY <2>7, <2>8, <2>15, <2>18, <2>19, <2>23
  <2>25. Tip(rows[P].words) = b /\ rows[P].end = End(b) * rows[P].den
    BY <2>7, <2>8, <2>14, <2>15, <2>19, <2>23
  <2>26. Timed(rows, a, b)
    BY <2>19, <2>20, <2>21, <2>22, <2>24, <2>25 DEF Timed
  <2>27. Refine(seg) = rows
    BY <1>1, <1>3 DEF P, parts
  <2>28. QED
    BY <2>26, <2>27 DEF a, b
<1>4. QED
  BY <1>2, <1>3

-----------------------------------------------------------------------------
(* Rows in a row *)

LEMMA TimedFacts ==
    ASSUME NEW rows, NEW a, NEW b, Timed(rows, a, b)
    PROVE  /\ Len(rows) \in Nat /\ Len(rows) >= 1 /\ DOMAIN rows = 1..Len(rows)
           /\ rows \in Seq(Segments)
           /\ \A r \in 1..Len(rows) :
                /\ rows[r].words \in Seq(Nat) /\ IsRun(rows[r].words) /\ rows[r] \in Segments
                /\ rows[r].start \in Nat /\ rows[r].end \in Nat /\ rows[r].den \in Nat
<1>1. Len(rows) \in Nat /\ Len(rows) >= 1 /\ DOMAIN rows = 1..Len(rows) /\ rows \in Seq(Segments)
  BY EmptySeq, LenProperties DEF Timed
<1>2. \A r \in 1..Len(rows) : rows[r] \in Segments
  BY <1>1, ElementOfSeq
<1>3. \A r \in 1..Len(rows) : /\ rows[r].words \in Seq(Nat)
                               /\ rows[r].start \in Nat /\ rows[r].end \in Nat /\ rows[r].den \in Nat
  BY <1>2 DEF Segments
<1>4. \A r \in 1..Len(rows) : IsRun(rows[r].words)
  BY DEF Timed
<1>5. QED
  BY <1>1, <1>2, <1>3, <1>4

LEMMA TimedJoins ==
    ASSUME heard \in Seq(Items), NEW a, NEW b \in 1..Len(heard), b + 1 \in 1..Len(heard), NEW c,
           NEW rows, Timed(rows, a, b), NEW more, Timed(more, b + 1, c)
    PROVE  Timed(rows \o more, a, c)
<1> DEFINE m == Len(rows)
           k == Len(more)
           both == rows \o more
<1>1. /\ m \in Nat /\ m >= 1 /\ rows \in Seq(Segments)
      /\ k \in Nat /\ k >= 1 /\ more \in Seq(Segments)
  BY TimedFacts
<1>2. /\ both \in Seq(Segments) /\ Len(both) = m + k
      /\ \A r \in 1..(m + k) : both[r] = IF r <= m THEN rows[r] ELSE more[r - m]
  BY <1>1, ConcatProperties
<1> HIDE DEF m, k, both
<1>3. /\ \A r \in 1..m : r \in 1..(m + k) /\ both[r] = rows[r]
      /\ \A r \in 1..k : m + r \in 1..(m + k) /\ both[m + r] = more[r]
  BY <1>1, <1>2
<1>4. After(rows[m], more[1])
  <2> DEFINE r == rows[m]
             s == more[1]
  <2>1. m \in 1..m /\ 1 \in 1..k
    BY <1>1
  <2>2. r.den \in Nat /\ s.den \in Nat
    <3>1. r.den \in Nat
      BY <2>1, TimedFacts DEF m
    <3>2. s.den \in Nat
      BY <2>1, TimedFacts DEF k
    <3>3. QED
      BY <3>1, <3>2
  <2>3. Tip(r.words) = b /\ r.end = End(b) * r.den /\ s.words[1] = b + 1 /\ s.start = Start(b + 1) * s.den
    BY DEF Timed, m
  <2> DEFINE e == End(b)
             f == Start(b + 1)
             d == r.den
             g == s.den
  <2>4. e \in Nat /\ f \in Nat /\ e <= f /\ d \in Nat /\ g \in Nat
    BY <2>2, StartSteps
  <2>5. r.end = e * d /\ s.start = f * g
    BY <2>3
  <2> HIDE DEF e, f
  <2>6. (e * d) * g <= (f * g + g) * d
    <3> HIDE DEF d, g
    <3>1. e * d <= f * d /\ e * d \in Nat
      BY <2>4, TimesMonotonic
    <3>2. f * d \in Nat
      BY <2>4, TimesMonotonic
    <3>3. (e * d) * g <= (f * d) * g
      BY <2>4, <3>1, <3>2, TimesMonotonic
    <3>4. (f * d) * g = (f * g) * d
      BY <2>4
    <3>5. f * g \in Nat
      BY <2>4, TimesMonotonic
    <3>6. f * g + g \in Nat /\ f * g <= f * g + g
      BY <2>4, <3>5
    <3>7. (f * g) * d <= (f * g + g) * d
      BY <2>4, <3>5, <3>6, TimesMonotonic
    <3>8. (e * d) * g \in Nat /\ (f * g) * d \in Nat /\ (f * g + g) * d \in Nat
      BY <2>4, <3>1, <3>5, <3>6, TimesMonotonic
    <3> DEFINE p == (e * d) * g
               q == (f * g) * d
               w == (f * g + g) * d
    <3>9. p <= q /\ q <= w /\ p \in Nat /\ q \in Nat /\ w \in Nat
      BY <3>3, <3>4, <3>7, <3>8
    <3> HIDE DEF p, q, w
    <3>10. p <= w
      BY <3>9
    <3>11. QED
      BY <3>10 DEF p, w
  <2>7. r.end * s.den <= (s.start + s.den) * r.den
    BY <2>5, <2>6
  <2>8. s.words[1] = Tip(r.words) + 1
    BY <2>3
  <2> HIDE DEF r, s
  <2>9. After(r, s)
    BY <2>7, <2>8 DEF After
  <2>10. QED
    BY <2>9 DEF r, s
<1>5. ASSUME NEW r \in 1..(m + k)
      PROVE  IsRun(both[r].words) /\ both[r].start <= both[r].end + both[r].den
  <2>1. CASE r \in 1..m
    BY <1>3, <2>1 DEF Timed, m
  <2>2. CASE r - m \in 1..k
    <3>1. r = m + (r - m)
      BY <1>1
    <3>2. both[r] = more[r - m]
      BY <1>3, <2>2, <3>1
    <3>3. QED
      BY <2>2, <3>2 DEF Timed, k
  <2>3. QED
    BY <1>1, <2>1, <2>2
<1>6. ASSUME NEW r \in 1..(m + k - 1)
      PROVE  After(both[r], both[r + 1])
  <2>1. CASE r \in 1..(m - 1)
    <3>1. r \in 1..m /\ r + 1 \in 1..m
      BY <1>1, <2>1
    <3>2. both[r] = rows[r] /\ both[r + 1] = rows[r + 1]
      BY <1>3, <3>1
    <3>3. After(rows[r], rows[r + 1])
      BY <2>1 DEF Timed, m
    <3>4. QED
      BY <3>2, <3>3
  <2>2. CASE r = m
    <3>1. m \in 1..m /\ 1 \in 1..k
      BY <1>1
    <3>2. both[m] = rows[m] /\ both[m + 1] = more[1]
      BY <1>3, <3>1
    <3>3. QED
      BY <1>4, <2>2, <3>2
  <2>3. CASE r - m \in 1..(k - 1)
    <3> DEFINE q == r - m
    <3>1. q \in 1..k /\ q + 1 \in 1..k /\ r = m + q /\ r + 1 = m + (q + 1)
      BY <1>1, <2>3
    <3>2. both[r] = more[q] /\ both[r + 1] = more[q + 1]
      BY <1>3, <3>1
    <3>3. After(more[q], more[q + 1])
      BY <2>3 DEF Timed, k
    <3>4. QED
      BY <3>2, <3>3
  <2>4. QED
    BY <1>1, <2>1, <2>2, <2>3
<1>7. both[1] = rows[1] /\ both[m + k] = more[k] /\ both # <<>>
  <2>1. 1 \in 1..m /\ k \in 1..k /\ m + k >= 1
    BY <1>1
  <2>2. both[1] = rows[1] /\ both[m + k] = more[k]
    BY <1>3, <2>1
  <2>3. QED
    BY <1>2, <2>1, <2>2
<1>8. /\ rows[1].words[1] = a /\ rows[1].start = Start(a) * rows[1].den
      /\ Tip(more[k].words) = c /\ more[k].end = End(c) * more[k].den
  BY DEF Timed, k
<1>9. Timed(both, a, c)
  <2>1. \A r \in 1..Len(both) : IsRun(both[r].words) /\ both[r].start <= both[r].end + both[r].den
    BY <1>2, <1>5
  <2>2. ASSUME NEW r \in 1..(Len(both) - 1)
        PROVE  After(both[r], both[r + 1])
    <3>1. r \in 1..(m + k - 1)
      BY <1>1, <1>2
    <3>2. QED
      BY <1>6, <3>1
  <2>3. both[1].words[1] = a /\ both[1].start = Start(a) * both[1].den
    BY <1>7, <1>8
  <2>4. Tip(both[Len(both)].words) = c /\ both[Len(both)].end = End(c) * both[Len(both)].den
    BY <1>2, <1>7, <1>8
  <2>5. QED
    BY <1>2, <1>7, <2>1, <2>2, <2>3, <2>4 DEF Timed
<1>10. QED
  BY <1>9 DEF both

\* The segments of a result.
Grouped(rows) ==
    Timed(rows, 1, Len(heard)) /\ \A r \in 1..Len(rows) : Made(rows[r])

\* What the recogniser gives, grouped or not, is what refine_segments expects.
LEMMA RowsAreGrouped ==
    ASSUME heard \in Seq(Items), heard # <<>>, NEW at
    PROVE  Grouped(RowsAt(at))
<1> DEFINE n == Len(heard)
<1>1. PICK rows : Chain(rows, 1, n) /\ RowsAt(at) = [r \in DOMAIN rows |-> Row(rows[r])]
  BY RowsChain
<1>2. n \in Nat
  BY HeardFacts
<1> DEFINE m == Len(rows)
           made == RowsAt(at)
<1> HIDE DEF n
<1>3. /\ m \in Nat /\ m >= 1 /\ DOMAIN rows = 1..m
      /\ \A r \in 1..m :
           /\ rows[r] \in Seq(Nat) /\ IsRun(rows[r]) /\ rows[r][1] \in Nat /\ Tip(rows[r]) \in Nat
           /\ 1 <= rows[r][1] /\ rows[r][1] <= Tip(rows[r]) /\ Tip(rows[r]) <= n
  BY <1>1, <1>2, ChainFacts
<1>4. /\ rows[1][1] = 1 /\ Tip(rows[m]) = n
      /\ \A r \in 1..(m - 1) : rows[r + 1][1] = Tip(rows[r]) + 1
  BY <1>1 DEF Chain
<1>5. \A r \in 1..m : made[r] = Row(rows[r])
  BY <1>1, <1>3
<1> HIDE DEF m
<1>6. ASSUME NEW r \in 1..m
      PROVE  /\ Made(made[r]) /\ made[r].words = rows[r] /\ made[r].den = 1
             /\ made[r].start = Start(rows[r][1]) /\ made[r].end = End(Tip(rows[r]))
  <2> DEFINE a == rows[r][1]
             b == Tip(rows[r])
  <2>1. made[r] = [words |-> rows[r], start |-> Start(a), end |-> End(b), den |-> 1]
    BY <1>5 DEF Row, Tip
  <2>2. rows[r] \in Seq(Nat) /\ IsRun(rows[r]) /\ a \in Nat /\ b \in Nat /\ 1 <= a /\ a <= b /\ b <= n
    BY <1>3
  <2> HIDE DEF a, b, made
  <2>3. a \in 1..n /\ b \in 1..n
    BY <1>2, <2>2
  <2>4. Start(a) \in Nat /\ End(b) \in Nat
    BY <2>3, StartSteps DEF n
  <2>5. made[r] \in Segments
    BY <2>1, <2>2, <2>4 DEF Segments
  <2>6. /\ made[r].words = rows[r] /\ made[r].den = 1
        /\ made[r].start = Start(a) /\ made[r].end = End(b)
    BY <2>1
  <2>7. a >= 1 /\ b <= n
    BY <2>3
  <2>8. Made(made[r])
    <3> DEFINE seg == made[r]
    <3>1. seg.words = rows[r] /\ seg.words[1] = a /\ Tip(seg.words) = b
      BY <2>6 DEF a, b
    <3>2. seg \in Segments /\ seg.start = Start(a) /\ seg.end = End(b) /\ seg.den = 1
      BY <2>5, <2>6
    <3>3. IsRun(rows[r])
      BY <2>2
    <3> HIDE DEF seg
    <3>4. Made(seg)
      BY <2>7, <3>1, <3>2, <3>3 DEF Made, n
    <3>5. QED
      BY <3>4 DEF seg
  <2>9. QED
    BY <2>6, <2>8 DEF a, b
<1>7. made \in Seq(Segments) /\ Len(made) = m
  <2>1. \A r \in 1..m : Row(rows[r]) \in Segments
    BY <1>5, <1>6 DEF Made
  <2>2. RowsAt(at) = [r \in 1..m |-> Row(rows[r])]
    BY <1>1, <1>3
  <2> DEFINE R(r) == Row(rows[r])
  <2> HIDE DEF R
  <2>3. \A r \in 1..m : R(r) \in Segments
    BY <2>1 DEF R
  <2>4. [r \in 1..m |-> R(r)] \in Seq(Segments) /\ Len([r \in 1..m |-> R(r)]) = m
    BY <1>3, <2>3
  <2>5. QED
    BY <2>2, <2>4 DEF R
<1> HIDE DEF made
<1>8. ASSUME NEW r \in 1..m
      PROVE  IsRun(made[r].words) /\ made[r].start <= made[r].end + made[r].den
  <2>1. made[r].start \in Nat /\ made[r].end \in Nat /\ made[r].start <= made[r].end
    BY <1>6, MadeFacts
  <2>2. made[r].den = 1 /\ IsRun(made[r].words)
    BY <1>6 DEF Made
  <2>3. QED
    BY <2>1, <2>2
<1>9. ASSUME NEW r \in 1..(m - 1)
      PROVE  After(made[r], made[r + 1])
  <2>1. r \in 1..m /\ r + 1 \in 1..m
    BY <1>3
  <2>2. made[r + 1].words[1] = Tip(made[r].words) + 1
    BY <1>4, <1>6, <2>1
  <2> DEFINE b == Tip(rows[r])
  <2>3. /\ made[r].end = End(b) /\ made[r].den = 1
        /\ made[r + 1].start = Start(b + 1) /\ made[r + 1].den = 1
    BY <1>4, <1>6, <2>1
  <2>4. b \in 1..n
    <3>1. b \in Nat /\ rows[r][1] \in Nat /\ 1 <= rows[r][1] /\ rows[r][1] <= b /\ b <= n
      BY <1>3, <2>1
    <3> HIDE DEF b
    <3>2. QED
      BY <1>2, <3>1
  <2> HIDE DEF b
  <2>5. End(b) \in Nat /\ Start(b + 1) \in Nat /\ End(b) <= Start(b + 1)
    BY <2>4, StartSteps DEF n
  <2>6. made[r].end * made[r + 1].den <= (made[r + 1].start + made[r + 1].den) * made[r].den
    BY <2>3, <2>5
  <2>7. QED
    BY <2>2, <2>6 DEF After
<1>10. 1 \in 1..m /\ m \in 1..m
  BY <1>3
<1>11. made # <<>>
  BY <1>3, <1>7
<1>12. made[1].words[1] = 1 /\ made[1].start = Start(1) * made[1].den
  <2>1. made[1].words = rows[1] /\ made[1].start = Start(rows[1][1]) /\ made[1].den = 1
    BY <1>6, <1>10
  <2>2. made[1].start = Start(1) /\ made[1].start \in Nat
    BY <1>4, <1>6, <1>10, <2>1, MadeFacts
  <2>3. QED
    BY <1>4, <2>1, <2>2
<1>13. Tip(made[m].words) = n /\ made[m].end = End(n) * made[m].den
  <2>1. made[m].words = rows[m] /\ made[m].end = End(Tip(rows[m])) /\ made[m].den = 1
    BY <1>6, <1>10
  <2>2. made[m].end = End(n) /\ made[m].end \in Nat
    BY <1>4, <1>6, <1>10, <2>1, MadeFacts
  <2>3. QED
    BY <1>4, <2>1, <2>2
<1>14. Timed(made, 1, n)
  BY <1>7, <1>8, <1>9, <1>11, <1>12, <1>13 DEF Timed
<1>15. QED
  BY <1>6, <1>7, <1>14 DEF Grouped, n, made

\* The rows of a payload.
LEMMA PayloadTimed ==
    ASSUME heard \in Seq(Items), NEW rows, Grouped(rows)
    PROVE  Timed(FlattenSeq([r \in DOMAIN rows |-> Refine(rows[r])]), 1, Len(heard))
<1> DEFINE m == Len(rows)
           n == Len(heard)
           seqs == [r \in DOMAIN rows |-> Refine(rows[r])]
           last(r) == Tip(rows[r].words)
<1>1. m \in Nat /\ m >= 1 /\ DOMAIN rows = 1..m /\ Timed(rows, 1, n)
  BY TimedFacts DEF Grouped
<1>2. Len(seqs) = m /\ \A r \in 1..m : seqs[r] = Refine(rows[r])
  <2> DEFINE R(r) == Refine(rows[r])
  <2>1. seqs = [r \in 1..m |-> R(r)]
    BY <1>1
  <2> HIDE DEF R, m, seqs
  <2>2. Len(seqs) = m /\ \A r \in 1..m : seqs[r] = R(r)
    BY <1>1, <2>1
  <2>3. QED
    BY <2>2 DEF R
<1> HIDE DEF m, n, seqs
<1>3. ASSUME NEW r \in 1..m
      PROVE  /\ Timed(seqs[r], rows[r].words[1], last(r))
             /\ rows[r].words[1] \in 1..n /\ last(r) \in 1..n
  <2>1. Made(rows[r])
    BY DEF Grouped, m
  <2>2. QED
    BY <1>2, <2>1, RefineTimed, MadeFacts DEF n
<1>4. /\ rows[1].words[1] = 1 /\ last(m) = n
      /\ \A r \in 1..(m - 1) : rows[r + 1].words[1] = last(r) + 1
  BY <1>1 DEF Timed, After, m
<1> HIDE DEF last
<1>5. PICK f : /\ f[1] = seqs[1] /\ FlattenSeq(seqs) = f[m]
               /\ \A r \in 2..m : f[r] = f[r - 1] \o seqs[r]
  BY <1>1, <1>2, FlattenUnfolds
<1> DEFINE joined == {k \in Nat : k < m => Timed(f[k + 1], 1, last(k + 1))}
<1>6. 0 \in joined
  <2>1. 1 \in 1..m /\ 0 + 1 = 1
    BY <1>1
  <2>2. Timed(f[1], 1, last(1))
    BY <1>3, <1>4, <1>5, <2>1
  <2>3. QED
    BY <2>1, <2>2
<1>7. ASSUME NEW k \in Nat, k \in joined
      PROVE  k + 1 \in joined
  <2> SUFFICES ASSUME k + 1 < m
               PROVE  Timed(f[(k + 1) + 1], 1, last((k + 1) + 1))
    OBVIOUS
  <2> DEFINE q == k + 1
  <2>1. q \in 1..(m - 1) /\ q \in 1..m /\ q + 1 \in 1..m /\ q + 1 \in 2..m /\ (q + 1) - 1 = q
    BY <1>1
  <2>2. Timed(f[q], 1, last(q))
    BY <1>1, <1>7
  <2> HIDE DEF q, joined
  <2>3. f[q + 1] = f[q] \o seqs[q + 1]
    BY <1>5, <2>1
  <2>4. Timed(seqs[q + 1], last(q) + 1, last(q + 1)) /\ last(q) \in 1..n /\ last(q) + 1 \in 1..n
    BY <1>3, <1>4, <2>1
  <2>5. Timed(f[q] \o seqs[q + 1], 1, last(q + 1))
    BY <2>2, <2>4, TimedJoins DEF n
  <2>6. QED
    BY <2>3, <2>5 DEF q
<1> HIDE DEF joined
<1>8. \A k \in Nat : k \in joined
  BY <1>6, <1>7, NatSetInduction
<1>9. m - 1 \in Nat /\ m - 1 < m /\ (m - 1) + 1 = m
  BY <1>1
<1>10. m - 1 \in joined
  BY <1>8, <1>9
<1>11. Timed(f[m], 1, n)
  BY <1>4, <1>9, <1>10 DEF joined
<1>12. QED
  BY <1>5, <1>11 DEF seqs, n

\* The words 1 to x.
Upto(x) == [k \in 1..x |-> k]

\* Rows of all the words hold each once, in order.
LEMMA TimedWords ==
    ASSUME NEW n \in Nat, NEW rows, Timed(rows, 1, n)
    PROVE  FlattenSeq([r \in DOMAIN rows |-> rows[r].words]) = Upto(n)
<1> DEFINE m == Len(rows)
           words == [r \in DOMAIN rows |-> rows[r].words]
           last(r) == Tip(rows[r].words)
<1>1. m \in Nat /\ m >= 1 /\ DOMAIN rows = 1..m
  BY TimedFacts
<1>2. Len(words) = m /\ \A r \in 1..m : words[r] = rows[r].words
  <2> DEFINE R(r) == rows[r].words
  <2>1. words = [r \in 1..m |-> R(r)]
    BY <1>1
  <2> HIDE DEF R, m, words
  <2>2. Len(words) = m /\ \A r \in 1..m : words[r] = R(r)
    BY <1>1, <2>1
  <2>3. QED
    BY <2>2 DEF R
<1>3. /\ rows[1].words[1] = 1 /\ last(m) = n
      /\ \A r \in 1..(m - 1) : rows[r + 1].words[1] = last(r) + 1
  BY DEF Timed, After
<1>4. \A r \in 1..m : IsRun(rows[r].words)
  BY TimedFacts
<1> HIDE DEF m, words
<1>5. ASSUME NEW r \in 1..m
      PROVE  /\ words[r] \in Seq(Nat) /\ Len(words[r]) \in Nat /\ last(r) \in Nat
             /\ Len(words[r]) = last(r) - words[r][1] + 1
             /\ \A k \in 1..Len(words[r]) : words[r][k] = words[r][1] + k - 1
             /\ words[r][1] \in Nat /\ words[r] = rows[r].words
  <2>1. words[r] = rows[r].words /\ IsRun(words[r])
    BY <1>2, <1>4
  <2>2. /\ Len(words[r]) \in Nat /\ Len(words[r]) = Tip(words[r]) - words[r][1] + 1
        /\ words[r][1] \in Nat /\ Tip(words[r]) \in Nat
    BY <2>1, RunLength
  <2>3. last(r) = Tip(words[r])
    BY <2>1
  <2>4. words[r] \in Seq(Nat) /\ \A k \in 1..Len(words[r]) : words[r][k] = words[r][1] + k - 1
    BY <2>1 DEF IsRun
  <2>5. QED
    BY <2>1, <2>2, <2>3, <2>4
<1> HIDE DEF last
\* Words from x + 1 on come after the words up to x.
<1>6. ASSUME NEW x \in Nat, NEW w \in Seq(Nat), Len(w) \in Nat,
             \A k \in 1..Len(w) : w[k] = x + k
      PROVE  Upto(x) \o w = Upto(x + Len(w))
  <2>1. Upto(x) \in Seq(Nat) /\ Len(Upto(x)) = x /\ \A k \in 1..x : Upto(x)[k] = k
    BY DEF Upto
  <2> DEFINE y == x + Len(w)
             both == Upto(x) \o w
  <2>2. y \in Nat
    BY <1>6
  <2>3. Upto(y) \in Seq(Nat) /\ Len(Upto(y)) = y /\ \A k \in 1..y : Upto(y)[k] = k
    BY <2>2 DEF Upto
  <2>4. /\ both \in Seq(Nat) /\ Len(both) = x + Len(w)
        /\ \A k \in 1..(x + Len(w)) : both[k] = IF k <= x THEN Upto(x)[k] ELSE w[k - x]
    <3> DEFINE u == Upto(x)
    <3>1. u \in Seq(Nat) /\ Len(u) = x
      BY <2>1
    <3> HIDE DEF u
    <3>2. /\ u \o w \in Seq(Nat) /\ Len(u \o w) = Len(u) + Len(w)
          /\ \A k \in 1..(Len(u) + Len(w)) : (u \o w)[k] = IF k <= Len(u) THEN u[k] ELSE w[k - Len(u)]
      BY <1>6, <3>1, ConcatProperties
    <3>3. QED
      BY <3>1, <3>2 DEF u
  <2> HIDE DEF both
  <2>5. ASSUME NEW k \in 1..y
        PROVE  both[k] = k
    <3>1. CASE k <= x
      BY <2>1, <2>4, <3>1
    <3>2. CASE ~(k <= x)
      <4>1. k - x \in 1..Len(w)
        BY <1>6, <3>2
      <4>2. both[k] = w[k - x] /\ w[k - x] = x + (k - x)
        BY <1>6, <2>4, <3>2, <4>1
      <4>3. x + (k - x) = k
        OBVIOUS
      <4>4. QED
        BY <4>2, <4>3
    <3>3. QED
      BY <3>1, <3>2
  <2>6. both = Upto(y)
    <3>1. Len(both) = Len(Upto(y)) /\ \A k \in 1..Len(both) : both[k] = Upto(y)[k]
      BY <2>3, <2>4, <2>5
    <3>2. QED
      BY <2>3, <2>4, <3>1, SeqEqual
  <2>7. QED
    BY <2>6 DEF both, y
<1>7. PICK f : /\ f[1] = words[1] /\ FlattenSeq(words) = f[m]
               /\ \A r \in 2..m : f[r] = f[r - 1] \o words[r]
  BY <1>1, <1>2, FlattenUnfolds
<1> DEFINE told == {k \in Nat : k < m => f[k + 1] = Upto(last(k + 1))}
<1>8. 0 \in told
  <2>1. 1 \in 1..m /\ 0 + 1 = 1
    BY <1>1
  <2> DEFINE w == words[1]
  <2>2. /\ w \in Seq(Nat) /\ Len(w) \in Nat /\ Len(w) = last(1)
        /\ \A k \in 1..Len(w) : w[k] = k
    <3>1. /\ w \in Seq(Nat) /\ Len(w) \in Nat /\ last(1) \in Nat /\ w[1] = 1
          /\ Len(w) = last(1) - w[1] + 1 /\ \A k \in 1..Len(w) : w[k] = w[1] + k - 1
      BY <1>3, <1>5, <2>1
    <3> HIDE DEF w
    <3>2. Len(w) = last(1) /\ \A k \in 1..Len(w) : w[k] = k
      BY <3>1
    <3>3. QED
      BY <3>1, <3>2
  <2> HIDE DEF w
  <2>3. w = Upto(last(1))
    <3> DEFINE u == Upto(Len(w))
    <3>1. u \in Seq(Nat) /\ Len(u) = Len(w) /\ \A k \in 1..Len(w) : u[k] = k
      BY <2>2 DEF Upto
    <3> HIDE DEF u
    <3>2. w = u
      BY <2>2, <3>1, SeqEqual
    <3>3. QED
      BY <2>2, <3>2 DEF u
  <2>4. QED
    BY <1>7, <2>1, <2>3 DEF w
<1>9. ASSUME NEW k \in Nat, k \in told
      PROVE  k + 1 \in told
  <2> SUFFICES ASSUME k + 1 < m
               PROVE  f[(k + 1) + 1] = Upto(last((k + 1) + 1))
    OBVIOUS
  <2> DEFINE q == k + 1
             w == words[q + 1]
             x == last(q)
  <2>1. q \in 1..(m - 1) /\ q \in 1..m /\ q + 1 \in 1..m /\ q + 1 \in 2..m /\ (q + 1) - 1 = q
    BY <1>1
  <2>2. f[q] = Upto(x)
    BY <1>1, <1>9
  <2> HIDE DEF q, told
  <2>3. f[q + 1] = Upto(x) \o w
    BY <1>7, <2>1, <2>2
  <2>4. /\ w \in Seq(Nat) /\ Len(w) \in Nat /\ last(q + 1) \in Nat /\ x \in Nat
        /\ Len(w) = last(q + 1) - w[1] + 1 /\ \A j \in 1..Len(w) : w[j] = w[1] + j - 1
        /\ w[1] = x + 1
    BY <1>3, <1>5, <2>1
  <2> HIDE DEF w, x
  <2>5. Len(w) + x = last(q + 1) /\ \A j \in 1..Len(w) : w[j] = x + j
    BY <2>4
  <2>6. Upto(x) \o w = Upto(x + Len(w))
    BY <1>6, <2>4, <2>5
  <2>7. x + Len(w) = last(q + 1)
    BY <2>4, <2>5
  <2>8. QED
    BY <2>3, <2>6, <2>7 DEF q
<1> HIDE DEF told
<1>10. \A k \in Nat : k \in told
  BY <1>8, <1>9, NatSetInduction
<1>11. m - 1 \in Nat /\ m - 1 < m /\ (m - 1) + 1 = m
  BY <1>1
<1>12. m - 1 \in told
  BY <1>10, <1>11
<1>13. f[m] = Upto(n)
  BY <1>3, <1>11, <1>12 DEF told
<1>14. QED
  BY <1>7, <1>13 DEF words

-----------------------------------------------------------------------------
(* The invariant *)

\* Grouped segments until they are refined.
IInv ==
    /\ heard \in Texts
    /\ stage \in {"new", "heard", "processed", "payload", "normalized"}
    /\ stage \in {"new", "normalized"} => segments = <<>>
    /\ stage \in {"heard", "processed"} =>
         IF heard = <<>> THEN segments = <<>> ELSE Grouped(segments)
    /\ stage = "payload" => segments = <<>> \/ Timed(segments, 1, Len(heard))

\* Start and End are of what was heard.
StartOf(h, i) == MapThenSumSet(LAMBDA k : h[k].dur + h[k].pause, 1..(i - 1))

LEMMA TimesStay ==
    ASSUME heard' = heard
    PROVE  \A i : Start(i)' = Start(i) /\ End(i)' = End(i)
<1>1. ASSUME NEW i
      PROVE  Start(i)' = StartOf(heard', i)
  BY DEF Start, StartOf, MapThenSumSet, MapThenFoldSet
<1>2. ASSUME NEW i
      PROVE  Start(i) = StartOf(heard, i)
  BY DEF Start, StartOf, MapThenSumSet, MapThenFoldSet
<1> HIDE DEF StartOf
<1>3. \A i : Start(i)' = Start(i)
  BY <1>1, <1>2
<1>4. \A i : End(i)' = End(i)
  BY <1>3 DEF End
<1>5. QED
  BY <1>3, <1>4

LEMMA IInvAlways == Spec => []IInv
<1>1. Init => IInv
  BY DEF Init, IInv
<1>2. IInv /\ [Next]_vars => IInv'
  <2> SUFFICES ASSUME IInv, [Next]_vars
               PROVE  IInv'
    OBVIOUS
  <2>1. heard \in Seq(Items)
    BY TextsAssumption DEF IInv
  <2>2. heard' = heard
    BY DEF Next, Transcribe, Process, Payload, Normalize, vars
  <2>3. \A i : Start(i)' = Start(i) /\ End(i)' = End(i)
    BY <2>2, TimesStay
  <2>4. ASSUME segments' = segments
        PROVE  /\ Grouped(segments) => Grouped(segments)'
               /\ Timed(segments, 1, Len(heard)) => Timed(segments, 1, Len(heard))'
    BY <2>2, <2>3, <2>4 DEF Grouped, Timed, Made
  <2>5. CASE Transcribe
    <3>0. PICK at : segments' = RowsAt(at)
      BY <2>5 DEF Transcribe, GroupWords
    <3>1. CASE heard = <<>>
      <4>1. RowsAt(at) = <<>>
        BY <3>1, NoWordsNoRows
      <4>2. QED
        BY <2>5, <3>0, <3>1, <4>1 DEF IInv, Transcribe
    <3>2. CASE heard # <<>>
      <4> DEFINE rows == RowsAt(at)
      <4>1. Grouped(rows)
        BY <2>1, <3>2, RowsAreGrouped
      <4>2. segments' = rows /\ stage' = "heard"
        BY <2>5, <3>0 DEF Transcribe
      <4> HIDE DEF rows
      <4>3. Grouped(segments)'
        BY <2>2, <2>3, <4>1, <4>2 DEF Grouped, Timed, Made
      <4>4. QED
        BY <2>2, <3>2, <4>2, <4>3 DEF IInv
    <3>3. QED
      BY <3>1, <3>2
  <2>6. CASE Process
    BY <2>2, <2>4, <2>6 DEF IInv, Process
  <2>7. CASE Payload
    <3> DEFINE rows == FlattenSeq([s \in DOMAIN segments |-> Refine(segments[s])])
    <3>1. segments' = rows /\ stage' = "payload" /\ stage = "processed"
      BY <2>7 DEF Payload
    <3>2. CASE heard = <<>>
      <4>1. segments = <<>>
        BY <3>1, <3>2 DEF IInv
      <4>2. [s \in DOMAIN segments |-> Refine(segments[s])] = <<>>
        BY <4>1
      <4>3. rows = <<>>
        BY <4>2, FlattenOfNone
      <4>4. QED
        BY <2>2, <3>1, <4>3 DEF IInv
    <3>3. CASE heard # <<>>
      <4>1. Grouped(segments)
        BY <3>1, <3>3 DEF IInv
      <4>2. Timed(rows, 1, Len(heard))
        BY <2>1, <4>1, PayloadTimed
      <4> HIDE DEF rows
      <4>3. Timed(segments, 1, Len(heard))'
        BY <2>2, <2>3, <3>1, <4>2 DEF Timed
      <4>4. QED
        BY <2>2, <3>1, <4>3 DEF IInv
    <3>4. QED
      BY <3>2, <3>3
  <2>8. CASE Normalize
    BY <2>2, <2>8 DEF IInv, Normalize
  <2>9. CASE UNCHANGED vars
    BY <2>2, <2>4, <2>9 DEF IInv, vars
  <2>10. QED
    BY <2>5, <2>6, <2>7, <2>8, <2>9 DEF Next
<1>3. QED
  BY <1>1, <1>2, PTL DEF Spec

\* For any texts: every word is in one row, in the order it was said, and no row
\* ends before it begins, or after the next one does, by more than a millisecond.
THEOREM RowsAlwaysInOrder == Spec => []RowsInOrder
<1>1. IInv => RowsInOrder
  <2> SUFFICES ASSUME IInv, segments # <<>>
               PROVE  RowsInOrder
    BY DEF RowsInOrder
  <2> DEFINE n == Len(heard)
  <2>1. heard \in Seq(Items)
    BY TextsAssumption DEF IInv
  <2>2. n \in Nat /\ DOMAIN heard = 1..n
    BY <2>1, HeardFacts
  <2>3. Timed(segments, 1, n)
    BY DEF IInv, Grouped
  <2>4. FlattenSeq([s \in DOMAIN segments |-> segments[s].words]) = [k \in DOMAIN heard |-> k]
    <3>1. Upto(n) = [k \in DOMAIN heard |-> k]
      BY <2>2 DEF Upto
    <3> HIDE DEF n
    <3>2. FlattenSeq([s \in DOMAIN segments |-> segments[s].words]) = Upto(n)
      BY <2>2, <2>3, TimedWords
    <3>3. QED
      BY <3>1, <3>2
  <2>5. DOMAIN segments = 1..Len(segments)
    BY <2>3, TimedFacts
  <2>6. \A s \in DOMAIN segments : segments[s].end + segments[s].den >= segments[s].start
    BY <2>3, <2>5 DEF Timed
  <2>7. \A s \in 1..(Len(segments) - 1) :
          segments[s].end * segments[s + 1].den
            <= (segments[s + 1].start + segments[s + 1].den) * segments[s].den
    BY <2>3 DEF Timed, After
  <2>8. QED
    BY <2>4, <2>6, <2>7 DEF RowsInOrder
<1>2. QED
  BY <1>1, IInvAlways, PTL

-----------------------------------------------------------------------------
(* re.sub *)

\* What is at i, and what there is from the place where the scan goes on.
ScanOf(f, add, next, n) == [i \in 1..(n + 1) |-> IF i > n THEN {} ELSE add[i] \cup f[next[i]]]

\* A recursion that only ever goes on from further to the right has a result.
LEMMA ScanExists ==
    ASSUME NEW n \in Nat, NEW add, NEW next, \A i \in 1..n : next[i] \in (i + 1)..(n + 1)
    PROVE  \E f : f = ScanOf(f, add, next, n)
<1> DEFINE Part(f, i) == IF i > n THEN {} ELSE add[i] \cup f[next[i]]
           Right(f, d) == \A i \in 1..(n + 1) : i + d >= n + 1 => f[i] = Part(f, i)
           reach == {d \in Nat : \E f : Right(f, d)}
<1>1. 0 \in reach
  <2> DEFINE f == [i \in 1..(n + 1) |-> {}]
  <2>1. Right(f, 0)
    OBVIOUS
  <2>2. QED
    BY <2>1
<1>2. ASSUME NEW d \in Nat, d \in reach
      PROVE  d + 1 \in reach
  <2>1. PICK f : Right(f, d)
    BY <1>2
  <2> DEFINE h == [i \in 1..(n + 1) |-> Part(f, i)]
  <2>2. ASSUME NEW i \in 1..(n + 1), i + (d + 1) >= n + 1
        PROVE  h[i] = Part(h, i)
    <3>1. h[i] = Part(f, i)
      OBVIOUS
    <3>2. CASE i > n
      BY <3>1, <3>2
    <3>3. CASE ~(i > n)
      <4>1. i \in 1..n
        BY <3>3
      <4>2. next[i] \in 1..(n + 1) /\ next[i] + d >= n + 1
        BY <2>2, <4>1
      <4>3. h[next[i]] = f[next[i]]
        BY <2>1, <4>2
      <4> HIDE DEF h
      <4>4. QED
        BY <3>1, <3>3, <4>3
    <3>4. QED
      BY <3>2, <3>3
  <2> HIDE DEF h, Part
  <2>3. Right(h, d + 1)
    BY <2>2
  <2>4. QED
    BY <2>3
<1> HIDE DEF reach
<1>3. n \in reach
  BY <1>1, <1>2, NatSetInduction
<1>4. PICK f : \A i \in 1..(n + 1) : f[i] = Part(f, i)
  <2> HIDE DEF Part
  <2>1. PICK f : Right(f, n)
    BY <1>3 DEF reach
  <2>2. \A i \in 1..(n + 1) : i + n >= n + 1
    OBVIOUS
  <2>3. QED
    BY <2>1, <2>2
<1> DEFINE h == [i \in 1..(n + 1) |-> f[i]]
<1>5. ASSUME NEW i \in 1..(n + 1)
      PROVE  h[i] = Part(h, i)
  <2>1. CASE i > n
    BY <1>4, <2>1
  <2>2. CASE ~(i > n)
    <3>1. next[i] \in 1..(n + 1)
      BY <2>2
    <3>2. h[next[i]] = f[next[i]] /\ h[i] = f[i]
      BY <3>1
    <3> HIDE DEF h
    <3>3. QED
      BY <1>4, <2>2, <3>2
  <2>3. QED
    BY <2>1, <2>2
<1>6. h = [i \in 1..(n + 1) |-> Part(h, i)]
  <2>1. h = [i \in 1..(n + 1) |-> h[i]]
    OBVIOUS
  <2> HIDE DEF h
  <2>2. QED
    BY <1>5, <2>1
<1>7. h = ScanOf(h, add, next, n)
  <2> HIDE DEF h
  <2>1. QED
    BY <1>6 DEF ScanOf
<1>8. QED
  BY <1>7

\* Where the matches that begin at i end.
Ends(pii, t, i) == {j \in i..Len(t) : Matches(pii, t, i, j)}

\* f gives the windows from each place on.
IsScan(f, pii, t) ==
    \A i \in 1..(Len(t) + 1) :
      f[i] = IF i > Len(t) THEN {}
             ELSE IF Ends(pii, t, i) = {} THEN f[i + 1]
             ELSE {<<i, Max(Ends(pii, t, i))>>} \cup f[Max(Ends(pii, t, i)) + 1]

LEMMA WindowsScan ==
    ASSUME NEW pii, NEW t, Len(t) \in Nat
    PROVE  /\ \E f : IsScan(f, pii, t) /\ Windows(pii, t) = f[1]
           /\ \A i \in 1..Len(t) :
                Ends(pii, t, i) # {} =>
                  Max(Ends(pii, t, i)) \in i..Len(t) /\ Max(Ends(pii, t, i)) \in Ends(pii, t, i)
<1> DEFINE n == Len(t)
           Step(f, i) == IF i > n THEN {}
                         ELSE IF Ends(pii, t, i) = {} THEN f[i + 1]
                         ELSE {<<i, Max(Ends(pii, t, i))>>} \cup f[Max(Ends(pii, t, i)) + 1]
           Solves(f) == f = [i \in 1..(n + 1) |-> Step(f, i)]
           add == [i \in 1..n |-> IF Ends(pii, t, i) = {} THEN {}
                                  ELSE {<<i, Max(Ends(pii, t, i))>>}]
           next == [i \in 1..n |-> IF Ends(pii, t, i) = {} THEN i + 1
                                   ELSE Max(Ends(pii, t, i)) + 1]
<1>1. ASSUME NEW i \in 1..n, Ends(pii, t, i) # {}
      PROVE  Max(Ends(pii, t, i)) \in Ends(pii, t, i) /\ Max(Ends(pii, t, i)) \in i..n
  <2> DEFINE ends == Ends(pii, t, i)
  <2>1. ends \in SUBSET (1..n) /\ ends \subseteq i..n /\ ends # {}
    BY <1>1 DEF Ends
  <2> HIDE DEF ends
  <2>2. Max(ends) \in ends
    BY <2>1, MaxOfNats
  <2>3. QED
    BY <2>1, <2>2 DEF ends
<1>2. \A i \in 1..n : next[i] \in (i + 1)..(n + 1)
  BY <1>1
<1>3. PICK f : f = ScanOf(f, add, next, n)
  <2> HIDE DEF add, next, n
  <2>1. n \in Nat
    BY DEF n
  <2>2. QED
    BY <1>2, <2>1, ScanExists
<1>4. ASSUME NEW i \in 1..(n + 1)
      PROVE  (IF i > n THEN {} ELSE add[i] \cup f[next[i]]) = Step(f, i)
  <2>1. CASE i > n
    BY <2>1
  <2>2. CASE ~(i > n) /\ Ends(pii, t, i) = {}
    <3>1. i \in 1..n /\ add[i] = {} /\ next[i] = i + 1
      BY <2>2
    <3> HIDE DEF add, next
    <3>2. QED
      BY <2>2, <3>1
  <2>3. CASE ~(i > n) /\ Ends(pii, t, i) # {}
    <3>1. i \in 1..n /\ add[i] = {<<i, Max(Ends(pii, t, i))>>} /\ next[i] = Max(Ends(pii, t, i)) + 1
      BY <2>3
    <3> HIDE DEF add, next
    <3>2. QED
      BY <2>3, <3>1
  <2>4. QED
    BY <2>1, <2>2, <2>3
<1>5. Solves(f)
  <2> HIDE DEF add, next, Step
  <2>1. QED
    BY <1>3, <1>4 DEF ScanOf
<1>6. Windows(pii, t) = (CHOOSE g : Solves(g))[1]
  BY DEF Windows, Ends
<1>7. Solves(CHOOSE g : Solves(g))
  <2> HIDE DEF Solves
  <2>1. QED
    BY <1>5
<1> DEFINE g == CHOOSE g : Solves(g)
<1>8. IsScan(g, pii, t) /\ Windows(pii, t) = g[1]
  <2> HIDE DEF g, Step
  <2>1. \A i \in 1..(n + 1) : g[i] = Step(g, i)
    BY <1>7 DEF g
  <2>2. QED
    BY <1>6, <2>1 DEF IsScan, Step, g
<1>9. QED
  <2> HIDE DEF g
  <2>1. QED
    BY <1>1, <1>8

\* A window is a match.
LEMMA WindowsMatch ==
    ASSUME NEW pii, NEW t, Len(t) \in Nat
    PROVE  \A w \in Windows(pii, t) :
             \E i \in 1..Len(t) : \E j \in i..Len(t) : w = <<i, j>> /\ Matches(pii, t, i, j)
<1> DEFINE n == Len(t)
           Match(w) == \E i \in 1..n : \E j \in i..n : w = <<i, j>> /\ Matches(pii, t, i, j)
<1>1. PICK f : IsScan(f, pii, t) /\ Windows(pii, t) = f[1]
  BY WindowsScan
<1> DEFINE reach == {d \in Nat : \A i \in 1..(n + 1) : i + d >= n + 1 => \A w \in f[i] : Match(w)}
<1>2. 0 \in reach
  <2>1. ASSUME NEW i \in 1..(n + 1), i + 0 >= n + 1
        PROVE  f[i] = {}
    <3>1. i > Len(t) /\ i \in 1..(Len(t) + 1)
      BY <2>1
    <3>2. QED
      BY <1>1, <3>1 DEF IsScan
  <2>2. QED
    BY <2>1
<1>3. ASSUME NEW d \in Nat, d \in reach
      PROVE  d + 1 \in reach
  <2> SUFFICES ASSUME NEW i \in 1..(n + 1), i + (d + 1) >= n + 1, NEW w \in f[i]
               PROVE  Match(w)
    OBVIOUS
  <2> HIDE DEF Match
  <2>1. \A k \in 1..(n + 1) : k + d >= n + 1 => \A v \in f[k] : Match(v)
    BY <1>3
  <2>2. i \in 1..n /\ ~(i > Len(t))
    <3>1. i > Len(t) => f[i] = {}
      BY <1>1 DEF IsScan
    <3>2. QED
      BY <3>1
  <2>3. CASE Ends(pii, t, i) = {}
    <3>1. i + 1 \in 1..(n + 1) /\ (i + 1) + d >= n + 1
      BY <2>2
    <3>2. f[i] = f[i + 1]
      BY <1>1, <2>2, <2>3 DEF IsScan
    <3>3. QED
      BY <2>1, <3>1, <3>2
  <2>4. CASE Ends(pii, t, i) # {}
    <3> DEFINE j == Max(Ends(pii, t, i))
    <3>1. j \in i..n /\ j \in Ends(pii, t, i)
      BY <2>2, <2>4, WindowsScan
    <3>2. f[i] = {<<i, j>>} \cup f[j + 1]
      BY <1>1, <2>2, <2>4 DEF IsScan
    <3> HIDE DEF j
    <3>3. j + 1 \in 1..(n + 1) /\ (j + 1) + d >= n + 1
      BY <2>2, <3>1
    <3>4. Match(<<i, j>>)
      BY <2>2, <3>1 DEF Match, Ends
    <3>5. QED
      BY <2>1, <3>2, <3>3, <3>4
  <2>5. QED
    BY <2>3, <2>4
<1> HIDE DEF reach, Match
<1>4. n \in reach
  BY <1>2, <1>3, NatSetInduction
<1>5. 1 \in 1..(n + 1) /\ 1 + n >= n + 1
  OBVIOUS
<1>6. \A w \in f[1] : Match(w)
  BY <1>4, <1>5 DEF reach
<1>7. QED
  BY <1>1, <1>6 DEF Match

\* Of a pattern that only ever matches one piece, every match is a window.
LEMMA WindowsOfOne ==
    ASSUME NEW pii, NEW t, Len(t) \in Nat,
           \A i \in 1..Len(t) : \A j \in i..Len(t) : Matches(pii, t, i, j) => i = j
    PROVE  \A k \in 1..Len(t) : Matches(pii, t, k, k) => <<k, k>> \in Windows(pii, t)
<1> DEFINE n == Len(t)
<1>1. PICK f : IsScan(f, pii, t) /\ Windows(pii, t) = f[1]
  BY WindowsScan
<1> SUFFICES ASSUME NEW k \in 1..n, Matches(pii, t, k, k)
             PROVE  <<k, k>> \in Windows(pii, t)
  OBVIOUS
<1> DEFINE reach == {d \in Nat : \A i \in 1..k : i + d >= k => <<k, k>> \in f[i]}
<1>2. ASSUME NEW i \in 1..n
      PROVE  /\ Ends(pii, t, i) = {} => f[i] = f[i + 1]
             /\ Ends(pii, t, i) # {} => f[i] = {<<i, i>>} \cup f[i + 1]
  <2>1. Ends(pii, t, i) # {} => Max(Ends(pii, t, i)) \in Ends(pii, t, i)
    BY WindowsScan
  <2>2. \A j \in Ends(pii, t, i) : j = i
    BY DEF Ends
  <2>3. Ends(pii, t, i) # {} => Max(Ends(pii, t, i)) = i
    BY <2>1, <2>2
  <2>4. i \in 1..(n + 1) /\ ~(i > n)
    OBVIOUS
  <2>5. QED
    BY <1>1, <2>3, <2>4 DEF IsScan
<1>3. k \in Ends(pii, t, k)
  BY DEF Ends
<1>4. 0 \in reach
  <2>1. <<k, k>> \in f[k]
    BY <1>2, <1>3
  <2>2. \A i \in 1..k : i + 0 >= k => i = k
    OBVIOUS
  <2>3. QED
    BY <2>1, <2>2
<1>5. ASSUME NEW d \in Nat, d \in reach
      PROVE  d + 1 \in reach
  <2> SUFFICES ASSUME NEW i \in 1..k, i + (d + 1) >= k
               PROVE  <<k, k>> \in f[i]
    OBVIOUS
  <2>1. CASE i = k
    BY <1>2, <1>3, <2>1
  <2>2. CASE i # k
    <3>1. i + 1 \in 1..k /\ (i + 1) + d >= k /\ i \in 1..n
      BY <2>2
    <3>2. <<k, k>> \in f[i + 1]
      BY <1>5, <3>1
    <3>3. QED
      BY <1>2, <3>1, <3>2
  <2>3. QED
    BY <2>1, <2>2
<1> HIDE DEF reach
<1>6. k \in reach
  BY <1>4, <1>5, NatSetInduction
<1>7. 1 \in 1..k /\ 1 + k >= k
  OBVIOUS
<1>8. QED
  BY <1>1, <1>6, <1>7 DEF reach

-----------------------------------------------------------------------------
(* Masks *)

\* As many digits as may be left of a piece that is masked.
Limit(p) == IF p.mode = "redact" THEN 0 ELSE p.keep

SomePolicies == [mode : {"mask", "redact", "none"}, keep : Nat,
                 enabled : SUBSET {Order[i] : i \in DOMAIN Order}]

LEMMA DigitsType ==
    ASSUME NEW t \in Seq(Items), NEW i \in 1..(Len(t) + 1), NEW j \in 0..Len(t)
    PROVE  Digits(t, i, j) \in Nat
<1> DEFINE D == i..j
           w == [k \in D |-> t[k].n]
           Solves(g) == g = [s \in SUBSET D |->
                               IF s = {} THEN 0 ELSE t[Chosen(s)].n + g[s \ {Chosen(s)}]]
<1>1. Digits(t, i, j) = (CHOOSE g : Solves(g))[D]
  BY DEF Digits, MapThenSumSet, MapThenFoldSet, Chosen
<1>2. IsFiniteSet(D) /\ D \subseteq 1..Len(t)
  <2>1. Len(t) \in Nat
    OBVIOUS
  <2>2. i \in Int /\ j \in Int /\ D \subseteq 1..Len(t)
    BY <2>1
  <2>3. QED
    BY <2>2, FS_Interval
<1>3. \A k \in D : w[k] \in Nat
  <2>1. \A k \in D : t[k] \in Items
    BY <1>2, ElementOfSeq
  <2>2. QED
    BY <2>1 DEF Items
<1>4. \E g : IsSum(g, w, D)
  <2> HIDE DEF D, w
  <2>1. QED
    BY <1>2, <1>3, SumExists
<1>5. ASSUME NEW g
      PROVE  Solves(g) <=> IsSum(g, w, D)
  <2>1. \A k \in D : w[k] = t[k].n
    OBVIOUS
  <2> HIDE DEF D, w
  <2>2. \A s \in SUBSET D : s # {} => w[Chosen(s)] = t[Chosen(s)].n
    BY <2>1 DEF Chosen
  <2>3. [s \in SUBSET D |-> IF s = {} THEN 0 ELSE t[Chosen(s)].n + g[s \ {Chosen(s)}]]
          = [s \in SUBSET D |-> IF s = {} THEN 0 ELSE w[Chosen(s)] + g[s \ {Chosen(s)}]]
    BY <2>2
  <2>4. QED
    BY <2>3 DEF IsSum
<1>6. QED
  <2> DEFINE g == CHOOSE g : Solves(g)
  <2>1. Solves(g)
    <3> HIDE DEF Solves, D, w
    <3>1. QED
      BY <1>4, <1>5
  <2> HIDE DEF Solves, D, w, g
  <2>2. IsSum(g, w, D) /\ Digits(t, i, j) = g[D]
    BY <1>1, <1>5, <2>1 DEF g
  <2>3. D \in SUBSET D
    OBVIOUS
  <2>4. \A s \in SUBSET D : g[s] \in Nat
    BY <1>2, <1>3, <2>2, SumType
  <2>5. QED
    BY <2>2, <2>3, <2>4

\* What is left of a piece is no more than there was or than is allowed.
LEMMA MaskBounds ==
    ASSUME NEW p \in SomePolicies, NEW t \in Seq(Items),
           NEW i \in 1..Len(t), NEW j \in i..Len(t), NEW k \in i..j
    PROVE  /\ Mask(p, t, i, j, k) \in Nat
           /\ Mask(p, t, i, j, k) <= t[k].n /\ Mask(p, t, i, j, k) <= Limit(p)
<1> DEFINE v == p.keep - Digits(t, k + 1, j)
           m == t[k].n
<1>1. Len(t) \in Nat
  OBVIOUS
<1>2. i \in 1..(Len(t) + 1) /\ k + 1 \in 1..(Len(t) + 1) /\ j \in 0..Len(t) /\ k \in 1..Len(t)
  BY <1>1
<1>3. Digits(t, k + 1, j) \in Nat /\ Digits(t, i, j) \in Nat
  BY <1>2, DigitsType
<1>4. p.keep \in Nat
  BY DEF SomePolicies
<1>5. m \in Nat
  <2>1. t[k] \in Items
    BY <1>2, ElementOfSeq
  <2>2. QED
    BY <2>1 DEF Items
<1>6. v \in Int /\ v <= p.keep
  BY <1>3, <1>4
<1>7. /\ Max({0, Min({v, m})}) \in Nat /\ Max({0, Min({v, m})}) <= m
      /\ Max({0, Min({v, m})}) <= p.keep
  <2> HIDE DEF v, m
  <2>1. Min({v, m}) = IF v <= m THEN v ELSE m
    BY <1>5, <1>6 DEF Min
  <2> DEFINE q == Min({v, m})
  <2>2. q \in Int /\ q <= m /\ q <= p.keep
    BY <1>4, <1>5, <1>6, <2>1
  <2> HIDE DEF q
  <2>3. Max({0, q}) = IF q <= 0 THEN 0 ELSE q
    BY <2>2 DEF Max
  <2>4. QED
    BY <1>4, <1>5, <2>2, <2>3 DEF q
<1>8. CASE p.mode = "redact" \/ t[i].kind = "email" \/ Digits(t, i, j) <= p.keep
  <2>1. Mask(p, t, i, j, k) = 0
    BY <1>8 DEF Mask
  <2>2. QED
    BY <1>4, <1>5, <2>1 DEF Limit
<1>9. CASE ~(p.mode = "redact" \/ t[i].kind = "email" \/ Digits(t, i, j) <= p.keep)
  <2>1. Mask(p, t, i, j, k) = Max({0, Min({v, m})}) /\ Limit(p) = p.keep
    BY <1>9 DEF Mask, Limit
  <2>2. QED
    BY <1>7, <2>1
<1>10. QED
  BY <1>8, <1>9

-----------------------------------------------------------------------------
(* One pattern, and the eight of them *)

\* u has the pieces of t, each as it was there or with no more left than is allowed.
Follows(p, u, t) ==
    /\ u \in Seq(Items) /\ Len(u) = Len(t)
    /\ \A k \in 1..Len(t) :
         /\ u[k].kind = t[k].kind /\ u[k].n = t[k].n /\ u[k].id = t[k].id
         /\ u[k].shown = t[k].shown \/ (u[k].shown <= t[k].n /\ u[k].shown <= Limit(p))

\* What one pattern finds is masked, and all else is left.
LEMMA ApplyMasks ==
    ASSUME NEW p \in SomePolicies, NEW t \in Seq(Items), NEW pii
    PROVE  /\ Follows(p, Apply(p, t, pii), t)
           /\ \A k \in 1..Len(t) :
                (\E w \in Windows(pii, t) : Accepts(pii, t, w[1], w[2]) /\ k \in w[1]..w[2]) =>
                  Apply(p, t, pii)[k].shown <= Limit(p)
<1> DEFINE n == Len(t)
           found == {w \in Windows(pii, t) : Accepts(pii, t, w[1], w[2])}
           here(k) == {w \in found : k \in w[1]..w[2]}
           one(k) == CHOOSE w \in here(k) : TRUE
           cut(k) == Mask(p, t, one(k)[1], one(k)[2], k)
           u == Apply(p, t, pii)
<1>1. n \in Nat /\ DOMAIN t = 1..n /\ \A k \in 1..n : t[k] \in Items
  BY LenProperties, ElementOfSeq
<1>2. u = [k \in 1..n |-> IF here(k) = {} THEN t[k] ELSE [t[k] EXCEPT !.shown = cut(k)]]
  BY <1>1 DEF Apply
<1>3. ASSUME NEW k \in 1..n, here(k) # {}
      PROVE  cut(k) \in Nat /\ cut(k) <= t[k].n /\ cut(k) <= Limit(p)
  <2>1. one(k) \in here(k)
    BY <1>3
  <2> DEFINE w == one(k)
  <2>2. w \in Windows(pii, t) /\ k \in w[1]..w[2]
    BY <2>1
  <2> HIDE DEF w
  <2>3. PICK i \in 1..n : \E j \in i..n : w = <<i, j>>
    BY <1>1, <2>2, WindowsMatch
  <2>4. PICK j \in i..n : w = <<i, j>>
    BY <2>3
  <2>5. w[1] = i /\ w[2] = j /\ k \in i..j
    BY <2>2, <2>4
  <2>6. cut(k) = Mask(p, t, i, j, k)
    BY <2>5 DEF w
  <2>7. QED
    BY <2>5, <2>6, MaskBounds
<1> HIDE DEF here, cut, u
<1>4. ASSUME NEW k \in 1..n
      PROVE  /\ u[k] \in Items
             /\ u[k].kind = t[k].kind /\ u[k].n = t[k].n /\ u[k].id = t[k].id
             /\ here(k) = {} => u[k].shown = t[k].shown
             /\ here(k) # {} => u[k].shown <= t[k].n /\ u[k].shown <= Limit(p)
  <2>1. CASE here(k) = {}
    <3>1. u[k] = t[k]
      BY <1>2, <2>1
    <3>2. QED
      BY <1>1, <2>1, <3>1
  <2>2. CASE here(k) # {}
    <3>1. u[k] = [t[k] EXCEPT !.shown = cut(k)]
      BY <1>2, <2>2
    <3>2. cut(k) \in Nat /\ cut(k) <= t[k].n /\ cut(k) <= Limit(p) /\ t[k] \in Items
      BY <1>1, <1>3, <2>2
    <3>3. u[k] \in Items /\ u[k].shown = cut(k)
      BY <3>1, <3>2 DEF Items
    <3>4. u[k].kind = t[k].kind /\ u[k].n = t[k].n /\ u[k].id = t[k].id
      BY <3>1, <3>2 DEF Items
    <3>5. QED
      BY <2>2, <3>2, <3>3, <3>4
  <2>3. QED
    BY <2>1, <2>2
<1>5. u \in Seq(Items) /\ Len(u) = n
  <2>1. u = [k \in 1..n |-> u[k]]
    BY <1>2
  <2>2. u \in [1..n -> Items]
    BY <1>4, <2>1
  <2>3. QED
    BY <1>1, <2>2
<1>6. Follows(p, u, t)
  BY <1>4, <1>5 DEF Follows
<1>7. ASSUME NEW k \in 1..n,
             NEW w \in Windows(pii, t), Accepts(pii, t, w[1], w[2]), k \in w[1]..w[2]
      PROVE  u[k].shown <= Limit(p)
  <2>1. w \in here(k)
    BY <1>7 DEF here
  <2>2. QED
    BY <1>4, <2>1
<1>8. QED
  BY <1>6, <1>7 DEF u

\* The patterns that match one piece, and what they find.
Alone(pii, item) ==
    IF pii = "account" THEN item.kind = "number" /\ item.shown = item.n /\ item.n \in 9..18
    ELSE item.kind = pii

LEMMA ApplyFindsPieces ==
    ASSUME NEW p \in SomePolicies, NEW t \in Seq(Items), NEW pii \in {"pan", "ifsc", "account"},
           NEW k \in 1..Len(t), Alone(pii, t[k])
    PROVE  Apply(p, t, pii)[k].shown <= Limit(p)
<1>1. Len(t) \in Nat /\ \A i \in 1..Len(t) : \A j \in i..Len(t) : Matches(pii, t, i, j) => i = j
  <2>1. Len(t) \in Nat
    BY LenProperties
  <2>2. ASSUME NEW i \in 1..Len(t), NEW j \in i..Len(t), Matches(pii, t, i, j)
        PROVE  i = j
    BY <2>2 DEF Matches
  <2>3. QED
    BY <2>1, <2>2
<1>2. Matches(pii, t, k, k)
  <2>1. CASE pii = "account"
    <3>1. Whole(t, k, k)
      BY <2>1 DEF Alone, Whole
    <3>2. QED
      BY <2>1, <3>1 DEF Alone, Matches
  <2>2. CASE pii # "account"
    <3>1. t[k].kind = pii /\ pii \in {"pan", "ifsc", "email"}
      BY <2>2 DEF Alone
    <3>2. QED
      BY <3>1 DEF Matches
  <2>3. QED
    BY <2>1, <2>2
<1> DEFINE w == <<k, k>>
<1>3. w \in Windows(pii, t)
  BY <1>1, <1>2, WindowsOfOne
<1>4. w[1] = k /\ w[2] = k /\ k \in k..k
  OBVIOUS
<1>5. Accepts(pii, t, w[1], w[2])
  BY DEF Accepts
<1> HIDE DEF w
<1>6. QED
  BY <1>3, <1>4, <1>5, ApplyMasks

\* What the pattern in place i makes of a text.
Pattern(p, work, i) ==
    IF Order[i] \in p.enabled THEN Apply(p, work, Order[i]) ELSE work

\* The texts between the patterns.
LEMMA RedactUnfolds ==
    ASSUME NEW p \in SomePolicies, p.mode # "none", NEW t \in Seq(Items)
    PROVE  \E g : /\ g[0] = t /\ g[8] = Redact(p, t)
                  /\ \A i \in 1..8 : g[i] = Pattern(p, g[i - 1], i)
<1> DEFINE D == DOMAIN Order
           Type == Seq(Items)
           step == [i \in D |-> [work \in Type |-> Pattern(p, work, i)]]
           pick == [s \in SUBSET D |-> Max(s)]
           Solves(g) ==
             g = [s \in SUBSET D |->
                    IF s = {} THEN t
                    ELSE IF Order[Max(s)] \in p.enabled
                         THEN Apply(p, g[s \ {Max(s)}], Order[Max(s)])
                         ELSE g[s \ {Max(s)}]]
<1>1. D = 1..8 /\ IsFiniteSet(D) /\ 8 \in Nat
  <2>1. D = 1..8
    BY DEF Order
  <2>2. \A b \in Int : IsFiniteSet(1..b)
    BY FS_Interval
  <2>3. QED
    BY <2>1, <2>2
<1>2. Redact(p, t) = (CHOOSE g : Solves(g))[D]
  BY DEF Redact, FoldLeft, MapThenFoldSet
<1>3. \A i \in D : \A work \in Type : Pattern(p, work, i) \in Type
  BY ApplyMasks DEF Pattern, Follows
<1>4. \A s \in SUBSET D : s # {} => Max(s) \in s
  BY <1>1, MaxOfNats
<1>5. PICK g \in [SUBSET D -> Type] : IsFold(g, t, step, pick, D)
  <2>1. step \in [D -> [Type -> Type]]
    BY <1>3
  <2>2. Picks(pick, D)
    BY <1>4 DEF Picks
  <2> HIDE DEF D, Type, step, pick
  <2>3. t \in Type
    BY DEF Type
  <2>4. QED
    BY <1>1, <2>1, <2>2, <2>3, FoldExists
<1>6. ASSUME NEW s \in SUBSET D
      PROVE  g[s] = IF s = {} THEN t ELSE Pattern(p, g[s \ {Max(s)}], Max(s))
  <2>1. CASE s = {}
    BY <1>5, <2>1 DEF IsFold, Folded
  <2>2. CASE s # {}
    <3>1. pick[s] = Max(s) /\ Max(s) \in D /\ s \ {Max(s)} \in SUBSET D
      BY <1>4, <2>2
    <3>2. g[s \ {Max(s)}] \in Type
      BY <1>5, <3>1
    <3>3. g[s] = step[Max(s)][g[s \ {Max(s)}]]
      BY <1>5, <2>2, <3>1 DEF IsFold, Folded
    <3>4. QED
      BY <2>2, <3>1, <3>2, <3>3
  <2>3. QED
    BY <2>1, <2>2
<1>7. Solves(g)
  <2> HIDE DEF Type, step, pick
  <2>1. g = [s \in SUBSET D |-> g[s]]
    BY <1>5
  <2>2. QED
    BY <1>6, <2>1 DEF Pattern
<1>8. Solves(CHOOSE h : Solves(h))
  <2> HIDE DEF Solves
  <2>1. QED
    BY <1>7
<1> DEFINE h == CHOOSE h : Solves(h)
           f == [i \in 0..8 |-> h[1..i]]
<1>9. ASSUME NEW s \in SUBSET D
      PROVE  h[s] = IF s = {} THEN t ELSE Pattern(p, h[s \ {Max(s)}], Max(s))
  <2> HIDE DEF h
  <2>1. Solves(h)
    BY <1>8 DEF h
  <2>2. QED
    BY <2>1 DEF Pattern
<1> HIDE DEF h, Solves
<1>10. ASSUME NEW i \in 1..8
       PROVE  f[i] = Pattern(p, f[i - 1], i)
  <2>1. (1..i) \ {i} = 1..(i - 1) /\ i \in 1..i /\ i \in Nat /\ i > 0 /\ i - 1 \in 0..8 /\ i \in 0..8
    OBVIOUS
  <2> DEFINE s == 1..i
  <2>2. Max(s) = i /\ s # {} /\ s \in SUBSET D
    <3>1. Max(1..i) = i
      BY <2>1, MaxOfNats
    <3>2. s \subseteq 1..8 /\ s # {}
      BY <2>1
    <3>3. QED
      BY <1>1, <3>1, <3>2
  <2>3. f[i] = h[s] /\ f[i - 1] = h[s \ {i}]
    BY <2>1
  <2> HIDE DEF s, f
  <2>4. QED
    BY <1>9, <2>2, <2>3
<1>11. f[0] = t
  <2> DEFINE none == 1..0
  <2>1. none = {} /\ none \in SUBSET D
    OBVIOUS
  <2>2. f[0] = h[none]
    OBVIOUS
  <2> HIDE DEF none, f
  <2>3. QED
    BY <1>9, <2>1, <2>2
<1>12. f[8] = Redact(p, t)
  BY <1>1, <1>2 DEF h
<1>13. QED
  <2> HIDE DEF f
  <2>1. QED
    BY <1>10, <1>11, <1>12

LEMMA FollowsItself ==
    ASSUME NEW p, NEW t \in Seq(Items)
    PROVE  Follows(p, t, t)
BY DEF Follows

LEMMA FollowsOn ==
    ASSUME NEW p, NEW t, NEW u, NEW v, Follows(p, u, t), Follows(p, v, u)
    PROVE  Follows(p, v, t)
<1>1. v \in Seq(Items) /\ Len(v) = Len(t) /\ Len(u) = Len(t)
  BY DEF Follows
<1>2. ASSUME NEW k \in 1..Len(t)
      PROVE  /\ v[k].kind = t[k].kind /\ v[k].n = t[k].n /\ v[k].id = t[k].id
             /\ v[k].shown = t[k].shown \/ (v[k].shown <= t[k].n /\ v[k].shown <= Limit(p))
  <2>1. /\ u[k].kind = t[k].kind /\ u[k].n = t[k].n /\ u[k].id = t[k].id
        /\ u[k].shown = t[k].shown \/ (u[k].shown <= t[k].n /\ u[k].shown <= Limit(p))
    BY DEF Follows
  <2>2. /\ v[k].kind = u[k].kind /\ v[k].n = u[k].n /\ v[k].id = u[k].id
        /\ v[k].shown = u[k].shown \/ (v[k].shown <= u[k].n /\ v[k].shown <= Limit(p))
    BY <1>1 DEF Follows
  <2>3. QED
    BY <2>1, <2>2
<1>3. QED
  BY <1>1, <1>2 DEF Follows

\* Whatever the later patterns do, they do it to what the earlier ones have left.
LEMMA PatternsFollow ==
    ASSUME NEW p \in SomePolicies, NEW g, NEW m \in 0..8, g[m] \in Seq(Items),
           \A i \in 1..8 : g[i] = Pattern(p, g[i - 1], i)
    PROVE  \A i \in m..8 : Follows(p, g[i], g[m])
<1> DEFINE reach == {d \in Nat : m + d <= 8 => Follows(p, g[m + d], g[m])}
<1>1. 0 \in reach
  <2>1. m + 0 = m
    OBVIOUS
  <2>2. QED
    BY <2>1, FollowsItself
<1>2. ASSUME NEW d \in Nat, d \in reach
      PROVE  d + 1 \in reach
  <2> SUFFICES ASSUME m + (d + 1) <= 8
               PROVE  Follows(p, g[m + (d + 1)], g[m])
    OBVIOUS
  <2> DEFINE i == m + (d + 1)
             work == g[m + d]
  <2>1. i \in 1..8 /\ i - 1 = m + d /\ m + d <= 8
    OBVIOUS
  <2>2. Follows(p, work, g[m])
    BY <1>2, <2>1
  <2>3. g[i] = Pattern(p, work, i)
    BY <2>1
  <2> HIDE DEF i, work
  <2>4. work \in Seq(Items)
    BY <2>2 DEF Follows
  <2>5. Follows(p, Pattern(p, work, i), work)
    BY <2>4, ApplyMasks, FollowsItself DEF Pattern
  <2>6. Follows(p, g[i], g[m])
    BY <2>2, <2>3, <2>5, FollowsOn
  <2>7. QED
    BY <2>6 DEF i
<1> HIDE DEF reach
<1>3. ASSUME NEW i \in m..8
      PROVE  Follows(p, g[i], g[m])
  <2>1. i - m \in Nat /\ m + (i - m) = i /\ i <= 8
    OBVIOUS
  <2>2. i - m \in reach
    BY <1>1, <1>2, <2>1, NatSetInduction
  <2>3. QED
    BY <2>1, <2>2 DEF reach
<1>4. QED
  BY <1>3

LEMMA RedactFollows ==
    ASSUME NEW p \in SomePolicies, NEW t \in Seq(Items)
    PROVE  Follows(p, Redact(p, t), t)
<1>1. CASE p.mode = "none"
  BY <1>1, FollowsItself DEF Redact
<1>2. CASE p.mode # "none"
  <2>1. PICK g : /\ g[0] = t /\ g[8] = Redact(p, t)
                 /\ \A i \in 1..8 : g[i] = Pattern(p, g[i - 1], i)
    BY <1>2, RedactUnfolds
  <2>2. \A i \in 0..8 : Follows(p, g[i], g[0])
    <3>1. g[0] \in Seq(Items) /\ 0 \in 0..8
      BY <2>1
    <3>2. QED
      BY <2>1, <3>1, PatternsFollow
  <2>3. QED
    BY <2>1, <2>2
<1>3. QED
  BY <1>1, <1>2

\* The pattern of a piece that is masked by itself.
Pieces(p, item) ==
    \/ item.kind \in {"pan", "ifsc"} /\ item.kind \in p.enabled
    \/ item.kind = "number" /\ item.n \in 9..18 /\ "account" \in p.enabled

\* Either an earlier pattern has masked the piece or its own one does, and the
\* later ones leave it masked.
LEMMA RedactFindsPieces ==
    ASSUME NEW p \in SomePolicies, p.mode # "none", NEW t \in Seq(Items),
           NEW k \in 1..Len(t), t[k].shown = t[k].n, Pieces(p, t[k])
    PROVE  Redact(p, t)[k].shown <= Limit(p)
<1>1. PICK g : /\ g[0] = t /\ g[8] = Redact(p, t)
               /\ \A i \in 1..8 : g[i] = Pattern(p, g[i - 1], i)
  BY RedactUnfolds
<1>2. PICK m \in 1..8 : /\ Order[m] \in p.enabled /\ Order[m] \in {"pan", "ifsc", "account"}
                        /\ \/ Order[m] # "account" /\ t[k].kind = Order[m]
                           \/ /\ Order[m] = "account" /\ t[k].kind = "number"
                              /\ t[k].n \in 9..18
  <2>1. /\ 4 \in 1..8 /\ 5 \in 1..8 /\ 6 \in 1..8
        /\ Order[4] = "pan" /\ Order[5] = "ifsc" /\ Order[6] = "account"
    BY DEF Order
  <2>2. CASE t[k].kind = "pan" /\ "pan" \in p.enabled
    BY <2>1, <2>2
  <2>3. CASE t[k].kind = "ifsc" /\ "ifsc" \in p.enabled
    BY <2>1, <2>3
  <2>4. CASE t[k].kind = "number" /\ t[k].n \in 9..18 /\ "account" \in p.enabled
    BY <2>1, <2>4
  <2>5. QED
    BY <2>2, <2>3, <2>4 DEF Pieces
<1> DEFINE before == g[m - 1]
           after == g[m]
           last == g[8]
<1>3. Follows(p, before, t)
  <2>1. g[0] \in Seq(Items) /\ 0 \in 0..8 /\ m - 1 \in 0..8
    BY <1>1
  <2>2. \A i \in 0..8 : Follows(p, g[i], g[0])
    BY <1>1, <2>1, PatternsFollow
  <2>3. QED
    BY <1>1, <2>1, <2>2
<1>4. after = Apply(p, before, Order[m])
  BY <1>1, <1>2 DEF Pattern
<1>5. Follows(p, last, after)
  <2>1. Follows(p, g[m], g[0])
    <3>1. g[0] \in Seq(Items) /\ 0 \in 0..8 /\ m \in 0..8
      BY <1>1
    <3>2. QED
      BY <1>1, <3>1, PatternsFollow
  <2>2. g[m] \in Seq(Items) /\ m \in 0..8 /\ 8 \in m..8
    BY <2>1 DEF Follows
  <2>3. \A i \in m..8 : Follows(p, g[i], g[m])
    BY <1>1, <2>2, PatternsFollow
  <2>4. QED
    BY <2>2, <2>3
<1> HIDE DEF before, after, last
<1>6. /\ before \in Seq(Items) /\ k \in 1..Len(before)
      /\ before[k].kind = t[k].kind /\ before[k].n = t[k].n
      /\ before[k].shown = before[k].n \/ before[k].shown <= Limit(p)
  BY <1>3 DEF Follows
<1>7. after[k].shown <= Limit(p)
  <2>1. CASE Alone(Order[m], before[k])
    BY <1>2, <1>4, <1>6, <2>1, ApplyFindsPieces
  <2>2. CASE ~Alone(Order[m], before[k])
    <3>1. before[k].shown <= Limit(p)
      BY <1>2, <1>6, <2>2 DEF Alone
    <3>2. Follows(p, after, before)
      BY <1>4, <1>6, ApplyMasks
    <3>3. QED
      BY <1>6, <3>1, <3>2 DEF Follows
  <2>3. QED
    BY <2>1, <2>2
<1>8. k \in 1..Len(after)
  BY <1>4, <1>6, ApplyMasks DEF Follows
<1>9. last[k].shown <= Limit(p)
  BY <1>5, <1>7, <1>8 DEF Follows
<1>10. QED
  BY <1>1, <1>9 DEF last

LEMMA CleanKeeps ==
    ASSUME NEW t \in Seq(Items)
    PROVE  /\ Clean(t) \in Seq(Items) /\ Len(Clean(t)) = Len(t)
           /\ \A k \in 1..Len(t) :
                /\ Clean(t)[k].n = t[k].n /\ Clean(t)[k].id = t[k].id
                /\ Clean(t)[k].shown = t[k].shown
                /\ t[k].kind # "email" => Clean(t)[k].kind = t[k].kind
<1> DEFINE sep(k) == IF t[k].sep = "." THEN ". " ELSE t[k].sep
           kind(k) == IF t[k].kind = "email" THEN "word" ELSE t[k].kind
           u == Clean(t)
<1>1. Len(t) \in Nat /\ DOMAIN t = 1..Len(t) /\ \A k \in 1..Len(t) : t[k] \in Items
  BY LenProperties, ElementOfSeq
<1>2. u = [k \in 1..Len(t) |-> [t[k] EXCEPT !.sep = sep(k), !.kind = kind(k)]]
  BY <1>1 DEF Clean
<1> HIDE DEF u
<1>3. ASSUME NEW k \in 1..Len(t)
      PROVE  /\ u[k] \in Items /\ u[k].n = t[k].n /\ u[k].id = t[k].id
             /\ u[k].shown = t[k].shown /\ (t[k].kind # "email" => u[k].kind = t[k].kind)
  <2>1. u[k] = [t[k] EXCEPT !.sep = sep(k), !.kind = kind(k)]
    BY <1>2
  <2>2. t[k] \in Items /\ sep(k) \in {" ", "-", ".", ". "}
        /\ kind(k) \in {"number", "word", "pan", "ifsc", "email"}
    BY <1>1 DEF Items
  <2>3. t[k].kind # "email" => kind(k) = t[k].kind
    OBVIOUS
  <2> HIDE DEF sep, kind
  <2>4. QED
    BY <2>1, <2>2, <2>3 DEF Items
<1>4. u \in Seq(Items) /\ Len(u) = Len(t)
  <2>1. u = [k \in 1..Len(t) |-> u[k]]
    BY <1>2
  <2>2. u \in [1..Len(t) -> Items]
    BY <1>3, <2>1
  <2>3. QED
    BY <1>1, <2>2
<1>5. QED
  BY <1>3, <1>4 DEF u

-----------------------------------------------------------------------------
(* The text of a transcript, and of what is typed *)

HidesOnly(u) ==
    /\ DOMAIN u = DOMAIN heard
    /\ \A k \in DOMAIN heard :
         /\ u[k].n = heard[k].n /\ u[k].id = heard[k].id /\ u[k].shown <= heard[k].shown
         /\ u[k].shown = heard[k].shown \/ (policy.mode # "none" /\ u[k].shown <= Allowed)

HidesPieces(u) ==
    policy.mode # "none" =>
        \A k \in DOMAIN heard :
            OnePiece(k) =>
                /\ u[k].shown <= Allowed
                /\ heard[k].kind = "number" /\ heard[k].n > Allowed => k \in Swallowed(u)

LEMMA Masked ==
    ASSUME heard \in Texts, policy \in Policies, NEW t \in {heard, Clean(heard)}
    PROVE  HidesOnly(Redact(policy, t)) /\ HidesPieces(Redact(policy, t))
<1> DEFINE u == Redact(policy, t)
           n == Len(heard)
<1>1. /\ heard \in Seq(Items) /\ policy \in SomePolicies
      /\ \A k \in DOMAIN heard : heard[k].shown = heard[k].n
  BY TextsAssumption, PoliciesAssumption DEF SomePolicies
<1>2. /\ DOMAIN heard = 1..n /\ n \in Nat
      /\ \A k \in 1..n : heard[k].n \in Nat
  <2>1. DOMAIN heard = 1..n /\ n \in Nat /\ \A k \in 1..n : heard[k] \in Items
    BY <1>1, LenProperties, ElementOfSeq
  <2>2. QED
    BY <2>1 DEF Items
<1>3. /\ t \in Seq(Items) /\ Len(t) = n
      /\ \A k \in 1..n : /\ t[k].n = heard[k].n /\ t[k].id = heard[k].id
                         /\ t[k].shown = heard[k].shown
                         /\ heard[k].kind # "email" => t[k].kind = heard[k].kind
  <2>1. CASE t = heard
    BY <1>1, <2>1
  <2>2. CASE t = Clean(heard)
    BY <1>1, <2>2, CleanKeeps
  <2>3. QED
    BY <2>1, <2>2
<1>4. Follows(policy, u, t)
  BY <1>1, <1>3, RedactFollows
<1>5. policy.mode = "none" => u = t
  BY DEF Redact
<1>6. Limit(policy) = Allowed
  BY DEF Limit, Allowed
<1> HIDE DEF u
<1>7. /\ DOMAIN u = 1..n
      /\ \A k \in 1..n :
           /\ u[k].kind = t[k].kind /\ u[k].n = t[k].n /\ u[k].id = t[k].id
           /\ u[k].shown = t[k].shown \/ (u[k].shown <= t[k].n /\ u[k].shown <= Limit(policy))
  <2>1. u \in Seq(Items) /\ Len(u) = n
    BY <1>3, <1>4 DEF Follows
  <2>2. DOMAIN u = 1..n
    BY <2>1, LenProperties
  <2>3. QED
    BY <1>3, <1>4, <2>2 DEF Follows
<1>8. HidesOnly(u)
  <2>1. ASSUME NEW k \in 1..n
        PROVE  /\ u[k].n = heard[k].n /\ u[k].id = heard[k].id /\ u[k].shown <= heard[k].shown
               /\ u[k].shown = heard[k].shown \/ (policy.mode # "none" /\ u[k].shown <= Allowed)
    <3>1. u[k].n = heard[k].n /\ u[k].id = heard[k].id
      BY <1>3, <1>7
    <3>2. heard[k].shown = heard[k].n /\ t[k].n = heard[k].n /\ t[k].shown = heard[k].shown
          /\ heard[k].n \in Nat
      BY <1>1, <1>2, <1>3
    <3>3. CASE u[k].shown = t[k].shown
      BY <3>1, <3>2, <3>3
    <3>4. CASE u[k].shown # t[k].shown
      <4>1. u[k].shown <= t[k].n /\ u[k].shown <= Limit(policy)
        BY <1>7, <3>4
      <4>2. policy.mode # "none"
        BY <1>5, <3>4
      <4>3. QED
        BY <1>6, <3>1, <3>2, <4>1, <4>2
    <3>5. QED
      BY <3>3, <3>4
  <2>2. QED
    BY <1>2, <1>7, <2>1 DEF HidesOnly
<1>9. HidesPieces(u)
  <2> SUFFICES ASSUME policy.mode # "none", NEW k \in 1..n, OnePiece(k)
               PROVE  /\ u[k].shown <= Allowed
                      /\ heard[k].kind = "number" /\ heard[k].n > Allowed => k \in Swallowed(u)
    BY <1>2 DEF HidesPieces
  <2>1. heard[k].kind # "email" /\ t[k].kind = heard[k].kind /\ t[k].n = heard[k].n
    BY <1>3 DEF OnePiece
  <2>2. t[k].shown = t[k].n
    BY <1>1, <1>2, <1>3
  <2>3. Pieces(policy, t[k])
    BY <2>1 DEF OnePiece, Pieces
  <2>4. u[k].shown <= Allowed
    BY <1>1, <1>3, <1>6, <2>2, <2>3, RedactFindsPieces DEF u
  <2>5. ASSUME heard[k].kind = "number", heard[k].n > Allowed
        PROVE  k \in Swallowed(u)
    <3>1. u[k].kind = "number" /\ u[k].n = heard[k].n
      BY <1>7, <2>1, <2>5
    <3>2. u[k].shown < u[k].n
      <4>1. u[k].shown \in Nat /\ Allowed \in Nat /\ heard[k].n \in Nat
        <5>1. u[k] \in Items
          BY <1>3, <1>4, ElementOfSeq DEF Follows
        <5>2. policy.keep \in Nat
          BY <1>1 DEF SomePolicies
        <5>3. Allowed \in Nat
          BY <5>2 DEF Allowed
        <5>4. u[k].shown \in Nat
          BY <5>1 DEF Items
        <5>5. QED
          BY <1>2, <5>3, <5>4
      <4>2. QED
        BY <2>4, <2>5, <3>1, <4>1
    <3>3. Seps(u, k, k) \subseteq {" ", "-"}
      <4>1. k..(k - 1) = {}
        OBVIOUS
      <4>2. QED
        BY <4>1 DEF Seps
    <3>4. RunsOver(u, k, k)
      BY <3>1 DEF RunsOver
    <3>5. k \in 1..k /\ k \in DOMAIN u
      BY <1>7
    <3>6. QED
      BY <3>1, <3>2, <3>3, <3>4, <3>5 DEF Swallowed
  <2>6. QED
    BY <2>4, <2>5
<1>10. QED
  BY <1>8, <1>9 DEF u

LEMMA ShownIsNatural ==
    ASSUME heard \in Texts
    PROVE  \A k \in DOMAIN heard : heard[k].shown \in Nat
<1>1. heard \in Seq(Items)
  BY TextsAssumption
<1>2. \A k \in DOMAIN heard : heard[k] \in Items
  BY <1>1, ElementOfSeq, LenProperties
<1>3. QED
  BY <1>2 DEF Items

TextInv ==
    /\ heard \in Texts /\ policy \in Policies
    /\ stage \in {"new", "heard", "processed", "payload", "normalized"}
    /\ OnlyHidden /\ PiecesMasked

LEMMA TextInvAlways == Spec => []TextInv
<1>1. Init => TextInv
  <2> SUFFICES ASSUME Init
               PROVE  TextInv
    OBVIOUS
  <2>1. heard \in Texts /\ policy \in Policies /\ stage = "new" /\ text = heard
    BY DEF Init
  <2>2. \A k \in DOMAIN heard : heard[k].shown <= heard[k].shown
    BY <2>1, ShownIsNatural
  <2>3. OnlyHidden
    BY <2>1, <2>2 DEF OnlyHidden
  <2>4. PiecesMasked
    BY <2>1 DEF PiecesMasked, Masking
  <2>5. QED
    BY <2>1, <2>3, <2>4 DEF TextInv
<1>2. TextInv /\ [Next]_vars => TextInv'
  <2> SUFFICES ASSUME TextInv, [Next]_vars
               PROVE  TextInv'
    OBVIOUS
  <2>1. heard' = heard /\ policy' = policy /\ heard \in Texts /\ policy \in Policies
    BY DEF Next, Transcribe, Process, Payload, Normalize, vars, TextInv
  <2>2. /\ Allowed' = Allowed
        /\ \A k \in DOMAIN heard : OnePiece(k)' <=> OnePiece(k)
    BY <2>1 DEF Allowed, OnePiece
  <2>3. ASSUME text' = text, Masking' <=> Masking
        PROVE  OnlyHidden' /\ PiecesMasked'
    <3>1. Swallowed(text)' = Swallowed(text)
      BY <2>3
    <3>2. OnlyHidden'
      BY <2>1, <2>2, <2>3 DEF OnlyHidden, TextInv
    <3>3. PiecesMasked'
      BY <2>1, <2>2, <2>3, <3>1 DEF PiecesMasked, TextInv
    <3>4. QED
      BY <3>2, <3>3
  <2>4. ASSUME NEW t \in {heard, Clean(heard)}, text' = Redact(policy, t),
               Masking' <=> policy.mode # "none"
        PROVE  OnlyHidden' /\ PiecesMasked'
    <3> DEFINE u == Redact(policy, t)
    <3>1. HidesOnly(u) /\ HidesPieces(u) /\ text' = u
      BY <2>1, <2>4, Masked
    <3> HIDE DEF u
    <3>2. OnlyHidden'
      BY <2>1, <2>2, <2>4, <3>1 DEF OnlyHidden, HidesOnly
    <3>3. Swallowed(text)' = Swallowed(u)
      BY <3>1
    <3>4. PiecesMasked'
      BY <2>1, <2>2, <2>4, <3>1, <3>3 DEF PiecesMasked, HidesPieces
    <3>5. QED
      BY <3>2, <3>4
  <2>5. CASE Transcribe
    BY <2>1, <2>3, <2>5 DEF Transcribe, Masking, TextInv
  <2>6. CASE Process
    <3>1. stage' = "processed" /\ redact' = redact
      BY <2>6 DEF Process
    <3>2. CASE redact
      <4>1. text' = Redact(policy, Clean(heard)) /\ (Masking' <=> policy.mode # "none")
        BY <2>1, <2>6, <3>1, <3>2 DEF Process, Masking
      <4>2. OnlyHidden' /\ PiecesMasked'
        BY <2>4, <4>1
      <4>3. QED
        BY <2>1, <3>1, <4>2 DEF TextInv
    <3>3. CASE ~redact
      <4>1. text' = heard /\ ~Masking'
        BY <2>6, <3>1, <3>3 DEF Process, Masking
      <4>2. PiecesMasked'
        BY <4>1 DEF PiecesMasked
      <4>3. \A k \in DOMAIN heard : heard[k].shown <= heard[k].shown
        BY <2>1, ShownIsNatural
      <4>4. OnlyHidden'
        BY <2>1, <4>1, <4>3 DEF OnlyHidden
      <4>5. QED
        BY <2>1, <3>1, <4>2, <4>4 DEF TextInv
    <3>4. QED
      BY <2>6, <3>2, <3>3 DEF Process
  <2>7. CASE Payload
    BY <2>1, <2>3, <2>7 DEF Payload, Masking, TextInv
  <2>8. CASE Normalize
    <3>1. stage' = "normalized" /\ text' = Redact(policy, heard) /\ (Masking' <=> policy.mode # "none")
      BY <2>1, <2>8 DEF Normalize, Masking
    <3>2. OnlyHidden' /\ PiecesMasked'
      BY <2>4, <3>1
    <3>3. QED
      BY <2>1, <3>1, <3>2 DEF TextInv
  <2>9. CASE UNCHANGED vars
    BY <2>1, <2>3, <2>9 DEF vars, Masking, TextInv
  <2>10. QED
    BY <2>5, <2>6, <2>7, <2>8, <2>9 DEF Next
<1>3. QED
  BY <1>1, <1>2, PTL DEF Spec

\* For any texts and policies: redaction keeps the pieces of a text, only ever hides
\* digits, and leaves of a piece all of them or no more than mask_keep_last; a PAN, an
\* IFSC code or a number as long as an account's is masked whatever stands beside it,
\* and such a number is not spoken.
THEOREM RedactionAlwaysHides == Spec => []RedactionHides
<1>1. TextInv => RedactionHides
  BY DEF TextInv, RedactionHides
<1>2. QED
  BY <1>1, TextInvAlways, PTL

=============================================================================
