------------------------------ MODULE Folding ------------------------------
(***************************************************************************)
(* Induction without predicates, and what a fold over a sequence computes. *)
(* An induction hypothesis is a set here, so that the lemmas can be cited  *)
(* by first-order provers; and the operator of a fold is a function.       *)
(***************************************************************************)
EXTENDS Integers, Sequences, SequencesExt, WellFoundedInduction,
        NaturalsInduction, TLAPS

----------------------------------------------------------------------------
(* A set of numbers has a least one.                                       *)
LEMMA NatLeast ==
  ASSUME NEW T \in SUBSET Nat, T # {}
  PROVE  \E x \in T : \A y \in T : x <= y
<1>1. \E R : R = {ss \in Nat \X Nat : ss[1] < ss[2]} /\ IsWellFoundedOn(R, Nat)
  BY NatLessThanWellFounded DEF OpToRel
<1>2. PICK R : R = {ss \in Nat \X Nat : ss[1] < ss[2]} /\ IsWellFoundedOn(R, Nat)
  BY <1>1
<1>3. PICK x \in T : \A y \in T : ~(<<y, x>> \in R)
  BY <1>2, WFMin
<1>4. ASSUME NEW y \in T PROVE x <= y
  <2>1. <<y, x>> \in Nat \X Nat /\ <<y, x>>[1] = y /\ <<y, x>>[2] = x
    OBVIOUS
  <2>2. ~(y < x)
    BY <1>2, <1>3, <2>1
  <2>. QED BY <2>2
<1>. QED BY <1>4

(* A set that has zero and with every number the next one has them all.    *)
LEMMA NatSetInduction ==
  ASSUME NEW S, 0 \in S, \A n \in Nat : n \in S => n + 1 \in S
  PROVE  Nat \subseteq S
<1> SUFFICES ASSUME Nat \ S # {} PROVE FALSE
  OBVIOUS
<1>1. PICK x \in Nat \ S : \A y \in Nat \ S : x <= y
  BY NatLeast
<1>2. x # 0 /\ x - 1 \in Nat
  BY <1>1
<1>3. x - 1 \in S
  BY <1>1, <1>2
<1>. QED BY <1>1, <1>2, <1>3

(* A set of sequences that has the empty one and with every sequence those *)
(* one longer has them all.                                                *)
LEMMA SeqSetInduction ==
  ASSUME NEW E, NEW T, <<>> \in T,
         \A s \in Seq(E), e \in E : s \in T => Append(s, e) \in T
  PROVE  Seq(E) \subseteq T
<1> DEFINE S == {n \in Nat : \A s \in Seq(E) : Len(s) = n => s \in T}
<1>1. 0 \in S
  OBVIOUS
<1>2. ASSUME NEW n \in Nat, n \in S PROVE n + 1 \in S
  <2> SUFFICES ASSUME NEW s \in Seq(E), Len(s) = n + 1 PROVE s \in T
    OBVIOUS
  <2>1. /\ SubSeq(s, 1, n) \in Seq(E) /\ Len(SubSeq(s, 1, n)) = n /\ s[n + 1] \in E
        /\ s = Append(SubSeq(s, 1, n), s[n + 1])
    OBVIOUS
  <2>. QED BY <1>2, <2>1
<1>3. Nat \subseteq S
  <2> HIDE DEF S
  <2>. QED BY <1>1, <1>2, NatSetInduction
<1>. QED BY <1>3

----------------------------------------------------------------------------
(* The greatest element of a nonempty set of indices.                      *)
LEMMA MaxIndex ==
  ASSUME NEW n \in Nat, NEW t \in SUBSET (1..n), t # {}
  PROVE  Max(t) \in t /\ \A k \in t : k <= Max(t)
<1> DEFINE bounds == {b \in Nat : \A k \in t : k <= b}
<1>1. PICK b \in bounds : \A c \in bounds : b <= c
  <2>1. bounds \in SUBSET Nat /\ n \in bounds
    OBVIOUS
  <2> HIDE DEF bounds
  <2>. QED BY <2>1, NatLeast
<1>2. b \in t
  <2> SUFFICES ASSUME b \notin t PROVE FALSE
    OBVIOUS
  <2>1. PICK k \in t : TRUE
    OBVIOUS
  <2>2. k \in Nat /\ k >= 1 /\ b \in Nat /\ k <= b
    BY <1>1
  <2>3. b - 1 \in Nat
    BY <2>2
  <2>4. ASSUME NEW j \in t PROVE j <= b - 1
    <3>1. j \in Nat /\ j <= b /\ j # b
      BY <1>1
    <3>. QED BY <2>2, <3>1
  <2>5. b - 1 \in bounds
    BY <2>3, <2>4
  <2>. QED BY <1>1, <2>2, <2>5
<1>3. \A k \in t : b >= k
  BY <1>1
<1>4. Max(t) \in t /\ \A k \in t : Max(t) >= k
  BY <1>2, <1>3 DEF Max
<1>5. \A k \in t : k \in Nat
  OBVIOUS
<1>. QED BY <1>4, <1>5

LEMMA MaxOfInterval ==
  ASSUME NEW n \in Nat, NEW t \in SUBSET (1..n + 1), n + 1 \in t
  PROVE  Max(t) = n + 1
<1>1. n + 1 \in Nat /\ t # {}
  OBVIOUS
<1>2. Max(t) \in t /\ \A k \in t : k <= Max(t)
  BY <1>1, MaxIndex
<1>3. Max(t) \in 1..n + 1 /\ n + 1 <= Max(t)
  BY <1>2
<1>. QED BY <1>3

(* The equation that defines the iteration of a fold.                      *)
Iterates(it, F, base, s, n) ==
  it = [t \in SUBSET (1..n) |-> IF t = {} THEN base ELSE F[it[t \ {Max(t)}], s[Max(t)]]]

HasIteration(V, F, base, s, n) ==
  \E it \in [SUBSET (1..n) -> V] : Iterates(it, F, base, s, n)

(* It has a solution, in the values of the fold: one for the first n + 1   *)
(* indices is made of one for the first n.                                 *)
LEMMA IterationGrows ==
  ASSUME NEW V, NEW E, NEW F \in [V \X E -> V], NEW base \in V, NEW s \in Seq(E),
         NEW n \in Nat, n + 1 <= Len(s),
         NEW old \in [SUBSET (1..n) -> V], Iterates(old, F, base, s, n)
  PROVE  \E it \in [SUBSET (1..n + 1) -> V] : Iterates(it, F, base, s, n + 1)
<1> DEFINE it == [t \in SUBSET (1..n + 1) |->
                    IF n + 1 \in t THEN F[old[t \ {n + 1}], s[n + 1]] ELSE old[t]]
<1>1. s[n + 1] \in E
  OBVIOUS
<1>2. ASSUME NEW t \in SUBSET (1..n + 1) PROVE t \ {n + 1} \in SUBSET (1..n)
  OBVIOUS
<1>3. ASSUME NEW t \in SUBSET (1..n + 1), n + 1 \notin t PROVE t \in SUBSET (1..n)
  BY <1>3
<1>4. \A v \in V, e \in E : F[v, e] \in V
  OBVIOUS
<1>5. ASSUME NEW t \in SUBSET (1..n)
      PROVE  old[t] = IF t = {} THEN base ELSE F[old[t \ {Max(t)}], s[Max(t)]]
  BY DEF Iterates
<1>6. ASSUME NEW t \in SUBSET (1..n + 1)
      PROVE  it[t] = IF n + 1 \in t THEN F[old[t \ {n + 1}], s[n + 1]] ELSE old[t]
  OBVIOUS
<1>7. it = [t \in SUBSET (1..n + 1) |-> it[t]]
  OBVIOUS
<1> HIDE DEF it
<1>8. ASSUME NEW t \in SUBSET (1..n + 1) PROVE it[t] \in V
  <2>1. CASE n + 1 \in t
    <3>1. old[t \ {n + 1}] \in V
      BY <1>2
    <3>. QED BY <2>1, <3>1, <1>1, <1>4, <1>6
  <2>2. CASE n + 1 \notin t
    <3>1. old[t] \in V
      BY <2>2, <1>3
    <3>. QED BY <2>2, <3>1, <1>6
  <2>. QED BY <2>1, <2>2
<1>9. it \in [SUBSET (1..n + 1) -> V]
  BY <1>7, <1>8
<1>10. ASSUME NEW t \in SUBSET (1..n + 1)
       PROVE  it[t] = IF t = {} THEN base ELSE F[it[t \ {Max(t)}], s[Max(t)]]
  <2>1. CASE n + 1 \in t
    <3>1. Max(t) = n + 1
      BY <2>1, MaxOfInterval
    <3>2. t \ {n + 1} \in SUBSET (1..n + 1) /\ n + 1 \notin t \ {n + 1}
      OBVIOUS
    <3>3. it[t \ {n + 1}] = old[t \ {n + 1}]
      BY <3>2, <1>6
    <3>4. it[t] = F[old[t \ {n + 1}], s[n + 1]]
      BY <2>1, <1>6
    <3>. QED BY <2>1, <3>1, <3>3, <3>4
  <2>2. CASE n + 1 \notin t
    <3>1. it[t] = old[t] /\ t \in SUBSET (1..n)
      BY <2>2, <1>3, <1>6
    <3>2. t \ {Max(t)} \in SUBSET (1..n + 1) /\ n + 1 \notin t \ {Max(t)}
      BY <2>2
    <3>3. it[t \ {Max(t)}] = old[t \ {Max(t)}]
      BY <3>2, <1>6
    <3>. QED BY <3>1, <3>3, <1>5
  <2>. QED BY <2>1, <2>2
<1>11. Iterates(it, F, base, s, n + 1)
  BY <1>7, <1>10 DEF Iterates
<1>. QED BY <1>9, <1>11

LEMMA IterationExists ==
  ASSUME NEW V, NEW E, NEW F \in [V \X E -> V], NEW base \in V, NEW s \in Seq(E)
  PROVE  HasIteration(V, F, base, s, Len(s))
<1> DEFINE S == {n \in Nat : n <= Len(s) => HasIteration(V, F, base, s, n)}
<1>1. HasIteration(V, F, base, s, 0)
  <2>1. SUBSET (1..0) = {{}}
    OBVIOUS
  <2> DEFINE it == [t \in SUBSET (1..0) |-> base]
  <2>2. it \in [SUBSET (1..0) -> V]
    OBVIOUS
  <2>3. it = [t \in SUBSET (1..0) |-> IF t = {} THEN base ELSE F[it[t \ {Max(t)}], s[Max(t)]]]
    BY <2>1, Zenon
  <2>4. Iterates(it, F, base, s, 0)
    BY <2>3 DEF Iterates
  <2>. QED BY <2>2, <2>4 DEF HasIteration
<1>2. ASSUME NEW n \in Nat, n + 1 <= Len(s), HasIteration(V, F, base, s, n)
      PROVE  HasIteration(V, F, base, s, n + 1)
  BY <1>2, IterationGrows DEF HasIteration
<1>3. ASSUME NEW n \in Nat, n \in S PROVE n + 1 \in S
  BY <1>2, <1>3
<1>4. Nat \subseteq S
  <2>1. 0 \in S
    BY <1>1
  <2> HIDE DEF S
  <2>. QED BY <2>1, <1>3, NatSetInduction
<1>5. Len(s) \in S
  BY <1>4
<1>. QED BY <1>5

(* What the steps of an iteration over s come to.                          *)
Steps(it, V, F, base, s) ==
  /\ it[{}] = base
  /\ \A k \in 1..Len(s) : it[1..k-1] \in V => it[1..k] = F[it[1..k-1], s[k]]

(* An equation of this form, of whatever operation, is one of steps.       *)
LEMMA IntervalSteps ==
  ASSUME NEW n \in Nat, NEW k \in 1..n
  PROVE  1..k \in SUBSET (1..n) /\ 1..k # {} /\ Max(1..k) = k /\ (1..k) \ {k} = 1..k-1
<1>1. 1..k \in SUBSET (1..n) /\ k \in 1..k /\ (1..k) \ {k} = 1..k-1
  OBVIOUS
<1>2. k - 1 \in Nat /\ (k - 1) + 1 = k
  OBVIOUS
<1>. QED BY <1>1, <1>2, MaxOfInterval

LEMMA IterationSteps ==
  ASSUME NEW V, NEW E, NEW F, NEW base, NEW s \in Seq(E), NEW it,
         Iterates(it, F, base, s, Len(s))
  PROVE  Steps(it, V, F, base, s)
<1>1. it[{}] = base
  BY DEF Iterates
<1>2. ASSUME NEW k \in 1..Len(s) PROVE it[1..k] = F[it[1..k-1], s[k]]
  <2>1. Len(s) \in Nat
    OBVIOUS
  <2>2. it[1..k] = F[it[(1..k) \ {Max(1..k)}], s[Max(1..k)]]
    BY <2>1, IntervalSteps DEF Iterates
  <2>. QED BY <2>1, <2>2, IntervalSteps
<1>. QED BY <1>1, <1>2 DEF Steps

Outcome(it, s) == it[1..Len(s)]

IsStep(F, V, E) == F \in [V \X E -> V]

LEMMA IterationIn ==
  ASSUME NEW V, NEW E, NEW s \in Seq(E), NEW it \in [SUBSET (1..Len(s)) -> V],
         NEW t \in SUBSET (1..Len(s)), t # {}
  PROVE  it[t \ {Max(t)}] \in V /\ s[Max(t)] \in E
<1>1. Max(t) \in t
  <2>1. Len(s) \in Nat
    OBVIOUS
  <2>. QED BY <2>1, MaxIndex
<1>2. Max(t) \in 1..Len(s) /\ t \ {Max(t)} \in SUBSET (1..Len(s))
  BY <1>1
<1>. QED BY <1>2

(* Two iterations whose steps are those of F agree.                        *)
LEMMA IterationUnique ==
  ASSUME NEW V, NEW E, NEW F, IsStep(F, V, E), NEW base \in V, NEW s \in Seq(E),
         NEW it, NEW other, Steps(it, V, F, base, s), Steps(other, V, F, base, s)
  PROVE  Outcome(it, s) \in V /\ Outcome(it, s) = Outcome(other, s)
<1> DEFINE S == {n \in Nat : n <= Len(s) => it[1..n] \in V /\ it[1..n] = other[1..n]}
<1>1. 0 \in S
  <2>1. 1..0 = {}
    OBVIOUS
  <2>. QED BY <2>1 DEF Steps
<1>2. ASSUME NEW n \in Nat, n \in S PROVE n + 1 \in S
  <2>1. SUFFICES ASSUME n + 1 <= Len(s)
                 PROVE  it[1..n + 1] \in V /\ it[1..n + 1] = other[1..n + 1]
    OBVIOUS
  <2>2. n + 1 \in 1..Len(s) /\ (n + 1) - 1 = n /\ s[n + 1] \in E
    BY <2>1
  <2>3. it[1..n] \in V /\ it[1..n] = other[1..n]
    BY <1>2, <2>1
  <2>4. it[1..n + 1] = F[it[1..n], s[n + 1]] /\ other[1..n + 1] = F[other[1..n], s[n + 1]]
    BY <2>2, <2>3 DEF Steps
  <2>5. F[it[1..n], s[n + 1]] \in V
    BY <2>2, <2>3 DEF IsStep
  <2>. QED BY <2>3, <2>4, <2>5
<1>3. Nat \subseteq S
  <2> HIDE DEF S
  <2>. QED BY <1>1, <1>2, NatSetInduction
<1>4. Len(s) \in S
  BY <1>3
<1>. QED BY <1>4 DEF Outcome

----------------------------------------------------------------------------
(* R is the fold of F from base, as a function of the sequence.            *)
IsFold(R, V, E, F, base) ==
  /\ R \in [Seq(E) -> V]
  /\ R[<<>>] = base
  /\ \A s \in Seq(E), e \in E : R[Append(s, e)] = F[R[s], e]

(* Iterations come to the values of R.                                     *)
Reached(R, V, E, F, base) ==
  \A s \in Seq(E) :
    /\ HasIteration(V, F, base, s, Len(s))
    /\ \A it : Steps(it, V, F, base, s) => Outcome(it, s) = R[s]

(* There is one, and every iteration comes to its value.                   *)
LEMMA FoldOf ==
  ASSUME NEW V, NEW E, NEW F, IsStep(F, V, E), NEW base \in V
  PROVE  \E R : IsFold(R, V, E, F, base) /\ Reached(R, V, E, F, base)
<1> DEFINE IterationOf(s) == CHOOSE it : Iterates(it, F, base, s, Len(s))
           R == [s \in Seq(E) |-> Outcome(IterationOf(s), s)]
<1>0. F \in [V \X E -> V]
  BY DEF IsStep
<1>1. ASSUME NEW s \in Seq(E) PROVE Steps(IterationOf(s), V, F, base, s)
  <2>1. \E it : Iterates(it, F, base, s, Len(s))
    <3>1. HasIteration(V, F, base, s, Len(s))
      BY <1>0, IterationExists
    <3>. QED BY <3>1 DEF HasIteration
  <2>2. Iterates(IterationOf(s), F, base, s, Len(s))
    BY <2>1, Zenon
  <2> HIDE DEF IterationOf
  <2>. QED BY <2>2, IterationSteps
<1>2. ASSUME NEW s \in Seq(E) PROVE R[s] = Outcome(IterationOf(s), s)
  OBVIOUS
<1>3. R = [s \in Seq(E) |-> R[s]]
  OBVIOUS
<1> HIDE DEF IterationOf, R
<1>4. ASSUME NEW s \in Seq(E), NEW it, Steps(it, V, F, base, s)
      PROVE  Outcome(it, s) = R[s] /\ R[s] \in V
  <2>1. Steps(IterationOf(s), V, F, base, s) /\ R[s] = Outcome(IterationOf(s), s)
    BY <1>1, <1>2
  <2>2. PICK own : Steps(own, V, F, base, s) /\ R[s] = Outcome(own, s)
    BY <2>1
  <2>3. Outcome(own, s) \in V /\ Outcome(own, s) = Outcome(it, s)
    BY <2>2, <1>4, IterationUnique
  <2>. QED BY <2>2, <2>3
<1>5. R \in [Seq(E) -> V]
  BY <1>1, <1>3, <1>4
<1>6. R[<<>>] = base
  <2>1. <<>> \in Seq(E) /\ 1..Len(<<>>) = {}
    OBVIOUS
  <2>2. R[<<>>] = IterationOf(<<>>)[{}]
    BY <2>1, <1>2 DEF Outcome
  <2>. QED BY <2>1, <2>2, <1>1 DEF Steps
<1>7. ASSUME NEW s \in Seq(E), NEW e \in E PROVE R[Append(s, e)] = F[R[s], e]
  <2> DEFINE longer == Append(s, e)
             it == IterationOf(longer)
  <2>1. /\ longer \in Seq(E) /\ Len(longer) = Len(s) + 1 /\ longer[Len(s) + 1] = e
        /\ \A k \in 1..Len(s) : longer[k] = s[k]
        /\ 1..Len(s) \subseteq 1..Len(s) + 1 /\ Len(s) + 1 \in 1..Len(s) + 1
        /\ (Len(s) + 1) - 1 = Len(s)
    OBVIOUS
  <2>2. Steps(it, V, F, base, longer)
    BY <2>1, <1>1
  <2> HIDE DEF longer, it
  <2>3. Steps(it, V, F, base, s)
    BY <2>1, <2>2 DEF Steps
  <2>4. Outcome(it, s) = R[s] /\ R[s] \in V
    BY <2>3, <1>4
  <2>5. it[1..Len(s) + 1] = F[it[1..Len(s)], e]
    BY <2>1, <2>2, <2>4 DEF Steps, Outcome
  <2>6. it[1..Len(s) + 1] = R[longer]
    BY <2>1, <2>2, <1>4 DEF Outcome
  <2>. QED BY <2>4, <2>5, <2>6 DEF longer, Outcome
<1>8. IsFold(R, V, E, F, base)
  BY <1>5, <1>6, <1>7 DEF IsFold
<1>9. \A s \in Seq(E) : HasIteration(V, F, base, s, Len(s))
  BY <1>0, IterationExists
<1>. QED BY <1>4, <1>8, <1>9 DEF Reached

(* What a fold over s with some operation needs to come to R[s]: the       *)
(* equation of the operation has a solution, and every solution steps as F *)
(* does where F is defined.                                                *)
Value(R, V, F, base, s) ==
  \A it : /\ it[{}] = base
          /\ \A t \in SUBSET DOMAIN s :
               t # {} /\ it[t \ {Max(t)}] \in V => it[t] = F[it[t \ {Max(t)}], s[Max(t)]]
          => it[DOMAIN s] = R[s]

LEMMA FoldValue ==
  ASSUME NEW V, NEW E, NEW F, NEW base, NEW R, Reached(R, V, E, F, base), NEW s \in Seq(E)
  PROVE  Value(R, V, F, base, s)
<1>1. DOMAIN s = 1..Len(s) /\ Len(s) \in Nat
  OBVIOUS
<1>2. ASSUME NEW it, it[{}] = base,
             \A t \in SUBSET DOMAIN s :
               t # {} /\ it[t \ {Max(t)}] \in V => it[t] = F[it[t \ {Max(t)}], s[Max(t)]]
      PROVE  it[DOMAIN s] = R[s]
  <2>1. ASSUME NEW k \in 1..Len(s), it[1..k-1] \in V
        PROVE  it[1..k] = F[it[1..k-1], s[k]]
    <3>1. 1..k \in SUBSET DOMAIN s /\ 1..k # {} /\ Max(1..k) = k /\ (1..k) \ {k} = 1..k-1
      BY <1>1, IntervalSteps
    <3>. QED BY <1>2, <2>1, <3>1
  <2>2. Steps(it, V, F, base, s)
    BY <1>2, <2>1 DEF Steps
  <2>. QED BY <1>1, <2>2 DEF Reached, Outcome
<1>. QED BY <1>2 DEF Value

LEMMA FoldSolution ==
  ASSUME NEW V, NEW E, NEW F, NEW base, NEW R, Reached(R, V, E, F, base), NEW s \in Seq(E)
  PROVE  \E it : /\ it = [t \in SUBSET DOMAIN s |-> it[t]]
                 /\ it[{}] = base
                 /\ \A t \in SUBSET DOMAIN s : t # {} =>
                      /\ it[t] = F[it[t \ {Max(t)}], s[Max(t)]]
                      /\ it[t \ {Max(t)}] \in V /\ s[Max(t)] \in E
<1>1. DOMAIN s = 1..Len(s)
  OBVIOUS
<1>2. PICK it \in [SUBSET (1..Len(s)) -> V] : Iterates(it, F, base, s, Len(s))
  BY DEF Reached, HasIteration
<1>3. it = [t \in SUBSET (1..Len(s)) |-> it[t]]
  OBVIOUS
<1>4. it[{}] = base
  BY <1>2 DEF Iterates
<1>5. ASSUME NEW t \in SUBSET (1..Len(s)), t # {}
      PROVE  /\ it[t] = F[it[t \ {Max(t)}], s[Max(t)]]
             /\ it[t \ {Max(t)}] \in V /\ s[Max(t)] \in E
  <2>1. it[t] = F[it[t \ {Max(t)}], s[Max(t)]]
    BY <1>2, <1>5 DEF Iterates
  <2>. QED BY <2>1, <1>5, IterationIn
<1>. QED BY <1>1, <1>3, <1>4, <1>5

----------------------------------------------------------------------------
(* f is the recursion of F from base over the numbers of D.                *)
Recurs(f, V, F, base, D) ==
  /\ f \in [D -> V]
  /\ f[0] = base
  /\ \A i \in D \ {0} : f[i] = F[f[i - 1], i]

(* Recursion over the numbers up to n, and over all of them: what a        *)
(* recursive function is, once such a function is known to exist.          *)
LEMMA RecursionUpto ==
  ASSUME NEW V, NEW base \in V, NEW n \in Nat, NEW F, IsStep(F, V, 1..n)
  PROVE  \E f : Recurs(f, V, F, base, 0..n)
<1> DEFINE E == 1..n
           upto(m) == [i \in 1..m |-> i]
<1>1. PICK R : IsFold(R, V, E, F, base)
  BY FoldOf
<1>2. /\ R \in [Seq(E) -> V] /\ R[<<>>] = base
      /\ \A s \in Seq(E), e \in E : R[Append(s, e)] = F[R[s], e]
  BY <1>1 DEF IsFold
<1>3. \A m \in 0..n : upto(m) \in Seq(E)
  OBVIOUS
<1>4. \A m \in (0..n) \ {0} : /\ upto(m) = Append(upto(m - 1), m) /\ m \in E
                              /\ m - 1 \in 0..n /\ m \in 0..n
  OBVIOUS
<1>5. upto(0) = <<>> /\ 0 \in 0..n
  OBVIOUS
<1> HIDE DEF upto, E
<1>6. PICK f : f = [i \in 0..n |-> R[upto(i)]]
  OBVIOUS
<1>7. f \in [0..n -> V]
  BY <1>2, <1>3, <1>6
<1>8. f[0] = base
  BY <1>2, <1>5, <1>6
<1>9. ASSUME NEW i \in (0..n) \ {0} PROVE f[i] = F[f[i - 1], i]
  <2>1. f[i] = R[upto(i)] /\ f[i - 1] = R[upto(i - 1)]
    BY <1>4, <1>6
  <2>2. PICK s : s = upto(i - 1)
    OBVIOUS
  <2>3. upto(i) = Append(s, i) /\ i \in E /\ s \in Seq(E)
    BY <1>3, <1>4, <2>2
  <2>4. R[Append(s, i)] = F[R[s], i]
    BY <1>2, <2>3
  <2>. QED BY <2>1, <2>2, <2>3, <2>4
<1>. QED BY <1>7, <1>8, <1>9 DEF Recurs

LEMMA RecursionNat ==
  ASSUME NEW V, NEW base \in V, NEW F, IsStep(F, V, Nat)
  PROVE  \E f : Recurs(f, V, F, base, Nat)
<1> DEFINE upto(m) == [i \in 1..m |-> i]
<1>1. PICK R : IsFold(R, V, Nat, F, base)
  BY FoldOf
<1>2. /\ R \in [Seq(Nat) -> V] /\ R[<<>>] = base
      /\ \A s \in Seq(Nat), e \in Nat : R[Append(s, e)] = F[R[s], e]
  BY <1>1 DEF IsFold
<1>3. \A m \in Nat : upto(m) \in Seq(Nat)
  OBVIOUS
<1>4. \A m \in Nat \ {0} : upto(m) = Append(upto(m - 1), m) /\ m - 1 \in Nat
  OBVIOUS
<1>5. upto(0) = <<>>
  OBVIOUS
<1> HIDE DEF upto
<1>6. PICK f : f = [i \in Nat |-> R[upto(i)]]
  OBVIOUS
<1>7. f \in [Nat -> V]
  BY <1>2, <1>3, <1>6
<1>8. f[0] = base
  BY <1>2, <1>5, <1>6
<1>9. ASSUME NEW i \in Nat \ {0} PROVE f[i] = F[f[i - 1], i]
  <2>1. f[i] = R[upto(i)] /\ f[i - 1] = R[upto(i - 1)]
    BY <1>4, <1>6
  <2>2. PICK s : s = upto(i - 1)
    OBVIOUS
  <2>3. upto(i) = Append(s, i) /\ s \in Seq(Nat)
    BY <1>3, <1>4, <2>2
  <2>4. R[Append(s, i)] = F[R[s], i]
    BY <1>2, <2>3
  <2>. QED BY <2>1, <2>2, <2>3, <2>4
<1>. QED BY <1>7, <1>8, <1>9 DEF Recurs

(* Two functions that go on alike from the same value are alike.           *)
LEMMA Agree ==
  ASSUME NEW n \in Nat, NEW f, NEW g, f[0] = g[0],
         \A i \in 1..n : f[i - 1] = g[i - 1] => f[i] = g[i]
  PROVE  f[n] = g[n]
<1> DEFINE S == {m \in Nat : m <= n => f[m] = g[m]}
<1>1. 0 \in S
  OBVIOUS
<1>2. ASSUME NEW m \in Nat, m \in S PROVE m + 1 \in S
  <2>1. SUFFICES ASSUME m + 1 <= n PROVE f[m + 1] = g[m + 1]
    OBVIOUS
  <2>2. m + 1 \in 1..n /\ (m + 1) - 1 = m /\ f[m] = g[m]
    BY <1>2, <2>1
  <2>. QED BY <2>2
<1> HIDE DEF S
<1>3. Nat \subseteq S
  BY <1>1, <1>2, NatSetInduction
<1>. QED BY <1>3 DEF S
=============================================================================
