------------------------------ MODULE LeftFold ------------------------------
(***************************************************************************)
(* What FoldLeft computes, for proofs.  Several components define a state  *)
(* as the fold of an event log: the trace of the session companion, the    *)
(* scan of the crash repair, the replayed inbox.  The lemmas below let a   *)
(* proof follow such a fold one event at a time.  The module is            *)
(* instantiated once for each folded operator,                             *)
(*                                                                         *)
(*     Traces == INSTANCE LeftFold WITH Op <- After                        *)
(*                                                                         *)
(* so that its theorems are about that operator.  Induction is over a set  *)
(* of numbers or sequences: a theorem about a set can be cited where one   *)
(* about a predicate cannot be.                                            *)
(***************************************************************************)
EXTENDS SequencesExt, SequenceTheorems, WellFoundedInduction, TLAPS

CONSTANT Op(_, _)    \* the folded operator: the next state after a state and an event

-----------------------------------------------------------------------------
(* Induction over a set. *)

\* The order of the natural numbers, as a set of pairs, is well-founded.
LEMMA NatOrder == IsWellFoundedOn({p \in Nat \X Nat : p[1] < p[2]}, Nat)
  BY NatLessThanWellFounded DEF OpToRel

\* A set of natural numbers that is not empty has a least element.
LEMMA LeastElement ==
  ASSUME NEW T, T \subseteq Nat, T # {}
  PROVE  \E x \in T : \A y \in T : x <= y
<1> DEFINE R == {p \in Nat \X Nat : p[1] < p[2]}
<1>1. IsWellFoundedOn(R, Nat)
  BY NatOrder
<1> HIDE DEF R
<1>2. PICK x \in T : \A y \in T : ~(<<y, x>> \in R)
  BY <1>1, WFMin
<1>3. ASSUME NEW y \in T PROVE x <= y
  <2>1. x \in Nat /\ y \in Nat
    OBVIOUS
  <2>2. ~(y < x)
    <3> SUFFICES ASSUME y < x PROVE FALSE
      OBVIOUS
    <3>1. <<y, x>> \in R
      BY <2>1 DEF R
    <3> QED BY <3>1, <1>2
  <2> QED BY <2>1, <2>2
<1> QED BY <1>3

\* A set that has 0, and with every number its successor, has them all.
LEMMA NatSetInduction ==
  ASSUME NEW T, 0 \in T, \A n \in Nat : n \in T => n + 1 \in T
  PROVE  \A n \in Nat : n \in T
<1> SUFFICES ASSUME Nat \ T # {} PROVE FALSE
  OBVIOUS
<1>1. PICK x \in Nat \ T : \A y \in Nat \ T : x <= y
  BY LeastElement
<1>2. x # 0 /\ x - 1 \in Nat
  OBVIOUS
<1>3. x - 1 \in T
  BY <1>1, <1>2
<1>4. (x - 1) + 1 \in T
  BY <1>3, <1>2
<1> QED BY <1>4

\* A set that has the empty sequence, and with every sequence its extensions by
\* one element, has every sequence.
LEMMA SeqSetInduction ==
  ASSUME NEW E, NEW T, <<>> \in T,
         \A s \in Seq(E), e \in E : s \in T => Append(s, e) \in T
  PROVE  \A s \in Seq(E) : s \in T
<1> DEFINE N == {n \in Nat : \A s \in Seq(E) : Len(s) = n => s \in T}
<1>1. 0 \in N
  <2>1. \A s \in Seq(E) : Len(s) = 0 => s = <<>>
    OBVIOUS
  <2> QED BY <2>1
<1>2. ASSUME NEW n \in Nat, n \in N PROVE n + 1 \in N
  <2> SUFFICES ASSUME NEW s \in Seq(E), Len(s) = n + 1 PROVE s \in T
    OBVIOUS
  <2> DEFINE front == SubSeq(s, 1, n)
             last == s[n + 1]
  <2>1. front \in Seq(E) /\ Len(front) = n /\ last \in E
    OBVIOUS
  <2>2. s = Append(front, last)
    OBVIOUS
  <2>3. front \in T
    BY <1>2, <2>1
  <2> QED BY <2>1, <2>2, <2>3
<1> HIDE DEF N
<1>3. \A n \in Nat : n \in N
  BY <1>1, <1>2, NatSetInduction
<1>4. ASSUME NEW s \in Seq(E) PROVE s \in T
  <2>1. Len(s) \in Nat
    OBVIOUS
  <2> QED BY <2>1, <1>3 DEF N
<1> QED BY <1>4


-----------------------------------------------------------------------------
(* The recursion behind FoldLeft. *)

\* The state that a sequence of events leads to.
Fold(base, seq) == FoldLeft(Op, base, seq)

\* f solves the recursion of FoldLeft on the sets of positions up to n.
Solves(f, base, seq, n) ==
    f = [s \in SUBSET (1..n) |->
            IF s = {} THEN base ELSE Op(f[s \ {Max(s)}], seq[Max(s)])]

\* The last position of a set that holds it is the set's maximum.
LEMMA MaxIsLast ==
  ASSUME NEW n \in Nat, NEW s \in SUBSET (1..(n + 1)), n + 1 \in s
  PROVE  Max(s) = n + 1
<1>1. \A y \in s : n + 1 >= y
  OBVIOUS
<1>2. \A x \in s : (\A y \in s : x >= y) => x = n + 1
  BY <1>1
<1>3. \E x \in s : \A y \in s : x >= y
  BY <1>1
<1>4. Max(s) \in s /\ \A y \in s : Max(s) >= y
  BY <1>3 DEF Max
<1> QED BY <1>2, <1>4

\* A solution, unfolded once.
LEMMA SolutionUnfolds ==
  ASSUME NEW base, NEW seq, NEW n \in Nat, NEW f, Solves(f, base, seq, n),
         NEW s \in SUBSET (1..n), s # {}
  PROVE  f[s] = Op(f[s \ {Max(s)}], seq[Max(s)])
  BY DEF Solves

\* The recursion has a solution.
LEMMA SolutionExists ==
  ASSUME NEW base, NEW seq
  PROVE  \A n \in Nat : \E f : Solves(f, base, seq, n)
<1> DEFINE T == {n \in Nat : \E f : Solves(f, base, seq, n)}
<1>1. 0 \in T
  <2>1. SUBSET (1..0) = {{}}
    OBVIOUS
  <2>2. Solves([s \in SUBSET (1..0) |-> base], base, seq, 0)
    BY <2>1 DEF Solves
  <2> QED BY <2>2
<1>2. ASSUME NEW n \in Nat, n \in T PROVE n + 1 \in T
  <2>1. PICK f : Solves(f, base, seq, n)
    BY <1>2
  <2> DEFINE g == [s \in SUBSET (1..(n + 1)) |->
                     IF n + 1 \in s THEN Op(f[s \ {n + 1}], seq[n + 1]) ELSE f[s]]
  <2>2. ASSUME NEW s \in SUBSET (1..(n + 1))
        PROVE  g[s] = IF s = {} THEN base ELSE Op(g[s \ {Max(s)}], seq[Max(s)])
    <3>1. CASE n + 1 \in s
      <4>1. Max(s) = n + 1
        BY <3>1, MaxIsLast
      <4>2. s \ {n + 1} \in SUBSET (1..(n + 1)) /\ n + 1 \notin s \ {n + 1}
        OBVIOUS
      <4>3. g[s \ {n + 1}] = f[s \ {n + 1}]
        BY <4>2
      <4> QED BY <3>1, <4>1, <4>3
    <3>2. CASE n + 1 \notin s
      <4>1. s \in SUBSET (1..n)
        BY <3>2
      <4>2. f[s] = IF s = {} THEN base ELSE Op(f[s \ {Max(s)}], seq[Max(s)])
        BY <2>1, <4>1 DEF Solves
      <4>3. g[s] = f[s]
        BY <3>2
      <4>4. s \ {Max(s)} \in SUBSET (1..(n + 1)) /\ n + 1 \notin s \ {Max(s)}
        BY <3>2
      <4>5. g[s \ {Max(s)}] = f[s \ {Max(s)}]
        BY <4>4
      <4> QED BY <4>2, <4>3, <4>5
    <3> QED BY <3>1, <3>2
  <2> HIDE DEF g
  <2>3. g = [s \in SUBSET (1..(n + 1)) |-> g[s]]
    BY DEF g
  <2>4. g = [s \in SUBSET (1..(n + 1)) |->
                IF s = {} THEN base ELSE Op(g[s \ {Max(s)}], seq[Max(s)])]
    BY <2>2, <2>3
  <2> QED BY <2>4 DEF Solves
<1> HIDE DEF T
<1>3. \A n \in Nat : n \in T
  BY <1>1, <1>2, NatSetInduction
<1> QED BY <1>3 DEF T

\* The solutions for two sequences agree on a common beginning.
LEMMA SolutionsAgree ==
  ASSUME NEW base, NEW seq, NEW seq2, NEW m \in Nat, NEW n \in Nat, m <= n,
         NEW f, NEW g, Solves(f, base, seq, m), Solves(g, base, seq2, n),
         \A i \in 1..m : seq[i] = seq2[i]
  PROVE  f[1..m] = g[1..m]
<1> DEFINE T == {k \in Nat : k <= m => f[1..k] = g[1..k]}
<1>1. 0 \in T
  <2>1. 1..0 = {} /\ {} \in SUBSET (1..m) /\ {} \in SUBSET (1..n)
    OBVIOUS
  <2>2. f[{}] = base /\ g[{}] = base
    BY <2>1 DEF Solves
  <2> QED BY <2>1, <2>2
<1>2. ASSUME NEW k \in Nat, k \in T PROVE k + 1 \in T
  <2> SUFFICES ASSUME k + 1 <= m PROVE f[1..(k + 1)] = g[1..(k + 1)]
    OBVIOUS
  <2> DEFINE S == 1..(k + 1)
  <2>1. /\ S \in SUBSET (1..m) /\ S \in SUBSET (1..n) /\ S # {}
        /\ S \ {k + 1} = 1..k /\ k + 1 \in 1..m /\ k <= m
    OBVIOUS
  <2>2. Max(S) = k + 1
    BY MaxIsLast
  <2>a. S \in SUBSET (1..m) /\ S # {}
    BY <2>1
  <2>b. S \in SUBSET (1..n) /\ S # {}
    BY <2>1
  <2> HIDE DEF S
  <2>3. f[S] = Op(f[S \ {Max(S)}], seq[Max(S)])
    BY <2>a, SolutionUnfolds
  <2>4. g[S] = Op(g[S \ {Max(S)}], seq2[Max(S)])
    BY <2>b, SolutionUnfolds
  <2> QED BY <2>1, <2>2, <2>3, <2>4, <1>2 DEF S
<1> HIDE DEF T
<1>3. \A k \in Nat : k \in T
  BY <1>1, <1>2, NatSetInduction
<1> QED BY <1>3 DEF T

\* FoldLeft is the solution, taken at all the positions of the sequence.
LEMMA FoldIsSolution ==
  ASSUME NEW base, NEW E, NEW seq \in Seq(E)
  PROVE  \E f : /\ Solves(f, base, seq, Len(seq))
                /\ Fold(base, seq) = f[1..Len(seq)]
<1> DEFINE f == CHOOSE f : Solves(f, base, seq, Len(seq))
<1>1. Solves(f, base, seq, Len(seq))
  BY SolutionExists
<1>2. DOMAIN seq = 1..Len(seq)
  OBVIOUS
<1>3. Fold(base, seq) = f[DOMAIN seq]
  BY <1>2 DEF Fold, FoldLeft, MapThenFoldSet, Solves
<1> QED BY <1>1, <1>2, <1>3

-----------------------------------------------------------------------------
(* What the other modules cite. *)

\* Nothing folded is the state one started from.
THEOREM FoldEmpty ==
  ASSUME NEW base
  PROVE  Fold(base, <<>>) = base
<1>1. <<>> \in Seq({}) /\ Len(<<>>) = 0
  OBVIOUS
<1>2. PICK f : Solves(f, base, <<>>, 0) /\ Fold(base, <<>>) = f[1..0]
  BY <1>1, FoldIsSolution
<1>3. 1..0 = {} /\ {} \in SUBSET (1..0)
  OBVIOUS
<1> QED BY <1>2, <1>3 DEF Solves

\* One more event is one more application of the operator.
THEOREM FoldAppend ==
  ASSUME NEW base, NEW E, NEW seq \in Seq(E), NEW e \in E
  PROVE  Fold(base, Append(seq, e)) = Op(Fold(base, seq), e)
<1> DEFINE n == Len(seq)
           end == n + 1
           all == Append(seq, e)
<1>1. /\ n \in Nat /\ end \in Nat /\ n <= end
      /\ all \in Seq(E) /\ Len(all) = end /\ all[end] = e
      /\ \A i \in 1..n : seq[i] = all[i]
  OBVIOUS
<1> DEFINE S == 1..end
<1>2. S \in SUBSET (1..end) /\ S # {}
  BY <1>1
<1>3. Max(S) = end /\ S \ {end} = 1..n
  BY <1>1, <1>2, MaxIsLast
<1> HIDE DEF n, end, all, S
<1>4. PICK f : Solves(f, base, seq, n) /\ Fold(base, seq) = f[1..n]
  BY FoldIsSolution DEF n
<1>5. PICK g : Solves(g, base, all, end) /\ Fold(base, all) = g[S]
  BY <1>1, FoldIsSolution DEF S
<1>6. f[1..n] = g[1..n]
  BY <1>1, <1>4, <1>5, SolutionsAgree
<1>7. g[S] = Op(g[S \ {Max(S)}], all[Max(S)])
  BY <1>1, <1>2, <1>5, SolutionUnfolds
<1> QED BY <1>1, <1>2, <1>3, <1>4, <1>5, <1>6, <1>7 DEF all

\* Folding two sequences after one another.
THEOREM FoldConcat ==
  ASSUME NEW base, NEW E, NEW left \in Seq(E)
  PROVE  \A right \in Seq(E) :
            Fold(base, left \o right) = Fold(Fold(base, left), right)
<1> DEFINE T == {right \in Seq(E) : Fold(base, left \o right)
                                      = Fold(Fold(base, left), right)}
<1>1. <<>> \in T
  <2>1. left \o <<>> = left /\ <<>> \in Seq(E)
    OBVIOUS
  <2> QED BY <2>1, FoldEmpty
<1>2. ASSUME NEW right \in Seq(E), NEW e \in E, right \in T PROVE Append(right, e) \in T
  <2> DEFINE both == left \o right
  <2>0. both \in Seq(E)
    OBVIOUS
  <2>1. Append(right, e) \in Seq(E) /\ left \o Append(right, e) = Append(both, e)
    OBVIOUS
  <2> HIDE DEF both
  <2>2. Fold(base, Append(both, e)) = Op(Fold(base, both), e)
    BY <2>0, FoldAppend
  <2>3. Fold(Fold(base, left), Append(right, e))
          = Op(Fold(Fold(base, left), right), e)
    BY FoldAppend
  <2> QED BY <1>2, <2>1, <2>2, <2>3 DEF both
<1> HIDE DEF T
<1>3. \A right \in Seq(E) : right \in T
  BY <1>1, <1>2, SeqSetInduction
<1> QED BY <1>3 DEF T

\* A type that the operator keeps is the type of every fold.
THEOREM FoldTyped ==
  ASSUME NEW E, NEW A, NEW base \in A, \A a \in A, e \in E : Op(a, e) \in A
  PROVE  \A seq \in Seq(E) : Fold(base, seq) \in A
<1> DEFINE T == {seq \in Seq(E) : Fold(base, seq) \in A}
<1>1. <<>> \in T
  <2>1. <<>> \in Seq(E)
    OBVIOUS
  <2> QED BY <2>1, FoldEmpty
<1>2. ASSUME NEW seq \in Seq(E), NEW e \in E, seq \in T PROVE Append(seq, e) \in T
  <2>1. Append(seq, e) \in Seq(E)
    OBVIOUS
  <2>2. Fold(base, Append(seq, e)) = Op(Fold(base, seq), e)
    BY FoldAppend
  <2> QED BY <1>2, <2>1, <2>2
<1> HIDE DEF T
<1>3. \A seq \in Seq(E) : seq \in T
  BY <1>1, <1>2, SeqSetInduction
<1> QED BY <1>3 DEF T

\* Removing one element of a sequence moves the later ones up.
LEMMA RemoveAtFacts ==
  ASSUME NEW S, NEW s \in Seq(S), NEW k \in DOMAIN s
  PROVE  /\ RemoveAt(s, k) \in Seq(S)
         /\ Len(RemoveAt(s, k)) = Len(s) - 1
         /\ \A j \in 1..(Len(s) - 1) : RemoveAt(s, k)[j] = IF j < k THEN s[j] ELSE s[j + 1]
<1> DEFINE left == SubSeq(s, 1, k - 1)
           right == SubSeq(s, k + 1, Len(s))
<1>1. k \in 1..Len(s) /\ Len(s) \in Nat /\ k \in Nat
  OBVIOUS
<1>2. /\ left \in Seq(S) /\ Len(left) = k - 1
      /\ \A j \in 1..(k - 1) : left[j] = s[j]
  BY <1>1
<1>3. /\ right \in Seq(S) /\ Len(right) = Len(s) - k
      /\ \A j \in 1..(Len(s) - k) : right[j] = s[k + j]
  BY <1>1
<1>4. RemoveAt(s, k) = left \o right
  BY <1>1 DEF RemoveAt
<1> HIDE DEF left, right
<1>5. /\ left \o right \in Seq(S) /\ Len(left \o right) = Len(left) + Len(right)
      /\ \A j \in 1..Len(left) + Len(right) :
            (left \o right)[j] = IF j <= Len(left) THEN left[j] ELSE right[j - Len(left)]
  BY <1>2, <1>3, ConcatProperties
<1> DEFINE all == left \o right
<1>6. /\ all \in Seq(S) /\ Len(all) = Len(left) + Len(right)
      /\ \A j \in 1..Len(left) + Len(right) :
            all[j] = IF j <= Len(left) THEN left[j] ELSE right[j - Len(left)]
  BY <1>5
<1> HIDE DEF all
<1>7. all \in Seq(S) /\ Len(all) = Len(s) - 1
  BY <1>1, <1>2, <1>3, <1>6
<1>8. ASSUME NEW j \in 1..(Len(s) - 1)
      PROVE  all[j] = IF j < k THEN s[j] ELSE s[j + 1]
  <2>1. j \in Nat /\ j \in 1..Len(left) + Len(right)
    BY <1>1, <1>2, <1>3
  <2>2. all[j] = IF j <= Len(left) THEN left[j] ELSE right[j - Len(left)]
    BY <1>6, <2>1
  <2>3. CASE j < k
    <3>1. j <= Len(left) /\ j \in 1..(k - 1)
      BY <1>1, <1>2, <2>1, <2>3
    <3> QED BY <1>2, <2>2, <2>3, <3>1
  <2>4. CASE ~(j < k)
    <3> DEFINE i == j - (k - 1)
    <3>1. i \in 1..(Len(s) - k) /\ k + i = j + 1 /\ j - Len(left) = i /\ ~(j <= Len(left))
      <4>1. j \in Nat /\ j <= Len(s) - 1 /\ j >= k
        BY <1>1, <2>1, <2>4
      <4> QED BY <1>1, <1>2, <4>1
    <3> HIDE DEF i
    <3> QED BY <1>3, <2>2, <2>4, <3>1
  <2> QED BY <2>3, <2>4
<1> QED BY <1>4, <1>7, <1>8 DEF all
=============================================================================
