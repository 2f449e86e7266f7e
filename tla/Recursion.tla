----------------------------- MODULE Recursion -----------------------------
(***************************************************************************)
(* What the proofs about recursive functions rest on.                      *)
(*                                                                         *)
(* The library's induction theorems take a predicate, which the provers    *)
(* cannot choose.  Here the induction is over the numbers in a set, which  *)
(* they can: it follows from the well-foundedness of the naturals.  With   *)
(* it, a function that is defined by its value at 0 and a step exists,     *)
(* and so do one that is defined from the end of a sequence, the sums over *)
(* sequences that count what is under way, and sequences that are put      *)
(* together.                                                               *)
(***************************************************************************)
EXTENDS Integers, Sequences, SequencesExt, WellFoundedInduction, SequenceTheorems, TLAPS

\* What is in a set with 0 and with the next of each number is every number.
LEMMA Induction ==
  ASSUME NEW S, 0 \in S, \A n \in Nat : n \in S => n + 1 \in S
  PROVE  \A n \in Nat : n \in S
<1> DEFINE R == OpToRel(<, Nat)
           T == Nat \ S
<1>1. SUFFICES ASSUME T # {} PROVE FALSE
  OBVIOUS
<1>2. IsWellFoundedOn(R, Nat)
  BY NatLessThanWellFounded
<1>3. \A m, n \in Nat : m < n => <<m, n>> \in R
  BY DEF OpToRel
<1> HIDE DEF R
<1>4. PICK m \in T : \A n \in T : ~(<<n, m>> \in R)
  BY <1>1, <1>2, WFMin
<1>5. m # 0 /\ m \in Nat
  OBVIOUS
<1>6. m - 1 \in Nat /\ m - 1 < m /\ (m - 1) + 1 = m
  BY <1>5
<1>7. <<m - 1, m>> \in R
  BY <1>3, <1>5, <1>6
<1>8. m - 1 \in S
  BY <1>4, <1>6, <1>7
<1>9. QED
  BY <1>6, <1>8

\* A function that is defined by what it is at 0 and by a step.
IsRun(run, start, step, N) ==
  run[0] = start /\ \A n \in 1 .. N : run[n] = step[n][run[n - 1]]

LEMMA StepsExist ==
  ASSUME NEW V, NEW start \in V, NEW N \in Nat, NEW step \in [1 .. N -> [V -> V]]
  PROVE  \E run \in [0 .. N -> V] : IsRun(run, start, step, N)
<1> USE DEF IsRun
<1> DEFINE Reached(k) == \E run \in [0 .. k -> V] :
             run[0] = start /\ \A n \in 1 .. k : run[n] = step[n][run[n - 1]]
           S == {k \in Nat : k <= N => Reached(k)}
<1>1. 0 \in S
  <2> DEFINE run == [i \in 0 .. 0 |-> start]
  <2>1. /\ run \in [0 .. 0 -> V] /\ run[0] = start
        /\ \A n \in 1 .. 0 : run[n] = step[n][run[n - 1]]
    OBVIOUS
  <2> HIDE DEF run
  <2>2. Reached(0)
    BY <2>1
  <2>3. QED
    BY <2>2
<1>2. ASSUME NEW k \in Nat, k \in S PROVE k + 1 \in S
  <2>1. SUFFICES ASSUME k + 1 <= N PROVE Reached(k + 1)
    OBVIOUS
  <2>2. PICK run \in [0 .. k -> V] :
          run[0] = start /\ \A n \in 1 .. k : run[n] = step[n][run[n - 1]]
    BY <1>2, <2>1
  <2>3. step[k + 1][run[k]] \in V
    BY <2>1, <2>2
  <2> DEFINE next == [i \in 0 .. k + 1 |-> IF i <= k THEN run[i] ELSE step[k + 1][run[k]]]
  <2>4. next \in [0 .. k + 1 -> V]
    BY <2>3
  <2>5. next[0] = start
    BY <2>2
  <2>6. \A n \in 1 .. k + 1 : next[n] = step[n][next[n - 1]]
    BY <2>2
  <2> HIDE DEF next
  <2>7. QED
    BY <2>4, <2>5, <2>6
<1> HIDE DEF Reached
<1>3. N \in S
  BY <1>1, <1>2, Induction
<1>4. QED
  BY <1>3 DEF Reached

\* There is only one.
LEMMA StepsUnique ==
  ASSUME NEW N \in Nat, NEW f, NEW g, NEW start, NEW step,
         IsRun(f, start, step, N), IsRun(g, start, step, N)
  PROVE  \A n \in 0 .. N : f[n] = g[n]
<1> USE DEF IsRun
<1> DEFINE S == {k \in Nat : k <= N => f[k] = g[k]}
<1>1. 0 \in S
  OBVIOUS
<1>2. ASSUME NEW k \in Nat, k \in S PROVE k + 1 \in S
  <2>1. SUFFICES ASSUME k + 1 <= N PROVE f[k + 1] = g[k + 1]
    OBVIOUS
  <2>2. k + 1 \in 1 .. N /\ (k + 1) - 1 = k
    BY <2>1
  <2>3. f[k] = g[k]
    BY <1>2, <2>1
  <2>4. QED
    BY <2>2, <2>3
<1>3. \A k \in Nat : k \in S
  BY <1>1, <1>2, Induction
<1>4. QED
  BY <1>3

\* The equation of a recursive definition.
Unrolled(run, start, step, N) ==
  [n \in 0 .. N |-> IF n = 0 THEN start ELSE step[n][run[n - 1]]]

LEMMA StepsEquation ==
  ASSUME NEW start, NEW N \in Nat, NEW step, NEW run, run = Unrolled(run, start, step, N)
  PROVE  IsRun(run, start, step, N) /\ run = [n \in 0 .. N |-> run[n]]
<1> USE DEF Unrolled
<1>1. run[0] = start
  OBVIOUS
<1>2. \A n \in 1 .. N : run[n] = step[n][run[n - 1]]
  OBVIOUS
<1>3. QED
  BY <1>1, <1>2 DEF IsRun

\* Since some function satisfies it, the one that is so defined does.
LEMMA StepsChosen ==
  ASSUME NEW V, NEW start \in V, NEW N \in Nat, NEW step \in [1 .. N -> [V -> V]], NEW run
  PROVE  run = (CHOOSE g : g = Unrolled(g, start, step, N)) =>
           run \in [0 .. N -> V] /\ IsRun(run, start, step, N)
<1>1. PICK f \in [0 .. N -> V] : IsRun(f, start, step, N)
  BY StepsExist
<1>2. f = Unrolled(f, start, step, N)
  BY <1>1 DEF IsRun, Unrolled
<1>3. run = (CHOOSE g : g = Unrolled(g, start, step, N)) => run = Unrolled(run, start, step, N)
  BY <1>2
<1>4. ASSUME run = Unrolled(run, start, step, N)
      PROVE  run \in [0 .. N -> V] /\ IsRun(run, start, step, N)
  <2>1. IsRun(run, start, step, N) /\ run = [n \in 0 .. N |-> run[n]]
    BY <1>4, StepsEquation
  <2>2. \A n \in 0 .. N : run[n] = f[n]
    BY <1>1, <2>1, StepsUnique
  <2>3. QED
    BY <2>1, <2>2
<1>5. QED
  BY <1>3, <1>4

\* A function that starts in a set and never leaves it.
LEMMA RunStays ==
  ASSUME NEW V, NEW N \in Nat, NEW run, run = [n \in 0 .. N |-> run[n]], run[0] \in V,
         \A n \in 1 .. N : run[n - 1] \in V => run[n] \in V
  PROVE  run \in [0 .. N -> V]
<1> DEFINE S == {n \in Nat : n <= N => run[n] \in V}
<1>1. 0 \in S
  OBVIOUS
<1>2. ASSUME NEW n \in Nat, n \in S PROVE n + 1 \in S
  <2>1. SUFFICES ASSUME n + 1 <= N PROVE run[n + 1] \in V
    OBVIOUS
  <2>2. n + 1 \in 1 .. N /\ (n + 1) - 1 = n /\ run[n] \in V
    BY <1>2, <2>1
  <2>3. QED
    BY <2>2
<1>3. \A n \in Nat : n \in S
  BY <1>1, <1>2, Induction
<1>4. \A n \in 0 .. N : run[n] \in V
  BY <1>3
<1>5. QED
  BY <1>4

-----------------------------------------------------------------------------
(* Sums over a sequence, with a weight for each of its elements.           *)

Tally(weight, s) ==
  LET sum[n \in 0 .. Len(s)] == IF n = 0 THEN 0 ELSE sum[n - 1] + weight[s[n]]
  IN  sum

Total(weight, s) == Tally(weight, s)[Len(s)]

\* Where a tally starts and how it goes on.
LEMMA TallyEquation ==
  ASSUME NEW T, NEW s \in Seq(T), NEW weight \in [T -> Int]
  PROVE  /\ Tally(weight, s)[0] = 0
         /\ \A n \in 1 .. Len(s) : Tally(weight, s)[n] = Tally(weight, s)[n - 1] + weight[s[n]]
<1> DEFINE Def(g) == [n \in 0 .. Len(s) |-> IF n = 0 THEN 0 ELSE g[n - 1] + weight[s[n]]]
           step == [n \in 1 .. Len(s) |-> [v \in Int |-> v + weight[s[n]]]]
<1>1. Len(s) \in Nat /\ \A n \in 1 .. Len(s) : weight[s[n]] \in Int
  OBVIOUS
<1>2. step \in [1 .. Len(s) -> [Int -> Int]]
  BY <1>1
<1>3. \A n \in 1 .. Len(s), v \in Int : step[n][v] = v + weight[s[n]]
  OBVIOUS
<1> HIDE DEF step
<1>4. \E f \in [0 .. Len(s) -> Int] : IsRun(f, 0, step, Len(s))
  <2> DEFINE N == Len(s)
  <2>1. N \in Nat /\ 0 \in Int /\ step \in [1 .. N -> [Int -> Int]]
    BY <1>1, <1>2
  <2> HIDE DEF N
  <2>2. \E f \in [0 .. N -> Int] : IsRun(f, 0, step, N)
    BY ONLY <2>1, StepsExist
  <2>3. QED
    BY <2>2 DEF N
<1>4a. PICK f \in [0 .. Len(s) -> Int] : IsRun(f, 0, step, Len(s))
  BY <1>4
<1>5. f = Def(f)
  <2>1. f[0] = 0
    BY <1>4a DEF IsRun
  <2>2. ASSUME NEW n \in 1 .. Len(s) PROVE f[n] = f[n - 1] + weight[s[n]]
    <3>1. f[n - 1] \in Int
      BY <1>1
    <3>2. f[n] = step[n][f[n - 1]]
      BY <1>4a DEF IsRun
    <3>3. QED
      BY <1>3, <3>1, <3>2
  <2>3. QED
    BY <1>1, <2>1, <2>2
<1>6. Tally(weight, s) = CHOOSE g : g = Def(g)
  BY DEF Tally
<1> HIDE DEF Def
<1>7. Tally(weight, s) = Def(Tally(weight, s))
  BY <1>5, <1>6
<1>8. QED
  BY <1>1, <1>7 DEF Def

LEMMA TallyStep ==
  ASSUME NEW T, NEW s \in Seq(T), NEW weight \in [T -> Int], NEW k \in Nat, k + 1 <= Len(s)
  PROVE  /\ Tally(weight, s)[k + 1] = Tally(weight, s)[k] + weight[s[k + 1]]
         /\ s[k + 1] \in T
<1>1. k + 1 \in 1 .. Len(s) /\ (k + 1) - 1 = k
  OBVIOUS
<1>2. Tally(weight, s)[k + 1] = Tally(weight, s)[(k + 1) - 1] + weight[s[k + 1]]
  BY <1>1, TallyEquation
<1>3. QED
  BY <1>1, <1>2

\* Sums of integers are integers, and of natural numbers natural numbers.
LEMMA TallyType ==
  ASSUME NEW T, NEW s \in Seq(T)
  PROVE  /\ \A weight \in [T -> Int] : \A n \in 0 .. Len(s) : Tally(weight, s)[n] \in Int
         /\ \A weight \in [T -> Nat] : \A n \in 0 .. Len(s) : Tally(weight, s)[n] \in Nat
<1>1. ASSUME NEW V \in {Int, Nat}, NEW weight \in [T -> V], NEW n \in 0 .. Len(s)
      PROVE  Tally(weight, s)[n] \in V
  <2> DEFINE S == {k \in Nat : k <= Len(s) => Tally(weight, s)[k] \in V}
  <2>1. weight \in [T -> Int]
    OBVIOUS
  <2>2. 0 \in S
    <3>1. Tally(weight, s)[0] = 0
      BY <2>1, TallyEquation
    <3>2. 0 \in V
      OBVIOUS
    <3>3. QED
      BY <3>1, <3>2
  <2>3. ASSUME NEW k \in Nat, k \in S PROVE k + 1 \in S
    <3>1. SUFFICES ASSUME k + 1 <= Len(s) PROVE Tally(weight, s)[k + 1] \in V
      OBVIOUS
    <3>2. k + 1 \in 1 .. Len(s) /\ (k + 1) - 1 = k /\ Tally(weight, s)[k] \in V
      BY <2>3, <3>1
    <3>3. Tally(weight, s)[k + 1] = Tally(weight, s)[k] + weight[s[k + 1]]
      BY <2>1, <3>2, TallyEquation
    <3>4. weight[s[k + 1]] \in V
      BY <3>2
    <3>5. QED
      BY <3>2, <3>3, <3>4
  <2>4. \A k \in Nat : k \in S
    BY <2>2, <2>3, Induction
  <2>5. QED
    BY <2>4
<1>2. QED
  BY <1>1

LEMMA TotalType ==
  ASSUME NEW T, NEW s \in Seq(T)
  PROVE  /\ \A weight \in [T -> Int] : Total(weight, s) \in Int
         /\ \A weight \in [T -> Nat] : Total(weight, s) \in Nat
BY TallyType DEF Total

\* A tally counts only what it has reached.
LEMMA TallyOfConcat ==
  ASSUME NEW T, NEW s \in Seq(T), NEW t \in Seq(T), NEW weight \in [T -> Int]
  PROVE  /\ \A n \in 0 .. Len(s) : Tally(weight, s \o t)[n] = Tally(weight, s)[n]
         /\ \A n \in 0 .. Len(t) :
              Tally(weight, s \o t)[Len(s) + n] = Total(weight, s) + Tally(weight, t)[n]
<1> DEFINE both == s \o t
<1>1. /\ both \in Seq(T) /\ Len(both) = Len(s) + Len(t)
      /\ \A i \in 1 .. Len(s) : both[i] = s[i]
      /\ \A i \in 1 .. Len(t) : both[Len(s) + i] = t[i]
  BY ConcatProperties
<1>2. Len(s) \in Nat /\ Len(t) \in Nat
  OBVIOUS
<1> HIDE DEF both
<1>1a. both \in Seq(T)
  BY <1>1
<1>3. ASSUME NEW n \in 0 .. Len(s) PROVE Tally(weight, both)[n] = Tally(weight, s)[n]
  <2> DEFINE S == {k \in Nat : k <= Len(s) => Tally(weight, both)[k] = Tally(weight, s)[k]}
  <2>1. 0 \in S
    <3>1. Tally(weight, both)[0] = 0
      BY <1>1a, TallyEquation
    <3>2. Tally(weight, s)[0] = 0
      BY TallyEquation
    <3>3. QED
      BY <3>1, <3>2
  <2>2. ASSUME NEW k \in Nat, k \in S PROVE k + 1 \in S
    <3>1. SUFFICES ASSUME k + 1 <= Len(s)
                   PROVE  Tally(weight, both)[k + 1] = Tally(weight, s)[k + 1]
      OBVIOUS
    <3>2. /\ k + 1 <= Len(both) /\ both[k + 1] = s[k + 1]
          /\ Tally(weight, both)[k] = Tally(weight, s)[k]
      <4>1. k + 1 \in 1 .. Len(s) /\ k <= Len(s) /\ k + 1 <= Len(s) + Len(t)
        BY <1>2, <3>1
      <4>2. QED
        BY <1>1, <2>2, <4>1
    <3>3. Tally(weight, both)[k + 1] = Tally(weight, both)[k] + weight[both[k + 1]]
      BY <1>1a, <3>2, TallyStep
    <3>4. Tally(weight, s)[k + 1] = Tally(weight, s)[k] + weight[s[k + 1]]
      BY <3>1, TallyStep
    <3>5. QED
      BY <3>2, <3>3, <3>4
  <2>3. \A k \in Nat : k \in S
    BY <2>1, <2>2, Induction
  <2>4. QED
    BY <2>3
<1>4. ASSUME NEW n \in 0 .. Len(t)
      PROVE  Tally(weight, both)[Len(s) + n] = Total(weight, s) + Tally(weight, t)[n]
  <2> DEFINE S == {k \in Nat : k <= Len(t) =>
                     Tally(weight, both)[Len(s) + k] = Total(weight, s) + Tally(weight, t)[k]}
  <2>1. 0 \in S
    <3>1. Tally(weight, t)[0] = 0
      BY TallyEquation
    <3>2. Tally(weight, both)[Len(s)] = Total(weight, s) /\ Total(weight, s) \in Int
      BY <1>2, <1>3, TallyType DEF Total
    <3>3. QED
      BY <1>2, <3>1, <3>2
  <2>2. ASSUME NEW k \in Nat, k \in S PROVE k + 1 \in S
    <3>1. SUFFICES ASSUME k + 1 <= Len(t)
                   PROVE  Tally(weight, both)[Len(s) + (k + 1)] =
                            Total(weight, s) + Tally(weight, t)[k + 1]
      OBVIOUS
    <3>2. /\ (Len(s) + k) + 1 <= Len(both) /\ Len(s) + (k + 1) = (Len(s) + k) + 1
          /\ Len(s) + k \in Nat /\ both[(Len(s) + k) + 1] = t[k + 1]
          /\ Tally(weight, both)[Len(s) + k] = Total(weight, s) + Tally(weight, t)[k]
      <4>1. /\ k + 1 \in 1 .. Len(t) /\ k <= Len(t) /\ Len(s) + k \in Nat
            /\ (Len(s) + k) + 1 <= Len(s) + Len(t) /\ Len(s) + (k + 1) = (Len(s) + k) + 1
        BY <1>2, <3>1
      <4>2. both[Len(s) + (k + 1)] = t[k + 1]
        BY <1>1, <4>1
      <4>3. QED
        BY <1>1, <2>2, <4>1, <4>2
    <3>3. Tally(weight, both)[(Len(s) + k) + 1] =
            Tally(weight, both)[Len(s) + k] + weight[t[k + 1]]
      <4> DEFINE m == Len(s) + k
      <4>1. m \in Nat /\ m + 1 <= Len(both) /\ both[m + 1] = t[k + 1]
        BY <3>2
      <4> HIDE DEF m
      <4>2. Tally(weight, both)[m + 1] = Tally(weight, both)[m] + weight[both[m + 1]]
        BY <1>1a, <4>1, TallyStep, SMTT(40)
      <4>3. Tally(weight, both)[m + 1] = Tally(weight, both)[m] + weight[t[k + 1]]
        BY <4>1, <4>2
      <4>4. QED
        BY <4>3 DEF m
    <3>4. Tally(weight, t)[k + 1] = Tally(weight, t)[k] + weight[t[k + 1]]
      BY <3>1, TallyStep
    <3>5. Total(weight, s) \in Int /\ Tally(weight, t)[k] \in Int /\ weight[t[k + 1]] \in Int
      <4>1. t[k + 1] \in T /\ k \in 0 .. Len(t)
        BY <1>2, <3>1
      <4>2. QED
        BY <4>1, TallyType, TotalType
    <3>6. QED
      BY <3>2, <3>3, <3>4, <3>5
  <2>3. \A k \in Nat : k \in S
    BY <2>1, <2>2, Induction
  <2>4. QED
    BY <2>3
<1>5. QED
  BY <1>3, <1>4 DEF both

LEMMA TotalOfConcat ==
  ASSUME NEW T, NEW s \in Seq(T), NEW t \in Seq(T), NEW weight \in [T -> Int]
  PROVE  Total(weight, s \o t) = Total(weight, s) + Total(weight, t)
<1>1. Len(t) \in 0 .. Len(t) /\ Len(s \o t) = Len(s) + Len(t)
  OBVIOUS
<1>2. QED
  BY <1>1, TallyOfConcat DEF Total

LEMMA TotalOfEmpty ==
  ASSUME NEW T, NEW weight \in [T -> Int]
  PROVE  Total(weight, <<>>) = 0
<1>1. <<>> \in Seq(T) /\ Len(<<>>) = 0
  OBVIOUS
<1>2. QED
  BY <1>1, TallyEquation DEF Total

LEMMA TotalOfOne ==
  ASSUME NEW T, NEW x \in T, NEW weight \in [T -> Int]
  PROVE  Total(weight, <<x>>) = weight[x]
<1> DEFINE one == <<x>>
<1>1. one \in Seq(T) /\ Len(one) = 1 /\ one[1] = x /\ weight[x] \in Int
  OBVIOUS
<1> HIDE DEF one
<1>2. Tally(weight, one)[0] = 0
  BY <1>1, TallyEquation
<1>3. \A k \in Nat : k + 1 <= Len(one) =>
        Tally(weight, one)[k + 1] = Tally(weight, one)[k] + weight[one[k + 1]]
  BY <1>1, TallyStep
<1>4. Tally(weight, one)[0 + 1] = Tally(weight, one)[0] + weight[one[0 + 1]]
  BY <1>1, <1>3
<1>5. Total(weight, one) = weight[x]
  BY <1>1, <1>2, <1>4 DEF Total
<1>6. QED
  BY <1>5 DEF one

\* One more at the end, one less at the head: a channel that is sent to and received from.
LEMMA TallyOfAppend ==
  ASSUME NEW T, NEW s \in Seq(T), NEW x \in T, NEW weight \in [T -> Int]
  PROVE  /\ \A n \in 0 .. Len(s) : Tally(weight, Append(s, x))[n] = Tally(weight, s)[n]
         /\ Total(weight, Append(s, x)) = Total(weight, s) + weight[x]
<1> DEFINE one == <<x>>
<1>1. Append(s, x) = s \o one /\ one \in Seq(T)
  BY AppendIsConcat
<1>4. Total(weight, one) = weight[x]
  BY TotalOfOne
<1> HIDE DEF one
<1>2. Total(weight, s \o one) = Total(weight, s) + Total(weight, one)
  BY <1>1, TotalOfConcat
<1>3. \A n \in 0 .. Len(s) : Tally(weight, s \o one)[n] = Tally(weight, s)[n]
  BY <1>1, TallyOfConcat
<1>5. QED
  BY <1>1, <1>2, <1>3, <1>4

LEMMA TallyOfTail ==
  ASSUME NEW T, NEW s \in Seq(T), s # <<>>, NEW weight \in [T -> Int]
  PROVE  /\ \A n \in 0 .. Len(Tail(s)) :
              Tally(weight, s)[n + 1] = weight[Head(s)] + Tally(weight, Tail(s))[n]
         /\ Total(weight, s) = weight[Head(s)] + Total(weight, Tail(s))
<1>1. /\ Head(s) \in T /\ Tail(s) \in Seq(T) /\ <<Head(s)>> \in Seq(T)
      /\ s = <<Head(s)>> \o Tail(s) /\ Len(<<Head(s)>>) = 1
  BY HeadTailProperties, ConcatProperties
<1> DEFINE first == <<Head(s)>>
           rest == Tail(s)
<1>1a. s = first \o rest /\ Len(first) = 1
  BY <1>1
<1>1b. first \in Seq(T) /\ rest \in Seq(T)
  BY <1>1
<1>2. Total(weight, first) = weight[Head(s)]
  BY <1>1, TotalOfOne
<1> HIDE DEF first, rest
<1>3. ASSUME NEW n \in 0 .. Len(rest)
      PROVE  Tally(weight, s)[1 + n] = weight[Head(s)] + Tally(weight, rest)[n]
  <2>1. Tally(weight, first \o rest)[Len(first) + n] =
          Total(weight, first) + Tally(weight, rest)[n]
    BY <1>1b, TallyOfConcat
  <2>2. QED
    BY <1>1a, <1>2, <2>1
<1>4. Total(weight, first \o rest) = Total(weight, first) + Total(weight, rest)
  BY <1>1b, TotalOfConcat
<1>5. \A n \in 0 .. Len(rest) : n + 1 = 1 + n
  OBVIOUS
<1>6. QED
  BY <1>1a, <1>2, <1>3, <1>4, <1>5 DEF rest

\* A set of numbers has a least one.
LEMMA LeastNumber ==
  ASSUME NEW S \in SUBSET Nat, S # {}
  PROVE  \E m \in S : \A k \in S : m <= k
<1> DEFINE R == OpToRel(<, Nat)
<1>1. IsWellFoundedOn(R, Nat)
  BY NatLessThanWellFounded
<1>2. \A m, n \in Nat : m < n => <<m, n>> \in R
  BY DEF OpToRel
<1> HIDE DEF R
<1>3. PICK m \in S : \A k \in S : ~(<<k, m>> \in R)
  BY <1>1, WFMin
<1>4. ASSUME NEW k \in S PROVE m <= k
  <2>1. k \in Nat /\ m \in Nat /\ ~(k < m)
    BY <1>2, <1>3
  <2>2. QED
    BY <2>1
<1>5. QED
  BY <1>4

-----------------------------------------------------------------------------
(* Recursion from the end: the value at a place is given by the values at  *)
(* later ones.                                                             *)

LEMMA BackwardInduction ==
  ASSUME NEW N \in Nat, NEW S,
         \A i \in 1 .. N : (\A j \in i + 1 .. N : j \in S) => i \in S
  PROVE  \A i \in 1 .. N : i \in S
<1> DEFINE T == {k \in Nat : \A i \in 1 .. N : i > N - k => i \in S}
<1>1. 0 \in T
  OBVIOUS
<1>2. ASSUME NEW k \in Nat, k \in T PROVE k + 1 \in T
  <2>1. SUFFICES ASSUME NEW i \in 1 .. N, i > N - (k + 1) PROVE i \in S
    OBVIOUS
  <2>2. \A j \in i + 1 .. N : j \in 1 .. N /\ j > N - k
    BY <2>1
  <2>3. \A j \in i + 1 .. N : j \in S
    BY <1>2, <2>2
  <2>4. QED
    BY <2>3
<1>3. \A k \in Nat : k \in T
  <2> HIDE DEF T
  <2>1. QED
    BY <1>1, <1>2, Induction
<1>4. N \in T
  BY <1>3
<1>5. QED
  BY <1>4

\* Each value depends on the later ones only.
LooksAhead(step, V, N) ==
  /\ step \in [1 .. N -> [[1 .. N -> V] -> V]]
  /\ \A i \in 1 .. N : \A f, g \in [1 .. N -> V] :
       (\A j \in i + 1 .. N : f[j] = g[j]) => step[i][f] = step[i][g]

Solves(f, step, N) == \A i \in 1 .. N : f[i] = step[i][f]

\* Such a function exists.
LEMMA BackwardsExist ==
  ASSUME NEW V, NEW some \in V, NEW N \in Nat, NEW step, LooksAhead(step, V, N)
  PROVE  \E f \in [1 .. N -> V] : Solves(f, step, N)
<1> USE DEF LooksAhead, Solves
<1> DEFINE T == {k \in Nat : k <= N =>
                   \E f \in [1 .. N -> V] : \A i \in 1 .. N : i > N - k => f[i] = step[i][f]}
<1>1. 0 \in T
  <2>1. [i \in 1 .. N |-> some] \in [1 .. N -> V]
    OBVIOUS
  <2>2. \A i \in 1 .. N : ~(i > N - 0)
    OBVIOUS
  <2>3. QED
    BY <2>1, <2>2
<1>2. ASSUME NEW k \in Nat, k \in T PROVE k + 1 \in T
  <2>1. SUFFICES ASSUME k + 1 <= N
                 PROVE  \E f \in [1 .. N -> V] :
                          \A i \in 1 .. N : i > N - (k + 1) => f[i] = step[i][f]
    OBVIOUS
  <2>2. PICK f \in [1 .. N -> V] : \A i \in 1 .. N : i > N - k => f[i] = step[i][f]
    BY <1>2, <2>1
  <2> DEFINE here == N - k
             g == [f EXCEPT ![here] = step[here][f]]
  <2>3. here \in 1 .. N
    BY <1>2, <2>1
  <2> HIDE DEF here
  <2>4. step[here][f] \in V
    BY <2>3
  <2>5. g \in [1 .. N -> V] /\ g[here] = step[here][f]
        /\ \A j \in 1 .. N : j # here => g[j] = f[j]
    BY <2>3, <2>4
  <2> HIDE DEF g
  <2>6. ASSUME NEW i \in 1 .. N, i > N - (k + 1) PROVE g[i] = step[i][g]
    <3>1. \A j \in i + 1 .. N : j \in 1 .. N /\ j # here
      BY <2>6 DEF here
    <3>2. \A j \in i + 1 .. N : f[j] = g[j]
      BY <2>5, <3>1
    <3>3. step[i][f] = step[i][g]
      BY <2>5, <3>2
    <3>4. CASE i = here
      BY <2>5, <3>3, <3>4
    <3>5. CASE i # here
      <4>1. i > N - k
        BY <2>6, <3>5 DEF here
      <4>2. QED
        BY <2>2, <2>5, <3>3, <3>5, <4>1
    <3>6. QED
      BY <3>4, <3>5
  <2>7. QED
    BY <2>5, <2>6
<1>3. N \in T
  <2> HIDE DEF T
  <2>1. QED
    BY <1>1, <1>2, Induction
<1>4. QED
  <2>1. \A i \in 1 .. N : i > N - N
    OBVIOUS
  <2>2. QED
    BY <1>3, <2>1

-----------------------------------------------------------------------------
(* Sequences put together and cut.                                         *)

\* A sequence of sequences, one after the other: the recursion has a solution.
Flattens(f, seqs, T) ==
  /\ f \in [1 .. Len(seqs) -> Seq(T)]
  /\ FlattenSeq(seqs) = f[Len(seqs)]
  /\ f[1] = seqs[1]
  /\ \A i \in 2 .. Len(seqs) : f[i] = f[i - 1] \o seqs[i]

LEMMA FlattenEquation ==
  ASSUME NEW T, NEW seqs \in Seq(Seq(T)), Len(seqs) # 0
  PROVE  \E f : Flattens(f, seqs, T)
<1> DEFINE N == Len(seqs)
           Def(g) == [i \in 1 .. N |-> IF i = 1 THEN seqs[i] ELSE g[i - 1] \o seqs[i]]
           step == [i \in 1 .. N |-> [v \in Seq(T) |-> v \o seqs[i]]]
<1>1. N \in Nat /\ N >= 1 /\ \A i \in 1 .. N : seqs[i] \in Seq(T)
  OBVIOUS
<1>2. step \in [1 .. N -> [Seq(T) -> Seq(T)]] /\ <<>> \in Seq(T)
  BY <1>1
<1>3. \A i \in 1 .. N, v \in Seq(T) : step[i][v] = v \o seqs[i]
  OBVIOUS
<1> HIDE DEF N, step
<1>4. PICK run \in [0 .. N -> Seq(T)] : IsRun(run, <<>>, step, N)
  BY <1>1, <1>2, StepsExist
<1>5. run[0] = <<>> /\ \A i \in 1 .. N : run[i] = run[i - 1] \o seqs[i]
  <2>1. ASSUME NEW i \in 1 .. N PROVE run[i] = run[i - 1] \o seqs[i]
    <3>1. i - 1 \in 0 .. N /\ run[i - 1] \in Seq(T)
      BY <1>1, <1>4
    <3>2. run[i] = step[i][run[i - 1]]
      BY <1>4 DEF IsRun
    <3>3. QED
      BY <1>3, <3>1, <3>2
  <2>2. run[0] = <<>>
    BY <1>4 DEF IsRun
  <2>3. QED
    BY <2>1, <2>2
<1>6. run[1] = seqs[1]
  <2>1. run[1] = <<>> \o seqs[1] /\ seqs[1] \in Seq(T)
    <3>1. 1 \in 1 .. N /\ 1 - 1 = 0
      BY <1>1
    <3>2. QED
      BY <1>1, <1>5, <3>1
  <2>2. QED
    BY <2>1
<1> DEFINE f == [i \in 1 .. N |-> run[i]]
<1>7. f = Def(f)
  <2>1. ASSUME NEW i \in 1 .. N, i # 1 PROVE f[i] = f[i - 1] \o seqs[i]
    <3>1. i - 1 \in 1 .. N
      BY <1>1, <2>1
    <3>2. QED
      BY <1>5, <3>1
  <2>2. f[1] = seqs[1]
    BY <1>1, <1>6
  <2>3. QED
    BY <1>1, <2>1, <2>2
<1> DEFINE flatten == CHOOSE g : g = Def(g)
<1>8. flatten = Def(flatten)
  <2> HIDE DEF Def, f
  <2>1. QED
    BY <1>7
<1>9. FlattenSeq(seqs) = flatten[N]
  BY <1>1 DEF FlattenSeq, N
<1> HIDE DEF flatten
<1>10. flatten[1] = seqs[1]
  BY <1>1, <1>8
<1>11. \A i \in 2 .. N : flatten[i] = flatten[i - 1] \o seqs[i]
  <2>1. ASSUME NEW i \in 2 .. N PROVE flatten[i] = flatten[i - 1] \o seqs[i]
    <3>1. i \in 1 .. N /\ i # 1
      BY <1>1
    <3>2. QED
      BY <1>8, <3>1
  <2>2. QED
    BY <2>1
<1>12. \A i \in 1 .. N : flatten[i] \in Seq(T)
  <2> DEFINE S == {k \in Nat : k + 1 <= N => flatten[k + 1] \in Seq(T)}
  <2>1. 0 \in S
    BY <1>1, <1>10
  <2>2. ASSUME NEW k \in Nat, k \in S PROVE k + 1 \in S
    <3>1. SUFFICES ASSUME (k + 1) + 1 <= N PROVE flatten[(k + 1) + 1] \in Seq(T)
      OBVIOUS
    <3>2. (k + 1) + 1 \in 2 .. N /\ ((k + 1) + 1) - 1 = k + 1 /\ (k + 1) + 1 \in 1 .. N
      BY <1>1, <3>1
    <3>3. flatten[(k + 1) + 1] = flatten[k + 1] \o seqs[(k + 1) + 1]
      BY <1>11, <3>2
    <3>4. flatten[k + 1] \in Seq(T) /\ seqs[(k + 1) + 1] \in Seq(T)
      BY <1>1, <2>2, <3>1, <3>2
    <3>5. QED
      BY <3>3, <3>4
  <2>3. \A k \in Nat : k \in S
    <3> HIDE DEF S
    <3>1. QED
      BY <2>1, <2>2, Induction
  <2>4. ASSUME NEW i \in 1 .. N PROVE flatten[i] \in Seq(T)
    <3>1. i - 1 \in Nat /\ (i - 1) + 1 = i /\ i <= N
      OBVIOUS
    <3>2. QED
      BY <2>3, <3>1
  <2>5. QED
    BY <2>4
<1>13. flatten \in [1 .. N -> Seq(T)]
  <2>1. flatten = [i \in 1 .. N |-> flatten[i]]
    BY <1>8
  <2>2. QED
    BY <1>12, <2>1
<1>14. QED
  BY <1>9, <1>10, <1>11, <1>13 DEF N, Flattens

\* Such a function is given by where it starts and how it goes on.
LEMMA FlattenAppend ==
  ASSUME NEW T, NEW seqs \in Seq(Seq(T)), NEW x \in Seq(T)
  PROVE  /\ FlattenSeq(seqs) \in Seq(T)
         /\ FlattenSeq(Append(seqs, x)) = FlattenSeq(seqs) \o x
<1> DEFINE more == Append(seqs, x)
           N == Len(seqs)
<1>1. /\ more \in Seq(Seq(T)) /\ Len(more) = N + 1 /\ more[N + 1] = x /\ N \in Nat
      /\ \A i \in 1 .. N : more[i] = seqs[i]
  BY AppendProperties
<1> HIDE DEF more
<1>2. PICK g : Flattens(g, more, T)
  <2>1. Len(more) # 0 /\ more \in Seq(Seq(T))
    BY <1>1
  <2>2. QED
    BY ONLY <2>1, FlattenEquation
<1>2a. /\ g \in [1 .. Len(more) -> Seq(T)] /\ FlattenSeq(more) = g[Len(more)]
       /\ g[1] = more[1] /\ \A i \in 2 .. Len(more) : g[i] = g[i - 1] \o more[i]
  BY <1>2 DEF Flattens
<1>3. CASE N = 0
  <2>1. FlattenSeq(seqs) = <<>> /\ <<>> \o x = x
    BY <1>3 DEF FlattenSeq
  <2>2. FlattenSeq(more) = x
    BY <1>1, <1>2a, <1>3
  <2>3. <<>> \in Seq(T)
    OBVIOUS
  <2>4. QED
    BY <2>1, <2>2, <2>3 DEF more
<1>4. CASE N # 0
  <2>1. PICK f : Flattens(f, seqs, T)
    BY <1>4, FlattenEquation
  <2>1a. /\ f \in [1 .. N -> Seq(T)] /\ FlattenSeq(seqs) = f[N] /\ f[1] = seqs[1]
         /\ \A i \in 2 .. N : f[i] = f[i - 1] \o seqs[i]
    BY <2>1 DEF Flattens
  <2> DEFINE S == {k \in Nat : k + 1 <= N => f[k + 1] = g[k + 1]}
  <2>2. 0 \in S
    BY <1>1, <1>2a, <2>1a
  <2>3. ASSUME NEW k \in Nat, k \in S PROVE k + 1 \in S
    <3>1. SUFFICES ASSUME (k + 1) + 1 <= N PROVE f[(k + 1) + 1] = g[(k + 1) + 1]
      OBVIOUS
    <3>2. /\ (k + 1) + 1 \in 2 .. N /\ (k + 1) + 1 \in 2 .. Len(more) /\ (k + 1) + 1 \in 1 .. N
          /\ ((k + 1) + 1) - 1 = k + 1 /\ k + 1 <= N
      BY <1>1, <3>1
    <3>3. f[(k + 1) + 1] = f[((k + 1) + 1) - 1] \o seqs[(k + 1) + 1]
      BY <2>1a, <3>2
    <3>4. g[(k + 1) + 1] = g[((k + 1) + 1) - 1] \o more[(k + 1) + 1]
      BY <1>2a, <3>2
    <3>5. f[k + 1] = g[k + 1] /\ more[(k + 1) + 1] = seqs[(k + 1) + 1]
      BY <1>1, <2>3, <3>2
    <3>6. QED
      BY <3>2, <3>3, <3>4, <3>5
  <2>4. \A k \in Nat : k \in S
    <3> HIDE DEF S
    <3>1. QED
      BY <2>2, <2>3, Induction
  <2>5. f[N] = g[N]
    <3>1. N - 1 \in Nat /\ (N - 1) + 1 = N
      BY <1>1, <1>4
    <3> HIDE DEF S, N
    <3>2. N - 1 \in S
      BY <2>4, <3>1
    <3>2a. (N - 1) + 1 <= N
      BY <3>1
    <3> USE DEF S
    <3>3. f[(N - 1) + 1] = g[(N - 1) + 1]
      BY <3>2, <3>2a
    <3>4. QED
      BY <3>1, <3>3
  <2>6. g[N + 1] = g[(N + 1) - 1] \o more[N + 1] /\ (N + 1) - 1 = N
    <3>1. N + 1 \in 2 .. Len(more) /\ (N + 1) - 1 = N
      BY <1>1, <1>4
    <3>2. QED
      BY <1>2a, <3>1
  <2>7. FlattenSeq(seqs) \in Seq(T)
    <3>1. N \in 1 .. N
      BY <1>1, <1>4
    <3> HIDE DEF N
    <3>2. QED
      BY <2>1a, <3>1
  <2>8. QED
    BY <1>1, <1>2a, <2>1a, <2>5, <2>6, <2>7 DEF more
<1>5. QED
  BY <1>3, <1>4

\* How three sequences are grouped does not matter.
Regroup(a, b, c) == (a \o b) \o c = a \o (b \o c)

LEMMA ThreeParts ==
  ASSUME NEW S, NEW a \in Seq(S), NEW b \in Seq(S), NEW c \in Seq(S)
  PROVE  Regroup(a, b, c)
BY ConcatAssociative DEF Regroup

LEMMA FlattenConcat ==
  ASSUME NEW T, NEW s \in Seq(Seq(T)), NEW t \in Seq(Seq(T))
  PROVE  FlattenSeq(s \o t) = FlattenSeq(s) \o FlattenSeq(t)
<1> DEFINE Joins(u) == FlattenSeq(s \o u) = FlattenSeq(s) \o FlattenSeq(u)
           S == {k \in Nat : \A u \in Seq(Seq(T)) : Len(u) = k => Joins(u)}
<1>1. FlattenSeq(s) \in Seq(T)
  <2>1. <<>> \in Seq(T)
    OBVIOUS
  <2>2. QED
    BY <2>1, FlattenAppend
<1>2. 0 \in S
  <2>1. ASSUME NEW u \in Seq(Seq(T)), Len(u) = 0 PROVE Joins(u)
    <3>1. u = <<>> /\ s \o u = s
      BY <2>1
    <3>2. FlattenSeq(u) = <<>>
      BY <3>1 DEF FlattenSeq
    <3>3. FlattenSeq(s) \o <<>> = FlattenSeq(s)
      BY <1>1
    <3>4. QED
      BY <3>1, <3>2, <3>3
  <2>2. QED
    BY <2>1
<1>3. ASSUME NEW k \in Nat, k \in S PROVE k + 1 \in S
  <2>1. ASSUME NEW u \in Seq(Seq(T)), Len(u) = k + 1 PROVE Joins(u)
    <3> DEFINE v == SubSeq(u, 1, k)
               x == u[k + 1]
    <3>1. v \in Seq(Seq(T)) /\ Len(v) = k /\ x \in Seq(T) /\ u = Append(v, x)
      BY <2>1
    <3> HIDE DEF v, x
    <3>2. Joins(v)
      BY <1>3, <3>1
    <3>3. FlattenSeq(u) = FlattenSeq(v) \o x /\ FlattenSeq(v) \in Seq(T)
      BY <3>1, FlattenAppend
    <3>4. s \o v \in Seq(Seq(T)) /\ s \o u = Append(s \o v, x)
      BY <3>1
    <3>5. FlattenSeq(s \o u) = FlattenSeq(s \o v) \o x
      BY <3>1, <3>4, FlattenAppend
    <3>6. (FlattenSeq(s) \o FlattenSeq(v)) \o x = FlattenSeq(s) \o (FlattenSeq(v) \o x)
      <4> DEFINE a == FlattenSeq(s)
                 b == FlattenSeq(v)
      <4>1. a \in Seq(T) /\ b \in Seq(T)
        BY <1>1, <3>3
      <4> HIDE DEF a, b
      <4>2. Regroup(a, b, x)
        BY <3>1, <4>1, ThreeParts
      <4>3. QED
        BY <4>2 DEF a, b, Regroup
    <3>7. QED
      BY <3>2, <3>3, <3>5, <3>6
  <2>2. QED
    BY <2>1
<1>4. Len(t) \in S
  <2> HIDE DEF S
  <2>1. \A k \in Nat : k \in S
    BY <1>2, <1>3, Induction
  <2>2. Len(t) \in Nat
    OBVIOUS
  <2>3. QED
    BY <2>1, <2>2
<1>5. QED
  BY <1>4

LEMMA SequenceIsFunction ==
  ASSUME NEW S, NEW s \in Seq(S)
  PROVE  s = [k \in 1 .. Len(s) |-> s[k]]
OBVIOUS

LEMMA ConcatIsFunction ==
  ASSUME NEW S, NEW a \in Seq(S), NEW b \in Seq(S), NEW n, n = Len(a), NEW m, m = Len(b)
  PROVE  a \o b = [k \in 1 .. n + m |-> IF k <= n THEN a[k] ELSE b[k - n]]
<1> DEFINE ab == a \o b
<1>1. n \in Nat /\ m \in Nat
  OBVIOUS
<1>2. ab \in Seq(S) /\ Len(ab) = n + m
  BY ConcatProperties
<1>3. \A k \in 1 .. n + m : ab[k] = IF k <= n THEN a[k] ELSE b[k - n]
  OBVIOUS
<1> HIDE DEF ab
<1>4. ab = [k \in 1 .. n + m |-> ab[k]]
  BY <1>2, SequenceIsFunction
<1>5. QED
  BY <1>3, <1>4 DEF ab

\* Sequences with the same elements are the same.
LEMMA SameElements ==
  ASSUME NEW S, NEW a \in Seq(S), NEW b \in Seq(S), Len(a) = Len(b),
         \A k \in 1 .. Len(a) : a[k] = b[k]
  PROVE  a = b
<1>1. a = [k \in 1 .. Len(a) |-> a[k]] /\ b = [k \in 1 .. Len(b) |-> b[k]]
  BY SequenceIsFunction
<1>2. QED
  BY <1>1

LEMMA IsConcat ==
  ASSUME NEW S, NEW a \in Seq(S), NEW b \in Seq(S), NEW c \in Seq(S),
         Len(c) = Len(a) + Len(b),
         \A k \in 1 .. Len(c) : c[k] = IF k <= Len(a) THEN a[k] ELSE b[k - Len(a)]
  PROVE  c = a \o b
<1> DEFINE ab == a \o b
<1>1. ab \in Seq(S) /\ Len(ab) = Len(c)
  BY ConcatProperties
<1>2. \A k \in 1 .. Len(c) : ab[k] = c[k]
  OBVIOUS
<1> HIDE DEF ab
<1>3. ab = c
  BY <1>1, <1>2, SameElements
<1>4. QED
  BY <1>3 DEF ab

LEMMA OneAt ==
  ASSUME NEW S, NEW s \in Seq(S), NEW i \in 1 .. Len(s)
  PROVE  SubSeq(s, i, i) = <<s[i]>> /\ s[i] \in S
<1> DEFINE one == SubSeq(s, i, i)
<1>1. one \in Seq(S) /\ Len(one) = 1 /\ one[1] = s[i] /\ s[i] \in S
  OBVIOUS
<1> HIDE DEF one
<1>2. one = [k \in 1 .. 1 |-> s[i]]
  <2>1. one = [k \in 1 .. Len(one) |-> one[k]]
    BY <1>1, SequenceIsFunction
  <2>2. \A k \in 1 .. 1 : one[k] = s[i]
    BY <1>1
  <2>3. QED
    BY <1>1, <2>1, <2>2
<1>3. <<s[i]>> = [k \in 1 .. 1 |-> s[i]]
  OBVIOUS
<1>4. QED
  BY <1>1, <1>2, <1>3 DEF one

LEMMA TwoAndOne ==
  ASSUME NEW S, NEW a \in S, NEW b \in S, NEW c \in S
  PROVE  <<a, b>> \o <<c>> = <<a, b, c>> /\ <<a>> \o <<b>> = <<a, b>>
<1> DEFINE ab == <<a, b>>
           abc == <<a, b, c>>
           first == <<a>>
           last == <<c>>
           second == <<b>>
<1>1. /\ first \in Seq(S) /\ Len(first) = 1 /\ first[1] = a
      /\ second \in Seq(S) /\ Len(second) = 1 /\ second[1] = b
      /\ last \in Seq(S) /\ Len(last) = 1 /\ last[1] = c
  OBVIOUS
<1>2. ab \in Seq(S) /\ Len(ab) = 2 /\ ab[1] = a /\ ab[2] = b
  OBVIOUS
<1>3. abc \in Seq(S) /\ Len(abc) = 3 /\ abc[1] = a /\ abc[2] = b /\ abc[3] = c
  OBVIOUS
<1> HIDE DEF ab, abc, first, second, last
<1>4. ab = first \o second
  <2>1. /\ first \in Seq(S) /\ second \in Seq(S) /\ ab \in Seq(S)
        /\ Len(ab) = Len(first) + Len(second)
        /\ \A k \in 1 .. Len(ab) : ab[k] = IF k <= Len(first) THEN first[k]
                                          ELSE second[k - Len(first)]
    BY <1>1, <1>2
  <2>2. QED
    BY ONLY <2>1, IsConcat
<1>5. abc = ab \o last
  <2>1. /\ ab \in Seq(S) /\ last \in Seq(S) /\ abc \in Seq(S)
        /\ Len(abc) = Len(ab) + Len(last)
        /\ \A k \in 1 .. Len(abc) : abc[k] = IF k <= Len(ab) THEN ab[k]
                                           ELSE last[k - Len(ab)]
    BY <1>1, <1>2, <1>3
  <2>2. QED
    BY ONLY <2>1, IsConcat
<1>6. QED
  BY <1>4, <1>5 DEF ab, abc, first, second, last

LEMMA TwoOrThreeOf ==
  ASSUME NEW S, NEW a \in S, NEW b \in S, NEW c \in S
  PROVE  <<a, b>> \in Seq(S) /\ <<a, b, c>> \in Seq(S)
OBVIOUS

LEMMA OneOf ==
  ASSUME NEW S, NEW x \in S
  PROVE  <<x>> \in Seq(S)
OBVIOUS

LEMMA PieceOf ==
  ASSUME NEW S, NEW s \in Seq(S), NEW a \in 1 .. Len(s) + 1, NEW b \in a - 1 .. Len(s)
  PROVE  /\ SubSeq(s, a, b) \in Seq(S) /\ Len(SubSeq(s, a, b)) = b - a + 1
         /\ \A k \in 1 .. b - a + 1 : SubSeq(s, a, b)[k] = s[a + k - 1]
OBVIOUS

\* Two bytes and what is after them.
LEMMA TwoThenRest ==
  ASSUME NEW S, NEW s \in Seq(S), NEW i \in 1 .. Len(s) - 1, NEW end \in i + 1 .. Len(s)
  PROVE  /\ SubSeq(s, i, end) = <<s[i], s[i + 1]>> \o SubSeq(s, i + 2, end)
         /\ SubSeq(s, i, i + 1) = <<s[i], s[i + 1]>>
         /\ s[i] \in S /\ s[i + 1] \in S
<1> DEFINE two == <<s[i], s[i + 1]>>
           rest == SubSeq(s, i + 2, end)
           all == SubSeq(s, i, end)
           both == SubSeq(s, i, i + 1)
<1>1. i \in Nat /\ end \in Nat /\ Len(s) \in Nat /\ i + 1 <= end /\ end <= Len(s)
      /\ s[i] \in S /\ s[i + 1] \in S
  OBVIOUS
<1>2. two \in Seq(S) /\ Len(two) = 2 /\ two[1] = s[i] /\ two[2] = s[i + 1]
  BY <1>1
<1>3. rest \in Seq(S) /\ Len(rest) = end - (i + 1)
      /\ \A k \in 1 .. end - (i + 1) : rest[k] = s[i + 1 + k]
  <2>1. i + 2 \in 1 .. Len(s) + 1 /\ end \in (i + 2) - 1 .. Len(s)
    BY <1>1
  <2>2. /\ rest \in Seq(S) /\ Len(rest) = end - (i + 2) + 1
        /\ \A k \in 1 .. end - (i + 2) + 1 : rest[k] = s[(i + 2) + k - 1]
    BY <2>1, PieceOf
  <2>3. end - (i + 2) + 1 = end - (i + 1) /\ \A k \in Int : (i + 2) + k - 1 = i + 1 + k
    BY <1>1
  <2> HIDE DEF rest
  <2>4. QED
    BY <2>2, <2>3
<1>4. all \in Seq(S) /\ Len(all) = end - i + 1
      /\ \A k \in 1 .. end - i + 1 : all[k] = s[i + k - 1]
  BY <1>1, PieceOf
<1>5. both \in Seq(S) /\ Len(both) = 2 /\ both[1] = s[i] /\ both[2] = s[i + 1]
  <2>1. i \in 1 .. Len(s) + 1 /\ i + 1 \in i - 1 .. Len(s)
    BY <1>1
  <2>2. /\ both \in Seq(S) /\ Len(both) = (i + 1) - i + 1
        /\ \A k \in 1 .. (i + 1) - i + 1 : both[k] = s[i + k - 1]
    BY <2>1, PieceOf
  <2>3. (i + 1) - i + 1 = 2 /\ i + 1 - 1 = i /\ i + 2 - 1 = i + 1
    BY <1>1
  <2> HIDE DEF both
  <2>4. 1 \in 1 .. 2 /\ 2 \in 1 .. 2
    OBVIOUS
  <2>5. QED
    BY <2>2, <2>3, <2>4
<1> HIDE DEF two, rest, all, both
<1>6. all = two \o rest
  <2>1. /\ two \in Seq(S) /\ rest \in Seq(S) /\ all \in Seq(S)
        /\ Len(all) = Len(two) + Len(rest)
    BY <1>1, <1>2, <1>3, <1>4
  <2>2. ASSUME NEW k \in 1 .. Len(all)
        PROVE  all[k] = IF k <= Len(two) THEN two[k] ELSE rest[k - Len(two)]
    <3>1. k \in 1 .. end - i + 1 /\ k \in Nat
      BY <1>1, <1>4
    <3>2. CASE k <= 2
      <4>1. k = 1 \/ k = 2
        BY <3>1, <3>2
      <4>2. i + 1 - 1 = i /\ i + 2 - 1 = i + 1
        BY <1>1
      <4>3. QED
        BY <1>2, <1>4, <3>1, <3>2, <4>1, <4>2
    <3>3. CASE ~(k <= 2)
      <4>1. k - 2 \in 1 .. end - (i + 1) /\ i + 1 + (k - 2) = i + k - 1
        BY <1>1, <3>1, <3>3
      <4>2. QED
        BY <1>2, <1>3, <1>4, <3>1, <3>3, <4>1
    <3>4. QED
      BY <3>2, <3>3
  <2>3. QED
    BY ONLY <2>1, <2>2, IsConcat
<1>7. both = two
  <2>1. \A k \in 1 .. Len(both) : both[k] = two[k]
    BY <1>2, <1>5
  <2>2. QED
    BY <1>2, <1>5, <2>1, SameElements
<1>8. QED
  BY <1>1, <1>6, <1>7 DEF two, rest, all, both

LEMMA Cut ==
  ASSUME NEW S, NEW s \in Seq(S), NEW a \in 1 .. Len(s) + 1, NEW m \in a - 1 .. Len(s),
         NEW b \in m .. Len(s)
  PROVE  SubSeq(s, a, b) = SubSeq(s, a, m) \o SubSeq(s, m + 1, b)
<1> DEFINE all == SubSeq(s, a, b)
           left == SubSeq(s, a, m)
           right == SubSeq(s, m + 1, b)
<1>1. a \in Nat /\ m \in Nat /\ b \in Nat /\ Len(s) \in Nat /\ a >= 1 /\ a - 1 <= m
      /\ m <= b /\ b <= Len(s)
  OBVIOUS
<1>2. left \in Seq(S) /\ Len(left) = m - a + 1
      /\ \A k \in 1 .. m - a + 1 : left[k] = s[a + k - 1]
  BY PieceOf
<1>3. right \in Seq(S) /\ Len(right) = b - m
      /\ \A k \in 1 .. b - m : right[k] = s[m + k]
  <2>1. m + 1 \in 1 .. Len(s) + 1 /\ b \in (m + 1) - 1 .. Len(s)
    BY <1>1
  <2>2. /\ right \in Seq(S) /\ Len(right) = b - (m + 1) + 1
        /\ \A k \in 1 .. b - (m + 1) + 1 : right[k] = s[(m + 1) + k - 1]
    BY <2>1, PieceOf
  <2>3. b - (m + 1) + 1 = b - m /\ \A k \in Int : (m + 1) + k - 1 = m + k
    BY <1>1
  <2> HIDE DEF right
  <2>4. QED
    BY <2>2, <2>3
<1>4. all \in Seq(S) /\ Len(all) = b - a + 1
      /\ \A k \in 1 .. b - a + 1 : all[k] = s[a + k - 1]
  <2>1. b \in a - 1 .. Len(s)
    BY <1>1
  <2>2. QED
    BY <2>1, PieceOf
<1> HIDE DEF all, left, right
<1>5. /\ left \in Seq(S) /\ right \in Seq(S) /\ all \in Seq(S)
      /\ Len(all) = Len(left) + Len(right)
  BY <1>1, <1>2, <1>3, <1>4
<1>6. ASSUME NEW k \in 1 .. Len(all)
      PROVE  all[k] = IF k <= Len(left) THEN left[k] ELSE right[k - Len(left)]
  <2>1. k \in 1 .. b - a + 1 /\ k \in Nat
    BY <1>1, <1>4
  <2>2. CASE k <= m - a + 1
    <3>1. k \in 1 .. m - a + 1
      BY <1>1, <2>1, <2>2
    <3>2. QED
      BY <1>2, <1>4, <2>1, <2>2, <3>1
  <2>3. CASE ~(k <= m - a + 1)
    <3>1. k - (m - a + 1) \in 1 .. b - m /\ m + (k - (m - a + 1)) = a + k - 1
      BY <1>1, <2>1, <2>3
    <3>2. right[k - (m - a + 1)] = s[a + k - 1]
      BY <1>3, <3>1
    <3>3. QED
      BY <1>2, <1>4, <2>1, <2>3, <3>2
  <2>4. QED
    BY <2>2, <2>3
<1>7. QED
  <2>1. all = left \o right
    BY ONLY <1>5, <1>6, IsConcat
  <2>2. QED
    BY <2>1 DEF all, left, right

==============================================================================
