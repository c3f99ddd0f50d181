---------------------------- MODULE BackoffProofs ----------------------------
(***************************************************************************)
(* Machine-checked facts about the arithmetic of computeBackoff and of the *)
(* retry counter, for every width of the words.  A power of two is the     *)
(* number of subsets of an interval: that gives what the provers do not    *)
(* know of exponentiation.                                                 *)
(***************************************************************************)
EXTENDS Backoff, FiniteSetTheorems, TLAPS

-----------------------------------------------------------------------------
\* Powers of two.

LEMMA PowerCounts ==
    ASSUME NEW n \in Nat
    PROVE  /\ IsFiniteSet(SUBSET (1..n))
           /\ Cardinality(SUBSET (1..n)) = 2^n
<1>1. IsFiniteSet(1..n) /\ Cardinality(1..n) = n
      BY FS_Interval
<1> QED BY <1>1, FS_SUBSET

LEMMA PowerPositive ==
    ASSUME NEW n \in Nat
    PROVE  2^n \in Nat \ {0}
<1>1. IsFiniteSet(SUBSET (1..n)) /\ Cardinality(SUBSET (1..n)) = 2^n
      BY PowerCounts
<1>2. {} \in SUBSET (1..n)
      OBVIOUS
<1> HIDE <1>2
<1>3. SUBSET (1..n) # {}
      BY <1>2
<1> QED BY <1>1, <1>3, FS_CardinalityType, FS_EmptySet

LEMMA PowerMonotone ==
    ASSUME NEW m \in Nat, NEW n \in Nat, m <= n
    PROVE  2^m <= 2^n
<1> DEFINE A == SUBSET (1..m)
           B == SUBSET (1..n)
<1>1. A \in SUBSET B
      OBVIOUS
<1>2. IsFiniteSet(B) /\ Cardinality(A) = 2^m /\ Cardinality(B) = 2^n
      BY PowerCounts
<1> HIDE DEF A, B
<1>3. Cardinality(A) <= Cardinality(B)
      BY <1>1, <1>2, FS_Subset
<1> QED BY <1>2, <1>3

\* Half of the subsets of 1..n+1 have the last element, half do not.
LEMMA PowerDoubles ==
    ASSUME NEW n \in Nat
    PROVE  2^(n + 1) = 2 * 2^n
<1> DEFINE A == SUBSET (1..n)
           B == {T \cup {n + 1} : T \in A}
           f == [T \in A |-> T \cup {n + 1}]
<1>1. n + 1 \in Nat /\ n + 1 \notin 1..n /\ 1..(n + 1) = (1..n) \cup {n + 1}
      OBVIOUS
<1>2. SUBSET (1..(n + 1)) = A \cup B
  <2>1. ASSUME NEW T \in SUBSET (1..(n + 1)) PROVE T \in A \cup B
    <3>1. CASE n + 1 \notin T
          BY <1>1, <3>1
    <3>2. CASE n + 1 \in T
      <4>1. T \ {n + 1} \in A /\ T = (T \ {n + 1}) \cup {n + 1}
            BY <1>1, <3>2
      <4> QED BY <4>1
    <3> QED BY <3>1, <3>2
  <2>2. ASSUME NEW T \in A \cup B PROVE T \in SUBSET (1..(n + 1))
        BY <1>1
  <2> QED BY <2>1, <2>2
<1>3. A \cap B = {}
      BY <1>1
<1>4. f \in Bijection(A, B)
  <2>1. f \in [A -> B] /\ \A T \in B : \E S \in A : f[S] = T
        OBVIOUS
  <2>2. ASSUME NEW S \in A, NEW T \in A, f[S] = f[T] PROVE S = T
        BY <1>1, <2>2
  <2> QED BY <2>1, <2>2 DEF Bijection, Injection, Surjection, IsInjective
<1>5. IsFiniteSet(A) /\ Cardinality(A) = 2^n
      BY PowerCounts
<1>6. IsFiniteSet(B) /\ Cardinality(B) = Cardinality(A)
  <2> HIDE DEF A, B, f
  <2>1. ExistsBijection(A, B)
        BY <1>4, Zenon DEF ExistsBijection
  <2> QED BY <1>5, <2>1, FS_Bijection
<1>7. Cardinality(A \cup B) = Cardinality(A) + Cardinality(B)
  <2> HIDE DEF A, B
  <2>1. Cardinality(A \cup B) = Cardinality(A) + Cardinality(B) - Cardinality(A \cap B)
        BY <1>5, <1>6, FS_Union
  <2>2. Cardinality(A \cap B) = 0
        BY <1>3, FS_EmptySet
  <2>3. Cardinality(A) \in Nat
        BY <1>5, PowerPositive
  <2> QED BY <1>6, <2>1, <2>2, <2>3
<1>8. Cardinality(SUBSET (1..(n + 1))) = 2^(n + 1)
      BY <1>1, PowerCounts
<1>9. 2^n \in Nat
      BY PowerPositive
<1> HIDE DEF A, B, f
<1>10. 2^(n + 1) = 2^n + 2^n
      BY <1>2, <1>5, <1>6, <1>7, <1>8
<1> QED BY <1>9, <1>10

-----------------------------------------------------------------------------
\* Words.

\* Half the values of a word are negative.
LEMMA WordHalves ==
    ASSUME NEW w \in Nat \ {0}
    PROVE  /\ 2^(w - 1) \in Nat \ {0}
           /\ 2^w = 2 * 2^(w - 1)
<1>1. w - 1 \in Nat /\ (w - 1) + 1 = w
      OBVIOUS
<1> QED BY <1>1, PowerPositive, PowerDoubles

\* A wrapped value is a value of the word, and one of the word does not wrap.
LEMMA SignedRange ==
    ASSUME NEW w \in Nat \ {0}, NEW n \in Int
    PROVE  LET h == 2^(w - 1)
           IN  /\ Signed(n, w) \in (-h)..(h - 1)
               /\ n \in (-h)..(h - 1) => Signed(n, w) = n
<1>1. PICK h \in Nat \ {0} : h = 2^(w - 1) /\ 2^w = 2 * h
      BY WordHalves
<1>2. Signed(n, w) = ((n + h) % (2 * h)) - h
      BY <1>1 DEF Signed
<1>3. (n + h) % (2 * h) \in 0..(2 * h - 1)
      OBVIOUS
<1>4. n + h \in 0..(2 * h - 1) => (n + h) % (2 * h) = n + h
      OBVIOUS
<1> QED BY <1>1, <1>2, <1>3, <1>4

LEMMA WordIsRange ==
    ASSUME NEW w \in Nat \ {0}
    PROVE  Word(w) = (-(2^(w - 1)))..(2^(w - 1) - 1)
<1>1. PICK h \in Nat \ {0} : h = 2^(w - 1) /\ 2^w = 2 * h
      BY WordHalves
<1>2. ASSUME NEW v \in Word(w) PROVE v \in (-h)..(h - 1)
      BY <1>1, <1>2, SignedRange DEF Word
<1>3. ASSUME NEW v \in (-h)..(h - 1) PROVE v \in Word(w)
  <2>1. CASE v >= 0
        BY <1>1, <2>1, SignedRange DEF Word
  <2>2. CASE v < 0
    <3>1. v + 2 * h \in 0..(2 * h - 1)
          BY <2>2
    <3>2. ((v + 2 * h) + h) % (2 * h) = v + h
          BY <2>2
    <3>3. Signed(v + 2 * h, w) = v
          BY <1>1, <3>2 DEF Signed
    <3> QED BY <1>1, <3>1, <3>3 DEF Word
  <2> QED BY <2>1, <2>2
<1> QED BY <1>1, <1>2, <1>3

\* The retry counter stays a word, and counting always changes it: even where
\* it wraps, a status with one more failure is a different status.
LEMMA IncrementedChanges ==
    ASSUME NEW n \in Word(CounterWidth)
    PROVE  Incremented(n) \in Word(CounterWidth) /\ Incremented(n) # n
<1>1. PICK h \in Nat \ {0} : h = 2^(CounterWidth - 1) /\ 2^CounterWidth = 2 * h
      BY WordHalves, WidthAssumption
<1>2. n \in (-h)..(h - 1)
      BY <1>1, WordIsRange, WidthAssumption
<1>3. Incremented(n) \in (-h)..(h - 1)
      BY <1>1, <1>2, SignedRange, WidthAssumption DEF Incremented
<1>4. CASE n < h - 1
  <2>1. Incremented(n) = n + 1
        BY <1>1, <1>2, <1>4, SignedRange, WidthAssumption DEF Incremented
  <2> QED BY <1>1, <1>2, <1>3, <2>1, WordIsRange, WidthAssumption
<1>5. CASE n = h - 1
  <2>1. ((n + 1) + h) % (2 * h) = 0
        BY <1>5
  <2>2. Incremented(n) = -h
        BY <1>1, <2>1 DEF Incremented, Signed
  <2> QED BY <1>1, <1>3, <1>5, <2>2, WordIsRange, WidthAssumption
<1> QED BY <1>2, <1>4, <1>5

-----------------------------------------------------------------------------
\* computeBackoff.

\* A policy as the API types allow it.
PolicyTypeOK(policy) ==
    policy # Nil => /\ policy.initialDelay \in Int \cup {Nil}
                    /\ policy.maxDelay \in Int \cup {Nil}

LEMMA ShiftType ==
    ASSUME NEW attempt \in Int
    PROVE  /\ Shift(attempt) \in Int /\ Shift(attempt) <= ShiftCap
           /\ ShiftedOne(Shift(attempt)) \in Nat
<1>1. Signed(attempt - 1, CounterWidth) \in Int
      BY SignedRange, WordHalves, WidthAssumption
<1>2. Shift(attempt) \in Int /\ Shift(attempt) <= ShiftCap
      BY <1>1, WidthAssumption DEF Shift
<1> QED BY <1>2, PowerPositive DEF ShiftedOne

\* The delay is a duration, whatever the counter holds.
LEMMA ComputeBackoffType ==
    ASSUME NEW policy, PolicyTypeOK(policy), NEW attempt \in Int
    PROVE  ComputeBackoff(policy, attempt) \in Int
<1>1. InitialDelay(policy) \in Int /\ MaxDelay(policy) \in Int
      BY DEF PolicyTypeOK, InitialDelay, MaxDelay, defaultInitialBackoff, defaultMaxBackoff
<1>2. InitialDelay(policy) * ShiftedOne(Shift(attempt)) \in Int
      BY <1>1, ShiftType
<1>3. Signed(InitialDelay(policy) * ShiftedOne(Shift(attempt)), DurationWidth) \in Int
      BY <1>2, SignedRange, WordHalves, WidthAssumption
<1> QED BY <1>1, <1>3 DEF ComputeBackoff
==============================================================================
