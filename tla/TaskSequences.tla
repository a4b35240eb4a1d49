----------------------------- MODULE TaskSequences -----------------------------
(***************************************************************************)
(* Lemmas about the sequences that tasks are kept in, for the theorems     *)
(* about them: what is in a sequence, and what is in it once.              *)
(***************************************************************************)
EXTENDS Integers, Sequences, Functions, TLAPS

(* Sequences without repetition of the elements of a set *)

Once(q, C) == \A i, j \in DOMAIN q : q[i] = q[j] /\ q[i] \in C => i = j

Apart(S, T, C) == S \cap T \cap C = {}

\* The elements of a sequence one element longer.
LEMMA RangeAppend ==
    ASSUME NEW S, NEW q \in Seq(S), NEW x \in S
    PROVE  /\ Append(q, x) \in Seq(S)
           /\ Range(Append(q, x)) = Range(q) \cup {x}
<1>1. /\ DOMAIN Append(q, x) = 1..(Len(q) + 1)
      /\ \A i \in 1..Len(q) : Append(q, x)[i] = q[i]
      /\ Append(q, x)[Len(q) + 1] = x
      /\ DOMAIN q = 1..Len(q)
      /\ Len(q) \in Nat
  OBVIOUS
<1>2. ASSUME NEW y \in Range(Append(q, x)) PROVE y \in Range(q) \cup {x}
  <2>1. PICK i \in 1..(Len(q) + 1) : Append(q, x)[i] = y
    BY <1>1, <1>2 DEF Range
  <2>2. CASE i = Len(q) + 1
    BY <1>1, <2>1, <2>2
  <2>3. CASE i # Len(q) + 1
    <3>1. i \in 1..Len(q)
      BY <1>1, <2>3
    <3> QED
      BY <1>1, <2>1, <3>1 DEF Range
  <2> QED
    BY <2>2, <2>3
<1>3. ASSUME NEW y \in Range(q) \cup {x} PROVE y \in Range(Append(q, x))
  <2>1. CASE y = x
    <3>1. Len(q) + 1 \in DOMAIN Append(q, x)
      BY <1>1
    <3> QED
      BY <1>1, <2>1, <3>1 DEF Range
  <2>2. CASE y \in Range(q)
    <3>1. PICK i \in 1..Len(q) : q[i] = y
      BY <1>1, <2>2 DEF Range
    <3>2. i \in DOMAIN Append(q, x)
      BY <1>1
    <3> QED
      BY <1>1, <3>1, <3>2 DEF Range
  <2> QED
    BY <1>3, <2>1, <2>2
<1> QED
  BY <1>2, <1>3

\* What is left of a sequence when its head is taken off.
LEMMA RangeTail ==
    ASSUME NEW S, NEW q \in Seq(S), q # <<>>
    PROVE  /\ Tail(q) \in Seq(S)
           /\ Head(q) \in S
           /\ Range(q) = {Head(q)} \cup Range(Tail(q))
<1>1. /\ Len(q) \in Nat \ {0}
      /\ DOMAIN q = 1..Len(q)
      /\ Head(q) = q[1]
      /\ Tail(q) \in Seq(S)
      /\ DOMAIN Tail(q) = 1..(Len(q) - 1)
      /\ \A i \in 1..(Len(q) - 1) : Tail(q)[i] = q[i + 1]
  OBVIOUS
<1>2. ASSUME NEW y \in Range(q) PROVE y \in {Head(q)} \cup Range(Tail(q))
  <2>1. PICK i \in 1..Len(q) : q[i] = y
    BY <1>1, <1>2 DEF Range
  <2>2. CASE i = 1
    BY <1>1, <2>1, <2>2
  <2>3. CASE i # 1
    <3>1. i - 1 \in 1..(Len(q) - 1) /\ (i - 1) + 1 = i
      BY <1>1, <2>3
    <3> QED
      BY <1>1, <2>1, <3>1 DEF Range
  <2> QED
    BY <2>2, <2>3
<1>3. ASSUME NEW y \in Range(Tail(q)) PROVE y \in Range(q)
  <2>1. PICK i \in 1..(Len(q) - 1) : Tail(q)[i] = y
    BY <1>1, <1>3 DEF Range
  <2>2. i + 1 \in DOMAIN q
    BY <1>1
  <2> QED
    BY <1>1, <2>1, <2>2 DEF Range
<1>4. Head(q) \in Range(q) /\ Head(q) \in S
  <2>1. 1 \in DOMAIN q
    BY <1>1
  <2> QED
    BY <1>1, <2>1 DEF Range
<1> QED
  BY <1>1, <1>2, <1>3, <1>4

\* The elements of two sequences, one behind the other.
LEMMA RangeConcat ==
    ASSUME NEW S, NEW q \in Seq(S), NEW t \in Seq(S)
    PROVE  /\ q \o t \in Seq(S)
           /\ Range(q \o t) = Range(q) \cup Range(t)
<1>1. /\ Len(q) \in Nat /\ Len(t) \in Nat
      /\ DOMAIN q = 1..Len(q) /\ DOMAIN t = 1..Len(t)
      /\ DOMAIN (q \o t) = 1..(Len(q) + Len(t))
      /\ \A i \in 1..Len(q) : (q \o t)[i] = q[i]
      /\ \A i \in 1..Len(t) : (q \o t)[Len(q) + i] = t[i]
      /\ q \o t \in Seq(S)
  OBVIOUS
<1>2. ASSUME NEW y \in Range(q \o t) PROVE y \in Range(q) \cup Range(t)
  <2>1. PICK i \in 1..(Len(q) + Len(t)) : (q \o t)[i] = y
    BY <1>1, <1>2 DEF Range
  <2>2. CASE i <= Len(q)
    <3>1. i \in 1..Len(q)
      BY <1>1, <2>2
    <3> QED
      BY <1>1, <2>1, <3>1 DEF Range
  <2>3. CASE i > Len(q)
    <3>1. i - Len(q) \in 1..Len(t) /\ Len(q) + (i - Len(q)) = i
      BY <1>1, <2>3
    <3>2. t[i - Len(q)] = y
      BY <1>1, <2>1, <3>1
    <3> QED
      BY <1>1, <3>1, <3>2 DEF Range
  <2> QED
    BY <1>1, <2>2, <2>3
<1>3. ASSUME NEW y \in Range(q) PROVE y \in Range(q \o t)
  <2>1. PICK i \in 1..Len(q) : q[i] = y
    BY <1>1, <1>3 DEF Range
  <2>2. i \in DOMAIN (q \o t)
    BY <1>1
  <2> QED
    BY <1>1, <2>1, <2>2 DEF Range
<1>4. ASSUME NEW y \in Range(t) PROVE y \in Range(q \o t)
  <2>1. PICK i \in 1..Len(t) : t[i] = y
    BY <1>1, <1>4 DEF Range
  <2>2. Len(q) + i \in DOMAIN (q \o t)
    BY <1>1
  <2> QED
    BY <1>1, <2>1, <2>2 DEF Range
<1> QED
  BY <1>1, <1>2, <1>3, <1>4

\* Nothing repeated is put into a sequence by an element it does not have.
LEMMA OnceAppend ==
    ASSUME NEW S, NEW C, NEW q \in Seq(S), NEW x \in S,
           Once(q, C), x \in C => x \notin Range(q)
    PROVE  Once(Append(q, x), C)
<1>1. /\ DOMAIN Append(q, x) = 1..(Len(q) + 1)
      /\ \A i \in 1..Len(q) : Append(q, x)[i] = q[i]
      /\ Append(q, x)[Len(q) + 1] = x
      /\ DOMAIN q = 1..Len(q)
      /\ Len(q) \in Nat
  OBVIOUS
<1>2. \A i \in 1..Len(q) : q[i] \in Range(q)
  BY <1>1 DEF Range
<1>3. SUFFICES ASSUME NEW i \in 1..(Len(q) + 1), NEW j \in 1..(Len(q) + 1),
                      Append(q, x)[i] = Append(q, x)[j], Append(q, x)[i] \in C
               PROVE  i = j
  BY <1>1 DEF Once
<1>4. CASE i \in 1..Len(q) /\ j \in 1..Len(q)
  BY <1>1, <1>3, <1>4 DEF Once
<1>5. CASE i = Len(q) + 1 /\ j \in 1..Len(q)
  BY <1>1, <1>2, <1>3, <1>5
<1>6. CASE j = Len(q) + 1 /\ i \in 1..Len(q)
  BY <1>1, <1>2, <1>3, <1>6
<1>7. CASE i = Len(q) + 1 /\ j = Len(q) + 1
  BY <1>7
<1> QED
  BY <1>1, <1>4, <1>5, <1>6, <1>7

\* Taking the head off.
LEMMA OnceTail ==
    ASSUME NEW S, NEW C, NEW q \in Seq(S), q # <<>>, Once(q, C)
    PROVE  /\ Once(Tail(q), C)
           /\ Head(q) \in C => Head(q) \notin Range(Tail(q))
<1>1. /\ Len(q) \in Nat \ {0}
      /\ DOMAIN q = 1..Len(q)
      /\ Head(q) = q[1]
      /\ DOMAIN Tail(q) = 1..(Len(q) - 1)
      /\ \A i \in 1..(Len(q) - 1) : Tail(q)[i] = q[i + 1]
  OBVIOUS
<1>2. \A i \in 1..(Len(q) - 1) : i + 1 \in 1..Len(q) /\ i + 1 # 1
  BY <1>1
<1>3. ASSUME NEW i \in 1..(Len(q) - 1), NEW j \in 1..(Len(q) - 1),
             Tail(q)[i] = Tail(q)[j], Tail(q)[i] \in C
      PROVE  i = j
  <2>1. i + 1 = j + 1
    BY <1>1, <1>2, <1>3 DEF Once
  <2> QED
    BY <2>1
<1>4. ASSUME Head(q) \in C, Head(q) \in Range(Tail(q))
      PROVE  FALSE
  <2>1. PICK i \in 1..(Len(q) - 1) : Tail(q)[i] = Head(q)
    BY <1>1, <1>4 DEF Range
  <2>2. q[i + 1] = q[1] /\ 1 \in DOMAIN q /\ i + 1 \in DOMAIN q
    BY <1>1, <1>2, <2>1
  <2> QED
    BY <1>1, <1>2, <1>4, <2>2 DEF Once
<1> QED
  BY <1>1, <1>3, <1>4 DEF Once

\* A second part without elements of C.
LEMMA OnceConcat ==
    ASSUME NEW S, NEW C, NEW q \in Seq(S), NEW t \in Seq(S),
           Once(q, C), Range(t) \cap C = {}
    PROVE  Once(q \o t, C)
<1>1. /\ Len(q) \in Nat /\ Len(t) \in Nat
      /\ DOMAIN q = 1..Len(q) /\ DOMAIN t = 1..Len(t)
      /\ DOMAIN (q \o t) = 1..(Len(q) + Len(t))
      /\ \A i \in 1..Len(q) : (q \o t)[i] = q[i]
      /\ \A i \in 1..Len(t) : (q \o t)[Len(q) + i] = t[i]
  OBVIOUS
<1>2. ASSUME NEW i \in 1..(Len(q) + Len(t)), (q \o t)[i] \in C
      PROVE  i \in 1..Len(q)
  <2>1. SUFFICES ASSUME i > Len(q) PROVE FALSE
    BY <1>1
  <2>2. i - Len(q) \in 1..Len(t) /\ Len(q) + (i - Len(q)) = i
    BY <1>1, <2>1
  <2>3. t[i - Len(q)] \in C
    BY <1>1, <1>2, <2>2
  <2> QED
    BY <1>1, <2>2, <2>3 DEF Range
<1> QED
  BY <1>1, <1>2 DEF Once

\* Fewer elements to watch.
LEMMA OnceFewer ==
    ASSUME NEW q, NEW C, NEW D, D \subseteq C, Once(q, C)
    PROVE  Once(q, D)
  BY DEF Once

-----------------------------------------------------------------------------
(* Sequences in the order of a relation R, as far as the elements of a set go *)

Sorted(q, C, R) ==
    \A i, j \in DOMAIN q : i < j /\ q[i] \in C /\ q[j] \in C => <<q[j], q[i]>> \notin R

Ahead(A, B, C, R) == \A y \in A \cap C, x \in B \cap C : <<x, y>> \notin R

\* An element that precedes none of the sequence goes to its end.
LEMMA SortedAppend ==
    ASSUME NEW S, NEW C, NEW R, NEW q \in Seq(S), NEW x \in S,
           Sorted(q, C, R), Ahead(Range(q), {x}, C, R)
    PROVE  Sorted(Append(q, x), C, R)
<1>1. /\ DOMAIN Append(q, x) = 1..(Len(q) + 1)
      /\ \A i \in 1..Len(q) : Append(q, x)[i] = q[i]
      /\ Append(q, x)[Len(q) + 1] = x
      /\ DOMAIN q = 1..Len(q)
      /\ Len(q) \in Nat
  OBVIOUS
<1>2. \A i \in 1..Len(q) : q[i] \in Range(q)
  BY <1>1 DEF Range
<1>3. SUFFICES ASSUME NEW i \in 1..(Len(q) + 1), NEW j \in 1..(Len(q) + 1), i < j,
                      Append(q, x)[i] \in C, Append(q, x)[j] \in C
               PROVE  <<Append(q, x)[j], Append(q, x)[i]>> \notin R
  BY <1>1 DEF Sorted
<1>4. i \in 1..Len(q)
  BY <1>1, <1>3
<1>5. CASE j \in 1..Len(q)
  BY <1>1, <1>3, <1>4, <1>5 DEF Sorted
<1>6. CASE j = Len(q) + 1
  BY <1>1, <1>2, <1>3, <1>4, <1>6 DEF Ahead
<1> QED
  BY <1>1, <1>5, <1>6

\* The head of a sequence in order is ahead of what is left without it.
LEMMA SortedTail ==
    ASSUME NEW S, NEW C, NEW R, NEW q \in Seq(S), q # <<>>, Sorted(q, C, R)
    PROVE  /\ Sorted(Tail(q), C, R)
           /\ Ahead({Head(q)}, Range(Tail(q)), C, R)
<1>1. /\ Len(q) \in Nat \ {0}
      /\ DOMAIN q = 1..Len(q)
      /\ Head(q) = q[1]
      /\ DOMAIN Tail(q) = 1..(Len(q) - 1)
      /\ \A i \in 1..(Len(q) - 1) : Tail(q)[i] = q[i + 1]
  OBVIOUS
<1>2. \A i \in 1..(Len(q) - 1) : i + 1 \in 1..Len(q) /\ 1 < i + 1
  BY <1>1
<1>3. ASSUME NEW i \in 1..(Len(q) - 1), NEW j \in 1..(Len(q) - 1), i < j,
             Tail(q)[i] \in C, Tail(q)[j] \in C
      PROVE  <<Tail(q)[j], Tail(q)[i]>> \notin R
  <2>1. i + 1 < j + 1
    BY <1>3
  <2> QED
    BY <1>1, <1>2, <1>3, <2>1 DEF Sorted
<1>4. ASSUME NEW x \in Range(Tail(q)), x \in C, Head(q) \in C
      PROVE  <<x, Head(q)>> \notin R
  <2>1. PICK i \in 1..(Len(q) - 1) : Tail(q)[i] = x
    BY <1>1, <1>4 DEF Range
  <2>2. q[i + 1] = x /\ 1 \in DOMAIN q /\ i + 1 \in DOMAIN q
    BY <1>1, <1>2, <2>1
  <2> QED
    BY <1>1, <1>2, <1>4, <2>2 DEF Sorted
<1> QED
  BY <1>1, <1>3, <1>4 DEF Sorted, Ahead

\* A second part without elements of C.
LEMMA SortedConcat ==
    ASSUME NEW S, NEW C, NEW R, NEW q \in Seq(S), NEW t \in Seq(S),
           Sorted(q, C, R), Range(t) \cap C = {}
    PROVE  Sorted(q \o t, C, R)
<1>1. /\ Len(q) \in Nat /\ Len(t) \in Nat
      /\ DOMAIN q = 1..Len(q) /\ DOMAIN t = 1..Len(t)
      /\ DOMAIN (q \o t) = 1..(Len(q) + Len(t))
      /\ \A i \in 1..Len(q) : (q \o t)[i] = q[i]
      /\ \A i \in 1..Len(t) : (q \o t)[Len(q) + i] = t[i]
  OBVIOUS
<1>2. ASSUME NEW i \in 1..(Len(q) + Len(t)), (q \o t)[i] \in C
      PROVE  i \in 1..Len(q)
  <2>1. SUFFICES ASSUME i > Len(q) PROVE FALSE
    BY <1>1
  <2>2. i - Len(q) \in 1..Len(t) /\ Len(q) + (i - Len(q)) = i
    BY <1>1, <2>1
  <2>3. t[i - Len(q)] \in C
    BY <1>1, <1>2, <2>2
  <2> QED
    BY <1>1, <2>2, <2>3 DEF Range
<1> QED
  BY <1>1, <1>2 DEF Sorted

\* Fewer elements to watch, and a relation with no more pairs of them.
LEMMA SortedFewer ==
    ASSUME NEW q, NEW C, NEW D, NEW R, NEW T, D \subseteq C, Sorted(q, C, R),
           \A x, y \in Range(q) \cap D : <<x, y>> \in T => <<x, y>> \in R
    PROVE  Sorted(q, D, T)
  BY DEF Sorted, Range

=============================================================================
