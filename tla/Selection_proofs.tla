-------------------------- MODULE Selection_proofs --------------------------
(***************************************************************************)
(* What Select returns for every sequence, by induction. The induction     *)
(* theorems of the library take a predicate as a parameter; those below    *)
(* take the set of which the predicate is true, and follow from the        *)
(* well-foundedness of the naturals.                                       *)
(***************************************************************************)
EXTENDS Selection, Integers, FiniteSets, SequenceTheorems, FiniteSetTheorems,
        FunctionTheorems, WellFoundedInduction, TLAPS

(* A set of naturals has a least member.                                   *)
LEMMA LeastExists ==
  ASSUME NEW S \in SUBSET Nat, S # {}
  PROVE  \E x \in S : \A y \in S : x <= y
<1> DEFINE R == {ss \in Nat \X Nat : ss[1] < ss[2]}
<1>1. OpToRel(<, Nat) = R
  BY Zenon DEF OpToRel
<1>2. \E x \in S : \A y \in S : ~(<<y, x>> \in R)
  BY <1>1, NatLessThanWellFounded, WFMin, Zenon
<1>3. \A x, y \in Nat : <<y, x>> \in R <=> y < x
  BY DEF R
<1> HIDE DEF R
<1>4. PICK x \in S : \A y \in S : ~(<<y, x>> \in R)
  BY <1>2
<1>5. \A y \in S : ~(y < x)
  BY <1>3, <1>4, S \subseteq Nat, Zenon
<1> QED
  BY <1>5

(* Induction over the naturals.                                            *)
LEMMA Induction ==
  ASSUME NEW P \in SUBSET Nat, 0 \in P, \A n \in P : n + 1 \in P
  PROVE  P = Nat
<1> SUFFICES ASSUME Nat \ P # {} PROVE FALSE
  OBVIOUS
<1>1. PICK n \in Nat \ P : \A m \in Nat \ P : n <= m
  BY LeastExists
<1>2. n - 1 \in P
  BY <1>1
<1> QED
  BY <1>1, <1>2

(* Induction over sequences.                                               *)
LEMMA SeqInduction ==
  ASSUME NEW S, NEW P \in SUBSET Seq(S), << >> \in P,
         \A s \in P, x \in S : Append(s, x) \in P
  PROVE  P = Seq(S)
<1> DEFINE Q == {n \in Nat : \A s \in Seq(S) : Len(s) = n => s \in P}
<1>1. 0 \in Q
  OBVIOUS
<1>2. ASSUME NEW n \in Q PROVE n + 1 \in Q
  <2> SUFFICES ASSUME NEW s \in Seq(S), Len(s) = n + 1 PROVE s \in P
    OBVIOUS
  <2>0. s # << >> /\ n \in Nat
    OBVIOUS
  <2>1. PICK t \in Seq(S), x \in S : s = Append(t, x)
    BY <2>0, SequenceEmptyOrAppend
  <2>2. Len(t) = n
    BY <2>1
  <2> QED
    BY <2>1, <2>2
<1>3. Q = Nat
  <2> HIDE DEF Q
  <2>1. Q \in SUBSET Nat
    BY DEF Q
  <2> QED
    BY <1>1, <1>2, <2>1, Induction
<1>4. ASSUME NEW s \in Seq(S) PROVE s \in P
  <2>1. Len(s) \in Q
    BY <1>3
  <2> QED
    BY <2>1
<1> QED
  BY <1>4

-----------------------------------------------------------------------------
(* One step of the recursion that defines Selected.                        *)
More(s, E, f, i) ==
  IF i = 0 THEN << >>
  ELSE IF s[i] \in E THEN Append(f[i - 1], s[i])
  ELSE f[i - 1]

(* There is a function that satisfies it, and so Selected does.            *)
LEMMA SelectedExists ==
  ASSUME NEW S, NEW E, NEW s \in Seq(S)
  PROVE  \E f : f = [i \in 0 .. Len(s) |-> More(s, E, f, i)]
<1> DEFINE P == {t \in Seq(S) : \E f : f = [i \in 0 .. Len(t) |-> More(t, E, f, i)]}
<1>1. << >> \in P
  <2> DEFINE f == [i \in 0 .. 0 |-> << >>]
  <2>1. f = [i \in 0 .. Len(<< >>) |-> More(<< >>, E, f, i)]
    BY DEF More
  <2> QED
    BY <2>1
<1>2. ASSUME NEW t \in P, NEW x \in S PROVE Append(t, x) \in P
  <2>1. PICK f : f = [i \in 0 .. Len(t) |-> More(t, E, f, i)]
    OBVIOUS
  <2> DEFINE g == [i \in 0 .. Len(t) + 1 |->
                     IF i <= Len(t) THEN f[i]
                     ELSE IF x \in E THEN Append(f[Len(t)], x) ELSE f[Len(t)]]
  <2>2. /\ Append(t, x) \in Seq(S) /\ Len(Append(t, x)) = Len(t) + 1 /\ Len(t) \in Nat
        /\ \A i \in 1 .. Len(t) : Append(t, x)[i] = t[i]
        /\ Append(t, x)[Len(t) + 1] = x
    OBVIOUS
  <2>3. ASSUME NEW i \in 0 .. Len(t) + 1 PROVE g[i] = More(Append(t, x), E, g, i)
    <3>1. CASE i = 0
      BY <2>1, <2>2, <3>1 DEF More
    <3>2. CASE i \in 1 .. Len(t)
      <4>1. g[i] = f[i] /\ g[i - 1] = f[i - 1] /\ Append(t, x)[i] = t[i]
        BY <2>2, <3>2
      <4>2. f[i] = More(t, E, f, i)
        <5> HIDE DEF g
        <5>1. i \in 0 .. Len(t)
          BY <2>2, <3>2
        <5> QED
          BY <2>1, <5>1, Zenon
      <4> HIDE DEF g
      <4> QED
        BY <3>2, <4>1, <4>2 DEF More
    <3>3. CASE i = Len(t) + 1
      BY <2>2, <3>3 DEF More
    <3> QED
      BY <2>2, <3>1, <3>2, <3>3
  <2>4. g = [i \in 0 .. Len(Append(t, x)) |-> More(Append(t, x), E, g, i)]
    <3>1. g = [i \in 0 .. Len(t) + 1 |-> g[i]]
      OBVIOUS
    <3> HIDE DEF g
    <3> QED
      BY <2>2, <2>3, <3>1
  <2> QED
    BY <2>2, <2>4
<1>3. P = Seq(S)
  <2> HIDE DEF P
  <2>1. P \in SUBSET Seq(S)
    BY DEF P
  <2> QED
    BY <1>1, <1>2, <2>1, SeqInduction
<1> QED
  BY <1>3

LEMMA SelectedStep ==
  ASSUME NEW S, NEW E, NEW s \in Seq(S), NEW i \in 0 .. Len(s)
  PROVE  Selected(s, E)[i] = More(s, E, Selected(s, E), i)
<1> DEFINE f == CHOOSE f : f = [j \in 0 .. Len(s) |-> More(s, E, f, j)]
<1>1. f = [j \in 0 .. Len(s) |-> More(s, E, f, j)]
  BY SelectedExists
<1>2. Selected(s, E) = f
  BY DEF Selected, More
<1> HIDE DEF f
<1> QED
  BY <1>1, <1>2

(* What is selected of the beginning of a sequence is selected of it all.  *)
LEMMA SelectedPrefix ==
  ASSUME NEW S, NEW E, NEW s \in Seq(S), NEW x \in S, NEW i \in 0 .. Len(s)
  PROVE  Selected(Append(s, x), E)[i] = Selected(s, E)[i]
<1> DEFINE P == {n \in Nat : n <= Len(s) => Selected(Append(s, x), E)[n] = Selected(s, E)[n]}
<1>1. /\ Append(s, x) \in Seq(S) /\ Len(Append(s, x)) = Len(s) + 1 /\ Len(s) \in Nat
      /\ \A j \in 1 .. Len(s) : Append(s, x)[j] = s[j]
  OBVIOUS
<1>2. 0 \in P
  <2>1. 0 \in 0 .. Len(s) /\ 0 \in 0 .. Len(Append(s, x))
    BY <1>1
  <2>2. /\ Selected(Append(s, x), E)[0] = More(Append(s, x), E, Selected(Append(s, x), E), 0)
        /\ Selected(s, E)[0] = More(s, E, Selected(s, E), 0)
    BY <1>1, <2>1, SelectedStep, Zenon
  <2> QED
    BY <2>2 DEF More
<1>3. ASSUME NEW n \in P PROVE n + 1 \in P
  <2> SUFFICES ASSUME n + 1 <= Len(s)
               PROVE  Selected(Append(s, x), E)[n + 1] = Selected(s, E)[n + 1]
    OBVIOUS
  <2>1. Selected(Append(s, x), E)[n] = Selected(s, E)[n] /\ n \in Nat
    BY <1>1
  <2>2. n + 1 \in 0 .. Len(s) /\ n + 1 \in 0 .. Len(Append(s, x))
    BY <1>1
  <2>3. /\ Selected(Append(s, x), E)[n + 1]
             = More(Append(s, x), E, Selected(Append(s, x), E), n + 1)
        /\ Selected(s, E)[n + 1] = More(s, E, Selected(s, E), n + 1)
    <3> HIDE DEF P
    <3> QED BY <1>1, <2>2, SelectedStep, Zenon
  <2> QED
    BY <1>1, <2>1, <2>2, <2>3 DEF More
<1>4. P = Nat
  <2> HIDE DEF P
  <2>1. P \in SUBSET Nat
    BY DEF P
  <2> QED
    BY <1>2, <1>3, <2>1, Induction
<1> QED
  BY <1>1, <1>4

LEMMA SelectEmpty == ASSUME NEW E PROVE Select(<< >>, E) = << >>
<1>1. << >> \in Seq({}) /\ Len(<< >>) = 0 /\ 0 \in 0 .. Len(<< >>)
  OBVIOUS
<1>2. Selected(<< >>, E)[0] = More(<< >>, E, Selected(<< >>, E), 0)
  BY <1>1, SelectedStep, Zenon
<1> QED
  BY <1>1, <1>2 DEF Select, More

LEMMA SelectAppend ==
  ASSUME NEW S, NEW E, NEW s \in Seq(S), NEW x \in S
  PROVE  Select(Append(s, x), E) = IF x \in E THEN Append(Select(s, E), x) ELSE Select(s, E)
<1>1. /\ Append(s, x) \in Seq(S) /\ Len(Append(s, x)) = Len(s) + 1 /\ Len(s) \in Nat
      /\ Append(s, x)[Len(s) + 1] = x
  OBVIOUS
<1>2. Select(Append(s, x), E) = More(Append(s, x), E, Selected(Append(s, x), E), Len(s) + 1)
  <2>1. Len(s) + 1 \in 0 .. Len(Append(s, x))
    BY <1>1
  <2>2. Selected(Append(s, x), E)[Len(s) + 1]
          = More(Append(s, x), E, Selected(Append(s, x), E), Len(s) + 1)
    BY <1>1, <2>1, SelectedStep, Zenon
  <2> QED
    BY <1>1, <2>2 DEF Select
<1>3. Selected(Append(s, x), E)[Len(s)] = Select(s, E)
  BY <1>1, SelectedPrefix DEF Select
<1> QED
  BY <1>1, <1>2, <1>3 DEF More

-----------------------------------------------------------------------------
(* A selection is a sequence of members, no longer than the sequence.      *)
LEMMA SelectType ==
  ASSUME NEW S, NEW E, NEW s \in Seq(S)
  PROVE  Select(s, E) \in Seq(S) /\ Len(Select(s, E)) <= Len(s)
<1> DEFINE P == {t \in Seq(S) : Select(t, E) \in Seq(S) /\ Len(Select(t, E)) <= Len(t)}
<1>1. << >> \in P
  <2>1. Select(<< >>, E) = << >> /\ Len(<< >>) <= Len(<< >>)
    BY SelectEmpty
  <2> QED
    BY <2>1, EmptySeq
<1>2. ASSUME NEW t \in P, NEW x \in S PROVE Append(t, x) \in P
  BY SelectAppend
<1> HIDE DEF P
<1>3. P = Seq(S)
  <2>1. P \in SUBSET Seq(S)
    BY DEF P
  <2> QED
    BY <1>1, <1>2, <2>1, SeqInduction
<1> QED
  BY <1>3 DEF P

(* The members of a sequence with one more.                                *)
LEMMA RangeAppend ==
  ASSUME NEW S, NEW s \in Seq(S), NEW x \in S
  PROVE  Range(Append(s, x)) = Range(s) \cup {x}
<1>1. /\ DOMAIN Append(s, x) = 1 .. Len(s) + 1 /\ DOMAIN s = 1 .. Len(s) /\ Len(s) \in Nat
      /\ \A i \in 1 .. Len(s) : Append(s, x)[i] = s[i]
      /\ Append(s, x)[Len(s) + 1] = x
  OBVIOUS
<1>2. ASSUME NEW y \in Range(Append(s, x)) PROVE y \in Range(s) \cup {x}
  <2>1. PICK i \in 1 .. Len(s) + 1 : y = Append(s, x)[i]
    BY <1>1, <1>2 DEF Range
  <2>2. i \in 1 .. Len(s) \/ i = Len(s) + 1
    BY <1>1
  <2> QED
    BY <1>1, <2>1, <2>2 DEF Range
<1>3. ASSUME NEW y \in Range(s) PROVE y \in Range(Append(s, x))
  <2>1. PICK i \in 1 .. Len(s) : y = s[i]
    BY <1>1, <1>3 DEF Range
  <2>2. i \in 1 .. Len(s) + 1 /\ y = Append(s, x)[i]
    BY <1>1, <2>1
  <2> QED
    BY <1>1, <2>2 DEF Range
<1>4. x \in Range(Append(s, x))
  <2>1. Len(s) + 1 \in DOMAIN Append(s, x)
    BY <1>1
  <2> QED
    BY <1>1, <2>1 DEF Range
<1> QED
  BY <1>2, <1>3, <1>4

(* It has the members that are in the set.                                 *)
LEMMA SelectRange ==
  ASSUME NEW S, NEW E, NEW s \in Seq(S)
  PROVE  Range(Select(s, E)) = Range(s) \cap E
<1> DEFINE P == {t \in Seq(S) : Range(Select(t, E)) = Range(t) \cap E}
<1>1. << >> \in P
  BY SelectEmpty DEF Range
<1>2. ASSUME NEW t \in P, NEW x \in S PROVE Append(t, x) \in P
  <2>1. /\ t \in Seq(S) /\ Append(t, x) \in Seq(S)
        /\ Select(Append(t, x), E) = IF x \in E THEN Append(Select(t, E), x) ELSE Select(t, E)
    <3>1. t \in Seq(S)
      OBVIOUS
    <3> HIDE DEF P
    <3> QED BY <3>1, SelectAppend
  <2>2. Select(t, E) \in Seq(S)
    BY <2>1, SelectType
  <2>3. /\ Range(Append(t, x)) = Range(t) \cup {x}
        /\ Range(Append(Select(t, E), x)) = Range(Select(t, E)) \cup {x}
    BY <2>1, <2>2, RangeAppend
  <2> QED
    BY <2>1, <2>3
<1> HIDE DEF P
<1>3. P = Seq(S)
  <2>1. P \in SUBSET Seq(S)
    BY DEF P
  <2> QED
    BY <1>1, <1>2, <2>1, SeqInduction
<1> QED
  BY <1>3 DEF P

(* It repeats nothing if the sequence does not.                            *)
LEMMA AppendIsInjective ==
  ASSUME NEW S, NEW s \in Seq(S), NEW x \in S
  PROVE  IsInjective(Append(s, x)) <=> IsInjective(s) /\ x \notin Range(s)
<1>1. /\ DOMAIN Append(s, x) = 1 .. Len(s) + 1 /\ DOMAIN s = 1 .. Len(s) /\ Len(s) \in Nat
      /\ \A i \in 1 .. Len(s) : Append(s, x)[i] = s[i] /\ i # Len(s) + 1
      /\ Append(s, x)[Len(s) + 1] = x
      /\ 1 .. Len(s) + 1 = 1 .. Len(s) \cup {Len(s) + 1}
  OBVIOUS
<1>2. ASSUME IsInjective(Append(s, x)) PROVE IsInjective(s) /\ x \notin Range(s)
  BY <1>1, <1>2 DEF IsInjective, Range
<1>3. ASSUME IsInjective(s), x \notin Range(s) PROVE IsInjective(Append(s, x))
  <2> SUFFICES ASSUME NEW i \in 1 .. Len(s) \cup {Len(s) + 1},
                      NEW j \in 1 .. Len(s) \cup {Len(s) + 1},
                      Append(s, x)[i] = Append(s, x)[j]
               PROVE  i = j
    BY <1>1 DEF IsInjective
  <2>1. \A k \in 1 .. Len(s) : s[k] # x
    BY <1>1, <1>3 DEF Range
  <2> QED
    BY <1>1, <1>3, <2>1 DEF IsInjective
<1> QED
  BY <1>2, <1>3

LEMMA SelectInjective ==
  ASSUME NEW S, NEW E, NEW s \in Seq(S), IsInjective(s)
  PROVE  IsInjective(Select(s, E))
<1> DEFINE P == {t \in Seq(S) : IsInjective(t) => IsInjective(Select(t, E))}
<1>1. << >> \in P
  BY SelectEmpty DEF IsInjective
<1>2. ASSUME NEW t \in P, NEW x \in S PROVE Append(t, x) \in P
  <2>1. /\ t \in Seq(S) /\ Append(t, x) \in Seq(S)
        /\ Select(Append(t, x), E) = IF x \in E THEN Append(Select(t, E), x) ELSE Select(t, E)
    <3>1. t \in Seq(S)
      OBVIOUS
    <3> HIDE DEF P
    <3> QED BY <3>1, SelectAppend
  <2>2. Select(t, E) \in Seq(S) /\ Range(Select(t, E)) = Range(t) \cap E
    BY <2>1, SelectType, SelectRange
  <2>3. /\ IsInjective(Append(t, x)) <=> IsInjective(t) /\ x \notin Range(t)
        /\ IsInjective(Append(Select(t, E), x))
             <=> IsInjective(Select(t, E)) /\ x \notin Range(Select(t, E))
    BY <2>1, <2>2, AppendIsInjective
  <2> QED
    BY <2>1, <2>2, <2>3
<1> HIDE DEF P
<1>3. P = Seq(S)
  <2>1. P \in SUBSET Seq(S)
    BY DEF P
  <2> QED
    BY <1>1, <1>2, <2>1, SeqInduction
<1> QED
  BY <1>3 DEF P

(* Nothing is selected of a sequence outside the set, and all of one in it.*)
LEMMA SelectNone ==
  ASSUME NEW S, NEW E, NEW s \in Seq(S), Range(s) \cap E = {}
  PROVE  Select(s, E) = << >>
BY SelectType, SelectRange DEF Range

LEMMA SelectAll ==
  ASSUME NEW S, NEW E, NEW s \in Seq(S), Range(s) \subseteq E
  PROVE  Select(s, E) = s
<1> DEFINE P == {t \in Seq(S) : Range(t) \subseteq E => Select(t, E) = t}
<1>1. << >> \in P
  BY SelectEmpty
<1>2. ASSUME NEW t \in P, NEW x \in S PROVE Append(t, x) \in P
  BY SelectAppend, RangeAppend
<1> HIDE DEF P
<1>3. P = Seq(S)
  <2>1. P \in SUBSET Seq(S)
    BY DEF P
  <2> QED
    BY <1>1, <1>2, <2>1, SeqInduction
<1> QED
  BY <1>3 DEF P

(* What is selected of two sequences in a row.                             *)
THEOREM SelectConcat ==
  ASSUME NEW S, NEW E, NEW s \in Seq(S), NEW t \in Seq(S)
  PROVE  Select(s \o t, E) = Select(s, E) \o Select(t, E)
<1> DEFINE P == {u \in Seq(S) : Select(s \o u, E) = Select(s, E) \o Select(u, E)}
<1>1. << >> \in P
  BY SelectEmpty, SelectType, ConcatEmptySeq
<1>2. ASSUME NEW u \in P, NEW x \in S PROVE Append(u, x) \in P
  <2>0. u \in Seq(S) /\ Select(s \o u, E) = Select(s, E) \o Select(u, E)
    OBVIOUS
  <2>1. s \o Append(u, x) = Append(s \o u, x) /\ s \o u \in Seq(S)
    OBVIOUS
  <2>2. /\ Select(Append(s \o u, x), E)
             = IF x \in E THEN Append(Select(s \o u, E), x) ELSE Select(s \o u, E)
        /\ Select(Append(u, x), E) = IF x \in E THEN Append(Select(u, E), x) ELSE Select(u, E)
    <3> HIDE DEF P
    <3>1. u \in Seq(S) /\ s \o u \in Seq(S)
      BY <2>0, <2>1
    <3>2. \A v \in Seq(S) : Select(Append(v, x), E)
                              = IF x \in E THEN Append(Select(v, E), x) ELSE Select(v, E)
      BY SelectAppend
    <3> QED
      BY <3>1, <3>2
  <2>3. /\ Select(s, E) \in Seq(S) /\ Select(u, E) \in Seq(S)
        /\ Select(s, E) \o Append(Select(u, E), x) = Append(Select(s, E) \o Select(u, E), x)
    BY SelectType
  <2>4. Select(s \o Append(u, x), E) = Select(s, E) \o Select(Append(u, x), E)
    <3> HIDE DEF P
    <3> QED BY <2>0, <2>1, <2>2, <2>3
  <2>5. Append(u, x) \in Seq(S)
    BY <2>0
  <2> QED
    BY <2>4, <2>5
<1> HIDE DEF P
<1>3. P = Seq(S)
  <2>1. P \in SUBSET Seq(S)
    BY DEF P
  <2> QED
    BY <1>1, <1>2, <2>1, SeqInduction
<1> QED
  BY <1>3 DEF P
=============================================================================
