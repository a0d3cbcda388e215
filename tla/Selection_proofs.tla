---------------------------- MODULE Selection_proofs ----------------------------
(***************************************************************************)
(* Facts about Selected, by induction over its data.  The induction        *)
(* theorems of the library take an operator, which no prover here can      *)
(* instantiate; the one about least elements (WFMin) takes a set.  From it *)
(* follow an induction over sets of numbers and one over sets of           *)
(* sequences, and from those what Selected is for an appended element,     *)
(* what its elements are and that it repeats nothing.  Last, what the      *)
(* sequence of a set is that has at most one element.                      *)
(***************************************************************************)
EXTENDS Selection, SequencesExt, SequenceTheorems, FiniteSetTheorems, WellFoundedInduction, TLAPS

\* A set of numbers that is not empty has a least element.
LEMMA LeastElement ==
    ASSUME NEW S \in SUBSET Nat, S # {}
    PROVE  \E n \in S : \A m \in S : ~ (m < n)
<1>1. \E x \in S : \A y \in S : ~ (<<y, x>> \in OpToRel(<, Nat))
    BY NatLessThanWellFounded, WFMin, Zenon
<1>2. \A y, x \in Nat : y < x => <<y, x>> \in OpToRel(<, Nat)
    BY DEF OpToRel
<1> QED
    BY <1>1, <1>2

\* Induction: a set of numbers with 0 that is closed under + 1 is Nat.
LEMMA InductionOnNat ==
    ASSUME NEW S \in SUBSET Nat, 0 \in S, \A n \in S : n + 1 \in S
    PROVE  S = Nat
<1> SUFFICES ASSUME Nat \ S # {} PROVE FALSE
    OBVIOUS
<1>1. PICK n \in Nat \ S : \A m \in Nat \ S : ~ (m < n)
    BY LeastElement
<1>2. n # 0 /\ n - 1 \in Nat /\ (n - 1) + 1 = n /\ n - 1 < n
    BY <1>1
<1>3. n - 1 \in S
    BY <1>1, <1>2
<1> QED
    BY <1>1, <1>2, <1>3

\* What one more element of s does to a selection, and the functions built of such steps, which
\* SelectedUpTo chooses from.
SelectionStep(s, S, before, n) == IF s[n] \in S THEN Append(before, s[n]) ELSE before

IsSelection(g, s, S, m) ==
    g = [n \in 0 .. m |-> IF n = 0 THEN <<>> ELSE SelectionStep(s, S, g[n - 1], n)]

\* There is such a function, for every number of steps.
LEMMA SelectionExists ==
    ASSUME NEW s, NEW S, NEW m \in Nat
    PROVE  \E g : IsSelection(g, s, S, m)
<1> DEFINE Good == {k \in Nat : \E g : IsSelection(g, s, S, k)}
<1>1. 0 \in Good
    <2>1. IsSelection([n \in 0 .. 0 |-> <<>>], s, S, 0)
        BY DEF IsSelection
    <2> QED
        BY <2>1
<1>2. ASSUME NEW k \in Good PROVE k + 1 \in Good
    <2>1. PICK g : IsSelection(g, s, S, k)
        OBVIOUS
    <2> DEFINE h == [n \in 0 .. k + 1 |->
                        IF n = k + 1 THEN SelectionStep(s, S, g[k], k + 1) ELSE g[n]]
    <2>2. ASSUME NEW n \in 0 .. k + 1
          PROVE  h[n] = IF n = 0 THEN <<>> ELSE SelectionStep(s, S, h[n - 1], n)
        <3> HIDE DEF SelectionStep
        <3>1. CASE n = k + 1
            BY <3>1
        <3>2. CASE n # k + 1
            <4>1. n \in 0 .. k /\ h[n] = g[n] /\ (n # 0 => h[n - 1] = g[n - 1])
                BY <3>2
            <4> QED
                BY <2>1, <4>1 DEF IsSelection
        <3> QED
            BY <3>1, <3>2
    <2>3. IsSelection(h, s, S, k + 1)
        BY <2>2, Zenon DEF IsSelection
    <2> QED
        BY <2>3
<1>3. Good = Nat
    BY <1>1, <1>2, InductionOnNat
<1> QED
    BY <1>3

\* SelectedUpTo is such a function: its recursion defines it.
LEMMA SelectedUpToIs ==
    ASSUME NEW s, NEW S, Len(s) \in Nat
    PROVE  IsSelection(SelectedUpTo(s, S), s, S, Len(s))
<1>1. SelectedUpTo(s, S) = CHOOSE g : IsSelection(g, s, S, Len(s))
    BY DEF SelectedUpTo, IsSelection, SelectionStep
<1> QED
    BY <1>1, SelectionExists, Zenon

\* Nothing is selected from nothing.
LEMMA SelectedEmpty ==
    ASSUME NEW S
    PROVE  Selected(<<>>, S) = <<>>
<1>1. IsSelection(SelectedUpTo(<<>>, S), <<>>, S, 0)
    BY SelectedUpToIs
<1> QED
    BY <1>1 DEF Selected, IsSelection

\* An appended element is selected, or not, behind what was selected before.
LEMMA SelectedAppend ==
    ASSUME NEW T, NEW s \in Seq(T), NEW e \in T, NEW S
    PROVE  Selected(Append(s, e), S) =
               IF e \in S THEN Append(Selected(s, S), e) ELSE Selected(s, S)
<1> DEFINE u == Append(s, e)
           m == Len(s)
           f == SelectedUpTo(s, S)
           g == SelectedUpTo(u, S)
           Good == {n \in Nat : n <= m => f[n] = g[n]}
<1>1. m \in Nat /\ Len(u) = m + 1 /\ u[m + 1] = e /\ \A i \in 1 .. m : u[i] = s[i]
    OBVIOUS
<1>2. IsSelection(f, s, S, m) /\ IsSelection(g, u, S, m + 1)
    <2>1. IsSelection(SelectedUpTo(s, S), s, S, Len(s))
        BY <1>1, SelectedUpToIs, Zenon
    <2> HIDE DEF u
    <2>2. Len(u) \in Nat
        BY <1>1
    <2>3. IsSelection(SelectedUpTo(u, S), u, S, Len(u))
        BY <2>2, SelectedUpToIs, Zenon
    <2> QED
        BY <1>1, <2>1, <2>3, Zenon
<1>3. /\ f[0] = <<>> /\ \A n \in 1 .. m : f[n] = SelectionStep(s, S, f[n - 1], n)
      /\ g[0] = <<>> /\ \A n \in 1 .. m + 1 : g[n] = SelectionStep(u, S, g[n - 1], n)
    <2> HIDE DEF f, g, u, m
    <2> QED
        BY <1>1, <1>2 DEF IsSelection
<1> HIDE DEF f, g, u, m
<1>4. Good = Nat
    <2>1. 0 \in Good
        BY <1>1, <1>3
    <2>2. ASSUME NEW n \in Good PROVE n + 1 \in Good
        <3> SUFFICES ASSUME n + 1 <= m PROVE f[n + 1] = g[n + 1]
            OBVIOUS
        <3>1. n \in Nat /\ n + 1 \in 1 .. m /\ n + 1 \in 1 .. m + 1 /\ (n + 1) - 1 = n /\ f[n] = g[n]
            BY <1>1
        <3>2. /\ f[n + 1] = SelectionStep(s, S, f[n], n + 1)
              /\ g[n + 1] = SelectionStep(u, S, g[n], n + 1)
            BY <1>3, <3>1
        <3> QED
            BY <1>1, <3>1, <3>2 DEF SelectionStep
    <2> HIDE DEF Good
    <2> QED
        BY <2>1, <2>2, InductionOnNat DEF Good
<1>5. f[m] = g[m]
    BY <1>1, <1>4
<1>6. g[m + 1] = SelectionStep(u, S, g[m], m + 1)
    BY <1>1, <1>3
<1>7. Selected(s, S) = f[m] /\ Selected(u, S) = g[m + 1]
    BY <1>1 DEF Selected, f, g, m
<1>8. Selected(u, S) = IF e \in S THEN Append(Selected(s, S), e) ELSE Selected(s, S)
    BY <1>1, <1>5, <1>6, <1>7, Zenon DEF SelectionStep
<1> QED
    BY <1>8 DEF u

\* Induction: a set of sequences with <<>> that is closed under Append is Seq(T).
LEMMA InductionOnSequences ==
    ASSUME NEW T, NEW Q \in SUBSET Seq(T), <<>> \in Q,
           \A s \in Q, e \in T : Append(s, e) \in Q
    PROVE  Q = Seq(T)
<1> DEFINE Good == {n \in Nat : \A s \in Seq(T) : Len(s) = n => s \in Q}
<1>1. 0 \in Good
    <2>1. \A s \in Seq(T) : Len(s) = 0 => s = <<>>
        OBVIOUS
    <2> QED
        BY <2>1
<1>2. ASSUME NEW n \in Good PROVE n + 1 \in Good
    <2> SUFFICES ASSUME NEW s \in Seq(T), Len(s) = n + 1 PROVE s \in Q
        OBVIOUS
    <2>1. n \in Nat /\ \A t \in Seq(T) : Len(t) = n => t \in Q
        OBVIOUS
    <2> HIDE DEF Good
    <2>2. PICK t \in Seq(T), e \in T : s = Append(t, e)
        <3>1. s # <<>>
            BY <2>1
        <3> QED
            BY <3>1, SequenceEmptyOrAppend, Zenon
    <2>3. Len(s) = Len(t) + 1 /\ Len(t) \in Nat
        BY <2>2, AppendProperties
    <2>4. t \in Q
        BY <2>1, <2>3
    <2> QED
        BY <2>2, <2>4
<1>3. Good = Nat
    <2> HIDE DEF Good
    <2> QED
        BY <1>1, <1>2, InductionOnNat DEF Good
<1>4. \A s \in Seq(T) : Len(s) \in Nat
    OBVIOUS
<1> QED
    BY <1>3, <1>4

\* A selection is a sequence of elements of both sets.
LEMMA SelectedIn ==
    ASSUME NEW T, NEW s \in Seq(T), NEW S
    PROVE  Selected(s, S) \in Seq(T \cap S)
<1> DEFINE Q == {t \in Seq(T) : Selected(t, S) \in Seq(T \cap S)}
<1>1. <<>> \in Q
    <2>1. Selected(<<>>, S) = <<>> /\ <<>> \in Seq(T) /\ <<>> \in Seq(T \cap S)
        BY SelectedEmpty
    <2> QED
        BY <2>1, Zenon
<1>2. ASSUME NEW t \in Q, NEW e \in T PROVE Append(t, e) \in Q
    <2>1. Selected(t, S) \in Seq(T \cap S) /\ t \in Seq(T)
        OBVIOUS
    <2> HIDE DEF Q
    <2>2. Append(t, e) \in Seq(T)
        BY <2>1
    <2>3. Selected(Append(t, e), S) =
              IF e \in S THEN Append(Selected(t, S), e) ELSE Selected(t, S)
        BY <2>1, SelectedAppend, Zenon
    <2>4. Selected(Append(t, e), S) \in Seq(T \cap S)
        <3>1. CASE e \in S
            <4>1. Selected(Append(t, e), S) = Append(Selected(t, S), e)
                BY <2>3, <3>1
            <4>2. e \in T \cap S
                BY <3>1
            <4> QED
                BY <2>1, <4>1, <4>2
        <3>2. CASE e \notin S
            BY <2>1, <2>3, <3>2
        <3> QED
            BY <3>1, <3>2
    <2> QED
        BY <2>2, <2>4 DEF Q
<1>3. Q = Seq(T)
    <2> HIDE DEF Q
    <2> QED
        BY <1>1, <1>2, InductionOnSequences DEF Q
<1> QED
    BY <1>3

\* The elements of a selection are the elements of the sequence that are in the set.
LEMMA SelectedElements ==
    ASSUME NEW T, NEW s \in Seq(T), NEW S
    PROVE  /\ \A i \in 1 .. Len(Selected(s, S)) :
                  Selected(s, S)[i] \in S /\ \E k \in 1 .. Len(s) : Selected(s, S)[i] = s[k]
           /\ \A k \in 1 .. Len(s) :
                  s[k] \in S => \E i \in 1 .. Len(Selected(s, S)) : Selected(s, S)[i] = s[k]
<1> DEFINE Keeps(u, v) ==
               /\ \A i \in 1 .. Len(v) : v[i] \in S /\ \E k \in 1 .. Len(u) : v[i] = u[k]
               /\ \A k \in 1 .. Len(u) : u[k] \in S => \E i \in 1 .. Len(v) : v[i] = u[k]
           Q == {t \in Seq(T) : Keeps(t, Selected(t, S))}
<1>1. <<>> \in Q
    <2>1. Keeps(<<>>, <<>>)
        OBVIOUS
    <2>2. Selected(<<>>, S) = <<>> /\ <<>> \in Seq(T)
        BY SelectedEmpty
    <2> QED
        BY <2>1, <2>2, Zenon
<1>2. ASSUME NEW t \in Q, NEW e \in T PROVE Append(t, e) \in Q
    <2> DEFINE v == Selected(t, S)
               w == Selected(Append(t, e), S)
    <2>1. v \in Seq(T \cap S) /\ t \in Seq(T) /\ Keeps(t, v)
        BY SelectedIn
    <2> HIDE DEF Q, v, Keeps
    <2>2. w = IF e \in S THEN Append(v, e) ELSE v
        BY <2>1, SelectedAppend, Zenon DEF v
    <2>3. Append(t, e) \in Seq(T) /\ Len(t) \in Nat /\ Len(v) \in Nat
        BY <2>1
    <2> HIDE DEF w
    <2>4. /\ Len(Append(t, e)) = Len(t) + 1 /\ Append(t, e)[Len(t) + 1] = e
          /\ \A k \in 1 .. Len(t) : Append(t, e)[k] = t[k]
        BY <2>1
    <2>5. Keeps(Append(t, e), w)
        <3>1. CASE e \in S
            <4>1. /\ w = Append(v, e) /\ Len(w) = Len(v) + 1 /\ w[Len(v) + 1] = e
                  /\ \A k \in 1 .. Len(v) : w[k] = v[k]
                BY <2>1, <2>2, <3>1
            <4>2. ASSUME NEW i \in 1 .. Len(w)
                  PROVE  w[i] \in S /\ \E k \in 1 .. Len(Append(t, e)) : w[i] = Append(t, e)[k]
                <5>1. CASE i = Len(v) + 1
                    BY <2>3, <2>4, <3>1, <4>1, <5>1
                <5>2. CASE i # Len(v) + 1
                    <6>1. i \in 1 .. Len(v)
                        BY <2>3, <4>1, <5>2
                    <6>2. PICK k \in 1 .. Len(t) : v[i] \in S /\ v[i] = t[k]
                        BY <2>1, <6>1 DEF Keeps
                    <6>3. k \in 1 .. Len(Append(t, e))
                        BY <2>3, <2>4, <6>2
                    <6> QED
                        BY <2>4, <4>1, <6>1, <6>2, <6>3
                <5> QED
                    BY <5>1, <5>2
            <4>3. ASSUME NEW k \in 1 .. Len(Append(t, e)), Append(t, e)[k] \in S
                  PROVE  \E i \in 1 .. Len(w) : w[i] = Append(t, e)[k]
                <5>1. CASE k = Len(t) + 1
                    <6>1. Len(v) + 1 \in 1 .. Len(w)
                        BY <2>3, <4>1
                    <6> QED
                        BY <2>4, <4>1, <5>1, <6>1
                <5>2. CASE k # Len(t) + 1
                    <6>1. k \in 1 .. Len(t)
                        BY <2>3, <2>4, <5>2
                    <6>2. t[k] \in S
                        BY <2>4, <4>3, <6>1
                    <6>3. PICK i \in 1 .. Len(v) : v[i] = t[k]
                        BY <2>1, <6>1, <6>2 DEF Keeps
                    <6>4. i \in 1 .. Len(w)
                        BY <2>3, <4>1
                    <6> QED
                        BY <2>4, <4>1, <6>1, <6>3, <6>4
                <5> QED
                    BY <5>1, <5>2
            <4> QED
                BY <4>2, <4>3 DEF Keeps
        <3>2. CASE e \notin S
            <4>1. w = v
                BY <2>2, <3>2
            <4>2. ASSUME NEW i \in 1 .. Len(v)
                  PROVE  v[i] \in S /\ \E k \in 1 .. Len(Append(t, e)) : v[i] = Append(t, e)[k]
                <5>1. PICK k \in 1 .. Len(t) : v[i] \in S /\ v[i] = t[k]
                    BY <2>1 DEF Keeps
                <5>2. k \in 1 .. Len(Append(t, e))
                    BY <2>3, <2>4, <5>1
                <5> QED
                    BY <2>4, <5>1, <5>2
            <4>3. ASSUME NEW k \in 1 .. Len(Append(t, e)), Append(t, e)[k] \in S
                  PROVE  \E i \in 1 .. Len(v) : v[i] = Append(t, e)[k]
                <5>1. k \in 1 .. Len(t)
                    BY <2>3, <2>4, <3>2, <4>3
                <5>2. t[k] \in S /\ Append(t, e)[k] = t[k]
                    BY <2>4, <4>3, <5>1
                <5> QED
                    BY <2>1, <5>1, <5>2 DEF Keeps
            <4> QED
                BY <4>1, <4>2, <4>3 DEF Keeps
        <3> QED
            BY <3>1, <3>2
    <2> QED
        BY <2>3, <2>5 DEF Q, w
<1>3. Q = Seq(T)
    <2> HIDE DEF Q
    <2> QED
        BY <1>1, <1>2, InductionOnSequences DEF Q
<1>4. Keeps(s, Selected(s, S))
    <2> HIDE DEF Keeps
    <2> QED
        BY <1>3
<1> QED
    BY <1>4

\* A selection from a sequence without repetition has none.
LEMMA SelectedDistinct ==
    ASSUME NEW T, NEW s \in Seq(T), NEW S,
           \A i, j \in 1 .. Len(s) : s[i] = s[j] => i = j
    PROVE  \A i, j \in 1 .. Len(Selected(s, S)) :
               Selected(s, S)[i] = Selected(s, S)[j] => i = j
<1> DEFINE Distinct(u) == \A i, j \in 1 .. Len(u) : u[i] = u[j] => i = j
           Q == {t \in Seq(T) : Distinct(t) => Distinct(Selected(t, S))}
<1>1. <<>> \in Q
    <2>1. Selected(<<>>, S) = <<>> /\ <<>> \in Seq(T)
        BY SelectedEmpty
    <2>2. Distinct(<<>>)
        OBVIOUS
    <2> HIDE DEF Distinct
    <2>3. Distinct(Selected(<<>>, S))
        BY <2>1, <2>2
    <2> QED
        BY <2>1, <2>3
<1>2. ASSUME NEW t \in Q, NEW e \in T PROVE Append(t, e) \in Q
    <2> DEFINE v == Selected(t, S)
    <2>1. v \in Seq(T \cap S) /\ t \in Seq(T) /\ (Distinct(t) => Distinct(v))
        BY SelectedIn
    <2>2. \A i \in 1 .. Len(v) : \E k \in 1 .. Len(t) : v[i] = t[k]
        BY <2>1, SelectedElements
    <2> HIDE DEF Q, v
    <2>3. Selected(Append(t, e), S) = IF e \in S THEN Append(v, e) ELSE v
        BY <2>1, SelectedAppend, Zenon DEF v
    <2>4. /\ Append(t, e) \in Seq(T) /\ Len(t) \in Nat /\ Len(v) \in Nat
          /\ Len(Append(t, e)) = Len(t) + 1 /\ Append(t, e)[Len(t) + 1] = e
          /\ \A k \in 1 .. Len(t) : Append(t, e)[k] = t[k]
          /\ Len(Append(v, e)) = Len(v) + 1 /\ Append(v, e)[Len(v) + 1] = e
          /\ \A k \in 1 .. Len(v) : Append(v, e)[k] = v[k]
        BY <2>1
    <2>5. ASSUME Distinct(Append(t, e)) PROVE Distinct(v) /\ Distinct(Append(v, e))
        <3>1. Distinct(t)
            BY <2>4, <2>5
        <3>2. \A k \in 1 .. Len(t) : t[k] # e
            <4>1. \A k \in 1 .. Len(t) : k \in 1 .. Len(t) + 1 /\ Len(t) + 1 \in 1 .. Len(t) + 1 /\ k # Len(t) + 1
                BY <2>4
            <4> QED
                BY <2>4, <2>5, <4>1
        <3>3. \A i \in 1 .. Len(v) : v[i] # e
            BY <2>2, <3>2
        <3>4. Distinct(v)
            BY <2>1, <3>1
        <3> QED
            BY <2>4, <3>3, <3>4
    <2> HIDE DEF Distinct
    <2> QED
        BY <2>3, <2>4, <2>5 DEF Q
<1>3. Q = Seq(T)
    <2> HIDE DEF Q
    <2> QED
        BY <1>1, <1>2, InductionOnSequences DEF Q
<1>4. Distinct(s) => Distinct(Selected(s, S))
    <2> HIDE DEF Distinct
    <2> QED
        BY <1>3
<1> QED
    BY <1>4

\* How an appended element changes the length of the selection.
LEMMA SelectedAppendLength ==
    ASSUME NEW T, NEW s \in Seq(T), NEW e \in T, NEW S
    PROVE  /\ Len(Selected(s, S)) \in Nat
           /\ Len(Selected(Append(s, e), S)) = Len(Selected(s, S)) + (IF e \in S THEN 1 ELSE 0)
<1> DEFINE v == Selected(s, S)
<1>1. /\ v \in Seq(T \cap S)
      /\ Selected(Append(s, e), S) = IF e \in S THEN Append(v, e) ELSE v
    BY SelectedAppend, SelectedIn
<1> HIDE DEF v
<1>2. e \in S => Append(v, e) \in Seq(T \cap S) /\ Len(Append(v, e)) = Len(v) + 1
    BY <1>1
<1>3. Len(v) \in Nat
    BY <1>1
<1>4. Len(Selected(Append(s, e), S)) = Len(v) + (IF e \in S THEN 1 ELSE 0)
    BY <1>1, <1>2, <1>3
<1> QED
    BY <1>3, <1>4 DEF v

\* Taking the head of a sequence takes it from the selection, if it was selected.
LEMMA SelectedTailLength ==
    ASSUME NEW T, NEW s \in Seq(T), s # <<>>, NEW S
    PROVE  Len(Selected(s, S)) = Len(Selected(Tail(s), S)) + (IF Head(s) \in S THEN 1 ELSE 0)
<1> DEFINE L(u) == Len(Selected(u, S))
           Q == {t \in Seq(T) :
                    t # <<>> => L(t) = L(Tail(t)) + (IF Head(t) \in S THEN 1 ELSE 0)}
<1>1. <<>> \in Q
    OBVIOUS
<1>2. ASSUME NEW t \in Q, NEW e \in T PROVE Append(t, e) \in Q
    <2>1. /\ t \in Seq(T)
          /\ t # <<>> => L(t) = L(Tail(t)) + (IF Head(t) \in S THEN 1 ELSE 0)
        OBVIOUS
    <2>2. Append(t, e) \in Seq(T)
        BY <2>1
    <2> HIDE DEF Q
    <2>3. \A u \in Seq(T) : L(u) \in Nat
        <3> SUFFICES ASSUME NEW u \in Seq(T) PROVE Len(Selected(u, S)) \in Nat
            OBVIOUS
        <3>1. Selected(u, S) \in Seq(T \cap S)
            BY SelectedIn
        <3> QED
            BY <3>1
    <2>4. ASSUME NEW u \in Seq(T) PROVE L(Append(u, e)) = L(u) + (IF e \in S THEN 1 ELSE 0)
        BY SelectedAppendLength
    <2>5. L(<<>>) = 0 /\ <<>> \in Seq(T)
        BY SelectedEmpty
    <2> HIDE DEF L
    <2>6. CASE t = <<>>
        <3>1. /\ Head(Append(t, e)) = e /\ Tail(Append(t, e)) = <<>>
            BY <2>6
        <3> QED
            BY <2>2, <2>4, <2>5, <2>6, <3>1 DEF Q
    <2>7. CASE t # <<>>
        <3>1. /\ Head(Append(t, e)) = Head(t) /\ Tail(Append(t, e)) = Append(Tail(t), e)
              /\ Tail(t) \in Seq(T)
            BY <2>1, <2>7
        <3>2. /\ L(Append(t, e)) = L(t) + (IF e \in S THEN 1 ELSE 0)
              /\ L(Append(Tail(t), e)) = L(Tail(t)) + (IF e \in S THEN 1 ELSE 0)
              /\ L(t) = L(Tail(t)) + (IF Head(t) \in S THEN 1 ELSE 0)
              /\ L(Tail(t)) \in Nat
            BY <2>1, <2>3, <2>4, <2>7, <3>1
        <3>3. L(Append(t, e)) = L(Append(Tail(t), e)) + (IF Head(t) \in S THEN 1 ELSE 0)
            BY <3>2
        <3>4. L(Append(t, e)) =
                  L(Tail(Append(t, e))) + (IF Head(Append(t, e)) \in S THEN 1 ELSE 0)
            BY <3>1, <3>3, Zenon
        <3> QED
            BY <2>2, <3>4 DEF Q
    <2> QED
        BY <2>6, <2>7
<1>3. Q = Seq(T)
    <2> HIDE DEF Q
    <2> QED
        BY <1>1, <1>2, InductionOnSequences DEF Q
<1>4. L(s) = L(Tail(s)) + (IF Head(s) \in S THEN 1 ELSE 0)
    <2> HIDE DEF L
    <2> QED
        BY <1>3
<1> QED
    BY <1>4

\* An element that comes first and is selected comes first.
LEMMA SelectedFirst ==
    ASSUME NEW T, NEW s \in Seq(T), NEW S, s # <<>>, s[1] \in S
    PROVE  Selected(s, S) # <<>> /\ Selected(s, S)[1] = s[1]
<1> DEFINE Q == {t \in Seq(T) : t # <<>> /\ t[1] \in S =>
                                  Selected(t, S) # <<>> /\ Selected(t, S)[1] = t[1]}
<1>1. <<>> \in Q
    OBVIOUS
<1>2. ASSUME NEW t \in Q, NEW e \in T PROVE Append(t, e) \in Q
    <2> DEFINE v == Selected(t, S)
               w == Selected(Append(t, e), S)
    <2>1. /\ t \in Seq(T)
          /\ t # <<>> /\ t[1] \in S => v # <<>> /\ v[1] = t[1]
        OBVIOUS
    <2> HIDE DEF Q
    <2>2. Append(t, e) \in Seq(T)
        BY <2>1
    <2>3. w = IF e \in S THEN Append(v, e) ELSE v
        <3>1. t \in Seq(T)
            BY <2>1
        <3> QED
            BY <3>1, SelectedAppend, Zenon
    <2>4. v \in Seq(T \cap S)
        BY <2>1, SelectedIn
    <2>5. t = <<>> => v = <<>>
        BY SelectedEmpty
    <2> HIDE DEF v, w
    <2>6. ASSUME Append(t, e)[1] \in S PROVE w # <<>> /\ w[1] = Append(t, e)[1]
        <3>1. CASE t = <<>>
            <4>1. Append(t, e)[1] = e /\ w = Append(<<>>, e)
                BY <2>3, <2>5, <2>6, <3>1
            <4> QED
                BY <4>1
        <3>2. CASE t # <<>>
            <4>1. Append(t, e)[1] = t[1]
                BY <2>1, <3>2
            <4>2. v # <<>> /\ v[1] = t[1]
                BY <2>1, <2>6, <3>2, <4>1
            <4>3. Append(v, e) # <<>> /\ Append(v, e)[1] = v[1]
                BY <2>4, <4>2
            <4> QED
                BY <2>3, <4>1, <4>2, <4>3
        <3> QED
            BY <3>1, <3>2
    <2> QED
        BY <2>2, <2>6 DEF Q, w
<1>3. Q = Seq(T)
    <2> HIDE DEF Q
    <2> QED
        BY <1>1, <1>2, InductionOnSequences DEF Q
<1> QED
    BY <1>3

\* Selecting everything changes nothing.
LEMMA SelectedAll ==
    ASSUME NEW T, NEW s \in Seq(T), NEW S, T \subseteq S
    PROVE  Selected(s, S) = s
<1> DEFINE Q == {t \in Seq(T) : Selected(t, S) = t}
<1>1. <<>> \in Q
    BY SelectedEmpty
<1>2. ASSUME NEW t \in Q, NEW e \in T PROVE Append(t, e) \in Q
    <2>1. Selected(t, S) = t /\ t \in Seq(T)
        OBVIOUS
    <2> HIDE DEF Q
    <2>2. Append(t, e) \in Seq(T) /\ e \in S
        BY <2>1
    <2>3. Selected(Append(t, e), S) = Append(t, e)
        BY <2>1, <2>2, SelectedAppend
    <2> QED
        BY <2>2, <2>3 DEF Q
<1>3. Q = Seq(T)
    <2> HIDE DEF Q
    <2> QED
        BY <1>1, <1>2, InductionOnSequences DEF Q
<1> QED
    BY <1>3

\* What is added at the end without being selected changes nothing.
LEMMA SelectedConcatNone ==
    ASSUME NEW T, NEW s \in Seq(T), NEW t \in Seq(T), NEW S,
           \A i \in 1 .. Len(t) : t[i] \notin S
    PROVE  Selected(s \o t, S) = Selected(s, S)
<1> DEFINE None(u) == \A i \in 1 .. Len(u) : u[i] \notin S
           Q == {u \in Seq(T) : None(u) => Selected(s \o u, S) = Selected(s, S)}
<1>1. <<>> \in Q
    <2>1. s \o <<>> = s /\ <<>> \in Seq(T)
        OBVIOUS
    <2>2. Selected(s \o <<>>, S) = Selected(s, S)
        BY <2>1, Zenon
    <2> QED
        BY <2>1, <2>2, Zenon
<1>2. ASSUME NEW u \in Q, NEW e \in T PROVE Append(u, e) \in Q
    <2>1. u \in Seq(T) /\ (None(u) => Selected(s \o u, S) = Selected(s, S))
        OBVIOUS
    <2> HIDE DEF Q
    <2>2. /\ Append(u, e) \in Seq(T) /\ s \o u \in Seq(T)
          /\ s \o Append(u, e) = Append(s \o u, e)
        BY <2>1
    <2>3. ASSUME None(Append(u, e)) PROVE None(u) /\ e \notin S
        <3>1. /\ Len(u) \in Nat /\ Len(Append(u, e)) = Len(u) + 1
              /\ Append(u, e)[Len(u) + 1] = e
              /\ \A i \in 1 .. Len(u) : Append(u, e)[i] = u[i]
            BY <2>1, AppendProperties
        <3>2. Len(u) + 1 \in 1 .. Len(u) + 1 /\ \A i \in 1 .. Len(u) : i \in 1 .. Len(u) + 1
            BY <3>1
        <3> QED
            BY <2>3, <3>1, <3>2
    <2> HIDE DEF None
    <2>4. ASSUME None(Append(u, e)) PROVE Selected(s \o Append(u, e), S) = Selected(s, S)
        <3>1. Selected(s \o u, S) = Selected(s, S) /\ e \notin S
            BY <2>1, <2>3, <2>4
        <3>2. Selected(Append(s \o u, e), S) =
                  IF e \in S THEN Append(Selected(s \o u, S), e) ELSE Selected(s \o u, S)
            <4> DEFINE v == s \o u
            <4>1. v \in Seq(T)
                BY <2>2
            <4> HIDE DEF v
            <4>2. Selected(Append(v, e), S) =
                      IF e \in S THEN Append(Selected(v, S), e) ELSE Selected(v, S)
                BY <4>1, SelectedAppend
            <4> QED
                BY <4>2 DEF v
        <3> QED
            BY <2>2, <3>1, <3>2, Zenon
    <2> QED
        BY <2>2, <2>4 DEF Q
<1>3. Q = Seq(T)
    <2> HIDE DEF Q
    <2> QED
        BY <1>1, <1>2, InductionOnSequences DEF Q
<1>4. None(t) => Selected(s \o t, S) = Selected(s, S)
    <2> HIDE DEF None
    <2> QED
        BY <1>3
<1> QED
    BY <1>4

--------------------------------------------------------------------------------
\* A set with at most one element as a sequence: of its elements only.
LEMMA SmallSetToSeq ==
    ASSUME NEW S, NEW x, S \subseteq {x}
    PROVE  SetToSeq(S) \in Seq(S)
<1> DEFINE n == Cardinality(S)
<1>1. \/ S = {} /\ n = 0
      \/ S = {x} /\ n = 1
    BY FS_EmptySet, FS_Singleton
<1>2. SetToSeq(S) = CHOOSE f \in [1 .. n -> S] : IsInjective(f)
    BY DEF SetToSeq
<1> HIDE DEF n
<1>3. \E f \in [1 .. n -> S] : IsInjective(f)
    <2>1. CASE S = {} /\ n = 0
        <3>1. [i \in 1 .. 0 |-> x] \in [1 .. n -> S] /\ IsInjective([i \in 1 .. 0 |-> x])
            BY <2>1 DEF IsInjective
        <3> QED
            BY <3>1
    <2>2. CASE S = {x} /\ n = 1
        <3>1. [i \in 1 .. 1 |-> x] \in [1 .. n -> S] /\ IsInjective([i \in 1 .. 1 |-> x])
            BY <2>2 DEF IsInjective
        <3> QED
            BY <3>1
    <2> QED
        BY <1>1, <2>1, <2>2
<1>4. SetToSeq(S) \in [1 .. n -> S] /\ n \in Nat
    BY <1>1, <1>2, <1>3
<1> QED
    BY <1>4
=============================================================================
