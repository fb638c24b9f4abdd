-------------------------- MODULE ConflictsProofs --------------------------
(***************************************************************************)
(* What an answer of evaluate_plan_conflicts is worth, for every table of  *)
(* plans and every capacity. The argument follows the code:                *)
(*                                                                         *)
(*   cutting   every unit of the window is in exactly one segment, and the *)
(*             plans active in it are those that hold the server at each   *)
(*             of its units (SegmentAt, SegmentsApart, ActiveIsOthers);    *)
(*   reporting what a segment reports, report by report (CapacityConflicts *)
(*             Are, DeviceConflictsAre, InvalidDevicesAre, RawAt);         *)
(*   merging   Merged(m, s) is kept by each Absorb, so that Coalesce loses *)
(*             nothing, adds nothing and leaves nothing to merge           *)
(*             (AbsorbAppends, AbsorbExtends, CoalesceMerges).             *)
(*                                                                         *)
(* TotalDemand and Coalesce fold over a finite set. What a fold yields is  *)
(* shown by taking the least counterexample of a set of them: NatInduction *)
(* Set and SetInduction say so for a set, so that no lemma takes an        *)
(* operator as a parameter.                                                *)
(***************************************************************************)
EXTENDS Conflicts, FiniteSetTheorems, WellFoundedInduction, TLAPS

(* Induction.                                                              *)

\* A set of numbers that holds 0 and every successor holds them all.
LEMMA NatInductionSet ==
    ASSUME NEW T \in SUBSET Nat, 0 \in T, \A n \in T : n + 1 \in T
    PROVE  T = Nat
PROOF
<1>1. SUFFICES ASSUME Nat \ T # {} PROVE FALSE
    OBVIOUS
<1>2. PICK m \in Nat \ T : \A y \in Nat \ T : ~ (<<y, m>> \in OpToRel(<, Nat))
    BY <1>1, NatLessThanWellFounded, WFMin
<1>3. \A y \in Nat \ T : ~(y < m)
    BY <1>2 DEF OpToRel
<1>4. m \in Nat /\ m \notin T
    BY <1>2
<1>5. m - 1 \in Nat /\ (m - 1) + 1 = m /\ m - 1 < m
    BY <1>4
<1>6. m - 1 \in T
    BY <1>3, <1>5
<1>. QED
    BY <1>4, <1>5, <1>6

\* A set that holds every finite set all of whose proper subsets it holds, holds them all.
LEMMA SetInduction ==
    ASSUME NEW S, IsFiniteSet(S), NEW T \in SUBSET SUBSET S,
           \A A \in SUBSET S : (\A B \in SUBSET A : B # A => B \in T) => A \in T
    PROVE  T = SUBSET S
PROOF
<1> DEFINE D == (SUBSET S) \ T
<1>1. SUFFICES ASSUME D # {} PROVE FALSE
    OBVIOUS
<1>2. D \subseteq FiniteSubsetsOf(S)
    BY FS_Subset DEF FiniteSubsetsOf
<1>3. \E m \in D : \A y \in D : ~ (<<y, m>> \in StrictSubsetOrdering(S))
  <2> HIDE DEF D
  <2>1. IsWellFoundedOn(StrictSubsetOrdering(S), FiniteSubsetsOf(S))
      BY FS_StrictSubsetOrderingWellFounded
  <2>. QED
      BY <1>1, <1>2, <2>1, WFMin
<1>4. PICK m \in D : \A y \in D : ~ (<<y, m>> \in StrictSubsetOrdering(S))
    BY <1>3
<1>5. m \in SUBSET S /\ m \notin T
    OBVIOUS
<1>6. \A B \in SUBSET m : B # m => B \in T
    BY <1>4, <1>5 DEF StrictSubsetOrdering
<1>. QED
    BY <1>5, <1>6

\* The recursion that Coalesce is: the report taken out is absorbed last.
Step(S, it) ==
    [s \in SUBSET S |->
        IF s = {} THEN <<>> ELSE Absorb(it[s \ {Latest(s)}], Latest(s))]

LEMMA CoalesceIs == \A S : Coalesce(S) = (CHOOSE it : it = Step(S, it))[S]
PROOF
BY DEF Coalesce, MapThenFoldSet, Step

\* The subsets on which n steps of the recursion define it.
Small(S, n) == {s \in SUBSET S : Cardinality(s) <= n}

\* The recursion has a solution when the element that is taken out is one of the set.
LEMMA StepExists ==
    ASSUME NEW S, IsFiniteSet(S), \A s \in SUBSET S : s # {} => Latest(s) \in s
    PROVE  \E it : it = Step(S, it)
PROOF
<1> DEFINE Body(s, it) == IF s = {} THEN <<>> ELSE Absorb(it[s \ {Latest(s)}], Latest(s))
           T == {n \in Nat : \E it : it = [s \in Small(S, n) |-> Body(s, it)]}
<1>1. \A s \in SUBSET S : IsFiniteSet(s) /\ Cardinality(s) \in Nat
    BY FS_Subset, FS_CardinalityType
<1>2. \A s \in SUBSET S : s # {} =>
        /\ s \ {Latest(s)} \in SUBSET S
        /\ Cardinality(s \ {Latest(s)}) = Cardinality(s) - 1
    BY <1>1, FS_RemoveElement
<1>3. 0 \in T
  <2>1. \A s \in Small(S, 0) : s = {}
      BY <1>1, FS_EmptySet DEF Small
  <2>2. [s \in Small(S, 0) |-> <<>>] = [s \in Small(S, 0) |-> Body(s, [s1 \in Small(S, 0) |-> <<>>])]
      BY <2>1
  <2>. QED
      BY <2>2
<1>4. ASSUME NEW n \in T PROVE n + 1 \in T
  <2>1. PICK g : g = [s \in Small(S, n) |-> Body(s, g)]
      OBVIOUS
  <2> DEFINE h == [s \in Small(S, n + 1) |-> Body(s, g)]
  <2>2. n \in Nat /\ \A s \in SUBSET S : Cardinality(s) \in Nat
      BY <1>1
  <2>3. \A s \in Small(S, n) : s \in Small(S, n + 1)
      BY <2>2 DEF Small
  <2>4. ASSUME NEW s \in Small(S, n + 1), s # {} PROVE s \ {Latest(s)} \in Small(S, n)
    <3> DEFINE r == s \ {Latest(s)}
    <3>1. s \in SUBSET S /\ Cardinality(s) <= n + 1 /\ Cardinality(s) \in Nat
        BY <2>2 DEF Small
    <3>2. r \in SUBSET S /\ Cardinality(r) = Cardinality(s) - 1
        BY <1>2, <2>4, <3>1
    <3> HIDE DEF r
    <3>3. Cardinality(r) <= n
        BY <2>2, <3>1, <3>2
    <3>4. r \in Small(S, n)
        BY <3>2, <3>3 DEF Small
    <3>. QED
        BY <3>4 DEF r
  <2>5. \A s \in Small(S, n) : g[s] = h[s]
    <3> HIDE DEF Body
    <3>. QED
        BY <2>1, <2>3
  <2>6. \A s \in Small(S, n + 1) : Body(s, g) = Body(s, h)
    <3> HIDE DEF h
    <3>. QED
        BY <2>4, <2>5
  <2> HIDE DEF Body
  <2>7. h = [s \in Small(S, n + 1) |-> Body(s, h)]
      BY <2>6
  <2>8. \E it : it = [s \in Small(S, n + 1) |-> Body(s, it)]
      BY <2>7
  <2>. QED
      BY <2>2, <2>8
<1>5. T = Nat
  <2> HIDE DEF T
  <2>1. T \in SUBSET Nat
      BY DEF T
  <2>. QED
      BY <1>3, <1>4, <2>1, NatInductionSet
<1>6. Small(S, Cardinality(S)) = SUBSET S
    BY <1>1, FS_Subset DEF Small
<1>7. Cardinality(S) \in T
    BY <1>1, <1>5
<1>8. \E it : it = [s \in SUBSET S |-> Body(s, it)]
    BY <1>6, <1>7
<1>. QED
    BY <1>8 DEF Step

\* Coalesce takes the latest report out and absorbs it last.
LEMMA CoalesceSteps ==
    ASSUME NEW S, IsFiniteSet(S), \A s \in SUBSET S : s # {} => Latest(s) \in s
    PROVE  \E it :
             /\ Coalesce(S) = it[S]
             /\ it[{}] = <<>>
             /\ \A s \in SUBSET S : s # {} =>
                  it[s] = Absorb(it[s \ {Latest(s)}], Latest(s))
PROOF
<1> DEFINE it == CHOOSE it : it = Step(S, it)
<1>1. it = Step(S, it)
    BY StepExists
<1>2. Coalesce(S) = it[S]
    BY CoalesceIs
<1> HIDE DEF it
<1>3. \A s \in SUBSET S :
        it[s] = IF s = {} THEN <<>> ELSE Absorb(it[s \ {Latest(s)}], Latest(s))
    BY <1>1 DEF Step
<1>4. {} \in SUBSET S
    OBVIOUS
<1>. QED
    BY <1>2, <1>3, <1>4

-----------------------------------------------------------------------------
(* Merging.                                                                *)

Covers(x, t) == x.start_at <= t /\ t < x.end_at

\* The reports m say of every unit what the reports of s say, and no two of them that
\* differ in nothing but the interval touch.
Merged(m, s) ==
    /\ m \in Seq(Conflict)
    /\ \A i \in DOMAIN m : m[i].start_at < m[i].end_at
    /\ \A i \in DOMAIN m : \E x \in s : Shape(x) = Shape(m[i]) /\ x.end_at = m[i].end_at
    /\ \A i, j \in DOMAIN m :
         i # j /\ Shape(m[i]) = Shape(m[j]) =>
           m[i].end_at < m[j].start_at \/ m[j].end_at < m[i].start_at
    /\ \A t \in Nat, x \in s :
         Covers(x, t) => \E i \in DOMAIN m : Shape(m[i]) = Shape(x) /\ Covers(m[i], t)
    /\ \A t \in Nat, i \in DOMAIN m :
         Covers(m[i], t) => \E x \in s : Shape(x) = Shape(m[i]) /\ Covers(x, t)

LEMMA MergedNothing == Merged(<<>>, {})
PROOF
<1>1. <<>> \in Seq(Conflict) /\ DOMAIN <<>> = {}
    OBVIOUS
<1>. QED
    BY <1>1 DEF Merged

LEMMA Extended ==
    \A x \in Conflict, e \in Nat :
        LET y == [x EXCEPT !.end_at = e]
        IN  /\ y \in Conflict
            /\ Shape(y) = Shape(x)
            /\ y.start_at = x.start_at /\ y.end_at = e
PROOF
BY DEF Conflict, Shape

LEMMA ConflictEnds == \A x \in Conflict : x.start_at \in Nat /\ x.end_at \in Nat
PROOF
BY DEF Conflict

\* A report that continues none of those merged so far is appended.
LEMMA AbsorbAppends ==
    ASSUME NEW s \in SUBSET Conflict, NEW m, Merged(m, s), NEW x \in Conflict,
           x.start_at < x.end_at,
           \A y \in s : Shape(y) = Shape(x) => y.end_at <= x.start_at,
           \A i \in DOMAIN m : ~SameShape(m[i], x)
    PROVE  Merged(Absorb(m, x), s \cup {x})
PROOF
<1> DEFINE n == Append(m, x)
<1>1. Absorb(m, x) = n
    BY DEF Absorb
<1>2. m \in Seq(Conflict)
    BY DEF Merged
<1>3. /\ n \in Seq(Conflict) /\ Len(m) \in Nat
      /\ DOMAIN m = 1 .. Len(m) /\ DOMAIN n = 1 .. Len(m) + 1
      /\ \A i \in DOMAIN m : i \in DOMAIN n /\ n[i] = m[i]
      /\ n[Len(m) + 1] = x /\ Len(m) + 1 \in DOMAIN n
      /\ \A i \in DOMAIN n : i \in DOMAIN m \/ i = Len(m) + 1
    BY <1>2
<1> HIDE DEF n
<1>4. \A i \in DOMAIN n : (i \in DOMAIN m /\ n[i] = m[i]) \/ n[i] = x
    BY <1>3
<1>5. \A i \in DOMAIN m : m[i] \in Conflict
    BY <1>2
<1>6. \A i \in DOMAIN m : Shape(m[i]) = Shape(x) => m[i].end_at < x.start_at
  <2>1. SUFFICES ASSUME NEW i \in DOMAIN m, Shape(m[i]) = Shape(x)
                 PROVE  m[i].end_at < x.start_at
      OBVIOUS
  <2>2. m[i].end_at <= x.start_at
      BY <2>1 DEF Merged
  <2>3. m[i].end_at # x.start_at
      BY <2>1 DEF SameShape
  <2>. QED
      BY <1>5, <2>2, <2>3, ConflictEnds
<1>7. \A i \in DOMAIN n : n[i].start_at < n[i].end_at
    BY <1>4 DEF Merged
<1>8. \A i \in DOMAIN n :
        \E y \in s \cup {x} : Shape(y) = Shape(n[i]) /\ y.end_at = n[i].end_at
    BY <1>4 DEF Merged
<1>9. ASSUME NEW i \in DOMAIN n, NEW j \in DOMAIN n, i # j, Shape(n[i]) = Shape(n[j])
      PROVE  n[i].end_at < n[j].start_at \/ n[j].end_at < n[i].start_at
  <2>1. CASE i \in DOMAIN m /\ j \in DOMAIN m
      BY <1>3, <1>9, <2>1 DEF Merged
  <2>2. CASE i \in DOMAIN m /\ j = Len(m) + 1
      BY <1>3, <1>6, <1>9, <2>2
  <2>3. CASE i = Len(m) + 1 /\ j \in DOMAIN m
      BY <1>3, <1>6, <1>9, <2>3
  <2>. QED
      BY <1>3, <1>9, <2>1, <2>2, <2>3
<1>10. ASSUME NEW t \in Nat, NEW y \in s \cup {x}, Covers(y, t)
       PROVE  \E i \in DOMAIN n : Shape(n[i]) = Shape(y) /\ Covers(n[i], t)
  <2>1. CASE y \in s
    <3>1. PICK i \in DOMAIN m : Shape(m[i]) = Shape(y) /\ Covers(m[i], t)
        BY <1>10, <2>1 DEF Merged
    <3>. QED
        BY <1>3, <3>1
  <2>2. CASE y = x
      BY <1>3, <1>10, <2>2
  <2>. QED
      BY <2>1, <2>2
<1>11. \A t \in Nat, i \in DOMAIN n :
         Covers(n[i], t) => \E y \in s \cup {x} : Shape(y) = Shape(n[i]) /\ Covers(y, t)
    BY <1>4 DEF Merged
<1>. QED
    BY <1>1, <1>3, <1>7, <1>8, <1>9, <1>10, <1>11 DEF Merged

\* A report that continues one of those merged so far makes it longer: there is only one
\* that it continues, the last of its shape.
LEMMA AbsorbExtends ==
    ASSUME NEW s \in SUBSET Conflict, NEW m, Merged(m, s), NEW x \in Conflict,
           x.start_at < x.end_at,
           \A y \in s : Shape(y) = Shape(x) => y.end_at <= x.start_at,
           NEW k \in DOMAIN m, SameShape(m[k], x)
    PROVE  Merged(Absorb(m, x), s \cup {x})
PROOF
<1> DEFINE n == [m EXCEPT ![k].end_at = x.end_at]
           matches == {i \in DOMAIN m : SameShape(m[i], x)}
<1>1. m \in Seq(Conflict) /\ DOMAIN m = 1 .. Len(m) /\ Len(m) \in Nat
    BY DEF Merged
<1>2. /\ \A i \in DOMAIN m : m[i] \in Conflict /\ m[i].start_at \in Nat /\ m[i].end_at \in Nat
      /\ x.start_at \in Nat /\ x.end_at \in Nat
    BY <1>1, ConflictEnds
<1>3. Shape(m[k]) = Shape(x) /\ m[k].end_at = x.start_at
    BY DEF SameShape
<1>4. ASSUME NEW i \in DOMAIN m, i # k, Shape(m[i]) = Shape(x)
      PROVE  m[i].end_at < m[k].start_at
  <2>1. m[i].end_at <= x.start_at
      BY <1>4 DEF Merged
  <2>2. m[i].end_at < m[k].start_at \/ m[k].end_at < m[i].start_at
      BY <1>3, <1>4 DEF Merged
  <2>3. m[i].start_at < m[i].end_at
      BY <1>4 DEF Merged
  <2>. QED
      BY <1>2, <1>3, <1>4, <2>1, <2>2, <2>3
<1>5. m[k].start_at < m[k].end_at
    BY DEF Merged
<1>6. matches = {k}
  <2>1. \A i \in DOMAIN m : i # k => ~SameShape(m[i], x)
      BY <1>2, <1>3, <1>4, <1>5 DEF SameShape
  <2>. QED
      BY <2>1
<1>7. Max(matches) = k
  <2>1. k \in Int
      BY <1>1
  <2> HIDE DEF matches
  <2>. QED
      BY <1>6, <2>1 DEF Max
<1>8. Absorb(m, x) = n
    BY <1>6, <1>7 DEF Absorb
<1> DEFINE last == [m[k] EXCEPT !.end_at = x.end_at]
<1>9. /\ last \in Conflict /\ Shape(last) = Shape(x)
      /\ last.start_at = m[k].start_at /\ last.end_at = x.end_at
    BY <1>2, <1>3, Extended
<1>10. /\ DOMAIN n = DOMAIN m /\ n[k] = last
       /\ \A i \in DOMAIN m : i # k => n[i] = m[i]
    BY <1>1
<1>11. n \in Seq(Conflict)
  <2>1. n \in [1 .. Len(m) -> Conflict]
      BY <1>1, <1>2, <1>9, <1>10
  <2>. QED
      BY <1>1, <2>1
<1> HIDE DEF n, last
<1>12. \A i \in DOMAIN n : n[i].start_at < n[i].end_at
  <2>1. last.start_at < last.end_at
      BY <1>2, <1>3, <1>5, <1>9
  <2>. QED
      BY <1>10, <2>1 DEF Merged
<1>13. \A i \in DOMAIN n :
         \E y \in s \cup {x} : Shape(y) = Shape(n[i]) /\ y.end_at = n[i].end_at
    BY <1>9, <1>10 DEF Merged
<1>14. ASSUME NEW i \in DOMAIN n, NEW j \in DOMAIN n, i # j, Shape(n[i]) = Shape(n[j])
       PROVE  n[i].end_at < n[j].start_at \/ n[j].end_at < n[i].start_at
  <2>1. CASE i # k /\ j # k
      BY <1>10, <1>14, <2>1 DEF Merged
  <2>2. CASE i # k /\ j = k
      BY <1>4, <1>9, <1>10, <1>14, <2>2
  <2>3. CASE i = k /\ j # k
      BY <1>4, <1>9, <1>10, <1>14, <2>3
  <2>. QED
      BY <1>14, <2>1, <2>2, <2>3
<1>15. ASSUME NEW t \in Nat, NEW y \in s \cup {x}, Covers(y, t)
       PROVE  \E i \in DOMAIN n : Shape(n[i]) = Shape(y) /\ Covers(n[i], t)
  <2>1. CASE y \in s
    <3>1. PICK i \in DOMAIN m : Shape(m[i]) = Shape(y) /\ Covers(m[i], t)
        BY <1>15, <2>1 DEF Merged
    <3>2. CASE i # k
        BY <1>10, <3>1, <3>2
    <3>3. CASE i = k
        BY <1>2, <1>3, <1>9, <1>10, <3>1, <3>3 DEF Covers
    <3>. QED
        BY <3>2, <3>3
  <2>2. CASE y = x
      BY <1>2, <1>3, <1>5, <1>9, <1>10, <1>15, <2>2 DEF Covers
  <2>. QED
      BY <2>1, <2>2
<1>16. ASSUME NEW t \in Nat, NEW i \in DOMAIN n, Covers(n[i], t)
       PROVE  \E y \in s \cup {x} : Shape(y) = Shape(n[i]) /\ Covers(y, t)
  <2>1. CASE i # k
      BY <1>10, <1>16, <2>1 DEF Merged
  <2>2. CASE i = k /\ t >= x.start_at
      BY <1>9, <1>10, <1>16, <2>2 DEF Covers
  <2>3. CASE i = k /\ ~(t >= x.start_at)
    <3>1. Covers(m[k], t)
        BY <1>2, <1>3, <1>9, <1>10, <1>16, <2>3 DEF Covers
    <3>2. PICK y \in s : Shape(y) = Shape(m[k]) /\ Covers(y, t)
        BY <3>1 DEF Merged
    <3>. QED
        BY <1>3, <1>9, <1>10, <2>3, <3>2
  <2>. QED
      BY <2>1, <2>2, <2>3
<1>. QED
    BY <1>8, <1>11, <1>12, <1>13, <1>14, <1>15, <1>16 DEF Merged

\* The reports of the pieces of a window: none is empty, and none overlaps another one
\* that says the same.
Pieces(S) ==
    /\ S \in SUBSET Conflict
    /\ IsFiniteSet(S)
    /\ \A x \in S : x.start_at < x.end_at
    /\ \A x, y \in S :
         x # y /\ Shape(x) = Shape(y) => x.end_at <= y.start_at \/ y.end_at <= x.start_at

\* The order in which the reports are merged.
Sooner(y, x) == y.start_at < x.start_at \/ (y.start_at = x.start_at /\ y.end_at <= x.end_at)

\* A finite set of reports that is not empty has a latest one.
LEMMA LatestIsLast ==
    ASSUME NEW S \in SUBSET Conflict, IsFiniteSet(S), S # {}
    PROVE  Latest(S) \in S /\ \A y \in S : Sooner(y, Latest(S))
PROOF
<1> DEFINE T == {A \in SUBSET S : A # {} => \E x \in A : \A y \in A : Sooner(y, x)}
<1>1. \A x \in S : x.start_at \in Nat /\ x.end_at \in Nat
    BY ConflictEnds
<1>2. ASSUME NEW A \in SUBSET S, \A B \in SUBSET A : B # A => B \in T
      PROVE  A \in T
  <2>1. SUFFICES ASSUME A # {} PROVE \E x \in A : \A y \in A : Sooner(y, x)
      OBVIOUS
  <2>2. PICK a \in A : TRUE
      BY <2>1
  <2> DEFINE B == A \ {a}
  <2>3. B \in T
      BY <1>2, <2>2
  <2>4. CASE B = {}
    <3>1. \A y \in A : y = a
        BY <2>4
    <3>. QED
        BY <1>1, <2>2, <3>1 DEF Sooner
  <2>5. CASE B # {}
    <3>1. PICK x \in B : \A y \in B : Sooner(y, x)
        BY <2>3, <2>5
    <3>2. \A y \in A : y = a \/ y \in B
        OBVIOUS
    <3>3. CASE Sooner(a, x)
        BY <3>1, <3>2, <3>3
    <3>4. CASE ~Sooner(a, x)
      <4>1. Sooner(x, a) /\ Sooner(a, a)
          BY <1>1, <2>2, <3>4 DEF Sooner
      <4>2. \A y \in B : Sooner(y, a)
          BY <1>1, <2>2, <3>1, <4>1 DEF Sooner
      <4>. QED
          BY <2>2, <3>2, <4>1, <4>2
    <3>. QED
        BY <3>3, <3>4
  <2>. QED
      BY <2>4, <2>5
<1>3. T = SUBSET S
  <2> HIDE DEF T
  <2>1. T \in SUBSET SUBSET S
      BY DEF T
  <2>. QED
      BY <1>2, <2>1, SetInduction
<1>4. \E x \in S : \A y \in S : Sooner(y, x)
    BY <1>3
<1>. QED
    BY <1>4 DEF Latest, Sooner

\* Coalesce loses nothing, adds nothing, and leaves nothing to merge.
LEMMA CoalesceMerges ==
    ASSUME NEW S, Pieces(S)
    PROVE  Merged(Coalesce(S), S)
PROOF
<1>1. /\ S \in SUBSET Conflict /\ IsFiniteSet(S)
      /\ \A x \in S : x.start_at < x.end_at
      /\ \A x, y \in S :
           x # y /\ Shape(x) = Shape(y) => x.end_at <= y.start_at \/ y.end_at <= x.start_at
    BY DEF Pieces
<1>2. \A s \in SUBSET S : s # {} => Latest(s) \in s /\ \A y \in s : Sooner(y, Latest(s))
    BY <1>1, LatestIsLast, FS_Subset
<1>3. PICK it : /\ Coalesce(S) = it[S]
                /\ it[{}] = <<>>
                /\ \A s \in SUBSET S : s # {} =>
                     it[s] = Absorb(it[s \ {Latest(s)}], Latest(s))
    BY <1>1, <1>2, CoalesceSteps
<1> DEFINE T == {s \in SUBSET S : Merged(it[s], s)}
<1>4. ASSUME NEW A \in SUBSET S, \A B \in SUBSET A : B # A => B \in T
      PROVE  A \in T
  <2>1. CASE A = {}
      BY <1>3, <2>1, MergedNothing
  <2>2. CASE A # {}
    <3> DEFINE x == Latest(A)
               B == A \ {x}
    <3>1. x \in A /\ \A y \in A : Sooner(y, x)
        BY <1>2, <2>2
    <3>2. B \in SUBSET A /\ B # A /\ B \cup {x} = A
        BY <3>1
    <3>3. Merged(it[B], B)
        BY <1>4, <3>2
    <3>4. it[A] = Absorb(it[B], x)
        BY <1>3, <2>2
    <3>5. x \in Conflict /\ B \in SUBSET Conflict /\ x.start_at < x.end_at
        BY <1>1, <3>1, <3>2
    <3> HIDE DEF x
    <3>6. ASSUME NEW y \in B, Shape(y) = Shape(x) PROVE y.end_at <= x.start_at
      <4>1. y \in S /\ x \in S /\ y # x /\ Sooner(y, x)
          BY <3>1
      <4>2. y.end_at <= x.start_at \/ x.end_at <= y.start_at
          BY <1>1, <3>6, <4>1
      <4>3. /\ y.start_at \in Nat /\ y.end_at \in Nat
            /\ x.start_at \in Nat /\ x.end_at \in Nat
            /\ y.start_at < y.end_at /\ x.start_at < x.end_at
          BY <1>1, <4>1, ConflictEnds
      <4>. QED
          BY <4>1, <4>2, <4>3 DEF Sooner
    <3> HIDE DEF B
    <3>7. Merged(Absorb(it[B], x), B \cup {x})
      <4>1. CASE \A i \in DOMAIN it[B] : ~SameShape(it[B][i], x)
          BY <3>3, <3>5, <3>6, <4>1, AbsorbAppends
      <4>2. CASE \E i \in DOMAIN it[B] : SameShape(it[B][i], x)
        <5>1. PICK k \in DOMAIN it[B] : SameShape(it[B][k], x)
            BY <4>2
        <5>. QED
            BY <3>3, <3>5, <3>6, <5>1, AbsorbExtends
      <4>. QED
          BY <4>1, <4>2
    <3>. QED
        BY <3>2, <3>4, <3>7
  <2>. QED
      BY <2>1, <2>2
<1>5. T = SUBSET S
  <2> HIDE DEF T
  <2>1. T \in SUBSET SUBSET S
      BY DEF T
  <2>. QED
      BY <1>1, <1>4, <2>1, SetInduction
<1>6. S \in T
    BY <1>5
<1>. QED
    BY <1>3, <1>6

-----------------------------------------------------------------------------
(* Quantities.                                                             *)

\* What a request reads.
Readable ==
    /\ plans \in [PlanIds -> Plan]
    /\ \A p \in PlanIds : plans[p].gpu_ids # None => IsFiniteSet(plans[p].gpu_ids)
    /\ capacity \in [Resources -> {None} \cup Nat]

LEMMA MaxOfTwo == \A a, b \in Int : Max({a, b}) = IF a >= b THEN a ELSE b
PROOF
<1>1. SUFFICES ASSUME NEW a \in Int, NEW b \in Int
               PROVE  Max({a, b}) = IF a >= b THEN a ELSE b
    OBVIOUS
<1>2. \E x \in {a, b} : \A y \in {a, b} : x >= y
    OBVIOUS
<1>3. Max({a, b}) \in {a, b} /\ \A y \in {a, b} : Max({a, b}) >= y
    BY <1>2 DEF Max
<1>. QED
    BY <1>3

LEMMA MinOfTwo == \A a, b \in Int : Min({a, b}) = IF a <= b THEN a ELSE b
PROOF
<1>1. SUFFICES ASSUME NEW a \in Int, NEW b \in Int
               PROVE  Min({a, b}) = IF a <= b THEN a ELSE b
    OBVIOUS
<1>2. \E x \in {a, b} : \A y \in {a, b} : x <= y
    OBVIOUS
<1>3. Min({a, b}) \in {a, b} /\ \A y \in {a, b} : Min({a, b}) <= y
    BY <1>2 DEF Min
<1>. QED
    BY <1>3

\* Every quantity is a number, whatever is declared and whatever is not.
LEMMA PlanFields ==
    ASSUME Readable, NEW p \in PlanIds
    PROVE  /\ plans[p].start_at \in Nat /\ plans[p].end_at \in Nat
           /\ plans[p].cancelled \in BOOLEAN
           /\ plans[p].cpu \in {None} \cup Nat /\ plans[p].gpu_count \in {None} \cup Nat
           /\ plans[p].gpu_ids # None =>
                plans[p].gpu_ids \in SUBSET Nat /\ IsFiniteSet(plans[p].gpu_ids)
PROOF
<1>1. plans[p] \in Plan
    BY DEF Readable
<1>. QED
    BY <1>1 DEF Readable, Plan

LEMMA CountNat ==
    ASSUME Readable, NEW p \in PlanIds
    PROVE  /\ DeclaredGpuCount(p) \in Nat
           /\ plans[p].gpu_ids = None =>
                (DeclaredGpuCount(p) > 0 <=> plans[p].gpu_count \notin {None, 0})
PROOF
<1>1. CASE plans[p].gpu_ids # None
    BY <1>1, PlanFields, FS_CardinalityType DEF DeclaredGpuCount
<1>2. CASE plans[p].gpu_ids = None
    BY <1>2, PlanFields DEF DeclaredGpuCount, OrZero
<1>. QED
    BY <1>1, <1>2

LEMMA DemandNat ==
    ASSUME Readable, NEW p \in PlanIds, NEW resource \in Resources
    PROVE  Demand(p, resource) \in Nat
PROOF
<1>1. OrZero(plans[p].cpu) \in Nat
    BY PlanFields DEF OrZero
<1>. QED
    BY <1>1, CountNat DEF Demand

\* A sum over a finite set takes its elements out one by one.
SumStep(S, resource, it) ==
    [s \in SUBSET S |->
        IF s = {} THEN 0
        ELSE Demand(CHOOSE x \in s : TRUE, resource) + it[s \ {CHOOSE x \in s : TRUE}]]

LEMMA TotalDemandIs ==
    \A S, resource : TotalDemand(S, resource) = (CHOOSE it : it = SumStep(S, resource, it))[S]
PROOF
BY DEF TotalDemand, MapThenSumSet, MapThenFoldSet, SumStep

LEMMA SumStepExists ==
    ASSUME NEW S, IsFiniteSet(S), NEW resource
    PROVE  \E it : it = SumStep(S, resource, it)
PROOF
<1> DEFINE One(s) == CHOOSE x \in s : TRUE
           Body(s, it) == IF s = {} THEN 0 ELSE Demand(One(s), resource) + it[s \ {One(s)}]
           T == {n \in Nat : \E it : it = [s \in Small(S, n) |-> Body(s, it)]}
<1>1. \A s \in SUBSET S : IsFiniteSet(s) /\ Cardinality(s) \in Nat
    BY FS_Subset, FS_CardinalityType
<1>2. \A s \in SUBSET S : s # {} => One(s) \in s
    OBVIOUS
<1> HIDE DEF One
<1>3. \A s \in SUBSET S : s # {} =>
        /\ s \ {One(s)} \in SUBSET S
        /\ Cardinality(s \ {One(s)}) = Cardinality(s) - 1
    BY <1>1, <1>2, FS_RemoveElement
<1>4. 0 \in T
  <2>1. \A s \in Small(S, 0) : s = {}
      BY <1>1, FS_EmptySet DEF Small
  <2>2. [s \in Small(S, 0) |-> 0] = [s \in Small(S, 0) |-> Body(s, [s1 \in Small(S, 0) |-> 0])]
      BY <2>1
  <2>. QED
      BY <2>2
<1>5. ASSUME NEW n \in T PROVE n + 1 \in T
  <2>1. PICK g : g = [s \in Small(S, n) |-> Body(s, g)]
      OBVIOUS
  <2> DEFINE h == [s \in Small(S, n + 1) |-> Body(s, g)]
  <2>2. n \in Nat /\ \A s \in SUBSET S : Cardinality(s) \in Nat
      BY <1>1
  <2>3. \A s \in Small(S, n) : s \in Small(S, n + 1)
      BY <2>2 DEF Small
  <2>4. ASSUME NEW s \in Small(S, n + 1), s # {} PROVE s \ {One(s)} \in Small(S, n)
    <3> DEFINE r == s \ {One(s)}
    <3>1. s \in SUBSET S /\ Cardinality(s) <= n + 1 /\ Cardinality(s) \in Nat
        BY <2>2 DEF Small
    <3>2. r \in SUBSET S /\ Cardinality(r) = Cardinality(s) - 1
        BY <1>3, <2>4, <3>1
    <3> HIDE DEF r
    <3>3. Cardinality(r) <= n
        BY <2>2, <3>1, <3>2
    <3>4. r \in Small(S, n)
        BY <3>2, <3>3 DEF Small
    <3>. QED
        BY <3>4 DEF r
  <2>5. \A s \in Small(S, n) : g[s] = h[s]
    <3> HIDE DEF Body
    <3>. QED
        BY <2>1, <2>3
  <2>6. \A s \in Small(S, n + 1) : Body(s, g) = Body(s, h)
    <3> HIDE DEF h
    <3>. QED
        BY <2>4, <2>5
  <2> HIDE DEF Body
  <2>7. h = [s \in Small(S, n + 1) |-> Body(s, h)]
      BY <2>6
  <2>8. \E it : it = [s \in Small(S, n + 1) |-> Body(s, it)]
      BY <2>7
  <2>. QED
      BY <2>2, <2>8
<1>6. T = Nat
  <2> HIDE DEF T
  <2>1. T \in SUBSET Nat
      BY DEF T
  <2>. QED
      BY <1>4, <1>5, <2>1, NatInductionSet
<1>7. Small(S, Cardinality(S)) = SUBSET S
    BY <1>1, FS_Subset DEF Small
<1>8. Cardinality(S) \in T
    BY <1>1, <1>6
<1>9. \E it : it = [s \in SUBSET S |-> Body(s, it)]
    BY <1>7, <1>8
<1>. QED
    BY <1>9 DEF SumStep, One

LEMMA TotalDemandNat ==
    ASSUME Readable, IsFiniteSet(PlanIds), NEW ps \in SUBSET PlanIds, NEW resource \in Resources
    PROVE  TotalDemand(ps, resource) \in Nat
PROOF
<1>1. IsFiniteSet(ps)
    BY FS_Subset
<1> DEFINE it == CHOOSE it : it = SumStep(ps, resource, it)
<1>2. it = SumStep(ps, resource, it)
    BY <1>1, SumStepExists
<1>3. TotalDemand(ps, resource) = it[ps]
    BY TotalDemandIs
<1> HIDE DEF it
<1>4. \A s \in SUBSET ps :
        it[s] = IF s = {} THEN 0
                ELSE Demand(CHOOSE x \in s : TRUE, resource) + it[s \ {CHOOSE x \in s : TRUE}]
    BY <1>2 DEF SumStep
<1> DEFINE T == {s \in SUBSET ps : it[s] \in Nat}
<1>5. ASSUME NEW A \in SUBSET ps, \A B \in SUBSET A : B # A => B \in T
      PROVE  A \in T
  <2>1. CASE A = {}
      BY <1>4, <2>1
  <2>2. CASE A # {}
    <3> DEFINE x == CHOOSE x \in A : TRUE
    <3>1. x \in A
        BY <2>2
    <3>2. it[A] = Demand(x, resource) + it[A \ {x}]
        BY <1>4, <2>2
    <3> HIDE DEF x
    <3>3. A \ {x} \in SUBSET A /\ A \ {x} # A
        BY <3>1
    <3>4. it[A \ {x}] \in Nat
        BY <1>5, <3>3
    <3>5. Demand(x, resource) \in Nat
        BY <3>1, DemandNat
    <3>. QED
        BY <3>2, <3>4, <3>5
  <2>. QED
      BY <2>1, <2>2
<1>6. T = SUBSET ps
  <2> HIDE DEF T
  <2>1. T \in SUBSET SUBSET ps
      BY DEF T
  <2>. QED
      BY <1>1, <1>5, <2>1, SetInduction
<1>. QED
    BY <1>3, <1>6

LEMMA RemainderNat ==
    ASSUME Readable, IsFiniteSet(PlanIds), NEW ps \in SUBSET PlanIds, NEW resource \in Resources,
           capacity[resource] # None
    PROVE  Remainder(ps, resource) \in Nat
PROOF
<1>1. capacity[resource] \in Nat /\ TotalDemand(ps, resource) \in Nat
    BY TotalDemandNat DEF Readable
<1>2. capacity[resource] - TotalDemand(ps, resource) \in Int
    BY <1>1
<1>. QED
    BY <1>2, MaxOfTwo DEF Remainder

-----------------------------------------------------------------------------
(* Cutting.                                                                *)

\* The request is about a plan that is shown at all.
Shown(c) == ~plans[c].cancelled /\ plans[c].start_at < plans[c].end_at

\* The window is cut only inside it, at both its ends and wherever a relevant plan starts
\* or ends in it.
LEMMA RelevantFields ==
    ASSUME Readable, NEW c \in PlanIds, Shown(c), NEW p \in Relevant(c)
    PROVE  /\ p \in PlanIds
           /\ plans[p].start_at < plans[p].end_at
           /\ plans[p].start_at < plans[c].end_at
           /\ plans[p].end_at > plans[c].start_at
           /\ Max({plans[c].start_at, plans[p].start_at}) =
                (IF plans[c].start_at >= plans[p].start_at THEN plans[c].start_at
                                                           ELSE plans[p].start_at)
           /\ Min({plans[c].end_at, plans[p].end_at}) =
                (IF plans[c].end_at <= plans[p].end_at THEN plans[c].end_at
                                                       ELSE plans[p].end_at)
PROOF
<1>1. /\ p \in PlanIds /\ plans[p].start_at < plans[p].end_at
      /\ Overlaps(p, plans[c].start_at, plans[c].end_at)
    BY DEF Relevant
<1>2. /\ plans[p].start_at \in Int /\ plans[p].end_at \in Int
      /\ plans[c].start_at \in Int /\ plans[c].end_at \in Int
    BY <1>1, PlanFields
<1>. QED
    BY <1>1, <1>2, MaxOfTwo, MinOfTwo DEF Overlaps

LEMMA BoundariesInWindow ==
    ASSUME Readable, NEW c \in PlanIds, Shown(c)
    PROVE  /\ \A b \in Boundaries(c) :
                b \in Nat /\ plans[c].start_at <= b /\ b <= plans[c].end_at
           /\ plans[c].start_at \in Boundaries(c) /\ plans[c].end_at \in Boundaries(c)
           /\ \A p \in Relevant(c) :
                /\ plans[p].start_at > plans[c].start_at => plans[p].start_at \in Boundaries(c)
                /\ plans[p].end_at < plans[c].end_at => plans[p].end_at \in Boundaries(c)
PROOF
<1>1. plans[c].start_at \in Nat /\ plans[c].end_at \in Nat /\ plans[c].start_at < plans[c].end_at
    BY PlanFields DEF Shown
<1>2. \A p \in Relevant(c) : plans[p].start_at \in Nat /\ plans[p].end_at \in Nat
    BY PlanFields, RelevantFields
<1>3. ASSUME NEW p \in Relevant(c)
      PROVE  /\ Max({plans[c].start_at, plans[p].start_at}) \in Nat
             /\ plans[c].start_at <= Max({plans[c].start_at, plans[p].start_at})
             /\ Max({plans[c].start_at, plans[p].start_at}) <= plans[c].end_at
             /\ Min({plans[c].end_at, plans[p].end_at}) \in Nat
             /\ plans[c].start_at <= Min({plans[c].end_at, plans[p].end_at})
             /\ Min({plans[c].end_at, plans[p].end_at}) <= plans[c].end_at
  <2>1. /\ plans[p].start_at < plans[c].end_at
        /\ plans[p].end_at > plans[c].start_at
        /\ Max({plans[c].start_at, plans[p].start_at}) =
             (IF plans[c].start_at >= plans[p].start_at THEN plans[c].start_at
                                                        ELSE plans[p].start_at)
        /\ Min({plans[c].end_at, plans[p].end_at}) =
             (IF plans[c].end_at <= plans[p].end_at THEN plans[c].end_at
                                                    ELSE plans[p].end_at)
      BY RelevantFields
  <2>2. plans[p].start_at \in Nat /\ plans[p].end_at \in Nat
      BY <1>2
  <2>. QED
      BY <1>1, <2>1, <2>2
<1>4. ASSUME NEW b \in Boundaries(c)
      PROVE  b \in Nat /\ plans[c].start_at <= b /\ b <= plans[c].end_at
  <2>1. CASE b \in {plans[c].start_at, plans[c].end_at}
      BY <1>1, <2>1
  <2>2. CASE \E p \in Relevant(c) :
               \/ b = Max({plans[c].start_at, plans[p].start_at})
               \/ b = Min({plans[c].end_at, plans[p].end_at})
      BY <1>3, <2>2
  <2>. QED
      BY <2>1, <2>2 DEF Boundaries
<1>5. plans[c].start_at \in Boundaries(c) /\ plans[c].end_at \in Boundaries(c)
    BY DEF Boundaries
<1>6. ASSUME NEW p \in Relevant(c)
      PROVE  /\ plans[p].start_at > plans[c].start_at => plans[p].start_at \in Boundaries(c)
             /\ plans[p].end_at < plans[c].end_at => plans[p].end_at \in Boundaries(c)
  <2>1. /\ Max({plans[c].start_at, plans[p].start_at}) \in Boundaries(c)
        /\ Min({plans[c].end_at, plans[p].end_at}) \in Boundaries(c)
      BY DEF Boundaries
  <2>. QED
      BY <1>1, <1>2, <2>1, RelevantFields
<1>. QED
    BY <1>4, <1>5, <1>6

LEMMA SegmentFields ==
    ASSUME Readable, NEW c \in PlanIds, Shown(c), NEW s \in Segments(c)
    PROVE  /\ s[1] \in Nat /\ s[2] \in Nat /\ s[1] < s[2]
           /\ s[1] \in Boundaries(c) /\ s[2] \in Boundaries(c)
           /\ plans[c].start_at <= s[1] /\ s[2] <= plans[c].end_at
           /\ s = <<s[1], s[2]>>
           /\ \A b \in Boundaries(c) : b <= s[1] \/ b >= s[2]
PROOF
<1>1. /\ s \in Boundaries(c) \X Boundaries(c) /\ s[1] < s[2]
      /\ \A b \in Boundaries(c) : b <= s[1] \/ b >= s[2]
    BY DEF Segments
<1>2. s[1] \in Boundaries(c) /\ s[2] \in Boundaries(c) /\ s = <<s[1], s[2]>>
    BY <1>1
<1>. QED
    BY <1>1, <1>2, BoundariesInWindow

\* Two pieces do not overlap.
LEMMA SegmentsApart ==
    ASSUME Readable, NEW c \in PlanIds, Shown(c),
           NEW s \in Segments(c), NEW r \in Segments(c), s # r
    PROVE  s[2] <= r[1] \/ r[2] <= s[1]
PROOF
<1>1. /\ s[1] \in Nat /\ s[2] \in Nat /\ s[1] < s[2] /\ s = <<s[1], s[2]>>
      /\ s[1] \in Boundaries(c) /\ s[2] \in Boundaries(c)
      /\ \A b \in Boundaries(c) : b <= s[1] \/ b >= s[2]
    BY SegmentFields
<1>2. /\ r[1] \in Nat /\ r[2] \in Nat /\ r[1] < r[2] /\ r = <<r[1], r[2]>>
      /\ r[1] \in Boundaries(c) /\ r[2] \in Boundaries(c)
      /\ \A b \in Boundaries(c) : b <= r[1] \/ b >= r[2]
    BY SegmentFields
<1>3. s[1] # r[1] \/ s[2] # r[2]
    BY <1>1, <1>2
<1>. QED
    BY <1>1, <1>2, <1>3

\* Every unit of the window is in a piece: the one between the last boundary before it and
\* the first one after it.
LEMMA LeastNat ==
    ASSUME NEW T \in SUBSET Nat, T # {}
    PROVE  \E m \in T : \A y \in T : m <= y
PROOF
<1>1. PICK m \in T : \A y \in T : ~ (<<y, m>> \in OpToRel(<, Nat))
    BY NatLessThanWellFounded, WFMin
<1>2. \A y \in T : ~(y < m)
    BY <1>1 DEF OpToRel
<1>. QED
    BY <1>2

LEMMA SegmentAt ==
    ASSUME Readable, NEW c \in PlanIds, Shown(c), NEW t \in Nat,
           plans[c].start_at <= t, t < plans[c].end_at
    PROVE  \E s \in Segments(c) : s[1] <= t /\ t < s[2]
PROOF
<1> DEFINE B == Boundaries(c)
           After == {b \in B : b > t}
           Back == {d \in Nat : \E b \in B : b <= t /\ d = t - b}
<1>1. \A b \in B : b \in Nat
    BY BoundariesInWindow
<1>2. plans[c].start_at \in B /\ plans[c].end_at \in B
    BY BoundariesInWindow
<1> HIDE DEF B
<1>3. plans[c].end_at \in After
    BY <1>2
<1>4. t - plans[c].start_at \in Back
    BY <1>1, <1>2
<1>5. PICK e \in After : \A b \in After : e <= b
  <2>1. After \in SUBSET Nat /\ After # {}
      BY <1>1, <1>3
  <2> HIDE DEF After
  <2>. QED
      BY <2>1, LeastNat
<1>6. PICK d \in Back : \A x \in Back : d <= x
  <2>1. Back \in SUBSET Nat /\ Back # {}
      BY <1>4
  <2> HIDE DEF Back
  <2>. QED
      BY <2>1, LeastNat
<1>7. PICK a \in B : a <= t /\ d = t - a
    OBVIOUS
<1>8. \A b \in B : b <= a \/ b >= e
  <2>1. SUFFICES ASSUME NEW b \in B, b <= t PROVE b <= a
      BY <1>1, <1>5
  <2>2. t - b \in Back
      BY <1>1, <2>1
  <2>3. d <= t - b
      BY <1>6, <2>2
  <2>. QED
      BY <1>1, <1>7, <2>3
<1>9. e \in B /\ t < e /\ a < e
    BY <1>1, <1>5, <1>7
<1>10. <<a, e>> \in Segments(c)
    BY <1>7, <1>8, <1>9 DEF Segments, B
<1>. QED
    BY <1>7, <1>9, <1>10

\* The plans that overlap a piece are those that hold the server at each of its units.
LEMMA ActiveIsOthers ==
    ASSUME Readable, NEW c \in PlanIds, Shown(c), NEW s \in Segments(c), NEW t \in Nat,
           s[1] <= t, t < s[2]
    PROVE  {p \in Relevant(c) : Overlaps(p, s[1], s[2])} = OthersAt(c, t)
PROOF
<1>1. /\ s[1] \in Nat /\ s[2] \in Nat
      /\ plans[c].start_at <= s[1] /\ s[2] <= plans[c].end_at
      /\ \A b \in Boundaries(c) : b <= s[1] \/ b >= s[2]
    BY SegmentFields
<1>2. plans[c].start_at \in Nat /\ plans[c].end_at \in Nat
    BY PlanFields
<1>3. ASSUME NEW p \in Relevant(c), Overlaps(p, s[1], s[2])
      PROVE  p \in OthersAt(c, t)
  <2>1. /\ p \in PlanIds \ {c} /\ plans[p].server_id = plans[c].server_id
        /\ ~plans[p].cancelled
      BY DEF Relevant
  <2>2. plans[p].start_at \in Nat /\ plans[p].end_at \in Nat
      BY <2>1, PlanFields
  <2>3. plans[p].start_at < s[2] /\ plans[p].end_at > s[1]
      BY <1>3 DEF Overlaps
  <2>4. plans[p].start_at <= t
    <3>1. SUFFICES ASSUME plans[p].start_at > t PROVE FALSE
        BY <2>2
    <3>2. plans[p].start_at \in Boundaries(c)
        BY <1>1, <1>2, <2>2, <3>1, BoundariesInWindow
    <3>. QED
        BY <1>1, <2>2, <2>3, <3>1, <3>2
  <2>5. t < plans[p].end_at
    <3>1. SUFFICES ASSUME plans[p].end_at <= t PROVE FALSE
        BY <2>2
    <3>2. plans[p].end_at \in Boundaries(c)
        BY <1>1, <1>2, <2>2, <3>1, BoundariesInWindow
    <3>. QED
        BY <1>1, <2>2, <2>3, <3>1, <3>2
  <2>. QED
      BY <2>1, <2>4, <2>5 DEF OthersAt, Holds
<1>4. ASSUME NEW p \in OthersAt(c, t)
      PROVE  p \in Relevant(c) /\ Overlaps(p, s[1], s[2])
  <2>1. /\ p \in PlanIds \ {c} /\ plans[p].server_id = plans[c].server_id
        /\ ~plans[p].cancelled /\ plans[p].start_at <= t /\ t < plans[p].end_at
      BY DEF OthersAt, Holds
  <2>2. plans[p].start_at \in Nat /\ plans[p].end_at \in Nat
      BY <2>1, PlanFields
  <2>. QED
      BY <1>1, <1>2, <2>1, <2>2 DEF Relevant, Overlaps
<1>. QED
    BY <1>3, <1>4

-----------------------------------------------------------------------------
(* The reports of a piece.                                                 *)

LEMMA ReportFields ==
    ASSUME NEW resource, NEW certainty, NEW s, NEW quantity, NEW devices, NEW available, NEW ids
    PROVE  LET x == Report(resource, certainty, s, quantity, devices, available, ids)
           IN  /\ x.resource = resource /\ x.certainty = certainty
               /\ x.start_at = s[1] /\ x.end_at = s[2]
               /\ x.quantity = quantity /\ x.devices = devices
               /\ x.available = available /\ x.plan_ids = ids
               /\ Shape(x) = Report(resource, certainty, <<0, 0>>, quantity, devices, available, ids)
PROOF
<1> DEFINE x == Report(resource, certainty, s, quantity, devices, available, ids)
<1>1. /\ x.resource = resource /\ x.certainty = certainty
      /\ x.start_at = s[1] /\ x.end_at = s[2]
      /\ x.quantity = quantity /\ x.devices = devices
      /\ x.available = available /\ x.plan_ids = ids
    BY DEF Report
<1>2. <<0, 0>>[1] = 0 /\ <<0, 0>>[2] = 0
    OBVIOUS
<1>3. Report(resource, certainty, <<0, 0>>, quantity, devices, available, ids) =
        [resource |-> resource, certainty |-> certainty, start_at |-> 0, end_at |-> 0,
         quantity |-> quantity, devices |-> devices, available |-> available, plan_ids |-> ids]
    BY <1>2 DEF Report
<1>4. Shape(x) =
        [resource |-> resource, certainty |-> certainty, start_at |-> 0, end_at |-> 0,
         quantity |-> quantity, devices |-> devices, available |-> available, plan_ids |-> ids]
  <2> DEFINE y == [x EXCEPT !.start_at = 0]
  <2>1. y = [resource |-> resource, certainty |-> certainty, start_at |-> 0, end_at |-> s[2],
             quantity |-> quantity, devices |-> devices, available |-> available,
             plan_ids |-> ids]
      BY DEF Report
  <2>2. Shape(x) = [y EXCEPT !.end_at = 0]
      BY DEF Shape
  <2> HIDE DEF x
  <2>3. [y EXCEPT !.end_at = 0] =
          [resource |-> resource, certainty |-> certainty, start_at |-> 0, end_at |-> 0,
           quantity |-> quantity, devices |-> devices, available |-> available,
           plan_ids |-> ids]
    <3> HIDE DEF y
    <3>. QED
        BY <2>1
  <2>. QED
      BY <2>2, <2>3
<1>. QED
    BY <1>1, <1>3, <1>4

LEMMA ReportTyped ==
    ASSUME NEW resource \in Resources \cup {"gpu_device"},
           NEW certainty \in {"confirmed", "uncertain"}, NEW s, s[1] \in Nat, s[2] \in Nat,
           NEW quantity \in Nat, NEW devices \in SUBSET Nat, NEW available \in {None} \cup Nat,
           NEW ids \in SUBSET PlanIds
    PROVE  Report(resource, certainty, s, quantity, devices, available, ids) \in Conflict
PROOF
BY DEF Report, Conflict

\* A report is its shape and its interval.
LEMMA ShapeAndEnds ==
    \A x, y \in Conflict :
        /\ Shape(x).resource = x.resource /\ Shape(x).plan_ids = x.plan_ids
        /\ Shape(x) = Shape(y) /\ x.start_at = y.start_at /\ x.end_at = y.end_at => x = y
PROOF
<1>. SUFFICES ASSUME NEW x \in Conflict, NEW y \in Conflict
              PROVE  /\ Shape(x).resource = x.resource /\ Shape(x).plan_ids = x.plan_ids
                     /\ Shape(x) = Shape(y) /\ x.start_at = y.start_at /\ x.end_at = y.end_at
                        => x = y
    OBVIOUS
<1>1. /\ Shape(x).resource = x.resource /\ Shape(x).certainty = x.certainty
      /\ Shape(x).quantity = x.quantity /\ Shape(x).devices = x.devices
      /\ Shape(x).available = x.available /\ Shape(x).plan_ids = x.plan_ids
    BY DEF Shape, Conflict
<1>2. /\ Shape(y).resource = y.resource /\ Shape(y).certainty = y.certainty
      /\ Shape(y).quantity = y.quantity /\ Shape(y).devices = y.devices
      /\ Shape(y).available = y.available /\ Shape(y).plan_ids = y.plan_ids
    BY DEF Shape, Conflict
<1>3. ASSUME Shape(x) = Shape(y), x.start_at = y.start_at, x.end_at = y.end_at PROVE x = y
  <2>1. /\ x.resource = y.resource /\ x.certainty = y.certainty
        /\ x.quantity = y.quantity /\ x.devices = y.devices
        /\ x.available = y.available /\ x.plan_ids = y.plan_ids
      BY <1>1, <1>2, <1>3
  <2>. QED
      BY <1>3, <2>1 DEF Conflict
<1>. QED
    BY <1>1, <1>3

Active(c, s) == {p \in Relevant(c) : Overlaps(p, s[1], s[2])}

Sharing(c, active) ==
    {p \in active : plans[p].gpu_ids # None /\ plans[p].gpu_ids \cap plans[c].gpu_ids # {}}

Shared(c, active) ==
    UNION {plans[p].gpu_ids \cap plans[c].gpu_ids : p \in Sharing(c, active)}

CapacityReport(c, active, s, resource) ==
    Report(resource, "confirmed", s, Demand(c, resource), {}, Remainder(active, resource),
           {p \in active : Demand(p, resource) > 0})

SharedReport(c, active, s) ==
    Report("gpu_device", "confirmed", s, 0, Shared(c, active), 0, Sharing(c, active))

UndecidedReport(c, active, s) ==
    Report("gpu_device", "uncertain", s, 0, plans[c].gpu_ids, None, Undecided(active))

Exceeds(c, active, resource) ==
    /\ capacity[resource] # None
    /\ Demand(c, resource) > 0
    /\ Demand(c, resource) + TotalDemand(active, resource) > capacity[resource]

\* The reports of a piece, one by one.
LEMMA CapacityConflictsAre ==
    ASSUME NEW c, NEW active, NEW s, NEW x
    PROVE  x \in CapacityConflicts(c, active, s) <=>
             \E resource \in Resources :
                Exceeds(c, active, resource) /\ x = CapacityReport(c, active, s, resource)
PROOF
BY DEF CapacityConflicts, CapacityReport, Exceeds

LEMMA DeviceConflictsAre ==
    ASSUME NEW c, NEW active, NEW s, NEW x
    PROVE  x \in DeviceConflicts(c, active, s) <=>
             /\ plans[c].gpu_ids \notin {None, {}}
             /\ \/ Sharing(c, active) # {} /\ x = SharedReport(c, active, s)
                \/ Undecided(active) # {} /\ x = UndecidedReport(c, active, s)
PROOF
<1>1. /\ SharedReport(c, active, s).plan_ids = Sharing(c, active)
      /\ UndecidedReport(c, active, s).plan_ids = Undecided(active)
    BY ReportFields DEF SharedReport, UndecidedReport
<1>2. DeviceConflicts(c, active, s) =
        IF plans[c].gpu_ids \in {None, {}} THEN {}
        ELSE {y \in {SharedReport(c, active, s), UndecidedReport(c, active, s)} :
                y.plan_ids # {}}
    BY DEF DeviceConflicts, SharedReport, UndecidedReport, Shared, Sharing
<1>. QED
    BY <1>1, <1>2

MissingReport(c, missing) ==
    Report("gpu_device", "confirmed", <<plans[c].start_at, plans[c].end_at>>, 0, missing,
           capacity["gpu"], {})

LEMMA InvalidDevicesAre ==
    ASSUME NEW c, NEW x
    PROVE  x \in InvalidDevices(c) <=>
             /\ plans[c].gpu_ids # None /\ capacity["gpu"] # None
             /\ {d \in plans[c].gpu_ids : d >= capacity["gpu"]} # {}
             /\ x = MissingReport(c, {d \in plans[c].gpu_ids : d >= capacity["gpu"]})
PROOF
<1>1. MissingReport(c, {d \in plans[c].gpu_ids : d >= capacity["gpu"]}).devices =
        {d \in plans[c].gpu_ids : d >= capacity["gpu"]}
    BY ReportFields DEF MissingReport
<1>. QED
    BY <1>1 DEF InvalidDevices, MissingReport

LEMMA SegmentReports ==
    ASSUME Readable, IsFiniteSet(PlanIds), NEW c \in PlanIds, Shown(c), NEW s \in Segments(c),
           NEW x \in SegmentConflicts(c, s)
    PROVE  /\ x \in Conflict
           /\ x.start_at = s[1] /\ x.end_at = s[2]
           /\ x.resource \in Resources \/ (x.resource = "gpu_device" /\ x.plan_ids # {})
PROOF
<1> DEFINE active == Active(c, s)
<1>1. active \in SUBSET PlanIds
    BY DEF Active, Relevant
<1>2. x \in CapacityConflicts(c, active, s) \/ x \in DeviceConflicts(c, active, s)
    BY DEF SegmentConflicts, Active
<1>3. s[1] \in Nat /\ s[2] \in Nat
    BY SegmentFields
<1> HIDE DEF active
<1>4. CASE x \in CapacityConflicts(c, active, s)
  <2>1. PICK resource \in Resources :
          Exceeds(c, active, resource) /\ x = CapacityReport(c, active, s, resource)
      BY <1>4, CapacityConflictsAre
  <2>2. Demand(c, resource) \in Nat /\ Remainder(active, resource) \in Nat
      BY <1>1, <2>1, DemandNat, RemainderNat DEF Exceeds
  <2>3. x \in Conflict
    <3>1. {p \in active : Demand(p, resource) > 0} \in SUBSET PlanIds
        BY <1>1
    <3>. QED
        BY <1>3, <2>1, <2>2, <3>1, ReportTyped DEF CapacityReport
  <2>. QED
      BY <2>1, <2>3, ReportFields DEF CapacityReport
<1>5. CASE x \in DeviceConflicts(c, active, s)
  <2>1. plans[c].gpu_ids \in SUBSET Nat
      BY <1>5, DeviceConflictsAre, PlanFields
  <2>2. Sharing(c, active) \in SUBSET PlanIds /\ Undecided(active) \in SUBSET PlanIds
      BY <1>1 DEF Sharing, Undecided
  <2>3. Shared(c, active) \in SUBSET Nat
      BY <2>1 DEF Shared
  <2>4. CASE Sharing(c, active) # {} /\ x = SharedReport(c, active, s)
    <3>1. x \in Conflict
        BY <1>3, <2>2, <2>3, <2>4, ReportTyped DEF SharedReport
    <3>. QED
        BY <2>4, <3>1, ReportFields DEF SharedReport
  <2>5. CASE Undecided(active) # {} /\ x = UndecidedReport(c, active, s)
    <3>1. x \in Conflict
        BY <1>3, <2>1, <2>2, <2>5, ReportTyped DEF UndecidedReport
    <3>. QED
        BY <2>5, <3>1, ReportFields DEF UndecidedReport
  <2>. QED
      BY <1>5, <2>4, <2>5, DeviceConflictsAre
<1>. QED
    BY <1>2, <1>4, <1>5

LEMMA InvalidReports ==
    ASSUME Readable, NEW c \in PlanIds, NEW x \in InvalidDevices(c)
    PROVE  /\ x \in Conflict
           /\ x.start_at = plans[c].start_at /\ x.end_at = plans[c].end_at
           /\ x.resource = "gpu_device" /\ x.plan_ids = {}
           /\ \A y \in InvalidDevices(c) : y = x
PROOF
<1> DEFINE missing == {d \in plans[c].gpu_ids : d >= capacity["gpu"]}
<1>1. /\ plans[c].gpu_ids # None /\ capacity["gpu"] # None
      /\ x = MissingReport(c, missing)
    BY InvalidDevicesAre
<1>2. missing \in SUBSET Nat /\ capacity["gpu"] \in Nat
    BY <1>1, PlanFields DEF Readable, Resources
<1>3. plans[c].start_at \in Nat /\ plans[c].end_at \in Nat
    BY PlanFields
<1>4. \A y \in InvalidDevices(c) : y = x
    BY <1>1, InvalidDevicesAre
<1> HIDE DEF missing
<1>5. x \in Conflict
    BY <1>1, <1>2, <1>3, ReportTyped DEF MissingReport
<1>. QED
    BY <1>1, <1>4, <1>5, ReportFields DEF MissingReport

\* All that is reported before it is merged.
Raw(c) == InvalidDevices(c) \cup UNION {SegmentConflicts(c, s) : s \in Segments(c)}

LEMMA SegmentsFinite ==
    ASSUME Readable, NEW c \in PlanIds, Shown(c)
    PROVE  IsFiniteSet(Segments(c))
PROOF
<1> DEFINE W == plans[c].start_at .. plans[c].end_at
<1>1. IsFiniteSet(W)
    BY PlanFields, FS_Interval
<1>2. IsFiniteSet(W \X W)
    BY <1>1, FS_Product
<1>3. \A b \in Boundaries(c) : b \in W
    BY BoundariesInWindow, PlanFields
<1>4. Segments(c) \in SUBSET (W \X W)
  <2> HIDE DEF W
  <2>. QED
      BY <1>3 DEF Segments
<1>. QED
    BY <1>2, <1>4, FS_Subset

\* At most four reports come from a piece.
LEMMA RawFinite ==
    ASSUME Readable, NEW c \in PlanIds, Shown(c)
    PROVE  IsFiniteSet(Raw(c))
PROOF
<1> DEFINE Kinds == {"cpu", "gpu", "shared", "undecided"}
           D == Segments(c) \X Kinds
           F == [i \in D |->
                   IF i[2] \in Resources THEN CapacityReport(c, Active(c, i[1]), i[1], i[2])
                   ELSE IF i[2] = "shared" THEN SharedReport(c, Active(c, i[1]), i[1])
                   ELSE UndecidedReport(c, Active(c, i[1]), i[1])]
           R == {F[i] : i \in D}
<1>1. IsFiniteSet(D)
  <2>1. IsFiniteSet(Kinds)
    <3>1. IsFiniteSet({"cpu"}) /\ IsFiniteSet({"gpu"}) /\ IsFiniteSet({"shared"})
          /\ IsFiniteSet({"undecided"})
        BY FS_Singleton
    <3>2. Kinds = (({"cpu"} \cup {"gpu"}) \cup {"shared"}) \cup {"undecided"}
        OBVIOUS
    <3>3. IsFiniteSet({"cpu"} \cup {"gpu"})
        BY <3>1, FS_Union
    <3>4. IsFiniteSet(({"cpu"} \cup {"gpu"}) \cup {"shared"})
        BY <3>1, <3>3, FS_Union
    <3>5. IsFiniteSet((({"cpu"} \cup {"gpu"}) \cup {"shared"}) \cup {"undecided"})
        BY <3>1, <3>4, FS_Union
    <3>. QED
        BY <3>2, <3>5
  <2> HIDE DEF Kinds
  <2>. QED
      BY <2>1, SegmentsFinite, FS_Product
<1>2. IsFiniteSet(R)
  <2>1. F \in Surjection(D, R)
    <3> HIDE DEF D
    <3>. QED
        BY DEF Surjection
  <2> HIDE DEF D, F, R
  <2>. QED
      BY <1>1, <2>1, FS_Surjection
<1>3. ASSUME NEW s \in Segments(c), NEW x \in SegmentConflicts(c, s)
      PROVE  x \in R
  <2>1. \A k \in Kinds : <<s, k>> \in D /\ F[<<s, k>>] \in R
      OBVIOUS
  <2>2. /\ F[<<s, "cpu">>] = CapacityReport(c, Active(c, s), s, "cpu")
        /\ F[<<s, "gpu">>] = CapacityReport(c, Active(c, s), s, "gpu")
        /\ F[<<s, "shared">>] = SharedReport(c, Active(c, s), s)
        /\ F[<<s, "undecided">>] = UndecidedReport(c, Active(c, s), s)
      BY DEF Resources
  <2>3. \/ \E resource \in Resources : x = CapacityReport(c, Active(c, s), s, resource)
        \/ x = SharedReport(c, Active(c, s), s)
        \/ x = UndecidedReport(c, Active(c, s), s)
    <3> HIDE DEF F, R, D, Kinds
    <3>1. SegmentConflicts(c, s) = CapacityConflicts(c, Active(c, s), s)
                                     \cup DeviceConflicts(c, Active(c, s), s)
        BY DEF SegmentConflicts, Active
    <3>2. CASE x \in CapacityConflicts(c, Active(c, s), s)
        BY <3>2, CapacityConflictsAre
    <3>3. CASE x \in DeviceConflicts(c, Active(c, s), s)
        BY <3>3, DeviceConflictsAre
    <3>. QED
        BY <1>3, <3>1, <3>2, <3>3
  <2> HIDE DEF F, R, D
  <2>. QED
      BY <2>1, <2>2, <2>3 DEF Resources
<1>4. IsFiniteSet(InvalidDevices(c))
  <2>1. CASE InvalidDevices(c) = {}
      BY <2>1, FS_EmptySet
  <2>2. CASE InvalidDevices(c) # {}
    <3>1. PICK x \in InvalidDevices(c) : TRUE
        BY <2>2
    <3>2. InvalidDevices(c) = {x}
        BY <3>1, InvalidReports
    <3>. QED
        BY <3>2, FS_Singleton
  <2>. QED
      BY <2>1, <2>2
<1>5. IsFiniteSet(InvalidDevices(c) \cup R)
    BY <1>2, <1>4, FS_Union
<1>6. Raw(c) \in SUBSET (InvalidDevices(c) \cup R)
  <2> HIDE DEF R
  <2>. QED
      BY <1>3 DEF Raw
<1>. QED
    BY <1>5, <1>6, FS_Subset

\* What is merged are pieces: reports of the same shape come from different segments, and
\* the reports of invalid devices name no plan, unlike those of shared ones.
LEMMA RawPieces ==
    ASSUME Readable, IsFiniteSet(PlanIds), NEW c \in PlanIds, Shown(c)
    PROVE  Pieces(Raw(c))
PROOF
<1>1. IsFiniteSet(Raw(c))
    BY RawFinite
<1>2. ASSUME NEW x \in Raw(c)
      PROVE  \/ x \in InvalidDevices(c)
             \/ \E s \in Segments(c) : x \in SegmentConflicts(c, s)
    BY DEF Raw
<1>3. ASSUME NEW x \in Raw(c) PROVE x \in Conflict /\ x.start_at < x.end_at
  <2>1. CASE x \in InvalidDevices(c)
      BY <2>1, InvalidReports DEF Shown
  <2>2. CASE \E s \in Segments(c) : x \in SegmentConflicts(c, s)
      BY <2>2, SegmentReports, SegmentFields
  <2>. QED
      BY <1>2, <2>1, <2>2
<1>4. ASSUME NEW x \in Raw(c), NEW y \in Raw(c), x # y, Shape(x) = Shape(y)
      PROVE  x.end_at <= y.start_at \/ y.end_at <= x.start_at
  <2>1. /\ x \in Conflict /\ y \in Conflict
        /\ x.resource = y.resource /\ x.plan_ids = y.plan_ids
      BY <1>3, <1>4, ShapeAndEnds
  <2>2. CASE x \in InvalidDevices(c) /\ y \in InvalidDevices(c)
      BY <1>4, <2>2, InvalidReports
  <2>3. CASE x \in InvalidDevices(c) /\ \E s \in Segments(c) : y \in SegmentConflicts(c, s)
    <3>1. x.resource = "gpu_device" /\ x.plan_ids = {}
        BY <2>3, InvalidReports
    <3>2. y.resource \in Resources \/ y.plan_ids # {}
        BY <2>3, SegmentReports
    <3>. QED
        BY <2>1, <3>1, <3>2 DEF Resources
  <2>4. CASE y \in InvalidDevices(c) /\ \E s \in Segments(c) : x \in SegmentConflicts(c, s)
    <3>1. y.resource = "gpu_device" /\ y.plan_ids = {}
        BY <2>4, InvalidReports
    <3>2. x.resource \in Resources \/ x.plan_ids # {}
        BY <2>4, SegmentReports
    <3>. QED
        BY <2>1, <3>1, <3>2 DEF Resources
  <2>5. ASSUME NEW s \in Segments(c), x \in SegmentConflicts(c, s),
               NEW r \in Segments(c), y \in SegmentConflicts(c, r)
        PROVE  x.end_at <= y.start_at \/ y.end_at <= x.start_at
    <3>1. /\ x.start_at = s[1] /\ x.end_at = s[2]
          /\ y.start_at = r[1] /\ y.end_at = r[2]
        BY <2>5, SegmentReports
    <3>2. s # r
        BY <1>4, <2>1, <3>1, ShapeAndEnds
    <3>. QED
        BY <3>1, <3>2, SegmentsApart
  <2>. QED
      BY <1>2, <2>2, <2>3, <2>4, <2>5
<1>. QED
    BY <1>1, <1>3, <1>4 DEF Pieces

\* What is reported of one unit before merging.
LEMMA RawAt ==
    ASSUME Readable, IsFiniteSet(PlanIds), NEW c \in PlanIds, Shown(c), NEW t \in Nat,
           NEW s \in Segments(c), s[1] <= t, t < s[2], NEW x
    PROVE  x \in Raw(c) /\ Covers(x, t) <=>
             \/ x \in InvalidDevices(c)
             \/ x \in CapacityConflicts(c, OthersAt(c, t), s)
             \/ x \in DeviceConflicts(c, OthersAt(c, t), s)
PROOF
<1>1. /\ s[1] \in Nat /\ s[2] \in Nat
      /\ plans[c].start_at <= s[1] /\ s[2] <= plans[c].end_at
      /\ plans[c].start_at \in Nat /\ plans[c].end_at \in Nat
    BY SegmentFields, PlanFields
<1>2. plans[c].start_at <= t /\ t < plans[c].end_at
    BY <1>1
<1>3. Active(c, s) = OthersAt(c, t)
    BY ActiveIsOthers DEF Active
<1>4. SegmentConflicts(c, s) = CapacityConflicts(c, OthersAt(c, t), s)
                                 \cup DeviceConflicts(c, OthersAt(c, t), s)
    BY <1>3 DEF SegmentConflicts, Active
<1>5. ASSUME x \in InvalidDevices(c) PROVE x \in Raw(c) /\ Covers(x, t)
    BY <1>2, <1>5, InvalidReports DEF Raw, Covers
<1>6. ASSUME x \in SegmentConflicts(c, s) PROVE x \in Raw(c) /\ Covers(x, t)
    BY <1>6, SegmentReports DEF Raw, Covers
<1>7. ASSUME NEW r \in Segments(c), x \in SegmentConflicts(c, r), Covers(x, t)
      PROVE  r = s
  <2>1. x.start_at = r[1] /\ x.end_at = r[2]
      BY <1>7, SegmentReports
  <2>2. r[1] <= t /\ t < r[2]
      BY <1>7, <2>1 DEF Covers
  <2>3. r[1] \in Nat /\ r[2] \in Nat
      BY SegmentFields
  <2>. QED
      BY <1>1, <2>2, <2>3, SegmentsApart
<1>8. x \in Raw(c) /\ Covers(x, t) => x \in InvalidDevices(c) \/ x \in SegmentConflicts(c, s)
    BY <1>7 DEF Raw
<1>. QED
    BY <1>4, <1>5, <1>6, <1>8

\* Nothing is reported outside the window.
LEMMA RawInWindow ==
    ASSUME Readable, IsFiniteSet(PlanIds), NEW c \in PlanIds, Shown(c), NEW t \in Nat,
           NEW x \in Raw(c), Covers(x, t)
    PROVE  plans[c].start_at <= t /\ t < plans[c].end_at
PROOF
<1>1. plans[c].start_at \in Nat /\ plans[c].end_at \in Nat
    BY PlanFields
<1>2. CASE x \in InvalidDevices(c)
    BY <1>2, InvalidReports DEF Covers
<1>3. CASE \E s \in Segments(c) : x \in SegmentConflicts(c, s)
  <2>1. PICK s \in Segments(c) : x \in SegmentConflicts(c, s)
      BY <1>3
  <2>2. x.start_at = s[1] /\ x.end_at = s[2]
      BY <2>1, SegmentReports
  <2>3. /\ s[1] \in Nat /\ s[2] \in Nat
        /\ plans[c].start_at <= s[1] /\ s[2] <= plans[c].end_at
      BY SegmentFields
  <2>. QED
      BY <1>1, <2>2, <2>3 DEF Covers
<1>. QED
    BY <1>2, <1>3 DEF Raw

-----------------------------------------------------------------------------
(* The answer.                                                             *)

\* What the answer for c says of a resource at t.
At(c, t, resource) ==
    {Shape(x) : x \in {y \in EvaluatePlanConflicts(c) :
        y.resource = resource /\ y.start_at <= t /\ t < y.end_at}}

LEMMA AnswerIsMerged ==
    ASSUME Readable, IsFiniteSet(PlanIds), NEW c \in PlanIds, Shown(c)
    PROVE  \E m : /\ EvaluatePlanConflicts(c) = {m[i] : i \in DOMAIN m}
                  /\ Merged(m, Raw(c))
PROOF
<1>1. Merged(Coalesce(Raw(c)), Raw(c))
    BY RawPieces, CoalesceMerges
<1>2. plans[c].start_at \in Nat /\ plans[c].end_at \in Nat
    BY PlanFields
<1>3. ~(plans[c].cancelled \/ plans[c].start_at >= plans[c].end_at)
    BY <1>2 DEF Shown
<1>4. EvaluatePlanConflicts(c) = Range(Coalesce(Raw(c)))
    BY <1>3 DEF EvaluatePlanConflicts, Raw
<1>. QED
    BY <1>1, <1>4 DEF Range

LEMMA NotShown ==
    ASSUME Readable, NEW c \in PlanIds, ~Shown(c)
    PROVE  EvaluatePlanConflicts(c) = {} /\ \A t \in Nat : ~Holds(c, t)
PROOF
<1>1. plans[c].start_at \in Nat /\ plans[c].end_at \in Nat
    BY PlanFields
<1>2. plans[c].cancelled \/ plans[c].start_at >= plans[c].end_at
    BY <1>1 DEF Shown
<1>. QED
    BY <1>1, <1>2 DEF EvaluatePlanConflicts, Holds

LEMMA AnswerTyped ==
    ASSUME Readable, IsFiniteSet(PlanIds), NEW c \in PlanIds, NEW x \in EvaluatePlanConflicts(c)
    PROVE  x \in Conflict /\ x.start_at < x.end_at
PROOF
<1>1. Shown(c)
    BY NotShown
<1>2. PICK m : /\ EvaluatePlanConflicts(c) = {m[i] : i \in DOMAIN m}
               /\ Merged(m, Raw(c))
    BY <1>1, AnswerIsMerged
<1>3. PICK i \in DOMAIN m : x = m[i]
    BY <1>2
<1>4. m[i] \in Conflict /\ m[i].start_at < m[i].end_at
    BY <1>2 DEF Merged
<1>. QED
    BY <1>3, <1>4

LEMMA AnswerApart ==
    ASSUME Readable, IsFiniteSet(PlanIds), NEW c \in PlanIds,
           NEW x \in EvaluatePlanConflicts(c), NEW y \in EvaluatePlanConflicts(c),
           x # y, Shape(x) = Shape(y)
    PROVE  x.end_at < y.start_at \/ y.end_at < x.start_at
PROOF
<1>1. Shown(c)
    BY NotShown
<1>2. PICK m : /\ EvaluatePlanConflicts(c) = {m[i] : i \in DOMAIN m}
               /\ Merged(m, Raw(c))
    BY <1>1, AnswerIsMerged
<1>3. PICK i \in DOMAIN m, j \in DOMAIN m : x = m[i] /\ y = m[j]
    BY <1>2
<1>. QED
    BY <1>2, <1>3 DEF Merged

\* The answer says of a unit what the pieces say of it.
LEMMA AnswerAt ==
    ASSUME Readable, IsFiniteSet(PlanIds), NEW c \in PlanIds, Shown(c), NEW t \in Nat,
           NEW resource, NEW z
    PROVE  z \in At(c, t, resource) <=>
             \E x \in Raw(c) : x.resource = resource /\ Covers(x, t) /\ z = Shape(x)
PROOF
<1>1. PICK m : /\ EvaluatePlanConflicts(c) = {m[i] : i \in DOMAIN m}
               /\ Merged(m, Raw(c))
    BY AnswerIsMerged
<1>2. z \in At(c, t, resource) <=>
        \E i \in DOMAIN m : m[i].resource = resource /\ Covers(m[i], t) /\ z = Shape(m[i])
    BY <1>1 DEF At, Covers
<1>3. \A i \in DOMAIN m : m[i] \in Conflict
    BY <1>1 DEF Merged
<1>4. \A x \in Raw(c) : x \in Conflict
    BY RawPieces DEF Pieces
<1>5. ASSUME NEW i \in DOMAIN m, m[i].resource = resource, Covers(m[i], t), z = Shape(m[i])
      PROVE  \E x \in Raw(c) : x.resource = resource /\ Covers(x, t) /\ z = Shape(x)
  <2>1. PICK x \in Raw(c) : Shape(x) = Shape(m[i]) /\ Covers(x, t)
      BY <1>1, <1>5 DEF Merged
  <2>2. x.resource = m[i].resource
      BY <1>3, <1>4, <2>1, ShapeAndEnds
  <2>. QED
      BY <1>5, <2>1, <2>2
<1>6. ASSUME NEW x \in Raw(c), x.resource = resource, Covers(x, t), z = Shape(x)
      PROVE  \E i \in DOMAIN m : m[i].resource = resource /\ Covers(m[i], t) /\ z = Shape(m[i])
  <2>1. PICK i \in DOMAIN m : Shape(m[i]) = Shape(x) /\ Covers(m[i], t)
      BY <1>1, <1>6 DEF Merged
  <2>2. m[i].resource = x.resource
      BY <1>3, <1>4, <2>1, ShapeAndEnds
  <2>. QED
      BY <1>6, <2>1, <2>2
<1>. QED
    BY <1>2, <1>5, <1>6

LEMMA NothingOutside ==
    ASSUME Readable, IsFiniteSet(PlanIds), NEW c \in PlanIds, NEW t \in Nat, ~Holds(c, t),
           NEW resource
    PROVE  At(c, t, resource) = {}
PROOF
<1>1. CASE ~Shown(c)
    BY <1>1, NotShown DEF At
<1>2. CASE Shown(c)
  <2>1. ~(plans[c].start_at <= t /\ t < plans[c].end_at)
      BY <1>2 DEF Shown, Holds
  <2>2. \A x \in Raw(c) : ~Covers(x, t)
      BY <1>2, <2>1, RawInWindow
  <2>. QED
      BY <1>2, <2>2, AnswerAt
<1>. QED
    BY <1>1, <1>2

LEMMA HoldsIsShown ==
    ASSUME Readable, NEW c \in PlanIds, NEW t \in Nat, Holds(c, t)
    PROVE  /\ Shown(c)
           /\ \E s \in Segments(c) : s[1] <= t /\ t < s[2]
PROOF
<1>1. plans[c].start_at \in Nat /\ plans[c].end_at \in Nat
    BY PlanFields
<1>2. plans[c].start_at <= t /\ t < plans[c].end_at /\ Shown(c)
    BY <1>1 DEF Holds, Shown
<1>. QED
    BY <1>2, SegmentAt

\* What the answer says of each unit that the plan holds.
LEMMA CapacityAt ==
    ASSUME Readable, IsFiniteSet(PlanIds), NEW c \in PlanIds, NEW t \in Nat, Holds(c, t),
           NEW resource \in Resources
    PROVE  At(c, t, resource) =
             IF Exceeds(c, OthersAt(c, t), resource)
             THEN {CapacityReport(c, OthersAt(c, t), <<0, 0>>, resource)} ELSE {}
PROOF
<1> DEFINE others == OthersAt(c, t)
<1>1. PICK s \in Segments(c) : s[1] <= t /\ t < s[2]
    BY HoldsIsShown
<1>2. Shown(c)
    BY HoldsIsShown
<1> HIDE DEF others
<1>3. ASSUME NEW k \in Resources
      PROVE  /\ CapacityReport(c, others, s, k).resource = k
             /\ Shape(CapacityReport(c, others, s, k)) = CapacityReport(c, others, <<0, 0>>, k)
    BY ReportFields DEF CapacityReport
<1>4. ASSUME NEW z \in At(c, t, resource)
      PROVE  Exceeds(c, others, resource) /\ z = CapacityReport(c, others, <<0, 0>>, resource)
  <2>1. PICK x \in Raw(c) : x.resource = resource /\ Covers(x, t) /\ z = Shape(x)
      BY <1>2, AnswerAt
  <2>2. \/ x \in InvalidDevices(c)
        \/ x \in CapacityConflicts(c, others, s)
        \/ x \in DeviceConflicts(c, others, s)
      BY <1>1, <1>2, <2>1, RawAt DEF others
  <2>3. x \notin InvalidDevices(c)
      BY <2>1, InvalidReports DEF Resources
  <2>4. x \notin DeviceConflicts(c, others, s)
    <3>1. /\ SharedReport(c, others, s).resource = "gpu_device"
          /\ UndecidedReport(c, others, s).resource = "gpu_device"
        BY ReportFields DEF SharedReport, UndecidedReport
    <3>. QED
        BY <2>1, <3>1, DeviceConflictsAre DEF Resources
  <2>5. PICK k \in Resources : Exceeds(c, others, k) /\ x = CapacityReport(c, others, s, k)
      BY <2>2, <2>3, <2>4, CapacityConflictsAre
  <2>. QED
      BY <1>3, <2>1, <2>5
<1>5. ASSUME Exceeds(c, others, resource)
      PROVE  CapacityReport(c, others, <<0, 0>>, resource) \in At(c, t, resource)
  <2> DEFINE x == CapacityReport(c, others, s, resource)
  <2>1. x \in CapacityConflicts(c, others, s)
      BY <1>5, CapacityConflictsAre
  <2>2. x.resource = resource /\ Shape(x) = CapacityReport(c, others, <<0, 0>>, resource)
      BY <1>3
  <2> HIDE DEF x
  <2>3. x \in Raw(c) /\ Covers(x, t)
      BY <1>1, <1>2, <2>1, RawAt DEF others
  <2>. QED
      BY <1>2, <2>2, <2>3, AnswerAt
<1>. QED
    BY <1>4, <1>5 DEF others

Missing(c) == {d \in plans[c].gpu_ids : d >= capacity["gpu"]}

InvalidReport(c) ==
    Report("gpu_device", "confirmed", <<0, 0>>, 0, Missing(c), capacity["gpu"], {})

LEMMA DevicesAt ==
    ASSUME Readable, IsFiniteSet(PlanIds), NEW c \in PlanIds, NEW t \in Nat, Holds(c, t), NEW z
    PROVE  z \in At(c, t, "gpu_device") <=>
             /\ plans[c].gpu_ids \notin {None, {}}
             /\ \/ /\ Sharing(c, OthersAt(c, t)) # {}
                   /\ z = SharedReport(c, OthersAt(c, t), <<0, 0>>)
                \/ /\ Undecided(OthersAt(c, t)) # {}
                   /\ z = UndecidedReport(c, OthersAt(c, t), <<0, 0>>)
                \/ /\ capacity["gpu"] # None /\ Missing(c) # {}
                   /\ z = InvalidReport(c)
PROOF
<1> DEFINE others == OthersAt(c, t)
           missing == MissingReport(c, Missing(c))
<1>1. PICK s \in Segments(c) : s[1] <= t /\ t < s[2]
    BY HoldsIsShown
<1>2. Shown(c)
    BY HoldsIsShown
<1>3. \A x : x \in InvalidDevices(c) <=>
        /\ plans[c].gpu_ids # None /\ capacity["gpu"] # None
        /\ Missing(c) # {} /\ x = missing
    BY InvalidDevicesAre DEF Missing
<1>4. /\ missing.resource = "gpu_device" /\ Shape(missing) = InvalidReport(c)
    BY ReportFields DEF MissingReport, InvalidReport
<1> HIDE DEF others, missing
<1>5. /\ SharedReport(c, others, s).resource = "gpu_device"
      /\ Shape(SharedReport(c, others, s)) = SharedReport(c, others, <<0, 0>>)
    BY ReportFields DEF SharedReport
<1>6. /\ UndecidedReport(c, others, s).resource = "gpu_device"
      /\ Shape(UndecidedReport(c, others, s)) = UndecidedReport(c, others, <<0, 0>>)
    BY ReportFields DEF UndecidedReport
<1>7. ASSUME NEW x, x \in CapacityConflicts(c, others, s) PROVE x.resource # "gpu_device"
  <2>1. PICK k \in Resources : x = CapacityReport(c, others, s, k)
      BY <1>7, CapacityConflictsAre
  <2>2. x.resource = k
      BY <2>1, ReportFields DEF CapacityReport
  <2>. QED
      BY <2>2 DEF Resources
<1>8. Missing(c) # {} => plans[c].gpu_ids # {}
    BY DEF Missing
<1>9. \A x : x \in Raw(c) /\ Covers(x, t) <=>
        \/ x \in InvalidDevices(c)
        \/ x \in CapacityConflicts(c, others, s)
        \/ x \in DeviceConflicts(c, others, s)
    BY <1>1, <1>2, RawAt DEF others
<1>10. ASSUME z \in At(c, t, "gpu_device")
       PROVE  /\ plans[c].gpu_ids \notin {None, {}}
              /\ \/ Sharing(c, others) # {} /\ z = SharedReport(c, others, <<0, 0>>)
                 \/ Undecided(others) # {} /\ z = UndecidedReport(c, others, <<0, 0>>)
                 \/ capacity["gpu"] # None /\ Missing(c) # {} /\ z = InvalidReport(c)
  <2>1. PICK x \in Raw(c) : x.resource = "gpu_device" /\ Covers(x, t) /\ z = Shape(x)
      BY <1>2, <1>10, AnswerAt
  <2>2. x \in InvalidDevices(c) \/ x \in DeviceConflicts(c, others, s)
      BY <1>7, <1>9, <2>1
  <2>3. CASE x \in InvalidDevices(c)
      BY <1>3, <1>4, <1>8, <2>1, <2>3
  <2>4. CASE x \in DeviceConflicts(c, others, s)
      BY <1>5, <1>6, <2>1, <2>4, DeviceConflictsAre
  <2>. QED
      BY <2>2, <2>3, <2>4
<1>11. ASSUME NEW x, x \in InvalidDevices(c) \/ x \in DeviceConflicts(c, others, s),
              x.resource = "gpu_device", z = Shape(x)
       PROVE  z \in At(c, t, "gpu_device")
    BY <1>2, <1>9, <1>11, AnswerAt
<1>12. ASSUME plans[c].gpu_ids \notin {None, {}}
       PROVE  /\ Sharing(c, others) # {} /\ z = SharedReport(c, others, <<0, 0>>)
                   => z \in At(c, t, "gpu_device")
              /\ Undecided(others) # {} /\ z = UndecidedReport(c, others, <<0, 0>>)
                   => z \in At(c, t, "gpu_device")
              /\ capacity["gpu"] # None /\ Missing(c) # {} /\ z = InvalidReport(c)
                   => z \in At(c, t, "gpu_device")
  <2>1. ASSUME Sharing(c, others) # {}, z = SharedReport(c, others, <<0, 0>>)
        PROVE  z \in At(c, t, "gpu_device")
    <3>1. SharedReport(c, others, s) \in DeviceConflicts(c, others, s)
        BY <1>12, <2>1, DeviceConflictsAre
    <3>. QED
        BY <1>5, <1>11, <2>1, <3>1
  <2>2. ASSUME Undecided(others) # {}, z = UndecidedReport(c, others, <<0, 0>>)
        PROVE  z \in At(c, t, "gpu_device")
    <3>1. UndecidedReport(c, others, s) \in DeviceConflicts(c, others, s)
        BY <1>12, <2>2, DeviceConflictsAre
    <3>. QED
        BY <1>6, <1>11, <2>2, <3>1
  <2>3. ASSUME capacity["gpu"] # None, Missing(c) # {}, z = InvalidReport(c)
        PROVE  z \in At(c, t, "gpu_device")
    <3>1. missing \in InvalidDevices(c)
        BY <1>3, <1>12, <2>3
    <3>. QED
        BY <1>4, <1>11, <2>3, <3>1
  <2>. QED
      BY <2>1, <2>2, <2>3
<1>. QED
    BY <1>10, <1>12 DEF others

LEMMA GreatestNat ==
    ASSUME NEW S \in SUBSET Nat, IsFiniteSet(S), S # {}
    PROVE  Max(S) \in S
PROOF
<1> DEFINE T == {A \in SUBSET S : A # {} => \E x \in A : \A y \in A : x >= y}
<1>1. ASSUME NEW A \in SUBSET S, \A B \in SUBSET A : B # A => B \in T
      PROVE  A \in T
  <2>1. SUFFICES ASSUME A # {} PROVE \E x \in A : \A y \in A : x >= y
      OBVIOUS
  <2>2. PICK a \in A : TRUE
      BY <2>1
  <2> DEFINE B == A \ {a}
  <2>3. B \in T
      BY <1>1, <2>2
  <2>4. CASE B = {}
    <3>1. \A y \in A : y = a
        BY <2>4
    <3>. QED
        BY <2>2, <3>1
  <2>5. CASE B # {}
    <3>1. PICK x \in B : \A y \in B : x >= y
        BY <2>3, <2>5
    <3>2. \A y \in A : y = a \/ y \in B
        OBVIOUS
    <3>. QED
        BY <2>2, <3>1, <3>2
  <2>. QED
      BY <2>4, <2>5
<1>2. T = SUBSET S
  <2> HIDE DEF T
  <2>1. T \in SUBSET SUBSET S
      BY DEF T
  <2>. QED
      BY <1>1, <2>1, SetInduction
<1>3. \E x \in S : \A y \in S : x >= y
    BY <1>2
<1>. QED
    BY <1>3 DEF Max

LEMMA UnitsAreNat ==
    ASSUME Readable, IsFiniteSet(PlanIds), NEW c \in PlanIds, NEW t \in Units
    PROVE  t \in Nat
PROOF
<1> DEFINE E == {plans[p].end_at : p \in PlanIds}
           f == [p \in PlanIds |-> plans[p].end_at]
<1>1. E \in SUBSET Nat /\ E # {}
    BY PlanFields
<1>2. f \in Surjection(PlanIds, E)
    BY DEF Surjection
<1> HIDE DEF E, f
<1>3. IsFiniteSet(E)
    BY <1>2, FS_Surjection
<1>4. Max(E) \in Nat
    BY <1>1, <1>3, GreatestNat
<1>. QED
    BY <1>4 DEF Units, E

-----------------------------------------------------------------------------
(* The state: an answer is the evaluation of its plan on the table as it is. *)

Answered ==
    /\ plans \in Tables
    /\ capacity \in Capacities
    /\ answer # None =>
         \E c \in PlanIds : answer = [plan |-> c, conflicts |-> EvaluatePlanConflicts(c)]

LEMMA TablesAreReadable == Answered => Readable /\ IsFiniteSet(PlanIds)
PROOF
BY ConflictsAssumption DEF Answered, Readable

\* The evaluation reads nothing but the table and the capacities.
LEMMA SameAnswer ==
    ASSUME UNCHANGED <<plans, capacity>>
    PROVE  \A c : EvaluatePlanConflicts(c)' = EvaluatePlanConflicts(c)
PROOF
<1>1. plans' = plans /\ capacity' = capacity
    OBVIOUS
<1>2. \A p, resource : Demand(p, resource)' = Demand(p, resource)
    BY <1>1 DEF Demand, DeclaredGpuCount
<1>3. \A S, resource : TotalDemand(S, resource)' = TotalDemand(S, resource)
  <2>1. SUFFICES ASSUME NEW CONSTANT S, NEW CONSTANT resource
                 PROVE  TotalDemand(S, resource)' = TotalDemand(S, resource)
      OBVIOUS
  <2>2. \A it : SumStep(S, resource, it)' = SumStep(S, resource, it)
      BY <1>2 DEF SumStep
  <2>3. (CHOOSE it : it = SumStep(S, resource, it)') = CHOOSE it : it = SumStep(S, resource, it)
      BY <2>2
  <2>4. TotalDemand(S, resource)' = (CHOOSE it : it = SumStep(S, resource, it)')[S]
      BY DEF TotalDemand, MapThenSumSet, MapThenFoldSet, SumStep
  <2>5. TotalDemand(S, resource) = (CHOOSE it : it = SumStep(S, resource, it))[S]
      BY TotalDemandIs
  <2>. QED
      BY <2>3, <2>4, <2>5
<1>4. \A c : Relevant(c)' = Relevant(c)
    BY <1>1 DEF Relevant, Overlaps
<1>5. \A c : Segments(c)' = Segments(c)
  <2>1. \A c : Boundaries(c)' = Boundaries(c)
      BY <1>1, <1>4 DEF Boundaries
  <2>. QED
      BY <2>1 DEF Segments
<1>6. \A c : InvalidDevices(c)' = InvalidDevices(c)
    BY <1>1 DEF InvalidDevices
<1>7. \A c, active, s : CapacityConflicts(c, active, s)' = CapacityConflicts(c, active, s)
  <2>1. SUFFICES ASSUME NEW CONSTANT c, NEW CONSTANT active, NEW CONSTANT s
                 PROVE  CapacityConflicts(c, active, s)' = CapacityConflicts(c, active, s)
      OBVIOUS
  <2>2. \A x : Exceeds(c, active, x)' = Exceeds(c, active, x)
      BY <1>1, <1>2, <1>3 DEF Exceeds
  <2>3. \A x : CapacityReport(c, active, s, x)' = CapacityReport(c, active, s, x)
      BY <1>1, <1>2, <1>3 DEF CapacityReport, Remainder
  <2>4. CapacityConflicts(c, active, s)' =
          {CapacityReport(c, active, s, x)' : x \in {y \in Resources : Exceeds(c, active, y)'}}
      BY DEF CapacityConflicts, CapacityReport, Exceeds
  <2>5. CapacityConflicts(c, active, s) =
          {CapacityReport(c, active, s, x) : x \in {y \in Resources : Exceeds(c, active, y)}}
      BY DEF CapacityConflicts, CapacityReport, Exceeds
  <2>. QED
      BY <2>2, <2>3, <2>4, <2>5
<1>8. \A c, active, s : DeviceConflicts(c, active, s)' = DeviceConflicts(c, active, s)
    BY <1>1 DEF DeviceConflicts, Undecided, DeclaredGpuCount
<1>9. \A c, s : SegmentConflicts(c, s)' = SegmentConflicts(c, s)
    BY <1>1, <1>4, <1>7, <1>8 DEF SegmentConflicts, Overlaps
<1>. QED
    BY <1>1, <1>5, <1>6, <1>9 DEF EvaluatePlanConflicts

LEMMA AnsweredAlways == Spec => []Answered
PROOF
<1>1. Init => Answered
    BY DEF Init, Answered
<1>2. ASSUME Answered, [Next]_vars PROVE Answered'
  <2>1. CASE UNCHANGED vars
      BY <1>2, <2>1, SameAnswer DEF vars, Answered
  <2>2. ASSUME NEW c \in PlanIds, Ask(c) PROVE Answered'
      BY <1>2, <2>2, SameAnswer DEF Ask, Answered
  <2>. QED
      BY <1>2, <2>1, <2>2 DEF Next
<1>. QED
    BY <1>1, <1>2, PTL DEF Spec

\* What an answer is the answer to.
LEMMA AnswerOf ==
    ASSUME Answered, answer # None
    PROVE  /\ answer.plan \in PlanIds
           /\ answer.conflicts = EvaluatePlanConflicts(answer.plan)
           /\ \A t, resource : ReportsAt(t, resource) = At(answer.plan, t, resource)
           /\ Readable /\ IsFiniteSet(PlanIds)
PROOF
<1>1. PICK c \in PlanIds : answer = [plan |-> c, conflicts |-> EvaluatePlanConflicts(c)]
    BY DEF Answered
<1>2. answer.plan = c /\ answer.conflicts = EvaluatePlanConflicts(c)
    BY <1>1
<1>3. \A t, resource : ReportsAt(t, resource) = At(c, t, resource)
    BY <1>2 DEF ReportsAt, At
<1>. QED
    BY <1>2, <1>3, TablesAreReadable

-----------------------------------------------------------------------------

\* Every conflict of an answer is a well-formed one with an interval that is not empty:
\* neither cutting nor merging in evaluate_plan_conflicts makes an empty or inverted one.
THEOREM ConflictTypes == Spec => []TypeOK
PROOF
<1>1. Answered => TypeOK
  <2>1. SUFFICES ASSUME Answered PROVE TypeOK
      OBVIOUS
  <2>2. Readable /\ IsFiniteSet(PlanIds)
      BY <2>1, TablesAreReadable
  <2>3. ASSUME answer # None
        PROVE  /\ answer.plan \in PlanIds
               /\ \A x \in answer.conflicts : x \in Conflict /\ x.start_at < x.end_at
    <3>1. answer.plan \in PlanIds /\ answer.conflicts = EvaluatePlanConflicts(answer.plan)
        BY <2>1, <2>3, AnswerOf
    <3>. QED
        BY <2>2, <3>1, AnswerTyped
  <2>. QED
      BY <2>2, <2>3 DEF TypeOK, Readable
<1>. QED
    BY <1>1, AnsweredAlways, PTL

\* evaluate_plan_conflicts reports cpu, memory and gpu of a unit of time exactly when the
\* plans that hold it ask for more than the server has, once, with what the others leave
\* and the plans that use it, whatever the plans and the capacities.
THEOREM CapacityIsReported == Spec => []CapacityReported
PROOF
<1>1. ASSUME Answered PROVE CapacityReported
  <2>1. SUFFICES ASSUME answer # None, NEW t \in Units, NEW resource \in Resources
                 PROVE  LET c == answer.plan
                            others == OthersAt(c, t)
                            used == TotalDemand(others, resource)
                            over == /\ Holds(c, t)
                                    /\ capacity[resource] # None
                                    /\ Demand(c, resource) > 0
                                    /\ Demand(c, resource) + used > capacity[resource]
                        IN  ReportsAt(t, resource) =
                              IF over
                              THEN {Report(resource, "confirmed", <<0, 0>>,
                                           Demand(c, resource), {},
                                           Max({0, capacity[resource] - used}),
                                           {p \in others : Demand(p, resource) > 0})}
                              ELSE {}
      BY DEF CapacityReported
  <2> DEFINE c == answer.plan
             others == OthersAt(c, t)
  <2>2. /\ c \in PlanIds /\ Readable /\ IsFiniteSet(PlanIds)
        /\ ReportsAt(t, resource) = At(c, t, resource)
      BY <1>1, <2>1, AnswerOf
  <2> HIDE DEF c
  <2>3. t \in Nat
      BY <2>2, UnitsAreNat
  <2>4. CapacityReport(c, others, <<0, 0>>, resource) =
          Report(resource, "confirmed", <<0, 0>>, Demand(c, resource), {},
                 Max({0, capacity[resource] - TotalDemand(others, resource)}),
                 {p \in others : Demand(p, resource) > 0})
      BY DEF CapacityReport, Remainder
  <2>5. ReportsAt(t, resource) =
          IF Holds(c, t) /\ Exceeds(c, others, resource)
          THEN {CapacityReport(c, others, <<0, 0>>, resource)} ELSE {}
    <3>1. CASE Holds(c, t)
        BY <2>2, <2>3, <3>1, CapacityAt
    <3>2. CASE ~Holds(c, t)
        BY <2>2, <2>3, <3>2, NothingOutside
    <3>. QED
        BY <3>1, <3>2
  <2>. QED
      BY <2>4, <2>5 DEF Exceeds, c
<1>. QED
    BY <1>1, AnsweredAlways, PTL

\* evaluate_plan_conflicts tells a plan that names devices, of every unit of its window,
\* which of them others have named, who only gives a count, and which the server lacks.
THEOREM DevicesAreReported == Spec => []DevicesReported
PROOF
<1>1. ASSUME Answered PROVE DevicesReported
  <2>1. SUFFICES ASSUME answer # None, NEW t \in Units
                 PROVE
            LET c == answer.plan
                own == IF plans[c].gpu_ids = None THEN {} ELSE plans[c].gpu_ids
                others == OthersAt(c, t)
                named(p) == IF plans[p].gpu_ids = None THEN {} ELSE plans[p].gpu_ids
                sharing == {p \in others : named(p) \cap own # {}}
                counting == {p \in others : /\ plans[p].gpu_ids = None
                                           /\ plans[p].gpu_count \notin {None, 0}}
                missing == IF capacity["gpu"] = None THEN {} ELSE {d \in own : d >= capacity["gpu"]}
                confirmed == {Report("gpu_device", "confirmed", <<0, 0>>, 0,
                                     own \cap UNION {named(p) : p \in sharing}, 0, sharing)}
                uncertain == {Report("gpu_device", "uncertain", <<0, 0>>, 0, own, None, counting)}
                invalid == {Report("gpu_device", "confirmed", <<0, 0>>, 0, missing,
                                   capacity["gpu"], {})}
            IN  ReportsAt(t, "gpu_device") =
                  IF ~Holds(c, t) \/ own = {} THEN {}
                  ELSE (IF sharing # {} THEN confirmed ELSE {})
                       \cup (IF counting # {} THEN uncertain ELSE {})
                       \cup (IF missing # {} THEN invalid ELSE {})
      BY DEF DevicesReported
  <2> DEFINE c == answer.plan
             own == IF plans[c].gpu_ids = None THEN {} ELSE plans[c].gpu_ids
             others == OthersAt(c, t)
             named(p) == IF plans[p].gpu_ids = None THEN {} ELSE plans[p].gpu_ids
             sharing == {p \in others : named(p) \cap own # {}}
             counting == {p \in others : /\ plans[p].gpu_ids = None
                                        /\ plans[p].gpu_count \notin {None, 0}}
             missing == IF capacity["gpu"] = None THEN {} ELSE {d \in own : d >= capacity["gpu"]}
             confirmed == {Report("gpu_device", "confirmed", <<0, 0>>, 0,
                                  own \cap UNION {named(p) : p \in sharing}, 0, sharing)}
             uncertain == {Report("gpu_device", "uncertain", <<0, 0>>, 0, own, None, counting)}
             invalid == {Report("gpu_device", "confirmed", <<0, 0>>, 0, missing,
                                capacity["gpu"], {})}
  <2>2. /\ c \in PlanIds /\ Readable /\ IsFiniteSet(PlanIds)
        /\ ReportsAt(t, "gpu_device") = At(c, t, "gpu_device")
      BY <1>1, <2>1, AnswerOf
  <2> HIDE DEF c
  <2>3. t \in Nat
      BY <2>2, UnitsAreNat
  <2>4. CASE ~Holds(c, t)
      BY <2>2, <2>3, <2>4, NothingOutside DEF c
  <2>5. CASE Holds(c, t) /\ own = {}
    <3>1. plans[c].gpu_ids \in {None, {}}
        BY <2>5
    <3>2. At(c, t, "gpu_device") = {}
        BY <2>2, <2>3, <2>5, <3>1, DevicesAt
    <3>. QED
        BY <2>2, <2>5, <3>2 DEF c
  <2>6. CASE Holds(c, t) /\ own # {}
    <3>1. plans[c].gpu_ids \notin {None, {}} /\ own = plans[c].gpu_ids
        BY <2>6
    <3>2. others \in SUBSET PlanIds
        BY DEF OthersAt
    <3> HIDE DEF others, own
    <3>3. sharing = Sharing(c, others)
        BY <3>1 DEF Sharing
    <3>4. counting = Undecided(others)
        BY <2>2, <3>2, CountNat DEF Undecided
    <3>5. own \cap UNION {named(p) : p \in sharing} = Shared(c, others)
      <4>1. \A p \in sharing : named(p) = plans[p].gpu_ids
          BY <3>3 DEF Sharing
      <4> HIDE DEF sharing, named
      <4>. QED
          BY <3>1, <3>3, <4>1 DEF Shared
    <3>6. /\ missing # {} <=> capacity["gpu"] # None /\ Missing(c) # {}
          /\ capacity["gpu"] # None => missing = Missing(c)
        BY <3>1 DEF Missing
    <3> HIDE DEF sharing, counting, missing, named
    <3>7. confirmed = {SharedReport(c, others, <<0, 0>>)}
        BY <3>3, <3>5 DEF SharedReport
    <3>8. uncertain = {UndecidedReport(c, others, <<0, 0>>)}
        BY <3>1, <3>4 DEF UndecidedReport
    <3>9. missing # {} => invalid = {InvalidReport(c)}
        BY <3>6 DEF InvalidReport
    <3> HIDE DEF confirmed, uncertain, invalid
    <3>10. \A z : z \in At(c, t, "gpu_device") <=>
             \/ sharing # {} /\ z \in confirmed
             \/ counting # {} /\ z \in uncertain
             \/ missing # {} /\ z \in invalid
      <4>1. SUFFICES ASSUME NEW z
                     PROVE  z \in At(c, t, "gpu_device") <=>
                              \/ sharing # {} /\ z \in confirmed
                              \/ counting # {} /\ z \in uncertain
                              \/ missing # {} /\ z \in invalid
          OBVIOUS
      <4>2. z \in At(c, t, "gpu_device") <=>
              \/ Sharing(c, others) # {} /\ z = SharedReport(c, others, <<0, 0>>)
              \/ Undecided(others) # {} /\ z = UndecidedReport(c, others, <<0, 0>>)
              \/ capacity["gpu"] # None /\ Missing(c) # {} /\ z = InvalidReport(c)
          BY <2>2, <2>3, <2>6, <3>1, DevicesAt DEF others
      <4>. QED
          BY <3>3, <3>4, <3>6, <3>7, <3>8, <3>9, <4>2
    <3>11. At(c, t, "gpu_device") =
             (IF sharing # {} THEN confirmed ELSE {})
               \cup (IF counting # {} THEN uncertain ELSE {})
               \cup (IF missing # {} THEN invalid ELSE {})
        BY <3>10
    <3>. QED
        BY <2>2, <2>6, <3>11
           DEF c, own, others, named, sharing, counting, missing, confirmed, uncertain, invalid
  <2>. QED
      BY <2>4, <2>5, <2>6
<1>. QED
    BY <1>1, AnsweredAlways, PTL

\* _coalesce_conflicts leaves nothing to merge: two reports of an answer that differ in
\* nothing but the interval neither touch nor overlap.
THEOREM ReportsAreMaximal == Spec => []ReportsMaximal
PROOF
<1>1. ASSUME Answered PROVE ReportsMaximal
  <2>1. SUFFICES ASSUME answer # None,
                        NEW x \in answer.conflicts, NEW y \in answer.conflicts,
                        x # y, Shape(x) = Shape(y)
                 PROVE  x.end_at < y.start_at \/ y.end_at < x.start_at
      BY DEF ReportsMaximal
  <2>2. /\ answer.plan \in PlanIds /\ Readable /\ IsFiniteSet(PlanIds)
        /\ answer.conflicts = EvaluatePlanConflicts(answer.plan)
      BY <1>1, <2>1, AnswerOf
  <2>. QED
      BY <2>1, <2>2, AnswerApart
<1>. QED
    BY <1>1, AnsweredAlways, PTL
=============================================================================
