----------------------------- MODULE ListProofs -----------------------------
(***************************************************************************)
(* Proofs about Lists.  The provers cannot instantiate the induction       *)
(* theorems of the library, whose hypotheses have an operator as a         *)
(* parameter; that every set of natural numbers has a least one is all     *)
(* that the inductions here need.                                          *)
(***************************************************************************)
EXTENDS Lists, SequenceTheorems, WellFoundedInduction, TLAPS

Below == {pair \in Nat \X Nat : pair[1] < pair[2]}

LEMMA LeastNumber ==
    ASSUME NEW T \in SUBSET Nat, T # {}
    PROVE  \E n \in T : \A k \in T : n <= k
<1>1. IsWellFoundedOn(Below, Nat)
    BY NatLessThanWellFounded DEF OpToRel, Below
<1>2. PICK n \in T : \A k \in T : <<k, n>> \notin Below
    BY <1>1, WFMin
<1>3. \A k \in T : ~(k < n)
    BY <1>2 DEF Below
<1> QED
    BY <1>3

(* A set of numbers that has 0, and n if it has n - 1, has them all.       *)
LEMMA UpToLast ==
    ASSUME NEW last \in Nat, NEW T, 0 \in T, \A n \in 1..last : n - 1 \in T => n \in T
    PROVE  \A n \in 0..last : n \in T
<1> DEFINE missing == {n \in 0..last : n \notin T}
<1>1. CASE missing = {}
    BY <1>1
<1>2. CASE missing # {}
    <2>0. missing \in SUBSET Nat
        OBVIOUS
    <2>1. PICK n \in missing : \A k \in missing : n <= k
        <3> HIDE DEF missing
        <3> QED
            BY <1>2, <2>0, LeastNumber
    <2>2. n \in 1..last /\ n - 1 \in 0..last /\ ~(n <= n - 1)
        BY <2>1
    <2>3. n - 1 \in T
        BY <2>1, <2>2
    <2> QED
        BY <2>1, <2>2, <2>3
<1> QED
    BY <1>1, <1>2

-----------------------------------------------------------------------------
(* The list so far, after each of its elements.                            *)
Appended(list, T, before, n) ==
    IF list[n] \in T THEN Append(before, list[n]) ELSE before

Collects(list, T, f) ==
    f = [n \in 0..Len(list) |->
            IF n = 0 THEN <<>>
            ELSE IF list[n] \in T THEN Append(f[n - 1], list[n]) ELSE f[n - 1]]

LEMMA AppendedTyped ==
    ASSUME NEW S, NEW list \in Seq(S), NEW T, NEW n \in 1..Len(list), NEW before \in Seq(S)
    PROVE  /\ Appended(list, T, before, n) \in Seq(S)
           /\ Len(Appended(list, T, before, n)) <= Len(before) + 1
<1>1. list[n] \in S /\ Len(before) \in Nat
    OBVIOUS
<1>2. Append(before, list[n]) \in Seq(S) /\ Len(Append(before, list[n])) = Len(before) + 1
    BY <1>1
<1> QED
    BY <1>1, <1>2 DEF Appended

(* The recursion of Passing has a solution.                                *)
LEMMA SomethingCollects ==
    ASSUME NEW S, NEW list \in Seq(S), NEW T
    PROVE  \E f : Collects(list, T, f)
<1> DEFINE Works(f, last) ==
            /\ f \in [0..last -> Seq(S)]
            /\ f[0] = <<>>
            /\ \A n \in 1..last : f[n] = Appended(list, T, f[n - 1], n)
           reached == {last \in Nat : \E f : Works(f, last)}
<1>1. Len(list) \in Nat
    OBVIOUS
<1>2. 0 \in reached
    <2>1. Works([n \in 0..0 |-> <<>>], 0)
        OBVIOUS
    <2> QED
        BY <2>1
<1>3. ASSUME NEW n \in 1..Len(list), n - 1 \in reached
      PROVE  n \in reached
    <2>1. PICK f : Works(f, n - 1)
        BY <1>3
    <2> DEFINE g == [k \in 0..n |-> IF k = n THEN Appended(list, T, f[n - 1], n) ELSE f[k]]
    <2>2. n \in Nat /\ n - 1 \in 0..(n - 1) /\ 0 \in 0..(n - 1)
        BY <1>1
    <2>3. f[n - 1] \in Seq(S)
        BY <2>1, <2>2
    <2>4. Appended(list, T, f[n - 1], n) \in Seq(S)
        BY <2>3, AppendedTyped
    <2>5. g \in [0..n -> Seq(S)]
        <3>1. ASSUME NEW k \in 0..n PROVE g[k] \in Seq(S)
            BY <2>1, <2>4
        <3> QED
            BY <3>1
    <2>6. g[0] = <<>>
        BY <2>1, <2>2
    <2>7. ASSUME NEW k \in 1..n PROVE g[k] = Appended(list, T, g[k - 1], k)
        <3>1. k - 1 \in 0..n /\ k - 1 # n /\ g[k - 1] = f[k - 1]
            BY <2>2
        <3>2. CASE k = n
            BY <2>2, <3>1, <3>2
        <3>3. CASE k # n
            <4>1. k \in 1..(n - 1) /\ g[k] = f[k]
                BY <2>2, <3>3
            <4> QED
                BY <2>1, <3>1, <4>1
        <3> QED
            BY <3>2, <3>3
    <2>8. Works(g, n)
        BY <2>5, <2>6, <2>7
    <2> HIDE DEF Works
    <2> QED
        BY <2>2, <2>8
<1>4. Len(list) \in reached
    <2>1. \A n \in 1..Len(list) : n - 1 \in reached => n \in reached
        BY <1>3
    <2> HIDE DEF reached
    <2>2. \A n \in 0..Len(list) : n \in reached
        BY <1>1, <1>2, <2>1, UpToLast
    <2> QED
        BY <1>1, <2>2
<1>5. PICK f : Works(f, Len(list))
    BY <1>4
<1>6. f = [n \in 0..Len(list) |-> IF n = 0 THEN <<>> ELSE Appended(list, T, f[n - 1], n)]
    BY <1>1, <1>5
<1>7. Collects(list, T, f)
    BY <1>6 DEF Collects, Appended
<1> QED
    BY <1>7

LEMMA PassingCollects ==
    ASSUME NEW S, NEW list \in Seq(S), NEW T
    PROVE  \E f : Collects(list, T, f) /\ Passing(list, T) = f[Len(list)]
<1> DEFINE f == CHOOSE f : Collects(list, T, f)
<1>1. Collects(list, T, f)
    BY SomethingCollects
<1>2. Passing(list, T) = f[Len(list)]
    BY DEF Passing, Collects
<1> QED
    BY <1>1, <1>2

LEMMA CollectedEach ==
    ASSUME NEW S, NEW list \in Seq(S), NEW T, NEW f, Collects(list, T, f)
    PROVE  /\ f[0] = <<>>
           /\ \A n \in 1..Len(list) : f[n] = Appended(list, T, f[n - 1], n)
<1> DEFINE each(n) == IF n = 0 THEN <<>>
                      ELSE IF list[n] \in T THEN Append(f[n - 1], list[n]) ELSE f[n - 1]
<1>1. Len(list) \in Nat
    OBVIOUS
<1>2. f = [n \in 0..Len(list) |-> each(n)]
    BY DEF Collects
<1>3. \A n \in 0..Len(list) : f[n] = each(n)
    <2> HIDE DEF each
    <2> QED
        BY <1>2
<1>4. f[0] = each(0) /\ \A n \in 1..Len(list) : f[n] = each(n) /\ n # 0
    <2> HIDE DEF each
    <2> QED
        BY <1>1, <1>3
<1> QED
    BY <1>4 DEF Appended

LEMMA CollectedTyped ==
    ASSUME NEW S, NEW list \in Seq(S), NEW T, NEW f, Collects(list, T, f)
    PROVE  \A n \in 0..Len(list) : f[n] \in Seq(S) /\ Len(f[n]) <= n
<1> DEFINE typed == {n \in 0..Len(list) : f[n] \in Seq(S) /\ Len(f[n]) <= n}
<1>1. Len(list) \in Nat
    OBVIOUS
<1>2. 0 \in typed
    <2>1. f[0] = <<>>
        BY CollectedEach
    <2>2. 0 \in 0..Len(list) /\ <<>> \in Seq(S) /\ Len(<<>>) <= 0
        BY <1>1
    <2> QED
        BY <2>1, <2>2
<1>3. ASSUME NEW n \in 1..Len(list), n - 1 \in typed
      PROVE  n \in typed
    <2>1. n \in Nat /\ f[n - 1] \in Seq(S) /\ Len(f[n - 1]) <= n - 1 /\ Len(f[n - 1]) \in Nat
        BY <1>1, <1>3
    <2>2. f[n] = Appended(list, T, f[n - 1], n)
        BY CollectedEach
    <2>3. f[n] \in Seq(S) /\ Len(f[n]) <= Len(f[n - 1]) + 1 /\ Len(f[n]) \in Nat
        BY <2>1, <2>2, AppendedTyped
    <2> QED
        BY <1>1, <2>1, <2>3
<1> QED
    <2>1. \A n \in 1..Len(list) : n - 1 \in typed => n \in typed
        BY <1>3
    <2> HIDE DEF typed
    <2>2. \A n \in 0..Len(list) : n \in typed
        BY <1>1, <1>2, <2>1, UpToLast
    <2> QED
        BY <2>2 DEF typed

(* What is collected from the first elements does not depend on the others. *)
Begins(list, longer) ==
    Len(list) <= Len(longer) /\ \A i \in 1..Len(list) : longer[i] = list[i]

LEMMA SameCollected ==
    ASSUME NEW S, NEW list \in Seq(S), NEW longer \in Seq(S), NEW T, Begins(list, longer),
           NEW f, Collects(list, T, f), NEW g, Collects(longer, T, g)
    PROVE  \A n \in 0..Len(list) : f[n] = g[n]
<1> DEFINE same == {n \in 0..Len(list) : f[n] = g[n]}
<1>1. Len(list) \in Nat /\ Len(longer) \in Nat
    OBVIOUS
<1>2. 0 \in same
    BY <1>1, CollectedEach
<1>3. ASSUME NEW n \in 1..Len(list), n - 1 \in same
      PROVE  n \in same
    <2>1. f[n] = Appended(list, T, f[n - 1], n) /\ g[n] = Appended(longer, T, g[n - 1], n)
        <3>1. n \in 1..Len(longer)
            BY <1>1 DEF Begins
        <3> QED
            BY <3>1, CollectedEach
    <2>2. f[n - 1] = g[n - 1] /\ list[n] = longer[n]
        BY <1>3 DEF Begins
    <2> QED
        BY <1>1, <2>1, <2>2 DEF Appended
<1> QED
    <2>1. \A n \in 1..Len(list) : n - 1 \in same => n \in same
        BY <1>3
    <2> HIDE DEF same
    <2>2. \A n \in 0..Len(list) : n \in same
        BY <1>1, <1>2, <2>1, UpToLast
    <2> QED
        BY <2>2 DEF same

-----------------------------------------------------------------------------
(***************************************************************************)
(* filteredTickets and its like never make a list longer and add nothing   *)
(* to it that was not there.                                               *)
(***************************************************************************)
THEOREM PassingTyped ==
    ASSUME NEW S, NEW list \in Seq(S), NEW T
    PROVE  Passing(list, T) \in Seq(S) /\ Len(Passing(list, T)) <= Len(list)
<1>1. PICK f : Collects(list, T, f) /\ Passing(list, T) = f[Len(list)]
    BY PassingCollects
<1>2. Len(list) \in 0..Len(list)
    OBVIOUS
<1> QED
    BY <1>1, <1>2, CollectedTyped

THEOREM PassingEmpty ==
    ASSUME NEW T
    PROVE  Passing(<<>>, T) = <<>>
<1>1. <<>> \in Seq({}) /\ Len(<<>>) = 0
    OBVIOUS
<1>2. PICK f : Collects(<<>>, T, f) /\ Passing(<<>>, T) = f[0]
    BY <1>1, PassingCollects
<1> QED
    BY <1>1, <1>2 DEF Collects

(***************************************************************************)
(* An element that is appended to a list is appended to what passes of it  *)
(* or changes nothing there.                                               *)
(***************************************************************************)
THEOREM PassingAppend ==
    ASSUME NEW S, NEW list \in Seq(S), NEW e \in S, NEW T
    PROVE  Passing(Append(list, e), T) =
                IF e \in T THEN Append(Passing(list, T), e) ELSE Passing(list, T)
<1> DEFINE longer == Append(list, e)
<1>1. /\ longer \in Seq(S) /\ Len(longer) = Len(list) + 1 /\ Len(list) \in Nat
      /\ \A i \in 1..Len(list) : longer[i] = list[i]
      /\ longer[Len(list) + 1] = e
    OBVIOUS
<1> HIDE DEF longer
<1>2. PICK f : Collects(list, T, f) /\ Passing(list, T) = f[Len(list)]
    BY PassingCollects
<1>3. PICK g : Collects(longer, T, g) /\ Passing(longer, T) = g[Len(longer)]
    BY <1>1, PassingCollects
<1>4. f[Len(list)] = g[Len(list)]
    <2>1. \A n \in 0..Len(list) : f[n] = g[n]
        <3>1. longer \in Seq(S) /\ Begins(list, longer)
            BY <1>1 DEF Begins
        <3> QED
            BY <1>2, <1>3, <3>1, SameCollected
    <2> QED
        BY <1>1, <2>1
<1>5. g[Len(longer)] = IF e \in T THEN Append(g[Len(list)], e) ELSE g[Len(list)]
    <2>1. g[Len(longer)] = Appended(longer, T, g[Len(longer) - 1], Len(longer))
        BY <1>1, <1>3, CollectedEach
    <2> QED
        BY <1>1, <2>1 DEF Appended
<1> QED
    BY <1>2, <1>3, <1>4, <1>5 DEF longer

-----------------------------------------------------------------------------
LEMMA PutFirst ==
    ASSUME NEW S, NEW list \in Seq(S), NEW e \in S
    PROVE  /\ <<e>> \o list \in Seq(S)
           /\ Len(<<e>> \o list) = Len(list) + 1
           /\ (<<e>> \o list)[1] = e
           /\ \A i \in 2..(Len(list) + 1) : (<<e>> \o list)[i] = list[i - 1]
<1>1. <<e>> \in Seq(S) /\ Len(<<e>>) = 1 /\ Len(list) \in Nat
    OBVIOUS
<1> QED
    BY <1>1, ConcatProperties

LEMMA Remainder ==
    ASSUME NEW x \in Nat, NEW len \in Nat, len # 0
    PROVE  x % len \in 0..(len - 1)
    OBVIOUS

(* A filter that goes through its options and starts again.                *)
LEMMA NextInTurn ==
    ASSUME NEW S, NEW list \in Seq(S), NEW e \in S, NEW options, options = <<e>> \o list,
           NEW n \in Nat
    PROVE  /\ (n + 1) % Len(options) \in Nat
           /\ ((n + 1) % Len(options)) + 1 \in DOMAIN options
           /\ 0 + 1 \in DOMAIN options
<1>1. options \in Seq(S) /\ Len(options) = Len(list) + 1 /\ Len(list) \in Nat
    BY PutFirst
<1>2. PICK len \in Nat \ {0} : len = Len(options) /\ DOMAIN options = 1..len
    BY <1>1
<1>3. n + 1 \in Nat /\ len \in Nat /\ len # 0
    OBVIOUS
<1> DEFINE next == (n + 1) % len
<1>4. next \in 0..(len - 1)
    BY <1>3, Remainder
<1>5. next = (n + 1) % Len(options)
    BY <1>2
<1> HIDE DEF next
<1>6. next \in Nat /\ next + 1 \in 1..len /\ 0 + 1 \in 1..len
    BY <1>3, <1>4
<1> QED
    BY <1>2, <1>5, <1>6
=============================================================================
