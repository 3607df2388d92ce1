---------------------------- MODULE PanelsProofs ----------------------------
(***************************************************************************)
(* Proofs about Panels, for every size of the channels and of the lists,   *)
(* any number of applications and items and any text.                      *)
(***************************************************************************)
EXTENDS Panels, ListProofs

-----------------------------------------------------------------------------
(* The last items of a list.                                               *)

LEMMA LastOfTyped ==
    ASSUME NEW S, NEW s \in Seq(S), NEW n \in Nat \ {0}
    PROVE  /\ LastOf(s, n) \in Seq(S)
           /\ Len(LastOf(s, n)) = IF Len(s) > n THEN n ELSE Len(s)
           /\ \A i \in 1..Len(LastOf(s, n)) : LastOf(s, n)[i] = s[Len(s) - Len(LastOf(s, n)) + i]
<1>1. Len(s) \in Nat /\ \A i \in 1..Len(s) : s[i] \in S
    OBVIOUS
<1>2. PICK m \in Int : m = IF Len(s) > n THEN Len(s) - n + 1 ELSE 1
    BY <1>1
<1>3. m \in 1..(Len(s) + 1) /\ \A i \in m..Len(s) : s[i] \in S
    BY <1>1, <1>2
<1>4. /\ LastOf(s, n) = SubSeq(s, m, Len(s))
      /\ SubSeq(s, m, Len(s)) \in Seq(S)
      /\ Len(SubSeq(s, m, Len(s))) = IF m <= Len(s) THEN Len(s) - m + 1 ELSE 0
      /\ \A i \in 1..(Len(s) - m + 1) : SubSeq(s, m, Len(s))[i] = s[m + i - 1]
    BY <1>1, <1>2, <1>3, SubSeqProperties DEF LastOf
<1>5. /\ Len(LastOf(s, n)) = Len(s) - m + 1
      /\ Len(LastOf(s, n)) = IF Len(s) > n THEN n ELSE Len(s)
    <2>1. Len(LastOf(s, n)) = Len(s) - m + 1
        BY <1>1, <1>3, <1>4
    <2> QED
        BY <1>1, <1>2, <2>1
<1>6. ASSUME NEW i \in 1..Len(LastOf(s, n))
      PROVE  LastOf(s, n)[i] = s[Len(s) - Len(LastOf(s, n)) + i]
    <2>1. m + i - 1 = Len(s) - Len(LastOf(s, n)) + i
        BY <1>1, <1>5
    <2> QED
        BY <1>4, <1>5, <2>1
<1> QED
    BY <1>4, <1>5, <1>6

(* A list that is cut after each item has what one cut at the end leaves.  *)
LEMMA LastOfAppend ==
    ASSUME NEW S, NEW s \in Seq(S), NEW n \in Nat \ {0}, NEW e \in S
    PROVE  LastOf(Append(LastOf(s, n), e), n) = LastOf(Append(s, e), n)
<1> DEFINE kept == LastOf(s, n)
           short == Append(kept, e)
           long == Append(s, e)
<1>1. /\ kept \in Seq(S) /\ Len(kept) = IF Len(s) > n THEN n ELSE Len(s)
      /\ \A i \in 1..Len(kept) : kept[i] = s[Len(s) - Len(kept) + i]
    BY LastOfTyped
<1> HIDE DEF kept
<1>2. /\ short \in Seq(S) /\ Len(short) = Len(kept) + 1 /\ short[Len(kept) + 1] = e
      /\ \A i \in 1..Len(kept) : short[i] = kept[i]
      /\ long \in Seq(S) /\ Len(long) = Len(s) + 1 /\ long[Len(s) + 1] = e
      /\ \A i \in 1..Len(s) : long[i] = s[i]
      /\ Len(s) \in Nat /\ Len(kept) \in Nat
    BY <1>1
<1> HIDE DEF short, long
<1>3. PICK a : a = LastOf(short, n)
    OBVIOUS
<1>4. PICK b : b = LastOf(long, n)
    OBVIOUS
<1>5. short \in Seq(S) /\ long \in Seq(S)
    BY <1>2
<1>6. /\ a \in Seq(S) /\ Len(a) = IF Len(short) > n THEN n ELSE Len(short)
      /\ \A i \in 1..Len(a) : a[i] = short[Len(short) - Len(a) + i]
    BY <1>3, <1>5, LastOfTyped
<1>7. /\ b \in Seq(S) /\ Len(b) = IF Len(long) > n THEN n ELSE Len(long)
      /\ \A i \in 1..Len(b) : b[i] = long[Len(long) - Len(b) + i]
    BY <1>4, <1>5, LastOfTyped
<1>8. PICK x \in Nat, y \in Nat, z \in Nat :
        /\ x = Len(s) /\ y = Len(kept) /\ z = Len(a) /\ z = Len(b)
        /\ y <= x /\ z <= y + 1 /\ Len(short) = y + 1 /\ Len(long) = x + 1
    <2>1. /\ Len(s) \in Nat /\ Len(kept) \in Nat /\ Len(kept) <= Len(s)
          /\ Len(kept) = IF Len(s) > n THEN n ELSE Len(s)
          /\ Len(short) = Len(kept) + 1 /\ Len(long) = Len(s) + 1
        BY <1>1, <1>2
    <2>2. Len(a) = Len(b) /\ Len(a) \in Nat /\ Len(a) <= Len(kept) + 1
        BY <1>6, <1>7, <2>1
    <2> QED
        BY <2>1, <2>2
<1>9. ASSUME NEW i \in 1..z PROVE a[i] = b[i]
    <2>1. a[i] = short[(y + 1) - z + i] /\ b[i] = long[(x + 1) - z + i]
        BY <1>6, <1>7, <1>8
    <2>2. CASE i = z
        <3>1. (y + 1) - z + i = y + 1 /\ (x + 1) - z + i = x + 1
            BY <2>2
        <3> QED
            BY <1>2, <1>8, <2>1, <3>1
    <2>3. CASE i # z
        <3>1. PICK j \in 1..y : j = (y + 1) - z + i
            <4>1. (y + 1) - z + i \in 1..y
                BY <1>8, <2>3
            <4> QED
                BY <4>1
        <3>2. x - y + j \in 1..x /\ (x + 1) - z + i = x - y + j
            BY <1>8, <3>1
        <3>3. short[j] = kept[j] /\ kept[j] = s[x - y + j]
            BY <1>1, <1>2, <1>8, <3>1
        <3>4. long[x - y + j] = s[x - y + j]
            BY <1>2, <1>8, <3>2
        <3> QED
            BY <2>1, <3>1, <3>2, <3>3, <3>4
    <2> QED
        BY <2>2, <2>3
<1>10. a = b
    <2>1. Len(a) = Len(b) /\ \A i \in 1..Len(a) : a[i] = b[i]
        BY <1>8, <1>9
    <2> QED
        BY <1>6, <1>7, <2>1, SeqEqual
<1> QED
    BY <1>3, <1>4, <1>10 DEF short, long, kept

-----------------------------------------------------------------------------
(* A channel q and its command c, which has an item or waits, are the end  *)
(* of what the channel accepted.                                           *)

Received(s, c, q) == Len(s) - Len(c) - Len(q)
Follows(s, c, q) ==
    /\ Received(s, c, q) >= 0
    /\ \A i \in 1..Len(c) : c[i] = s[Received(s, c, q) + i]
    /\ \A i \in 1..Len(q) : q[i] = s[Received(s, c, q) + Len(c) + i]

(* The lengths, as numbers.                                                *)
Measured(s, c, q, n, x, y) ==
    /\ n = Received(s, c, q) /\ x = Len(c) /\ y = Len(q) /\ Len(s) = n + x + y
    /\ \A i \in 1..x : c[i] = s[n + i]
    /\ \A i \in 1..y : q[i] = s[n + x + i]

LEMMA Lengths ==
    ASSUME NEW S, NEW s \in Seq(S), NEW c \in Seq(S), NEW q \in Seq(S), Follows(s, c, q)
    PROVE  \E n, x, y \in Nat : Measured(s, c, q, n, x, y)
<1>1. Len(s) \in Nat /\ Len(c) \in Nat /\ Len(q) \in Nat
    OBVIOUS
<1>2. /\ Received(s, c, q) \in Nat
      /\ Len(s) = Received(s, c, q) + Len(c) + Len(q)
    <2>1. Received(s, c, q) >= 0
        BY DEF Follows
    <2> QED
        BY <1>1, <2>1 DEF Received
<1>3. Measured(s, c, q, Received(s, c, q), Len(c), Len(q))
    BY <1>2 DEF Follows, Measured
<1> QED
    BY <1>1, <1>2, <1>3

(* The first n elements.                                                   *)
LEMMA FirstElements ==
    ASSUME NEW S, NEW s \in Seq(S), NEW n \in Nat, n <= Len(s)
    PROVE  /\ SubSeq(s, 1, n) \in Seq(S) /\ Len(SubSeq(s, 1, n)) = n
           /\ \A i \in 1..n : SubSeq(s, 1, n)[i] = s[i]
<1>1. \A i \in 1..n : s[i] \in S
    OBVIOUS
<1>2. PICK r : r = SubSeq(s, 1, n)
    OBVIOUS
<1>3. /\ r \in Seq(S) /\ Len(r) = IF 1 <= n THEN n - 1 + 1 ELSE 0
      /\ \A i \in 1..(n - 1 + 1) : r[i] = s[1 + i - 1]
    BY <1>1, <1>2, SubSeqProperties
<1>4. Len(r) = n /\ \A i \in 1..n : r[i] = s[i]
    BY <1>3
<1> QED
    BY <1>2, <1>3, <1>4

LEMMA FollowsMeans ==
    ASSUME NEW S, NEW s \in Seq(S), NEW c \in Seq(S), NEW q \in Seq(S), Follows(s, c, q)
    PROVE  /\ SubSeq(s, 1, Received(s, c, q)) \in Seq(S)
           /\ Len(SubSeq(s, 1, Received(s, c, q))) = Received(s, c, q)
           /\ c \o q = SubSeq(s, Received(s, c, q) + 1, Len(s))
<1>0. PICK n, x, y \in Nat : Measured(s, c, q, n, x, y)
    BY Lengths
<1>1. /\ n = Received(s, c, q) /\ x = Len(c) /\ y = Len(q) /\ Len(s) = n + x + y
      /\ \A i \in 1..x : c[i] = s[n + i]
      /\ \A i \in 1..y : q[i] = s[n + x + i]
    BY <1>0 DEF Measured
<1>2. SubSeq(s, 1, n) \in Seq(S) /\ Len(SubSeq(s, 1, n)) = n
    <2>1. n <= Len(s)
        BY <1>1
    <2> QED
        BY <2>1, FirstElements
<1>3. PICK rest : rest = SubSeq(s, n + 1, Len(s))
    OBVIOUS
<1>4. /\ rest \in Seq(S) /\ Len(rest) = x + y
      /\ \A i \in 1..(x + y) : rest[i] = s[n + i]
    <2>1. \A i \in (n + 1)..(n + x + y) : s[i] \in S
        BY <1>1
    <2>2. PICK last \in Int : last = n + x + y
        OBVIOUS
    <2>3. /\ rest \in Seq(S) /\ Len(rest) = IF n + 1 <= last THEN last - (n + 1) + 1 ELSE 0
          /\ \A i \in 1..(last - (n + 1) + 1) : rest[i] = s[n + 1 + i - 1]
        <3>1. rest = SubSeq(s, n + 1, last) /\ n + 1 \in Int
            BY <1>1, <1>3, <2>2
        <3> QED
            BY <2>1, <2>2, <3>1, SubSeqProperties
    <2>4. last - (n + 1) + 1 = x + y /\ Len(rest) = x + y
        BY <2>2, <2>3
    <2>5. \A i \in 1..(x + y) : n + 1 + i - 1 = n + i
        OBVIOUS
    <2> QED
        BY <2>3, <2>4, <2>5
<1>5. PICK both : both = c \o q
    OBVIOUS
<1>6. /\ both \in Seq(S) /\ Len(both) = x + y
      /\ \A i \in 1..(x + y) : both[i] = IF i <= x THEN c[i] ELSE q[i - x]
    BY <1>1, <1>5, ConcatProperties
<1>7. ASSUME NEW i \in 1..(x + y) PROVE both[i] = rest[i]
    <2>1. CASE i <= x
        <3>1. i \in 1..x
            BY <2>1
        <3> QED
            BY <1>1, <1>4, <1>6, <2>1, <3>1
    <2>2. CASE ~(i <= x)
        <3>1. PICK j \in 1..y : j = i - x
            <4>1. i - x \in 1..y
                BY <2>2
            <4> QED
                BY <4>1
        <3>2. n + x + j = n + i
            BY <3>1
        <3>3. both[i] = q[j] /\ q[j] = s[n + x + j]
            BY <1>1, <1>6, <2>2, <3>1
        <3> QED
            BY <1>4, <3>2, <3>3
    <2> QED
        BY <2>1, <2>2
<1>8. both = rest
    BY <1>4, <1>6, <1>7, SeqEqual
<1> QED
    BY <1>1, <1>2, <1>3, <1>5, <1>8

(* Nothing more is shown when an item is offered to the channel.           *)
Offered(s, c, q, e) ==
    /\ Follows(Append(s, e), c, Append(q, e))
    /\ SubSeq(Append(s, e), 1, Received(Append(s, e), c, Append(q, e)))
        = SubSeq(s, 1, Received(s, c, q))

LEMMA FollowsOffer ==
    ASSUME NEW S, NEW s \in Seq(S), NEW c \in Seq(S), NEW q \in Seq(S), Follows(s, c, q),
           NEW e \in S
    PROVE  Offered(s, c, q, e)
<1>0. PICK n, x, y \in Nat : Measured(s, c, q, n, x, y)
    BY Lengths
<1>1. /\ n = Received(s, c, q) /\ x = Len(c) /\ y = Len(q) /\ Len(s) = n + x + y
      /\ \A i \in 1..x : c[i] = s[n + i]
      /\ \A i \in 1..y : q[i] = s[n + x + i]
    BY <1>0 DEF Measured
<1>2. PICK t : t = Append(s, e)
    OBVIOUS
<1>3. PICK r : r = Append(q, e)
    OBVIOUS
<1>4. /\ t \in Seq(S) /\ Len(t) = n + x + y + 1 /\ t[n + x + y + 1] = e
      /\ \A i \in 1..(n + x + y) : t[i] = s[i]
      /\ r \in Seq(S) /\ Len(r) = y + 1 /\ r[y + 1] = e
      /\ \A i \in 1..y : r[i] = q[i]
    <2>1. /\ t \in Seq(S) /\ Len(t) = n + x + y + 1 /\ t[n + x + y + 1] = e
          /\ \A i \in 1..(n + x + y) : t[i] = s[i]
        BY <1>1, <1>2, AppendProperties
    <2>2. /\ r \in Seq(S) /\ Len(r) = y + 1 /\ r[y + 1] = e
          /\ \A i \in 1..y : r[i] = q[i]
        BY <1>1, <1>3, AppendProperties
    <2> QED
        BY <2>1, <2>2
<1>5. Received(t, c, r) = n
    BY <1>1, <1>4 DEF Received
<1>6. ASSUME NEW i \in 1..x PROVE c[i] = t[n + i]
    <2>1. n + i \in 1..(n + x + y)
        OBVIOUS
    <2> QED
        BY <1>1, <1>4, <2>1
<1>7. ASSUME NEW i \in 1..(y + 1) PROVE r[i] = t[n + x + i]
    <2>1. CASE i = y + 1
        BY <1>4, <2>1
    <2>2. CASE i # y + 1
        <3>1. i \in 1..y /\ n + x + i \in 1..(n + x + y)
            BY <2>2
        <3> QED
            BY <1>1, <1>4, <3>1
    <2> QED
        BY <2>1, <2>2
<1>8. Follows(t, c, r)
    BY <1>1, <1>4, <1>5, <1>6, <1>7 DEF Follows
<1>9. SubSeq(t, 1, n) = SubSeq(s, 1, n)
    <2>1. n <= Len(t) /\ n <= Len(s) /\ \A i \in 1..n : t[i] = s[i]
        BY <1>1, <1>4
    <2>2. /\ SubSeq(t, 1, n) \in Seq(S) /\ Len(SubSeq(t, 1, n)) = n
          /\ \A i \in 1..n : SubSeq(t, 1, n)[i] = t[i]
        BY <1>4, <2>1, FirstElements
    <2>3. /\ SubSeq(s, 1, n) \in Seq(S) /\ Len(SubSeq(s, 1, n)) = n
          /\ \A i \in 1..n : SubSeq(s, 1, n)[i] = s[i]
        BY <2>1, FirstElements
    <2>4. \A i \in 1..n : SubSeq(t, 1, n)[i] = SubSeq(s, 1, n)[i]
        BY <2>1, <2>2, <2>3
    <2> QED
        BY <2>2, <2>3, <2>4, SeqEqual
<1> QED
    BY <1>1, <1>2, <1>3, <1>5, <1>8, <1>9 DEF Offered

LEMMA FollowsTake ==
    ASSUME NEW S, NEW s \in Seq(S), NEW c \in Seq(S), NEW q \in Seq(S), Follows(s, c, q),
           Len(c) = 0, q # <<>>
    PROVE  /\ Follows(s, Append(c, Head(q)), Tail(q))
           /\ Received(s, Append(c, Head(q)), Tail(q)) = Received(s, c, q)
           /\ Head(q) \in S /\ Tail(q) \in Seq(S) /\ Len(Tail(q)) = Len(q) - 1
           /\ Append(c, Head(q)) \in Seq(S) /\ Len(Append(c, Head(q))) = 1
<1>0. PICK n, x, y \in Nat : Measured(s, c, q, n, x, y)
    BY Lengths
<1>1. /\ n = Received(s, c, q) /\ x = Len(c) /\ y = Len(q) /\ Len(s) = n + x + y
      /\ \A i \in 1..x : c[i] = s[n + i]
      /\ \A i \in 1..y : q[i] = s[n + x + i]
    BY <1>0 DEF Measured
<1>2. x = 0 /\ y >= 1 /\ Head(q) = q[1]
    <2>1. Len(q) \in Nat \ {0} /\ Head(q) = q[1]
        BY EmptySeq
    <2> QED
        BY <1>1, <2>1
<1>3. PICK r : r = Tail(q)
    OBVIOUS
<1>4. /\ Head(q) \in S /\ r \in Seq(S) /\ Len(r) = y - 1
      /\ \A i \in 1..(y - 1) : r[i] = q[i + 1]
    BY <1>1, <1>3, HeadTailProperties
<1>5. PICK d : d = Append(c, Head(q))
    OBVIOUS
<1>6. d \in Seq(S) /\ Len(d) = 1 /\ d[1] = q[1]
    <2>1. d \in Seq(S) /\ Len(d) = Len(c) + 1 /\ d[Len(c) + 1] = Head(q)
        BY <1>4, <1>5, AppendProperties
    <2> QED
        BY <1>2, <2>1
<1>7. Received(s, d, r) = n
    BY <1>1, <1>2, <1>4, <1>6 DEF Received
<1>8. d[1] = s[n + 1]
    <2>1. 1 \in 1..y /\ n + x + 1 = n + 1
        BY <1>2
    <2> QED
        BY <1>1, <1>6, <2>1
<1>9. ASSUME NEW i \in 1..(y - 1) PROVE r[i] = s[n + 1 + i]
    <2>1. i + 1 \in 1..y /\ n + x + (i + 1) = n + 1 + i
        BY <1>2
    <2> QED
        BY <1>1, <1>4, <2>1
<1>10. Follows(s, d, r)
    BY <1>4, <1>6, <1>7, <1>8, <1>9 DEF Follows
<1> QED
    BY <1>1, <1>3, <1>4, <1>5, <1>6, <1>7, <1>10

(* What was the command's item is the next that is shown.                  *)
Delivered(s, c, q, i) ==
    /\ SubSeq(c, 1, i - 1) \o SubSeq(c, i + 1, Len(c)) = <<>>
    /\ Follows(s, <<>>, q)
    /\ SubSeq(s, 1, Received(s, <<>>, q)) = Append(SubSeq(s, 1, Received(s, c, q)), c[i])

LEMMA FollowsShow ==
    ASSUME NEW S, NEW s \in Seq(S), NEW c \in Seq(S), NEW q \in Seq(S), Follows(s, c, q),
           Len(c) = 1, NEW i \in DOMAIN c
    PROVE  Delivered(s, c, q, i) /\ c[i] \in S
<1>0. PICK n, x, y \in Nat : Measured(s, c, q, n, x, y)
    BY Lengths
<1>1. /\ n = Received(s, c, q) /\ x = Len(c) /\ y = Len(q) /\ Len(s) = n + x + y
      /\ \A j \in 1..x : c[j] = s[n + j]
      /\ \A j \in 1..y : q[j] = s[n + x + j]
    BY <1>0 DEF Measured
<1>2. x = 1 /\ i = 1 /\ c[1] \in S
    <2>1. DOMAIN c = 1..Len(c) /\ \A j \in 1..Len(c) : c[j] \in S
        BY LenProperties, ElementOfSeq
    <2> QED
        BY <1>1, <2>1
<1>3. SubSeq(c, 1, i - 1) \o SubSeq(c, i + 1, Len(c)) = <<>>
    <2>1. SubSeq(c, 1, 0) = <<>> /\ SubSeq(c, 2, 1) = <<>>
        BY SubSeqEmpty
    <2>2. <<>> \in Seq(S) /\ <<>> \o <<>> = <<>>
        BY EmptySeq, ConcatEmptySeq
    <2>3. i - 1 = 0 /\ i + 1 = 2
        BY <1>2
    <2> QED
        BY <2>1, <2>2, <2>3
<1>4. Received(s, <<>>, q) = n + 1 /\ Len(<<>>) = 0
    BY <1>1, <1>2 DEF Received
<1>5. Follows(s, <<>>, q)
    BY <1>1, <1>2, <1>4 DEF Follows
<1>6. s[n + 1] = c[1]
    BY <1>1, <1>2
<1>7. SubSeq(s, 1, n + 1) = Append(SubSeq(s, 1, n), c[1])
    <2>1. PICK long : long = SubSeq(s, 1, n + 1)
        OBVIOUS
    <2>2. PICK short : short = SubSeq(s, 1, n)
        OBVIOUS
    <2>3. n <= Len(s) /\ n + 1 <= Len(s) /\ n + 1 \in Nat
        BY <1>1, <1>2
    <2>4. long \in Seq(S) /\ Len(long) = n + 1 /\ \A j \in 1..(n + 1) : long[j] = s[j]
        BY <2>1, <2>3, FirstElements
    <2>5. short \in Seq(S) /\ Len(short) = n /\ \A j \in 1..n : short[j] = s[j]
        BY <2>2, <2>3, FirstElements
    <2>6. PICK app : app = Append(short, c[1])
        OBVIOUS
    <2>7. /\ app \in Seq(S) /\ Len(app) = n + 1 /\ app[n + 1] = c[1]
          /\ \A j \in 1..n : app[j] = short[j]
        BY <1>2, <2>5, <2>6, AppendProperties
    <2>8. ASSUME NEW j \in 1..(n + 1) PROVE long[j] = app[j]
        <3>1. CASE j = n + 1
            BY <1>6, <2>4, <2>7, <3>1
        <3>2. CASE j # n + 1
            <4>1. j \in 1..n
                BY <3>2
            <4> QED
                BY <2>4, <2>5, <2>7, <4>1
        <3> QED
            BY <3>1, <3>2
    <2>9. long = app
        BY <2>4, <2>7, <2>8, SeqEqual
    <2> QED
        BY <2>1, <2>2, <2>6, <2>9
<1> QED
    BY <1>1, <1>2, <1>3, <1>4, <1>5, <1>7 DEF Delivered

-----------------------------------------------------------------------------
(* The channels and the commands that wait on them.                        *)

FeedKnown(feed) ==
    /\ ch[feed] \in Seq(Items[feed]) /\ Len(ch[feed]) <= ChSize[feed]
    /\ carried[feed] \in Seq(Items[feed])
    /\ sent[feed] \in Seq(Items[feed])
    /\ waiting[feed] \in Nat /\ waiting[feed] + Len(carried[feed]) = 1
    /\ Follows(sent[feed], carried[feed], ch[feed])
FeedsKnown ==
    /\ DOMAIN ch = Feeds /\ DOMAIN waiting = Feeds /\ DOMAIN carried = Feeds /\ DOMAIN sent = Feeds
    /\ \A feed \in Feeds : FeedKnown(feed)

LEMMA ShownIsReceived ==
    \A feed : Shown(feed) = SubSeq(sent[feed], 1, Received(sent[feed], carried[feed], ch[feed]))
BY DEF Shown, Received

LEMMA ShownTyped ==
    ASSUME NEW feed, FeedKnown(feed)
    PROVE  /\ Shown(feed) \in Seq(Items[feed])
           /\ carried[feed] \o ch[feed] = OnTheWay(feed)
BY ShownIsReceived, FollowsMeans DEF FeedKnown, OnTheWay

LEMMA OfferKeeps ==
    ASSUME FeedsKnown, NEW feed \in Feeds, NEW item \in Items[feed], Offer(feed, item),
           UNCHANGED <<waiting, carried>>
    PROVE  FeedsKnown' /\ \A other \in Feeds : Shown(other)' = Shown(other)
<1> PICK s, c, q : s = sent[feed] /\ c = carried[feed] /\ q = ch[feed]
    OBVIOUS
<1>1. /\ s \in Seq(Items[feed]) /\ c \in Seq(Items[feed]) /\ q \in Seq(Items[feed])
      /\ Follows(s, c, q) /\ Len(q) < ChSize[feed] /\ ChSize[feed] \in Nat
    BY PanelAssumption DEF FeedsKnown, FeedKnown, Offer
<1>2. /\ DOMAIN ch' = Feeds /\ DOMAIN sent' = Feeds
      /\ ch'[feed] = Append(q, item) /\ sent'[feed] = Append(s, item)
      /\ \A other \in Feeds : other # feed => ch'[other] = ch[other] /\ sent'[other] = sent[other]
    BY DEF Offer, FeedsKnown
<1>3. /\ Append(s, item) \in Seq(Items[feed])
      /\ Append(q, item) \in Seq(Items[feed]) /\ Len(Append(q, item)) <= ChSize[feed]
    <2>1. Append(s, item) \in Seq(Items[feed])
        BY <1>1, AppendProperties
    <2>2. Append(q, item) \in Seq(Items[feed]) /\ Len(Append(q, item)) = Len(q) + 1
        BY <1>1, AppendProperties
    <2>3. Len(q) \in Nat
        BY <1>1, LenProperties
    <2> QED
        BY <1>1, <2>1, <2>2, <2>3
<1>4. /\ Follows(Append(s, item), c, Append(q, item))
      /\ SubSeq(Append(s, item), 1, Received(Append(s, item), c, Append(q, item)))
            = SubSeq(s, 1, Received(s, c, q))
    <2>1. PICK S : S = Items[feed]
        OBVIOUS
    <2>2. PICK e \in S : e = item
        BY <2>1
    <2>3. s \in Seq(S) /\ c \in Seq(S) /\ q \in Seq(S) /\ Follows(s, c, q)
        BY <1>1, <2>1
    <2>4. Offered(s, c, q, e)
        BY <2>3, FollowsOffer
    <2> QED
        BY <2>2, <2>4 DEF Offered
<1>5. FeedKnown(feed)' /\ Shown(feed)' = Shown(feed)
    <2>1. FeedKnown(feed)'
        BY <1>2, <1>3, <1>4 DEF FeedsKnown, FeedKnown
    <2>2. Shown(feed)' = Shown(feed)
        BY <1>2, <1>4 DEF Shown, Received
    <2> QED
        BY <2>1, <2>2
<1>6. ASSUME NEW other \in Feeds, other # feed PROVE FeedKnown(other)' /\ Shown(other)' = Shown(other)
    BY <1>2, <1>6 DEF FeedsKnown, FeedKnown, Shown
<1> QED
    BY <1>2, <1>5, <1>6 DEF FeedsKnown

LEMMA TakeKeeps ==
    ASSUME FeedsKnown, NEW feed \in Feeds, TakeItem(feed)
    PROVE  FeedsKnown' /\ \A other \in Feeds : Shown(other)' = Shown(other)
<1> PICK s, c, q : s = sent[feed] /\ c = carried[feed] /\ q = ch[feed]
    OBVIOUS
<1>1. /\ s \in Seq(Items[feed]) /\ c \in Seq(Items[feed]) /\ q \in Seq(Items[feed])
      /\ Follows(s, c, q) /\ Len(q) <= ChSize[feed] /\ ChSize[feed] \in Nat
      /\ q # <<>> /\ waiting[feed] \in Nat /\ waiting[feed] > 0 /\ waiting[feed] + Len(c) = 1
    BY PanelAssumption DEF FeedsKnown, FeedKnown, TakeItem
<1>2. /\ DOMAIN ch' = Feeds /\ DOMAIN carried' = Feeds /\ DOMAIN waiting' = Feeds /\ sent' = sent
      /\ ch'[feed] = Tail(q) /\ carried'[feed] = Append(c, Head(q))
      /\ waiting'[feed] = waiting[feed] - 1
      /\ \A other \in Feeds : other # feed =>
            ch'[other] = ch[other] /\ carried'[other] = carried[other] /\ waiting'[other] = waiting[other]
    BY DEF TakeItem, FeedsKnown
<1>3. Len(c) = 0 /\ waiting[feed] = 1 /\ Len(q) \in Nat
    BY <1>1, LenProperties
<1>4. /\ Follows(s, Append(c, Head(q)), Tail(q))
      /\ Received(s, Append(c, Head(q)), Tail(q)) = Received(s, c, q)
      /\ Tail(q) \in Seq(Items[feed]) /\ Len(Tail(q)) = Len(q) - 1
      /\ Append(c, Head(q)) \in Seq(Items[feed]) /\ Len(Append(c, Head(q))) = 1
    <2>1. PICK S : S = Items[feed]
        OBVIOUS
    <2>2. /\ s \in Seq(S) /\ c \in Seq(S) /\ q \in Seq(S) /\ Follows(s, c, q)
          /\ Len(c) = 0 /\ q # <<>>
        BY <1>1, <1>3, <2>1
    <2>3. /\ Follows(s, Append(c, Head(q)), Tail(q))
          /\ Received(s, Append(c, Head(q)), Tail(q)) = Received(s, c, q)
          /\ Tail(q) \in Seq(S) /\ Len(Tail(q)) = Len(q) - 1
          /\ Append(c, Head(q)) \in Seq(S) /\ Len(Append(c, Head(q))) = 1
        BY <2>2, FollowsTake
    <2> QED
        BY <2>1, <2>3
<1>5. FeedKnown(feed)'
    <2>1. Len(Tail(q)) <= ChSize[feed] /\ waiting'[feed] \in Nat
          /\ waiting'[feed] + Len(carried'[feed]) = 1
        BY <1>1, <1>2, <1>3, <1>4
    <2> QED
        BY <1>1, <1>2, <1>4, <2>1 DEF FeedKnown
<1>6. Shown(feed)' = Shown(feed)
    BY <1>2, <1>4 DEF Shown, Received
<1>7. ASSUME NEW other \in Feeds, other # feed PROVE FeedKnown(other)' /\ Shown(other)' = Shown(other)
    BY <1>2, <1>7 DEF FeedsKnown, FeedKnown, Shown
<1> QED
    BY <1>2, <1>5, <1>6, <1>7 DEF FeedsKnown

(* One item more is shown, and what is kept of the items follows.          *)
ShowsOne(feed, item) ==
    /\ Show(feed, item)
    /\ Shown(feed)' = Append(Shown(feed), item)
    /\ \A other \in Feeds : other # feed => Shown(other)' = Shown(other)

LEMMA UpdateKeeps ==
    ASSUME FeedsKnown, NEW feed \in Feeds, Update(feed)
    PROVE  FeedsKnown' /\ \E item \in Items[feed] : ShowsOne(feed, item)
<1> PICK s, c, q : s = sent[feed] /\ c = carried[feed] /\ q = ch[feed]
    OBVIOUS
<1>1. /\ s \in Seq(Items[feed]) /\ c \in Seq(Items[feed]) /\ q \in Seq(Items[feed])
      /\ Follows(s, c, q)
      /\ waiting[feed] \in Nat /\ waiting[feed] + Len(c) = 1
    BY DEF FeedsKnown, FeedKnown
<1>2. PICK i \in DOMAIN c :
        /\ Show(feed, c[i])
        /\ carried' = [carried EXCEPT ![feed] = SubSeq(c, 1, i - 1) \o SubSeq(c, i + 1, Len(c))]
    BY DEF Update
<1>3. Len(c) = 1
    <2>1. i \in 1..Len(c) /\ Len(c) \in Nat
        BY <1>1, <1>2, LenProperties
    <2>2. PICK n \in Nat : n = Len(c)
        BY <2>1
    <2>3. PICK w \in Nat : w = waiting[feed]
        BY <1>1
    <2>4. w + n = 1 /\ n >= 1
        BY <1>1, <2>1, <2>2, <2>3
    <2>5. \A a, b \in Nat : a + b = 1 /\ b >= 1 => b = 1
        OBVIOUS
    <2>6. n = 1
        BY <2>4, <2>5
    <2> QED
        BY <2>2, <2>6
<1>4. /\ SubSeq(c, 1, i - 1) \o SubSeq(c, i + 1, Len(c)) = <<>>
      /\ Follows(s, <<>>, q)
      /\ SubSeq(s, 1, Received(s, <<>>, q)) = Append(SubSeq(s, 1, Received(s, c, q)), c[i])
      /\ c[i] \in Items[feed]
    <2>1. PICK S : S = Items[feed]
        OBVIOUS
    <2>2. s \in Seq(S) /\ c \in Seq(S) /\ q \in Seq(S) /\ Follows(s, c, q)
          /\ Len(c) = 1 /\ i \in DOMAIN c
        BY <1>1, <1>2, <1>3, <2>1
    <2>3. Delivered(s, c, q, i) /\ c[i] \in S
        BY <2>2, FollowsShow
    <2> QED
        BY <2>1, <2>3 DEF Delivered
<1>5. /\ DOMAIN carried' = Feeds /\ DOMAIN waiting' = Feeds /\ sent' = sent /\ ch' = ch
      /\ carried'[feed] = <<>>
      /\ waiting'[feed] = waiting[feed] + 1
      /\ \A other \in Feeds : other # feed =>
            carried'[other] = carried[other] /\ waiting'[other] = waiting[other]
    BY <1>2, <1>4 DEF Update, FeedsKnown
<1>6. FeedKnown(feed)'
    <2>1. waiting'[feed] \in Nat /\ waiting'[feed] + Len(carried'[feed]) = 1
        BY <1>1, <1>3, <1>5
    <2>2. <<>> \in Seq(Items[feed])
        OBVIOUS
    <2> QED
        BY <1>1, <1>4, <1>5, <2>1, <2>2 DEF FeedsKnown, FeedKnown
<1>7. Shown(feed)' = Append(Shown(feed), c[i])
    BY <1>4, <1>5 DEF Shown, Received
<1>8. ASSUME NEW other \in Feeds, other # feed PROVE FeedKnown(other)' /\ Shown(other)' = Shown(other)
    BY <1>5, <1>8 DEF FeedsKnown, FeedKnown, Shown
<1>9. FeedsKnown'
    BY <1>5, <1>6, <1>8 DEF FeedsKnown
<1> QED
    BY <1>2, <1>4, <1>7, <1>8, <1>9 DEF ShowsOne

LEMMA FeedsSame ==
    ASSUME FeedsKnown, UNCHANGED feedVars
    PROVE  FeedsKnown' /\ \A feed \in Feeds : Shown(feed)' = Shown(feed)
BY DEF feedVars, FeedsKnown, FeedKnown, Shown

(* What a step does to the feeds: nothing, or one item is shown.           *)
LEMMA FeedsStep ==
    ASSUME FeedsKnown, [Next]_vars
    PROVE  /\ FeedsKnown'
           /\ \/ /\ \A feed \in Feeds : Shown(feed)' = Shown(feed)
                 /\ UNCHANGED listVars
              \/ \E feed \in Feeds : \E item \in Items[feed] : ShowsOne(feed, item)
<1>1. ASSUME NEW feed \in Feeds, Produce(feed)
      PROVE  FeedsKnown' /\ (\A other \in Feeds : Shown(other)' = Shown(other)) /\ UNCHANGED listVars
    BY <1>1, OfferKeeps DEF Produce
<1>2. CASE PollStats
    BY <1>2, OfferKeeps DEF PollStats, Feeds
<1>3. ASSUME NEW feed \in Feeds, TakeItem(feed)
      PROVE  FeedsKnown' /\ (\A other \in Feeds : Shown(other)' = Shown(other)) /\ UNCHANGED listVars
    BY <1>3, TakeKeeps DEF TakeItem
<1>4. ASSUME NEW feed \in Feeds, Update(feed)
      PROVE  FeedsKnown' /\ \E item \in Items[feed] : ShowsOne(feed, item)
    BY <1>4, UpdateKeeps
<1>5. CASE KeyPress
    BY <1>5, FeedsSame DEF KeyPress
<1>6. CASE UNCHANGED vars
    BY <1>6, FeedsSame DEF vars
<1> QED
    BY <1>1, <1>2, <1>3, <1>4, <1>5, <1>6 DEF Next

LEMMA FeedsInit == Init => FeedsKnown /\ \A feed \in Feeds : Shown(feed) = <<>>
<1> SUFFICES ASSUME Init PROVE FeedsKnown /\ \A feed \in Feeds : Shown(feed) = <<>>
    OBVIOUS
<1>1. Len(<<>>) = 0 /\ Received(<<>>, <<>>, <<>>) = 0 /\ SubSeq(<<>>, 1, 0) = <<>>
    <2>1. Len(<<>>) = 0
        BY EmptySeq
    <2>2. Received(<<>>, <<>>, <<>>) = 0
        <3>1. 0 \in Nat /\ Len(<<>>) \in Nat
            BY <2>1
        <3>2. PICK n \in Nat : n = Len(<<>>)
            BY <3>1
        <3>3. n = 0
            BY <2>1, <3>2
        <3>4. n - n - n = 0
            BY <3>3
        <3>5. Received(<<>>, <<>>, <<>>) = n - n - n
            BY <3>2 DEF Received
        <3> QED
            BY <3>4, <3>5
    <2>3. SubSeq(<<>>, 1, 0) = <<>>
        BY SubSeqEmpty
    <2> QED
        BY <2>1, <2>2, <2>3
<1>2. Follows(<<>>, <<>>, <<>>)
    BY <1>1 DEF Follows
<1>3. ASSUME NEW feed \in Feeds PROVE FeedKnown(feed) /\ Shown(feed) = <<>>
    <2>1. /\ ch[feed] = <<>> /\ sent[feed] = <<>> /\ carried[feed] = <<>> /\ waiting[feed] = 1
          /\ ChSize[feed] \in Nat
        BY PanelAssumption DEF Init
    <2>2. <<>> \in Seq(Items[feed])
        OBVIOUS
    <2> QED
        BY <1>1, <1>2, <2>1, <2>2, ShownIsReceived DEF FeedKnown
<1> QED
    BY <1>3 DEF FeedsKnown, Init

-----------------------------------------------------------------------------
(* What Update keeps.                                                      *)

ListsKnown ==
    /\ DOMAIN lists = Lists
    /\ \A list \in Lists : lists[list] = LastOf(Shown(list), Keep[list])
TicketsKnown ==
    /\ DOMAIN byTicket = Tickets
    /\ \A t \in Tickets : byTicket[t] = LastOf(EventsOf(t), Keep["ticket"])
StatusesKnown ==
    /\ statuses \in [AppSet -> AppStatuses]
    /\ \A a \in AppSet :
        statuses[a] = Latest(StatusesOf(a), [app |-> a, status |-> "idle"]).status
StatsKnown == sqsStats = Latest(Shown("stats"), NoStats)

LEMMA LatestAppend ==
    ASSUME NEW S, NEW s \in Seq(S), NEW e \in S, NEW default
    PROVE  Latest(Append(s, e), default) = e
<1>1. /\ Append(s, e) \in Seq(S) /\ Len(Append(s, e)) = Len(s) + 1
      /\ Append(s, e)[Len(s) + 1] = e
    BY AppendProperties
<1>2. Append(s, e) # <<>>
    BY <1>1, EmptySeq, LenProperties
<1> QED
    BY <1>1, <1>2 DEF Latest

LEMMA ListsStep ==
    ASSUME FeedsKnown, ListsKnown, NEW feed \in Feeds, NEW item \in Items[feed],
           ShowsOne(feed, item)
    PROVE  ListsKnown'
<1>1. CASE feed \in {"status", "stats"}
    <2>1. lists' = lists /\ \A list \in Lists : Shown(list)' = Shown(list)
        BY <1>1 DEF ShowsOne, Show, Lists, Feeds
    <2> QED
        BY <2>1 DEF ListsKnown
<1>2. CASE feed \in Lists
    <2>1. AddLine(feed, item) /\ Shown(feed)' = Append(Shown(feed), item)
        BY <1>2 DEF ShowsOne, Show, Lists
    <2>2. PICK S, n, s, e : S = Items[feed] /\ n = Keep[feed] /\ s = Shown(feed) /\ e = item
        OBVIOUS
    <2>3. n \in Nat \ {0} /\ s \in Seq(S) /\ e \in S
        BY <1>2, <2>2, PanelAssumption, ShownTyped DEF FeedsKnown
    <2>4. lists'[feed] = LastOf(Append(LastOf(s, n), e), n) /\ DOMAIN lists' = Lists
        BY <1>2, <2>1, <2>2 DEF AddLine, ListsKnown
    <2>5. LastOf(Append(LastOf(s, n), e), n) = LastOf(Append(s, e), n)
        BY <2>3, LastOfAppend
    <2>6. lists'[feed] = LastOf(Shown(feed)', Keep[feed])
        BY <2>1, <2>2, <2>4, <2>5
    <2>7. ASSUME NEW list \in Lists, list # feed
          PROVE  lists'[list] = LastOf(Shown(list)', Keep[list])
        <3>1. Shown(list)' = Shown(list)
            BY <2>7 DEF ShowsOne, Lists, Feeds
        <3>2. lists'[list] = lists[list]
            BY <2>1, <2>7 DEF AddLine, ListsKnown
        <3> QED
            BY <3>1, <3>2 DEF ListsKnown
    <2> QED
        BY <2>4, <2>6, <2>7 DEF ListsKnown
<1> QED
    BY <1>1, <1>2 DEF Feeds, Lists

(* What passes of a list that gets one item more.                          *)
LEMMA PassingStep ==
    ASSUME FeedsKnown, NEW feed \in Feeds, NEW item \in Items[feed], ShowsOne(feed, item), NEW T
    PROVE  /\ Passing(Shown(feed), T) \in Seq(Items[feed])
           /\ Passing(Shown(feed)', T) = IF item \in T THEN Append(Passing(Shown(feed), T), item)
                                         ELSE Passing(Shown(feed), T)
<1>1. PICK S, s, e : S = Items[feed] /\ s = Shown(feed) /\ e = item
    OBVIOUS
<1>2. s \in Seq(S) /\ e \in S
    BY <1>1, ShownTyped DEF FeedsKnown
<1>3. Shown(feed)' = Append(s, e)
    BY <1>1 DEF ShowsOne
<1>4. Passing(s, T) \in Seq(S)
    BY <1>2, PassingTyped
<1>5. Passing(Append(s, e), T) = IF e \in T THEN Append(Passing(s, T), e) ELSE Passing(s, T)
    BY <1>2, PassingAppend
<1> QED
    BY <1>1, <1>3, <1>4, <1>5

LEMMA TicketsStep ==
    ASSUME FeedsKnown, TicketsKnown, NEW feed \in Feeds, NEW item \in Items[feed],
           ShowsOne(feed, item)
    PROVE  TicketsKnown'
<1>1. CASE feed # "event"
    <2>1. byTicket' = byTicket /\ Shown("event")' = Shown("event")
        BY <1>1 DEF ShowsOne, Show, Feeds
    <2> QED
        BY <2>1 DEF TicketsKnown, EventsOf
<1>2. CASE feed = "event"
    <2>1. AddForTicket(item) /\ item \in Items["event"] /\ item \in Item("event")
        BY <1>2, PanelAssumption DEF ShowsOne, Show
    <2>2. item.ticket # 0 => item.ticket \in Tickets
        BY <2>1 DEF Tickets
    <2>3. DOMAIN byTicket' = Tickets
        BY <2>1 DEF AddForTicket, TicketsKnown
    <2>4. ASSUME NEW t \in Tickets PROVE byTicket'[t] = LastOf(EventsOf(t)', Keep["ticket"])
        <3> PICK T : T = {i \in Item("event") : i.ticket = t}
            OBVIOUS
        <3>1. /\ Passing(Shown("event"), T) \in Seq(Items["event"])
              /\ Passing(Shown("event")', T) =
                    IF item \in T THEN Append(Passing(Shown("event"), T), item)
                    ELSE Passing(Shown("event"), T)
            BY <1>2, PassingStep
        <3>2. EventsOf(t) = Passing(Shown("event"), T) /\ EventsOf(t)' = Passing(Shown("event")', T)
            BY DEF EventsOf
        <3>3. t # 0
            BY DEF Tickets
        <3>4. CASE item.ticket = t
            <4>1. item \in T
                BY <2>1, <3>4
            <4>2. PICK S, n, s, e : /\ S = Items["event"] /\ n = Keep["ticket"]
                                    /\ s = Passing(Shown("event"), T) /\ e = item
                OBVIOUS
            <4>3. n \in Nat \ {0} /\ s \in Seq(S) /\ e \in S
                BY <2>1, <3>1, <4>2, PanelAssumption
            <4>4. byTicket'[t] = LastOf(Append(LastOf(s, n), e), n)
                BY <2>1, <3>2, <3>3, <3>4, <4>2 DEF AddForTicket, TicketsKnown
            <4>5. LastOf(Append(LastOf(s, n), e), n) = LastOf(Append(s, e), n)
                BY <4>3, LastOfAppend
            <4>6. EventsOf(t)' = Append(s, e)
                BY <3>1, <3>2, <4>1, <4>2
            <4> QED
                BY <4>2, <4>4, <4>5, <4>6
        <3>5. CASE item.ticket # t
            <4>1. item \notin T
                BY <3>5
            <4>2. byTicket'[t] = byTicket[t]
                BY <2>1, <3>5 DEF AddForTicket, TicketsKnown
            <4>3. EventsOf(t)' = EventsOf(t)
                BY <3>1, <3>2, <4>1
            <4> QED
                BY <4>2, <4>3 DEF TicketsKnown
        <3> QED
            BY <3>4, <3>5
    <2>5. Tickets' = Tickets /\ Keep' = Keep
        BY DEF Tickets
    <2> QED
        BY <2>3, <2>4, <2>5 DEF TicketsKnown
<1> QED
    BY <1>1, <1>2

LEMMA StatusesStep ==
    ASSUME FeedsKnown, StatusesKnown, NEW feed \in Feeds, NEW item \in Items[feed],
           ShowsOne(feed, item)
    PROVE  StatusesKnown'
<1>1. CASE feed # "status"
    <2>1. statuses' = statuses /\ Shown("status")' = Shown("status")
        BY <1>1 DEF ShowsOne, Show, Feeds
    <2> QED
        BY <2>1 DEF StatusesKnown, StatusesOf
<1>2. CASE feed = "status"
    <2>1. /\ statuses' = [statuses EXCEPT ![item.app] = item.status]
          /\ item \in Items["status"] /\ item \in Item("status")
        BY <1>2, PanelAssumption DEF ShowsOne, Show
    <2>2. item.app \in AppSet /\ statuses' \in [AppSet -> AppStatuses]
        BY <2>1 DEF Item, StatusesKnown
    <2>3. ASSUME NEW a \in AppSet
          PROVE  statuses'[a] = Latest(StatusesOf(a)', [app |-> a, status |-> "idle"]).status
        <3> PICK T : T = {i \in Item("status") : i.app = a}
            OBVIOUS
        <3>1. /\ Passing(Shown("status"), T) \in Seq(Items["status"])
              /\ Passing(Shown("status")', T) =
                    IF item \in T THEN Append(Passing(Shown("status"), T), item)
                    ELSE Passing(Shown("status"), T)
            BY <1>2, PassingStep
        <3>2. /\ StatusesOf(a) = Passing(Shown("status"), T)
              /\ StatusesOf(a)' = Passing(Shown("status")', T)
            BY DEF StatusesOf
        <3>3. CASE item.app = a
            <4>1. item \in T
                BY <2>1, <3>3
            <4>2. PICK S, s, e, d : /\ S = Items["status"] /\ s = Passing(Shown("status"), T)
                                    /\ e = item /\ d = [app |-> a, status |-> "idle"]
                OBVIOUS
            <4>3. s \in Seq(S) /\ e \in S
                BY <2>1, <3>1, <4>2
            <4>4. Latest(Append(s, e), d) = e
                BY <4>3, LatestAppend
            <4>5. StatusesOf(a)' = Append(s, e)
                BY <3>1, <3>2, <4>1, <4>2
            <4>6. statuses'[a] = item.status
                BY <2>1, <2>2, <3>3 DEF StatusesKnown
            <4> QED
                BY <4>2, <4>4, <4>5, <4>6
        <3>4. CASE item.app # a
            <4>1. item \notin T
                BY <3>4
            <4>2. statuses'[a] = statuses[a]
                BY <2>1, <3>4 DEF StatusesKnown
            <4>3. StatusesOf(a)' = StatusesOf(a)
                BY <3>1, <3>2, <4>1
            <4> QED
                BY <4>2, <4>3 DEF StatusesKnown
        <3> QED
            BY <3>3, <3>4
    <2> QED
        BY <2>2, <2>3 DEF StatusesKnown
<1> QED
    BY <1>1, <1>2

LEMMA StatsStep ==
    ASSUME FeedsKnown, StatsKnown, NEW feed \in Feeds, NEW item \in Items[feed],
           ShowsOne(feed, item)
    PROVE  StatsKnown'
<1>1. CASE feed # "stats"
    <2>1. sqsStats' = sqsStats /\ Shown("stats")' = Shown("stats")
        BY <1>1 DEF ShowsOne, Show, Feeds
    <2> QED
        BY <2>1 DEF StatsKnown
<1>2. CASE feed = "stats"
    <2>1. sqsStats' = item /\ Shown("stats")' = Append(Shown("stats"), item)
        BY <1>2 DEF ShowsOne, Show
    <2>2. PICK S, s, e : S = Items["stats"] /\ s = Shown("stats") /\ e = item
        OBVIOUS
    <2>3. s \in Seq(S) /\ e \in S
        BY <1>2, <2>2, ShownTyped DEF FeedsKnown
    <2>4. Latest(Append(s, e), NoStats) = e
        BY <2>3, LatestAppend
    <2> QED
        BY <2>1, <2>2, <2>4 DEF StatsKnown
<1> QED
    BY <1>1, <1>2

(* The inductive invariant.                                                *)
HistoryKnown == FeedsKnown /\ ListsKnown /\ TicketsKnown /\ StatusesKnown /\ StatsKnown

LEMMA HistoryInit == Init => HistoryKnown
<1> SUFFICES ASSUME Init PROVE HistoryKnown
    OBVIOUS
<1>1. FeedsKnown /\ \A feed \in Feeds : Shown(feed) = <<>>
    BY FeedsInit
<1>2. \A T : Passing(<<>>, T) = <<>>
    BY PassingEmpty
<1>3. Len(<<>>) = 0 /\ SubSeq(<<>>, 1, 0) = <<>>
    BY EmptySeq, SubSeqEmpty
<1>4. ASSUME NEW n \in Nat \ {0} PROVE LastOf(<<>>, n) = <<>>
    BY <1>3 DEF LastOf
<1>5. ListsKnown
    BY <1>1, <1>4, PanelAssumption DEF Init, ListsKnown, Lists, Feeds
<1>6. TicketsKnown
    BY <1>1, <1>2, <1>4, PanelAssumption DEF Init, TicketsKnown, EventsOf, Feeds
<1>7. StatusesKnown
    BY <1>1, <1>2 DEF Init, StatusesKnown, StatusesOf, Latest, Feeds, AppStatuses
<1>8. StatsKnown
    BY <1>1 DEF Init, StatsKnown, Latest, Feeds
<1> QED
    BY <1>1, <1>5, <1>6, <1>7, <1>8 DEF HistoryKnown

LEMMA HistoryStep == HistoryKnown /\ [Next]_vars => HistoryKnown'
<1> SUFFICES ASSUME HistoryKnown, [Next]_vars PROVE HistoryKnown'
    OBVIOUS
<1>1. FeedsKnown /\ ListsKnown /\ TicketsKnown /\ StatusesKnown /\ StatsKnown
    BY DEF HistoryKnown
<1>2. FeedsKnown'
    BY <1>1, FeedsStep
<1>3. CASE (\A feed \in Feeds : Shown(feed)' = Shown(feed)) /\ UNCHANGED listVars
    <2>1. ListsKnown'
        BY <1>1, <1>3 DEF ListsKnown, listVars, Lists, Feeds
    <2>2. TicketsKnown'
        BY <1>1, <1>3 DEF TicketsKnown, EventsOf, listVars, Feeds
    <2>3. StatusesKnown'
        BY <1>1, <1>3 DEF StatusesKnown, StatusesOf, listVars, Feeds
    <2>4. StatsKnown'
        BY <1>1, <1>3 DEF StatsKnown, listVars, Feeds
    <2> QED
        BY <1>2, <2>1, <2>2, <2>3, <2>4 DEF HistoryKnown
<1>4. ASSUME NEW feed \in Feeds, NEW item \in Items[feed], ShowsOne(feed, item)
      PROVE  HistoryKnown'
    BY <1>1, <1>2, <1>4, ListsStep, TicketsStep, StatusesStep, StatsStep DEF HistoryKnown
<1> QED
    BY <1>1, <1>3, <1>4, FeedsStep

LEMMA HistoryAlwaysKnown == Spec => []HistoryKnown
BY HistoryInit, HistoryStep, PTL DEF Spec

(* README.md: "TUI shows everything live".  Whatever the channels drop,    *)
(* every list is the end of what its channel accepted, in that order and   *)
(* without a gap, and the rest is in the channel or in one command.        *)
THEOREM EverythingIsShown == Spec => []PanelsShowHistory
<1>1. HistoryKnown => PanelsShowHistory
    <2> SUFFICES ASSUME HistoryKnown PROVE PanelsShowHistory
        OBVIOUS
    <2>1. \A feed \in Feeds : carried[feed] \o ch[feed] = OnTheWay(feed)
        BY ShownTyped DEF HistoryKnown, FeedsKnown
    <2> QED
        BY <2>1 DEF HistoryKnown, PanelsShowHistory, ListsKnown, TicketsKnown, StatusesKnown,
                    StatsKnown
<1> QED
    BY <1>1, HistoryAlwaysKnown, PTL

-----------------------------------------------------------------------------
(* The filters and the keys.                                               *)

KeysKnown ==
    /\ DOMAIN filter = Lists
    /\ \A list \in Lists : filter[list] \in Nat /\ filter[list] + 1 \in DOMAIN Options(list)
    /\ search \in Seq(Chars) /\ Len(search) <= MaxSearch
    /\ tab \in 0..4
    /\ paused \subseteq {"pollers", "workers"}

LEMMA NextOption ==
    ASSUME NEW list \in Lists, NEW n \in Nat
    PROVE  /\ (n + 1) % Len(Options(list)) \in Nat
           /\ ((n + 1) % Len(Options(list))) + 1 \in DOMAIN Options(list)
           /\ 0 + 1 \in DOMAIN Options(list)
<1>1. CASE list = "sentinel"
    <2>1. Options(list) = <<All>> \o Levels
        BY <1>1 DEF Options
    <2>2. Levels \in Seq({All, "DEBUG", "INFO", "WARN", "ERROR"})
        BY DEF Levels
    <2> QED
        BY <2>1, <2>2, NextInTurn
<1>2. CASE list # "sentinel"
    <2>1. Options(list) = <<All>> \o AppOrder
        BY <1>2 DEF Options
    <2>2. AppOrder \in Seq({All} \cup STRING)
        <3>1. AppOrder \in Seq(STRING)
            BY PanelAssumption
        <3> QED
            BY <3>1, SeqMonotonic
    <2> QED
        BY <2>1, <2>2, NextInTurn
<1> QED
    BY <1>1, <1>2

(* What a key that does something does.                                    *)
LEMMA PressDoes ==
    ASSUME KeysKnown, NEW key, Press(key)
    PROVE  \/ \E i \in 0..4 : GoTo(i)
           \/ \E flag \in {"pollers", "workers"} : TogglePause(flag)
           \/ \E list \in Lists : CycleFilter(list)
           \/ \E text \in Seq(Chars) : Len(text) <= MaxSearch /\ Search(text)
<1>1. search \in Seq(Chars) /\ Len(search) \in Nat /\ Len(search) <= MaxSearch /\ MaxSearch \in Nat
    BY PanelAssumption DEF KeysKnown
<1>2. PICK n \in Nat : n = tab /\ n \in 0..4
    BY DEF KeysKnown
<1>3. CASE \E i \in DOMAIN Digits : key = Digits[i] /\ GoTo(i - 1)
    <2>1. PICK i \in 1..5 : GoTo(i - 1)
        BY <1>3 DEF Digits
    <2>2. i - 1 \in 0..4
        OBVIOUS
    <2> QED
        BY <2>1, <2>2
<1>4. CASE GoTo((tab + 1) % Len(Tabs)) \/ GoTo((tab + 4) % Len(Tabs))
    <2>1. Len(Tabs) = 5
        BY DEF Tabs
    <2>2. (n + 1) % 5 \in 0..(5 - 1) /\ (n + 4) % 5 \in 0..(5 - 1)
        <3>1. n + 1 \in Nat /\ n + 4 \in Nat /\ 5 \in Nat /\ 5 # 0
            OBVIOUS
        <3> QED
            BY <3>1, Remainder
    <2> QED
        BY <1>2, <1>4, <2>1, <2>2
<1>5. CASE TogglePause("pollers") \/ TogglePause("workers")
    BY <1>5
<1>6. CASE (\E list \in {"log", "event"} : CycleFilter(list)) \/ CycleFilter("sentinel")
    BY <1>6 DEF Lists
<1>7. CASE Search(<<>>)
    <2>1. <<>> \in Seq(Chars) /\ Len(<<>>) = 0
        BY EmptySeq
    <2>2. 0 <= MaxSearch
        BY <1>1
    <2> QED
        BY <1>7, <2>1, <2>2
<1>8. CASE search # <<>> /\ Search(SubSeq(search, 1, Len(search) - 1))
    <2>1. Len(search) # 0
        BY <1>1, <1>8, EmptySeq
    <2>2. Len(search) - 1 \in Nat /\ Len(search) - 1 <= Len(search)
        BY <1>1, <2>1
    <2>3. PICK m \in Nat : m = Len(search) - 1 /\ m <= Len(search)
        BY <2>2
    <2>4. PICK s : s = search
        OBVIOUS
    <2>5. s \in Seq(Chars) /\ m <= Len(s)
        BY <1>1, <2>3, <2>4
    <2>6. SubSeq(s, 1, m) \in Seq(Chars) /\ Len(SubSeq(s, 1, m)) = m
        BY <2>5, FirstElements
    <2>7. m <= MaxSearch
        BY <1>1, <2>3
    <2>8. Search(SubSeq(s, 1, m))
        BY <1>8, <2>3, <2>4
    <2> QED
        BY <2>6, <2>7, <2>8
<1>9. CASE /\ key \in Chars \ Commands
           /\ Len(search) < MaxSearch
           /\ Search(Append(search, key))
    <2>1. Append(search, key) \in Seq(Chars) /\ Len(Append(search, key)) = Len(search) + 1
        BY <1>1, <1>9, AppendProperties
    <2>2. Len(Append(search, key)) <= MaxSearch
        BY <1>1, <1>9, <2>1
    <2> QED
        BY <1>9, <2>1, <2>2
<1> QED
    BY <1>3, <1>4, <1>5, <1>6, <1>7, <1>8, <1>9 DEF Press

LEMMA KeysStep == KeysKnown /\ [Next]_vars => KeysKnown'
<1> SUFFICES ASSUME KeysKnown, [Next]_vars PROVE KeysKnown'
    OBVIOUS
<1>1. CASE UNCHANGED keyVars
    BY <1>1 DEF keyVars, KeysKnown
<1>2. ASSUME NEW key, Press(key) PROVE KeysKnown'
    <2>1. ASSUME NEW i \in 0..4, GoTo(i) PROVE KeysKnown'
        BY <2>1 DEF GoTo, KeysKnown
    <2>2. ASSUME NEW flag \in {"pollers", "workers"}, TogglePause(flag) PROVE KeysKnown'
        BY <2>2 DEF TogglePause, KeysKnown
    <2>3. ASSUME NEW list \in Lists, CycleFilter(list) PROVE KeysKnown'
        <3>1. PICK n \in Nat : n = filter[list]
            BY DEF KeysKnown
        <3>2. /\ filter' = [filter EXCEPT ![list] = (n + 1) % Len(Options(list))]
              /\ UNCHANGED <<search, tab, paused>>
            BY <2>3, <3>1 DEF CycleFilter
        <3>3. /\ (n + 1) % Len(Options(list)) \in Nat
              /\ ((n + 1) % Len(Options(list))) + 1 \in DOMAIN Options(list)
            BY NextOption
        <3>4. PICK next \in Nat : /\ next = (n + 1) % Len(Options(list))
                                  /\ next + 1 \in DOMAIN Options(list)
            BY <3>3
        <3> QED
            BY <3>2, <3>4 DEF KeysKnown, Options
    <2>4. ASSUME NEW text \in Seq(Chars), Len(text) <= MaxSearch, Search(text) PROVE KeysKnown'
        BY <2>4 DEF Search, KeysKnown
    <2> QED
        BY <1>2, <2>1, <2>2, <2>3, <2>4, PressDoes
<1> QED
    BY <1>1, <1>2 DEF Next, Produce, PollStats, TakeItem, Update, KeyPress, vars

LEMMA KeysInit == Init => KeysKnown
<1> SUFFICES ASSUME Init PROVE KeysKnown
    OBVIOUS
<1>1. <<>> \in Seq(Chars) /\ Len(<<>>) = 0 /\ 0 <= MaxSearch
    BY PanelAssumption, EmptySeq
<1>2. \A list \in Lists : 0 + 1 \in DOMAIN Options(list)
    BY NextOption
<1> QED
    BY <1>1, <1>2 DEF Init, KeysKnown

LEMMA KeysAlwaysKnown == Spec => []KeysKnown
BY KeysInit, KeysStep, PTL DEF Spec

-----------------------------------------------------------------------------
(* Types.                                                                  *)

LEMMA ListsTyped ==
    ASSUME HistoryKnown, NEW list \in Lists
    PROVE  lists[list] \in Seq(Item(list)) /\ Len(lists[list]) <= Keep[list]
<1>1. PICK S, n, s : S = Items[list] /\ n = Keep[list] /\ s = Shown(list)
    OBVIOUS
<1>2. n \in Nat \ {0} /\ s \in Seq(S) /\ S \subseteq Item(list)
    BY <1>1, PanelAssumption, ShownTyped DEF HistoryKnown, FeedsKnown, Lists, Feeds
<1>3. LastOf(s, n) \in Seq(S) /\ Len(LastOf(s, n)) = IF Len(s) > n THEN n ELSE Len(s)
    BY <1>2, LastOfTyped
<1>4. Len(LastOf(s, n)) <= n
    BY <1>2, <1>3, LenProperties
<1>5. LastOf(s, n) \in Seq(Item(list))
    BY <1>2, <1>3, SeqMonotonic
<1> QED
    BY <1>1, <1>4, <1>5 DEF HistoryKnown, ListsKnown

(* No channel and no list outgrows its bound, each channel has one command *)
(* that waits or one item in a command, and the filters, the tab and the   *)
(* search text are ones that exist.                                        *)
THEOREM PanelsTyped == Spec => []PanelTypeOK
<1>1. HistoryKnown /\ KeysKnown => PanelTypeOK
    <2> SUFFICES ASSUME HistoryKnown, KeysKnown PROVE PanelTypeOK
        OBVIOUS
    <2>1. ASSUME NEW feed \in Feeds
          PROVE  /\ ch[feed] \in Seq(Item(feed)) /\ Len(ch[feed]) <= ChSize[feed]
                 /\ carried[feed] \in Seq(Item(feed))
                 /\ waiting[feed] + Len(carried[feed]) = 1
        <3>1. FeedKnown(feed) /\ Items[feed] \subseteq Item(feed)
            BY PanelAssumption DEF HistoryKnown, FeedsKnown
        <3> QED
            BY <3>1, SeqMonotonic DEF FeedKnown
    <2>2. tab + 1 \in DOMAIN Tabs
        BY DEF KeysKnown, Tabs
    <2> QED
        BY <2>1, <2>2, ListsTyped
        DEF HistoryKnown, StatusesKnown, KeysKnown, PanelTypeOK
<1> QED
    BY <1>1, HistoryAlwaysKnown, KeysAlwaysKnown, PTL

-----------------------------------------------------------------------------
(* What the tabs show.                                                     *)

ViewsKnown ==
    /\ DOMAIN view = Lists /\ DOMAIN lists = Lists /\ DOMAIN filter = Lists
    /\ ViewsAreFresh

LEMMA FilteredSame ==
    ASSUME NEW list, lists'[list] = lists[list], filter'[list] = filter[list],
           list = "sentinel" => search' = search
    PROVE  Filtered(list)' = Filtered(list)
<1>1. \A item \in Item(list) : Matches(list, item)' <=> Matches(list, item)
    BY DEF Matches, Chosen
<1> QED
    BY <1>1 DEF Filtered

LEMMA OneRefreshed ==
    ASSUME ViewsKnown, NEW list \in Lists, Refresh(list),
           DOMAIN lists' = Lists, DOMAIN filter' = Lists,
           \A other \in Lists : other # list => Filtered(other)' = Filtered(other)
    PROVE  ViewsKnown'
BY DEF ViewsKnown, ViewsAreFresh, Refresh

LEMMA ViewsSame ==
    ASSUME ViewsKnown, UNCHANGED <<lists, view, filter, search>>
    PROVE  ViewsKnown'
<1>1. \A list \in Lists : Filtered(list)' = Filtered(list)
    BY FilteredSame
<1> QED
    BY <1>1 DEF ViewsKnown, ViewsAreFresh

LEMMA ViewsStep == ViewsKnown /\ KeysKnown /\ [Next]_vars => ViewsKnown'
<1> SUFFICES ASSUME ViewsKnown, KeysKnown, [Next]_vars PROVE ViewsKnown'
    OBVIOUS
<1>1. CASE UNCHANGED <<lists, view, filter, search>>
    BY <1>1, ViewsSame
<1>2. ASSUME NEW feed \in Feeds, Update(feed) PROVE ViewsKnown'
    <2>1. PICK item : Show(feed, item) /\ UNCHANGED <<filter, search>>
        BY <1>2 DEF Update, keyVars
    <2>2. CASE feed \in {"status", "stats"}
        BY <2>1, <2>2, ViewsSame DEF Show
    <2>3. CASE feed \in Lists
        <3>1. AddLine(feed, item) /\ Refresh(feed)
            BY <2>1, <2>3 DEF Show, Lists
        <3>2. DOMAIN lists' = Lists /\ DOMAIN filter' = Lists
            BY <2>1, <3>1 DEF AddLine, ViewsKnown
        <3>3. ASSUME NEW other \in Lists, other # feed PROVE Filtered(other)' = Filtered(other)
            <4>1. lists'[other] = lists[other]
                BY <3>1, <3>3 DEF AddLine, ViewsKnown
            <4> QED
                BY <2>1, <4>1, FilteredSame
        <3> QED
            BY <2>3, <3>1, <3>2, <3>3, OneRefreshed
    <2> QED
        BY <2>2, <2>3 DEF Feeds, Lists
<1>3. ASSUME NEW key, Press(key), UNCHANGED lists PROVE ViewsKnown'
    <2>1. ASSUME NEW i \in 0..4, GoTo(i) PROVE ViewsKnown'
        BY <1>3, <2>1, ViewsSame DEF GoTo
    <2>2. ASSUME NEW flag \in {"pollers", "workers"}, TogglePause(flag) PROVE ViewsKnown'
        BY <1>3, <2>2, ViewsSame DEF TogglePause
    <2>3. ASSUME NEW list \in Lists, CycleFilter(list) PROVE ViewsKnown'
        <3>1. /\ Refresh(list) /\ search' = search /\ DOMAIN lists' = Lists /\ DOMAIN filter' = Lists
              /\ \A other \in Lists : other # list => filter'[other] = filter[other]
            BY <1>3, <2>3 DEF CycleFilter, ViewsKnown
        <3>2. ASSUME NEW other \in Lists, other # list PROVE Filtered(other)' = Filtered(other)
            BY <1>3, <3>1, <3>2, FilteredSame
        <3> QED
            BY <3>1, <3>2, OneRefreshed
    <2>4. ASSUME NEW text, Search(text) PROVE ViewsKnown'
        <3>1. /\ Refresh("sentinel") /\ filter' = filter
              /\ DOMAIN lists' = Lists /\ DOMAIN filter' = Lists /\ "sentinel" \in Lists
            BY <1>3, <2>4 DEF Search, ViewsKnown, Lists
        <3>2. ASSUME NEW other \in Lists, other # "sentinel"
              PROVE  Filtered(other)' = Filtered(other)
            BY <1>3, <3>1, <3>2, FilteredSame
        <3> QED
            BY <3>1, <3>2, OneRefreshed
    <2> QED
        BY <1>3, <2>1, <2>2, <2>3, <2>4, PressDoes
<1> QED
    BY <1>1, <1>2, <1>3
    DEF Next, Produce, PollStats, TakeItem, KeyPress, listVars, keyVars, vars

LEMMA ViewsInit == Init => ViewsKnown
<1> SUFFICES ASSUME Init PROVE ViewsKnown
    OBVIOUS
<1>1. \A list \in Lists : Filtered(list) = <<>>
    BY PassingEmpty DEF Init, Filtered
<1> QED
    BY <1>1 DEF Init, ViewsKnown, ViewsAreFresh

(* README.md: Logs is "filterable by app", Sentinel has "level filter, and *)
(* text search".  Update renders again whatever changed, the list, the     *)
(* filter or the text, so that no tab shows what its filter excludes now.  *)
THEOREM TabsAreFresh == Spec => []ViewsAreFresh
<1>1. ViewsKnown => ViewsAreFresh
    BY DEF ViewsKnown
<1> QED
    BY <1>1, KeysAlwaysKnown, ViewsInit, ViewsStep, PTL DEF Spec
=============================================================================
