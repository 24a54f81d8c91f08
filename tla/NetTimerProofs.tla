--------------------------- MODULE NetTimerProofs ---------------------------
(***************************************************************************)
(* ListsSound of NetTimer, and its refinement of TimerSet, for any set of  *)
(* timers, calls and times.                                                *)
(*                                                                         *)
(* The first half is about the list of differences: what the walk, the     *)
(* insertion and the removal of timer.c do to the sums of a prefix of the  *)
(* list (SumsInsert, SumsRemove, SumsDrop, SumsAdvance), and so to the     *)
(* time each timer has left (InsertArms, RemoveDisarms, AdvanceLeft,       *)
(* ExpireLeft). Sums is a recursive function: that it exists and is the    *)
(* only one with its equation needs induction, which is taken over sets of *)
(* numbers (Induction).                                                    *)
(*                                                                         *)
(* The second half steps through the actions: IInv is inductive, and each  *)
(* step of NetTimer is the step of TimerSet of the same meaning, or a      *)
(* stutter.                                                                *)
(***************************************************************************)
EXTENDS NetTimer, WellFoundedInduction, TLAPS

USE SMTT(30)

(* A set of numbers that is not empty has a least one. *)
LEMMA LeastNatural ==
  ASSUME NEW S \in SUBSET Nat, S # {}
  PROVE  \E m \in S : \A k \in S : m <= k
<1>1. IsWellFoundedOn(OpToRel(<, Nat), Nat)
  BY NatLessThanWellFounded, Zenon
<1> DEFINE R == {ss \in Nat \X Nat : ss[1] < ss[2]}
<1>2. IsWellFoundedOn(R, Nat)
  BY <1>1 DEF OpToRel
<1> HIDE DEF R
<1>3. \E x \in S : \A y \in S : ~(<<y, x>> \in R)
  BY <1>2, WFMin, Zenon
<1>4. \A x \in Nat, y \in Nat : y < x => <<y, x>> \in R
  BY DEF R
<1>5. PICK m \in S : \A y \in S : ~(<<y, m>> \in R)
  BY <1>3
<1>6. ASSUME NEW k \in S
      PROVE  m <= k
  <2>1. m \in Nat /\ k \in Nat /\ ~(<<k, m>> \in R)
    BY <1>5
  <2>2. ~(k < m)
    BY <1>4, <2>1
  <2> QED
    BY <2>1, <2>2
<1> QED
  BY <1>6

(* A set of numbers that has 0 and the successor of each of its members is *)
(* Nat.                                                                    *)
LEMMA Induction ==
  ASSUME NEW S \in SUBSET Nat, 0 \in S, \A n \in S : n + 1 \in S
  PROVE  S = Nat
<1> SUFFICES ASSUME Nat \ S # {} PROVE FALSE
  BY Zenon
<1>1. PICK m \in Nat \ S : \A k \in Nat \ S : m <= k
  BY LeastNatural, Zenon
<1> QED
  BY <1>1

(* f is the sum of the times of the first i of n timers, for each i. *)
Prefix(f, l, c, n) ==
  /\ f \in [0 .. n -> Nat]
  /\ f[0] = 0
  /\ \A i \in 1 .. n : f[i] = f[i - 1] + c[l[i]]

(* Every list has its sums. *)
LEMMA PrefixExists ==
  ASSUME NEW T, NEW l \in Seq(T), NEW c \in [T -> Nat]
  PROVE  \E f : Prefix(f, l, c, Len(l))
<1> DEFINE S == {n \in Nat : n <= Len(l) => \E f : Prefix(f, l, c, n)}
<1>1. 0 \in S
  <2>1. Prefix([i \in 0 .. 0 |-> 0], l, c, 0)
    BY DEF Prefix
  <2> QED
    BY <2>1
<1>2. ASSUME NEW n \in S
      PROVE  n + 1 \in S
  <2> SUFFICES ASSUME n + 1 <= Len(l)
               PROVE  \E f : Prefix(f, l, c, n + 1)
    OBVIOUS
  <2>1. PICK f : Prefix(f, l, c, n)
    OBVIOUS
  <2> DEFINE g == [i \in 0 .. (n + 1) |-> IF i <= n THEN f[i] ELSE f[n] + c[l[n + 1]]]
  <2>2. n + 1 \in DOMAIN l /\ l[n + 1] \in T /\ c[l[n + 1]] \in Nat /\ f[n] \in Nat
    BY <2>1 DEF Prefix
  <2>3. g \in [0 .. (n + 1) -> Nat] /\ g[0] = 0
    BY <2>1, <2>2 DEF Prefix
  <2>4. ASSUME NEW i \in 1 .. (n + 1)
        PROVE  g[i] = g[i - 1] + c[l[i]]
    <3>1. CASE i <= n
      <4>1. g[i] = f[i] /\ g[i - 1] = f[i - 1] /\ i \in 1 .. n
        BY <3>1
      <4> HIDE DEF g
      <4> QED
        BY <2>1, <4>1 DEF Prefix
    <3>2. CASE i = n + 1
      <4>1. g[i] = f[n] + c[l[n + 1]] /\ g[i - 1] = f[n]
        BY <3>2
      <4> HIDE DEF g
      <4> QED
        BY <3>2, <4>1
    <3> QED
      BY <3>1, <3>2
  <2>5. Prefix(g, l, c, n + 1)
    BY <2>3, <2>4, Zenon DEF Prefix
  <2> QED
    BY <2>5
<1>3. S = Nat
  <2>1. S \in SUBSET Nat
    OBVIOUS
  <2> HIDE DEF S
  <2> QED
    BY <1>1, <1>2, <2>1, Induction
<1>4. Len(l) \in Nat /\ Len(l) <= Len(l)
  OBVIOUS
<1> QED
  BY <1>3, <1>4

(* They are the only ones, so what has the equation of the sums is Sums:   *)
(* this is how the sums of a list after a step are found.                  *)
LEMMA SumsIs ==
  ASSUME NEW l, NEW c, Len(l) \in Nat, NEW g, Prefix(g, l, c, Len(l))
  PROVE  Sums(l, c) = g
<1> DEFINE N == Len(l)
           Good(f) == f = [i \in 0 .. N |-> IF i = 0 THEN 0 ELSE f[i - 1] + c[l[i]]]
           w == CHOOSE f : Good(f)
<1>1. Good(g)
  BY DEF Prefix
<1>2. Good(w)
  BY <1>1, Zenon
<1>3. Sums(l, c) = w
  BY Zenon DEF Sums
<1> HIDE DEF w
<1> DEFINE S == {n \in Nat : n \in 0 .. N => w[n] = g[n]}
<1>5. 0 \in S
  BY <1>1, <1>2
<1>6. ASSUME NEW n \in S
      PROVE  n + 1 \in S
  <2> SUFFICES ASSUME n + 1 \in 0 .. N
               PROVE  w[n + 1] = g[n + 1]
    OBVIOUS
  <2>1. n \in 0 .. N /\ n + 1 # 0 /\ (n + 1) - 1 = n
    OBVIOUS
  <2>2. w[n] = g[n]
    BY <2>1
  <2>3. w[n + 1] = w[n] + c[l[n + 1]]
    BY <1>2, <2>1
  <2>4. g[n + 1] = g[n] + c[l[n + 1]]
    BY <1>1, <2>1
  <2> QED
    BY <2>2, <2>3, <2>4
<1>7. S = Nat
  <2>1. S \in SUBSET Nat
    OBVIOUS
  <2> HIDE DEF S
  <2> QED
    BY <1>5, <1>6, <2>1, Induction
<1>8. \A n \in 0 .. N : w[n] = g[n]
  BY <1>7
<1>9. w = [i \in 0 .. N |-> w[i]] /\ g = [i \in 0 .. N |-> g[i]]
  BY <1>1, <1>2
<1> HIDE DEF S
<1>10. w = g
  BY <1>8, <1>9
<1> QED
  BY <1>3, <1>10

(* Sums, the time until each timer of the list is due, has its equation. *)
LEMMA SumsAre ==
  ASSUME NEW T, NEW l \in Seq(T), NEW c \in [T -> Nat]
  PROVE  Prefix(Sums(l, c), l, c, Len(l))
<1>1. PICK f : Prefix(f, l, c, Len(l))
  BY PrefixExists, Zenon
<1>2. Sums(l, c) = f
  BY <1>1, SumsIs
<1> QED
  BY <1>1, <1>2

(* s is a followed by b. *)
Joined(s, a, b, T) ==
  /\ s \in Seq(T)
  /\ Len(s) = Len(a) + Len(b)
  /\ \A j \in 1 .. Len(a) : s[j] = a[j]
  /\ \A j \in 1 .. Len(b) : s[Len(a) + j] = b[j]

(* Concatenation joins its arguments. *)
LEMMA ConcatElements ==
  ASSUME NEW T, NEW a \in Seq(T), NEW b \in Seq(T)
  PROVE  Joined(a \o b, a, b, T)
  BY DEF Joined

(* m is l, of n nodes, with t behind the i-th one. *)
Inserted(m, l, n, i, t) ==
  /\ Len(m) = n + 1
  /\ \A j \in 1 .. (n + 1) :
       m[j] = IF j <= i THEN l[j] ELSE IF j = i + 1 THEN t ELSE l[j - 1]

(* nlist_insert_after keeps the order of the others. *)
LEMMA InsertElements ==
  ASSUME NEW T, NEW l \in Seq(T), NEW i \in 0 .. Len(l), NEW t \in T
  PROVE  /\ nlist_insert_after(l, i, t) \in Seq(T)
         /\ Inserted(nlist_insert_after(l, i, t), l, Len(l), i, t)
<1> DEFINE a == SubSeq(l, 1, i)
           b == SubSeq(l, i + 1, Len(l))
<1>1. a \in Seq(T) /\ Len(a) = i /\ \A j \in 1 .. i : a[j] = l[j]
  OBVIOUS
<1>2. b \in Seq(T) /\ Len(b) = Len(l) - i /\ \A j \in 1 .. (Len(l) - i) : b[j] = l[i + j]
  OBVIOUS
<1>3. nlist_insert_after(l, i, t) = a \o <<t>> \o b
  BY DEF nlist_insert_after
<1> HIDE DEF a, b
<1> DEFINE d == a \o <<t>>
<1>d. /\ d \in Seq(T) /\ Len(d) = i + 1
      /\ \A j \in 1 .. (i + 1) : d[j] = IF j <= i THEN l[j] ELSE t
  <2>1. d \in Seq(T)
    BY <1>1
  <2>2. Len(d) = i + 1
    BY <1>1
  <2>3. ASSUME NEW j \in 1 .. (i + 1)
        PROVE  d[j] = IF j <= i THEN l[j] ELSE t
    BY <1>1
  <2> QED
    BY <2>1, <2>2, <2>3
<1> HIDE DEF d
<1>j. Joined(d \o b, d, b, T)
  BY <1>2, <1>d, ConcatElements, Zenon
<1> DEFINE m == d \o b
<1>c. /\ m \in Seq(T)
      /\ Len(m) = Len(d) + Len(b)
      /\ \A j \in 1 .. Len(d) : m[j] = d[j]
      /\ \A j \in 1 .. Len(b) : m[Len(d) + j] = b[j]
  BY <1>j DEF Joined
<1> HIDE DEF m
<1>4. m \in Seq(T) /\ Len(m) = Len(l) + 1
  BY <1>2, <1>d, <1>c
<1>5. ASSUME NEW j \in 1 .. Len(l) + 1
      PROVE  m[j] = IF j <= i THEN l[j] ELSE IF j = i + 1 THEN t ELSE l[j - 1]
  <2>1. CASE j <= i + 1
    <3>1. m[j] = d[j]
      BY <1>c, <1>d, <2>1
    <3> QED
      BY <1>d, <2>1, <3>1
  <2>2. CASE j > i + 1
    <3>1. j - (i + 1) \in 1 .. Len(b) /\ j = Len(d) + (j - (i + 1))
      BY <1>2, <1>d, <2>2
    <3>2. m[j] = b[j - (i + 1)]
      BY <1>c, <3>1
    <3>3. b[j - (i + 1)] = l[i + (j - (i + 1))] /\ i + (j - (i + 1)) = j - 1
      BY <1>2, <3>1
    <3> QED
      BY <2>2, <3>2, <3>3
  <2> QED
    BY <2>1, <2>2
<1> QED
  BY <1>3, <1>4, <1>5 DEF Inserted, d, m

(* m is l, of n nodes, without the i-th one. *)
Removed(m, l, n, i) ==
  /\ Len(m) = n - 1
  /\ \A j \in 1 .. (n - 1) : m[j] = IF j < i THEN l[j] ELSE l[j + 1]

(* nlist_remove keeps the order of the others. *)
LEMMA RemoveElements ==
  ASSUME NEW T, NEW l \in Seq(T), NEW i \in 1 .. Len(l)
  PROVE  /\ nlist_remove(l, i) \in Seq(T)
         /\ Removed(nlist_remove(l, i), l, Len(l), i)
<1> DEFINE a == SubSeq(l, 1, i - 1)
           b == SubSeq(l, i + 1, Len(l))
<1>1. a \in Seq(T) /\ Len(a) = i - 1 /\ \A j \in 1 .. (i - 1) : a[j] = l[j]
  OBVIOUS
<1>2. b \in Seq(T) /\ Len(b) = Len(l) - i /\ \A j \in 1 .. (Len(l) - i) : b[j] = l[i + j]
  OBVIOUS
<1>3. nlist_remove(l, i) = a \o b
  BY DEF nlist_remove
<1> HIDE DEF a, b
<1>j. Joined(a \o b, a, b, T)
  BY <1>1, <1>2, ConcatElements, Zenon
<1> DEFINE m == a \o b
<1>c. /\ m \in Seq(T)
      /\ Len(m) = Len(a) + Len(b)
      /\ \A j \in 1 .. Len(a) : m[j] = a[j]
      /\ \A j \in 1 .. Len(b) : m[Len(a) + j] = b[j]
  BY <1>j DEF Joined
<1> HIDE DEF m
<1>4. m \in Seq(T) /\ Len(m) = Len(l) - 1
  BY <1>1, <1>2, <1>c
<1>5. ASSUME NEW j \in 1 .. Len(l) - 1
      PROVE  m[j] = IF j < i THEN l[j] ELSE l[j + 1]
  <2>1. CASE j < i
    BY <1>1, <1>c, <2>1
  <2>2. CASE j >= i
    <3>1. j - (i - 1) \in 1 .. Len(b) /\ j = Len(a) + (j - (i - 1))
      BY <1>1, <1>2, <2>2
    <3>2. m[j] = b[j - (i - 1)]
      BY <1>c, <3>1, Zenon
    <3>3. b[j - (i - 1)] = l[i + (j - (i - 1))] /\ i + (j - (i - 1)) = j + 1
      BY <1>2, <3>1
    <3> QED
      BY <2>2, <3>2, <3>3
  <2> QED
    BY <2>1, <2>2
<1> QED
  BY <1>3, <1>4, <1>5 DEF Removed, m

(* An insertion links the node it is given, once, and no other. *)
LEMMA InsertRange ==
  ASSUME NEW T, NEW l \in Seq(T), NEW i \in 0 .. Len(l), NEW t \in T,
         NEW m \in Seq(T), Inserted(m, l, Len(l), i, t)
  PROVE  /\ Range(m) = Range(l) \cup {t}
         /\ IsInjective(l) /\ t \notin Range(l) => IsInjective(m)
<1> USE DEF Inserted, Range, IsInjective
<1>1. \A j \in DOMAIN m : m[j] \in Range(l) \cup {t}
  OBVIOUS
<1>2. \A j \in DOMAIN l : l[j] \in Range(m)
  <2> TAKE j \in DOMAIN l
  <2>1. CASE j <= i
    <3>1. j \in DOMAIN m /\ m[j] = l[j]
      BY <2>1
    <3> QED
      BY <3>1
  <2>2. CASE j > i
    <3>1. j + 1 \in DOMAIN m /\ m[j + 1] = l[j]
      BY <2>2
    <3> QED
      BY <3>1
  <2> QED
    BY <2>1, <2>2
<1>3. t \in Range(m)
  <2>1. i + 1 \in DOMAIN m /\ m[i + 1] = t
    OBVIOUS
  <2> QED
    BY <2>1
<1>4. ASSUME IsInjective(l), t \notin Range(l), NEW j \in DOMAIN m, NEW k \in DOMAIN m,
             m[j] = m[k]
      PROVE  j = k
  <2> DEFINE Pos(x) == IF x <= i THEN x ELSE x - 1
  <2>1. \A x \in DOMAIN m : x # i + 1 => Pos(x) \in DOMAIN l /\ m[x] = l[Pos(x)]
    OBVIOUS
  <2>2. m[i + 1] = t
    OBVIOUS
  <2>3. (j = i + 1) <=> (k = i + 1)
    BY <1>4, <2>1, <2>2
  <2>4. CASE j # i + 1
    <3>1. Pos(j) = Pos(k)
      BY <1>4, <2>1, <2>3, <2>4
    <3> QED
      BY <2>3, <2>4, <3>1
  <2> QED
    BY <2>3, <2>4
<1>5. Range(m) = Range(l) \cup {t}
  BY <1>1, <1>2, <1>3
<1> QED
  BY <1>4, <1>5, Zenon

(* A removal unlinks the node it is given, and no other. *)
LEMMA RemoveRange ==
  ASSUME NEW T, NEW l \in Seq(T), NEW i \in 1 .. Len(l), IsInjective(l),
         NEW m \in Seq(T), Removed(m, l, Len(l), i)
  PROVE  /\ Range(m) = Range(l) \ {l[i]}
         /\ IsInjective(m)
<1> USE DEF Removed, Range, IsInjective
<1> DEFINE Pos(x) == IF x < i THEN x ELSE x + 1
<1>1. \A x \in DOMAIN m : Pos(x) \in DOMAIN l /\ Pos(x) # i /\ m[x] = l[Pos(x)]
  OBVIOUS
<1>2. \A j \in DOMAIN m : m[j] \in Range(l) /\ m[j] # l[i]
  BY <1>1
<1>3. \A j \in DOMAIN l : j # i => l[j] \in Range(m)
  <2> SUFFICES ASSUME NEW j \in DOMAIN l, j # i
               PROVE  l[j] \in Range(m)
    OBVIOUS
  <2>1. CASE j < i
    <3>1. j \in DOMAIN m /\ m[j] = l[j]
      BY <2>1
    <3> QED
      BY <3>1
  <2>2. CASE j > i
    <3>1. j - 1 \in DOMAIN m /\ m[j - 1] = l[j]
      BY <2>2
    <3> QED
      BY <3>1
  <2> QED
    BY <2>1, <2>2
<1>4. ASSUME NEW j \in DOMAIN m, NEW k \in DOMAIN m, m[j] = m[k]
      PROVE  j = k
  <2>1. Pos(j) = Pos(k)
    BY <1>1, <1>4
  <2> QED
    BY <2>1
<1>5. Range(m) = Range(l) \ {l[i]}
  BY <1>2, <1>3
<1> QED
  BY <1>4, <1>5, Zenon

(* The timers of the list are in the order of their due times. *)
LEMMA SumsMonotone ==
  ASSUME NEW n \in Nat, NEW l, NEW c, NEW s, Prefix(s, l, c, n),
         \A k \in 1 .. n : c[l[k]] \in Nat,
         NEW i \in 0 .. n, NEW j \in i .. n
  PROVE  s[i] <= s[j]
<1> DEFINE S == {k \in Nat : i + k <= n => s[i] <= s[i + k]}
<1>0. /\ \A k \in 0 .. n : s[k] \in Nat
      /\ \A k \in 1 .. n : s[k] = s[k - 1] + c[l[k]]
  BY DEF Prefix
<1>1. 0 \in S
  <2>1. i + 0 = i /\ s[i] \in Nat /\ 0 \in Nat
    BY <1>0
  <2> QED
    BY <2>1
<1>2. ASSUME NEW k \in S
      PROVE  k + 1 \in S
  <2> SUFFICES ASSUME i + (k + 1) <= n
               PROVE  s[i] <= s[i + (k + 1)]
    OBVIOUS
  <2>1. /\ i + (k + 1) \in 1 .. n /\ (i + (k + 1)) - 1 = i + k /\ i + k \in 0 .. n
        /\ i + (k + 1) \in 0 .. n
    OBVIOUS
  <2>2. s[i + (k + 1)] = s[i + k] + c[l[i + (k + 1)]] /\ c[l[i + (k + 1)]] \in Nat
    BY <1>0, <2>1
  <2>3. s[i] <= s[i + k] /\ s[i] \in Nat /\ s[i + k] \in Nat
    BY <1>0, <2>1
  <2> QED
    BY <2>2, <2>3
<1>3. S \in SUBSET Nat
  OBVIOUS
<1>4. S = Nat
  <2> HIDE DEF S
  <2> QED
    BY <1>1, <1>2, <1>3, Induction
<1>5. j - i \in Nat /\ i + (j - i) = j /\ j <= n
  OBVIOUS
<1>6. j - i \in S
  BY <1>4, <1>5, Zenon
<1> QED
  BY <1>5, <1>6

(* The second to p-th timer of the list are due with the one in front. *)
Level(l, c, p) == \A i \in 2 .. p : c[l[i]] = 0

(* The first p sums are the same. *)
Flat(s, p) == \A j \in 1 .. p : s[j] = s[1]

(* Timers with no time to the one in front of them are due together: the   *)
(* ones check_expire moves to the wait_list.                               *)
LEMMA SumsLevel ==
  ASSUME NEW n \in Nat, NEW l, NEW c, NEW s, Prefix(s, l, c, n),
         NEW p \in 1 .. n, Level(l, c, p)
  PROVE  Flat(s, p)
<1> SUFFICES ASSUME NEW j \in 1 .. p
             PROVE  s[j] = s[1]
  BY DEF Flat
<1> DEFINE S == {k \in Nat : k + 1 <= p => s[k + 1] = s[1]}
<1>0. /\ \A k \in 0 .. n : s[k] \in Nat
      /\ \A k \in 1 .. n : s[k] = s[k - 1] + c[l[k]]
  BY DEF Prefix
<1>1. 0 \in S
  OBVIOUS
<1>2. ASSUME NEW k \in S
      PROVE  k + 1 \in S
  <2> SUFFICES ASSUME (k + 1) + 1 <= p
               PROVE  s[(k + 1) + 1] = s[1]
    OBVIOUS
  <2>1. /\ (k + 1) + 1 \in 1 .. n /\ (k + 1) + 1 \in 2 .. p
        /\ ((k + 1) + 1) - 1 = k + 1 /\ k + 1 <= p /\ k + 1 \in 0 .. n
    OBVIOUS
  <2>2. s[(k + 1) + 1] = s[k + 1] + c[l[(k + 1) + 1]] /\ s[k + 1] \in Nat
    BY <1>0, <2>1
  <2>3. c[l[(k + 1) + 1]] = 0 /\ s[k + 1] = s[1]
    BY <2>1 DEF Level
  <2> QED
    BY <2>2, <2>3
<1>3. S \in SUBSET Nat
  OBVIOUS
<1>4. S = Nat
  <2> HIDE DEF S
  <2> QED
    BY <1>1, <1>2, <1>3, Induction
<1>5. j - 1 \in Nat /\ (j - 1) + 1 = j /\ j <= p
  OBVIOUS
<1>6. j - 1 \in S
  BY <1>4, <1>5, Zenon
<1> QED
  BY <1>5, <1>6

(* The sums with ms put in behind the i-th. *)
SumsAfterInsert(s, n, i, ms) ==
  [j \in 0 .. (n + 1) |-> IF j <= i THEN s[j] ELSE IF j = i + 1 THEN ms ELSE s[j - 1]]

(* t is due at ms behind the i-th timer, and the one behind it has its     *)
(* time less what t has (timer.c:42-76).                                   *)
Placed(l, n, i, t, c, d, s, ms) ==
  /\ d[t] \in Nat
  /\ ms = s[i] + d[t]
  /\ i < n => d[l[i + 1]] = c[l[i + 1]] - d[t]
  /\ \A j \in 1 .. n : j # i + 1 => d[l[j]] = c[l[j]]

(* An insertion moves no due time but that of the new timer. *)
LEMMA SumsInsert ==
  ASSUME NEW n \in Nat, NEW l, NEW m, NEW i \in 0 .. n, NEW t, Inserted(m, l, n, i, t),
         NEW c, NEW d, NEW s, Prefix(s, l, c, n),
         \A j \in 1 .. n : c[l[j]] \in Nat,
         NEW ms \in Nat, Placed(l, n, i, t, c, d, s, ms)
  PROVE  Prefix(SumsAfterInsert(s, n, i, ms), m, d, n + 1)
<1>0. /\ d[t] \in Nat
      /\ ms = s[i] + d[t]
      /\ i < n => d[l[i + 1]] = c[l[i + 1]] - d[t]
      /\ \A j \in 1 .. n : j # i + 1 => d[l[j]] = c[l[j]]
  BY DEF Placed
<1> DEFINE g == SumsAfterInsert(s, n, i, ms)
<1>1. \A j \in 1 .. (n + 1) :
        m[j] = IF j <= i THEN l[j] ELSE IF j = i + 1 THEN t ELSE l[j - 1]
  BY DEF Inserted
<1>2. /\ \A k \in 0 .. n : s[k] \in Nat
      /\ s[0] = 0
      /\ \A k \in 1 .. n : s[k] = s[k - 1] + c[l[k]]
  BY DEF Prefix
<1>3. /\ g = [j \in 0 .. (n + 1) |-> g[j]]
      /\ \A j \in 0 .. (n + 1) :
           g[j] = IF j <= i THEN s[j] ELSE IF j = i + 1 THEN ms ELSE s[j - 1]
  BY DEF SumsAfterInsert
<1> HIDE DEF g
<1>4. ASSUME NEW j \in 0 .. (n + 1)
      PROVE  g[j] \in Nat
  <2>1. CASE j <= i
    BY <1>2, <1>3, <2>1
  <2>2. CASE j = i + 1
    BY <1>3, <2>2
  <2>3. CASE j > i + 1
    <3>1. g[j] = s[j - 1] /\ j - 1 \in 0 .. n
      BY <1>3, <2>3
    <3> QED
      BY <1>2, <3>1
  <2> QED
    BY <2>1, <2>2, <2>3
<1>5. ASSUME NEW j \in 1 .. (n + 1)
      PROVE  g[j] = g[j - 1] + d[m[j]]
  <2>0. j - 1 \in 0 .. (n + 1) /\ j \in 0 .. (n + 1)
    OBVIOUS
  <2>1. CASE j <= i
    <3>1. g[j] = s[j] /\ g[j - 1] = s[j - 1] /\ m[j] = l[j]
      BY <1>1, <1>3, <2>0, <2>1
    <3>2. s[j] = s[j - 1] + c[l[j]] /\ d[l[j]] = c[l[j]]
      BY <1>0, <1>2, <2>1
    <3> QED
      BY <3>1, <3>2
  <2>2. CASE j = i + 1
    <3>1. g[j] = ms /\ g[j - 1] = s[i] /\ m[j] = t
      BY <1>1, <1>3, <2>0, <2>2
    <3> QED
      BY <1>0, <3>1
  <2>3. CASE j > i + 1
    <3>1. g[j] = s[j - 1] /\ m[j] = l[j - 1] /\ j - 1 \in 1 .. n
      BY <1>1, <1>3, <2>0, <2>3
    <3>2. s[j - 1] = s[(j - 1) - 1] + c[l[j - 1]] /\ c[l[j - 1]] \in Nat
      BY <1>2, <3>1
    <3>3. CASE j - 1 = i + 1
      <4>1. g[j - 1] = ms
        BY <1>3, <2>0, <3>3
      <4>2. (j - 1) - 1 = i /\ s[i] \in Nat /\ i < n
        BY <1>2, <3>1, <3>3
      <4>3. d[l[j - 1]] = c[l[j - 1]] - d[t]
        BY <1>0, <3>3, <4>2
      <4> QED
        BY <1>0, <3>1, <3>2, <4>1, <4>2, <4>3
    <3>4. CASE j - 1 # i + 1
      <4>1. g[j - 1] = s[(j - 1) - 1]
        BY <1>3, <2>0, <2>3, <3>4
      <4>2. d[l[j - 1]] = c[l[j - 1]]
        BY <1>0, <3>1, <3>4
      <4> QED
        BY <3>1, <3>2, <4>1, <4>2
    <3> QED
      BY <3>3, <3>4
  <2> QED
    BY <2>1, <2>2, <2>3
<1>6. g[0] = 0
  BY <1>2, <1>3
<1>7. Prefix(g, m, d, n + 1)
  BY <1>3, <1>4, <1>5, <1>6, Zenon DEF Prefix
<1> QED
  BY <1>7 DEF g

(* The sums without the i-th. *)
SumsAfterRemove(s, n, i) == [j \in 0 .. (n - 1) |-> IF j < i THEN s[j] ELSE s[j + 1]]

(* When the timer behind it inherits its time, a removal moves no due time *)
(* (timer.c:109-128).                                                      *)
LEMMA SumsRemove ==
  ASSUME NEW n \in Nat, NEW l, NEW m, NEW i \in 1 .. n, Removed(m, l, n, i),
         NEW c, NEW d, NEW s, Prefix(s, l, c, n),
         \A j \in 1 .. n : c[l[j]] \in Nat,
         i < n => d[l[i + 1]] = c[l[i + 1]] + c[l[i]],
         \A j \in 1 .. n : j # i /\ j # i + 1 => d[l[j]] = c[l[j]]
  PROVE  Prefix(SumsAfterRemove(s, n, i), m, d, n - 1)
<1> DEFINE g == SumsAfterRemove(s, n, i)
<1>1. \A j \in 1 .. (n - 1) : m[j] = IF j < i THEN l[j] ELSE l[j + 1]
  BY DEF Removed
<1>2. /\ \A k \in 0 .. n : s[k] \in Nat
      /\ s[0] = 0
      /\ \A k \in 1 .. n : s[k] = s[k - 1] + c[l[k]]
  BY DEF Prefix
<1>3. /\ g = [j \in 0 .. (n - 1) |-> g[j]]
      /\ \A j \in 0 .. (n - 1) : g[j] = IF j < i THEN s[j] ELSE s[j + 1]
  BY DEF SumsAfterRemove
<1> HIDE DEF g
<1>4. ASSUME NEW j \in 0 .. (n - 1)
      PROVE  g[j] \in Nat
  <2>1. j \in 0 .. n /\ j + 1 \in 0 .. n
    OBVIOUS
  <2> QED
    BY <1>2, <1>3, <2>1
<1>5. ASSUME NEW j \in 1 .. (n - 1)
      PROVE  g[j] = g[j - 1] + d[m[j]]
  <2>0. /\ j - 1 \in 0 .. (n - 1) /\ j \in 0 .. (n - 1) /\ j \in 1 .. n /\ j + 1 \in 1 .. n
        /\ (j - 1) + 1 = j /\ (j + 1) - 1 = j
    OBVIOUS
  <2>1. CASE j < i
    <3>1. g[j] = s[j] /\ g[j - 1] = s[j - 1] /\ m[j] = l[j]
      BY <1>1, <1>3, <2>0, <2>1
    <3>2. s[j] = s[j - 1] + c[l[j]] /\ d[l[j]] = c[l[j]]
      BY <1>2, <2>0, <2>1
    <3> QED
      BY <3>1, <3>2
  <2>2. CASE j = i
    <3>1. g[j] = s[j + 1] /\ g[j - 1] = s[j - 1] /\ m[j] = l[j + 1]
      BY <1>1, <1>3, <2>0, <2>2
    <3>2. s[j + 1] = s[j] + c[l[j + 1]] /\ s[j] = s[j - 1] + c[l[j]]
      BY <1>2, <2>0
    <3>3. d[l[j + 1]] = c[l[j + 1]] + c[l[j]]
      BY <2>0, <2>2
    <3>4. s[j - 1] \in Nat /\ c[l[j]] \in Nat /\ c[l[j + 1]] \in Nat
      <4>1. j - 1 \in 0 .. n
        OBVIOUS
      <4> QED
        BY <1>2, <2>0, <4>1
    <3> QED
      BY <3>1, <3>2, <3>3, <3>4
  <2>3. CASE j > i
    <3>1. g[j] = s[j + 1] /\ m[j] = l[j + 1]
      BY <1>1, <1>3, <2>0, <2>3
    <3>2. g[j - 1] = s[j]
      BY <1>3, <2>0, <2>3
    <3>3. s[j + 1] = s[j] + c[l[j + 1]] /\ d[l[j + 1]] = c[l[j + 1]]
      BY <1>2, <2>0, <2>3
    <3> QED
      BY <3>1, <3>2, <3>3
  <2> QED
    BY <2>1, <2>2, <2>3
<1>6. g[0] = 0
  BY <1>2, <1>3
<1>7. Prefix(g, m, d, n - 1)
  BY <1>3, <1>4, <1>5, <1>6, Zenon DEF Prefix
<1> QED
  BY <1>7 DEF g

(* The sums behind the p-th, from there. *)
SumsAfterDrop(s, n, p) == [j \in 0 .. (n - p) |-> s[p + j] - s[p]]

(* Without its first p timers the list counts from the p-th. *)
LEMMA SumsDrop ==
  ASSUME NEW n \in Nat, NEW l, NEW m, NEW p \in 0 .. n,
         \A j \in 1 .. (n - p) : m[j] = l[p + j],
         NEW c, NEW d, NEW s, Prefix(s, l, c, n),
         \A j \in 1 .. n : c[l[j]] \in Nat,
         \A j \in (p + 1) .. n : d[l[j]] = c[l[j]]
  PROVE  Prefix(SumsAfterDrop(s, n, p), m, d, n - p)
<1> DEFINE g == SumsAfterDrop(s, n, p)
<1>2. /\ \A k \in 0 .. n : s[k] \in Nat
      /\ s[0] = 0
      /\ \A k \in 1 .. n : s[k] = s[k - 1] + c[l[k]]
  BY DEF Prefix
<1>3. /\ g = [j \in 0 .. (n - p) |-> g[j]]
      /\ \A j \in 0 .. (n - p) : g[j] = s[p + j] - s[p]
  BY DEF SumsAfterDrop
<1> HIDE DEF g
<1>4. ASSUME NEW j \in 0 .. (n - p)
      PROVE  g[j] \in Nat
  <2>1. p + j \in p .. n /\ p + j \in 0 .. n
    OBVIOUS
  <2>2. s[p] <= s[p + j]
    BY <2>1, SumsMonotone
  <2>3. s[p] \in Nat /\ s[p + j] \in Nat
    BY <1>2, <2>1
  <2> QED
    BY <1>3, <2>2, <2>3
<1>5. ASSUME NEW j \in 1 .. (n - p)
      PROVE  g[j] = g[j - 1] + d[m[j]]
  <2>1. /\ j - 1 \in 0 .. (n - p) /\ j \in 0 .. (n - p) /\ p + j \in 1 .. n
        /\ p + j \in (p + 1) .. n /\ (p + j) - 1 = p + (j - 1) /\ p + (j - 1) \in 0 .. n
    OBVIOUS
  <2>2. g[j] = s[p + j] - s[p] /\ g[j - 1] = s[p + (j - 1)] - s[p]
    BY <1>3, <2>1
  <2>3. s[p + j] = s[p + (j - 1)] + c[l[p + j]] /\ c[l[p + j]] \in Nat
    BY <1>2, <2>1
  <2>4. m[j] = l[p + j] /\ d[l[p + j]] = c[l[p + j]]
    BY <2>1
  <2>5. s[p] \in Nat /\ s[p + (j - 1)] \in Nat
    BY <1>2, <2>1
  <2> QED
    BY <2>2, <2>3, <2>4, <2>5
<1>6. g[0] = 0
  BY <1>2, <1>3
<1>7. Prefix(g, m, d, n - p)
  BY <1>3, <1>4, <1>5, <1>6, Zenon DEF Prefix
<1> QED
  BY <1>7 DEF g

(* The sums when e has passed. *)
SumsAfterAdvance(s, n, e) == [j \in 0 .. n |-> IF j = 0 THEN 0 ELSE s[j] - e]

(* The first timer has e less to wait, the others the same. *)
Shortened(l, n, c, d, e) ==
  /\ d[l[1]] = c[l[1]] - e
  /\ \A j \in 2 .. n : d[l[j]] = c[l[j]]

(* Taking e from the first timer takes it from all (timer.c:138-143). *)
LEMMA SumsAdvance ==
  ASSUME NEW n \in Nat, n > 0, NEW l, NEW c, NEW d, NEW s, Prefix(s, l, c, n),
         \A j \in 1 .. n : c[l[j]] \in Nat,
         NEW e \in Nat, e <= c[l[1]], Shortened(l, n, c, d, e)
  PROVE  Prefix(SumsAfterAdvance(s, n, e), l, d, n)
<1>0. /\ d[l[1]] = c[l[1]] - e
      /\ \A j \in 2 .. n : d[l[j]] = c[l[j]]
  BY DEF Shortened
<1> DEFINE g == SumsAfterAdvance(s, n, e)
<1>2. /\ \A k \in 0 .. n : s[k] \in Nat
      /\ s[0] = 0
      /\ \A k \in 1 .. n : s[k] = s[k - 1] + c[l[k]]
  BY DEF Prefix
<1>1. c[l[1]] \in Nat /\ e \in Nat /\ e <= c[l[1]] /\ s[1] = c[l[1]] /\ 1 \in 0 .. n
  BY <1>2
<1>3. /\ g = [j \in 0 .. n |-> g[j]]
      /\ \A j \in 0 .. n : g[j] = IF j = 0 THEN 0 ELSE s[j] - e
  BY DEF SumsAfterAdvance
<1> HIDE DEF g
<1>4. ASSUME NEW j \in 0 .. n
      PROVE  g[j] \in Nat
  <2>1. CASE j = 0
    BY <1>3, <2>1
  <2>2. CASE j # 0
    <3>1. j \in 1 .. n
      BY <2>2
    <3>2. s[1] <= s[j]
      BY <1>1, <3>1, SumsMonotone
    <3>3. s[j] \in Nat /\ g[j] = s[j] - e
      BY <1>2, <1>3, <2>2
    <3> QED
      BY <1>1, <3>2, <3>3
  <2> QED
    BY <2>1, <2>2
<1>5. ASSUME NEW j \in 1 .. n
      PROVE  g[j] = g[j - 1] + d[l[j]]
  <2>1. j \in 0 .. n /\ j - 1 \in 0 .. n
    OBVIOUS
  <2>2. g[j] = s[j] - e /\ s[j] = s[j - 1] + c[l[j]]
    BY <1>2, <1>3, <2>1
  <2>3. CASE j = 1
    <3>1. g[j - 1] = 0 /\ s[j] = c[l[1]] /\ d[l[j]] = c[l[1]] - e
      BY <1>0, <1>1, <1>3, <2>1, <2>3
    <3> QED
      BY <1>1, <2>2, <3>1
  <2>4. CASE j # 1
    <3>1. g[j - 1] = s[j - 1] - e /\ d[l[j]] = c[l[j]] /\ c[l[j]] \in Nat
      BY <1>0, <1>3, <2>1, <2>4
    <3>2. s[j - 1] \in Nat
      BY <1>2, <2>1
    <3> QED
      BY <1>1, <2>2, <3>1, <3>2
  <2> QED
    BY <2>3, <2>4
<1>6. g[0] = 0
  BY <1>3
<1>7. Prefix(g, l, d, n)
  BY <1>3, <1>4, <1>5, <1>6, Zenon DEF Prefix
<1> QED
  BY <1>7 DEF g

(* left is the time each timer of l has left, s the sums of l. *)
LeftOf(left, l, s) ==
  /\ left = [t \in Timers |-> left[t]]
  /\ \A i \in 1 .. Len(l) : left[l[i]] = s[i]
  /\ \A t \in Timers \ Range(l) : left[t] = 0

(* A timer is linked once, so the position CHOOSE finds in Left is its own. *)
LEMMA LeftIs ==
  ASSUME NEW l \in Seq(Timers), IsInjective(l), NEW c, NEW s, Prefix(s, l, c, Len(l))
  PROVE  LeftOf(Left(l, c), l, s)
<1> DEFINE left == Left(l, c)
<1>1. Sums(l, c) = s
  <2>1. Len(l) \in Nat
    OBVIOUS
  <2> QED
    BY <2>1, SumsIs
<1> DEFINE Value(t) == IF t \in Range(l) THEN s[CHOOSE i \in DOMAIN l : l[i] = t] ELSE 0
<1>a. left = [t \in Timers |-> Value(t)]
  BY <1>1 DEF Left
<1> HIDE DEF left, Value
<1>b. left = [t \in Timers |-> left[t]] /\ \A t \in Timers : left[t] = Value(t)
  BY <1>a
<1>2. /\ left = [t \in Timers |-> left[t]]
      /\ \A t \in Timers : left[t] = IF t \in Range(l)
                                     THEN s[CHOOSE i \in DOMAIN l : l[i] = t] ELSE 0
  BY <1>b DEF Value
<1>3. ASSUME NEW i \in 1 .. Len(l)
      PROVE  left[l[i]] = s[i]
  <2>1. i \in DOMAIN l /\ l[i] \in Timers
    OBVIOUS
  <2>2. (CHOOSE k \in DOMAIN l : l[k] = l[i]) = i
    BY <2>1 DEF IsInjective
  <2>3. l[i] \in Range(l)
    BY <2>1 DEF Range
  <2> QED
    BY <1>2, <2>1, <2>2, <2>3
<1>4. \A t \in Timers \ Range(l) : left[t] = 0
  BY <1>2, Zenon
<1>5. LeftOf(left, l, s)
  BY <1>2, <1>3, <1>4, Zenon DEF LeftOf
<1> QED
  BY <1>5 DEF left

(* What the worker finds in the timer_list: each timer once, and the first *)
(* one not due yet.                                                        *)
Sound(l, c) ==
  /\ l \in Seq(Timers) /\ c \in [Timers -> Nat]
  /\ IsInjective(l)
  /\ l # <<>> => c[l[1]] > 0

(* m, d is the list and the times of l, c with t due in ms. *)
Armed(m, d, l, c, t, ms) ==
  /\ Sound(m, d)
  /\ Range(m) = Range(l) \cup {t}
  /\ Left(m, d) = [Left(l, c) EXCEPT ![t] = ms]

(* The sums of a sound list, spelled out. *)
LEMMA SoundSums ==
  ASSUME NEW l, NEW c, Sound(l, c)
  PROVE  /\ Len(l) \in Nat
         /\ Prefix(Sums(l, c), l, c, Len(l))
         /\ \A j \in 1 .. Len(l) : l[j] \in Timers /\ c[l[j]] \in Nat /\ l[j] \in Range(l)
         /\ \A j \in 0 .. Len(l) : Sums(l, c)[j] \in Nat
         /\ Sums(l, c)[0] = 0
         /\ \A j \in 1 .. Len(l) : Sums(l, c)[j] = Sums(l, c)[j - 1] + c[l[j]]
         /\ LeftOf(Left(l, c), l, Sums(l, c))
<1>1. l \in Seq(Timers) /\ c \in [Timers -> Nat] /\ IsInjective(l)
  BY DEF Sound
<1>2. Prefix(Sums(l, c), l, c, Len(l))
  BY <1>1, SumsAre, Zenon
<1>3. LeftOf(Left(l, c), l, Sums(l, c))
  BY <1>1, <1>2, LeftIs, Zenon
<1>4. /\ Len(l) \in Nat
      /\ \A j \in 1 .. Len(l) : l[j] \in Timers /\ c[l[j]] \in Nat /\ l[j] \in Range(l)
  BY <1>1 DEF Range
<1>5. /\ \A j \in 0 .. Len(l) : Sums(l, c)[j] \in Nat
      /\ Sums(l, c)[0] = 0
      /\ \A j \in 1 .. Len(l) : Sums(l, c)[j] = Sums(l, c)[j - 1] + c[l[j]]
  BY <1>2 DEF Prefix
<1> QED
  BY <1>2, <1>3, <1>4, <1>5, Zenon

(* Wherever Placed puts it, the new timer is armed, the list sound. *)
LEMMA InsertPlaced ==
  ASSUME NEW l, NEW c, Sound(l, c), NEW d \in [Timers -> Nat],
         NEW t \in Timers, t \notin Range(l), NEW ms \in Nat \ {0},
         NEW i \in 0 .. Len(l), Placed(l, Len(l), i, t, c, d, Sums(l, c), ms)
  PROVE  Armed(nlist_insert_after(l, i, t), d, l, c, t, ms)
<1> DEFINE s == Sums(l, c)
           m == nlist_insert_after(l, i, t)
           g == SumsAfterInsert(s, Len(l), i, ms)
<1>1. /\ Len(l) \in Nat
      /\ Prefix(s, l, c, Len(l))
      /\ \A j \in 1 .. Len(l) : l[j] \in Timers /\ c[l[j]] \in Nat /\ l[j] \in Range(l)
      /\ \A j \in 0 .. Len(l) : s[j] \in Nat
      /\ s[0] = 0
      /\ LeftOf(Left(l, c), l, s)
  BY SoundSums, Zenon
<1>2. l \in Seq(Timers) /\ IsInjective(l) /\ (l # <<>> => c[l[1]] > 0)
  BY DEF Sound
<1>3. m \in Seq(Timers) /\ Inserted(m, l, Len(l), i, t)
  BY <1>2, InsertElements, Zenon
<1>4. Range(m) = Range(l) \cup {t} /\ IsInjective(m)
  BY <1>2, <1>3, InsertRange
<1>5. Len(m) = Len(l) + 1
        /\ \A j \in 1 .. (Len(l) + 1) :
             m[j] = IF j <= i THEN l[j] ELSE IF j = i + 1 THEN t ELSE l[j - 1]
  BY <1>3 DEF Inserted
<1> HIDE DEF s, m
<1>6. Prefix(g, m, d, Len(m))
  <2>1. Placed(l, Len(l), i, t, c, d, s, ms) /\ ms \in Nat
    BY DEF s
  <2>2. Prefix(SumsAfterInsert(s, Len(l), i, ms), m, d, Len(l) + 1)
    <3>1. \A j \in 1 .. Len(l) : c[l[j]] \in Nat
      BY <1>1
    <3> QED
      BY <1>1, <1>3, <2>1, <3>1, SumsInsert, Zenon
  <2> QED
    BY <1>5, <2>2
<1>7. LeftOf(Left(m, d), m, g)
  <2> HIDE DEF g
  <2> QED
    BY <1>3, <1>4, <1>6, LeftIs, Zenon
<1>8. \A j \in 0 .. (Len(l) + 1) :
        g[j] = IF j <= i THEN s[j] ELSE IF j = i + 1 THEN ms ELSE s[j - 1]
  BY <1>1 DEF SumsAfterInsert
<1> HIDE DEF g
<1>9. Left(m, d) = [Left(l, c) EXCEPT ![t] = ms]
  <2> DEFINE a == Left(l, c)
             b == Left(m, d)
  <2>1. /\ a = [u \in Timers |-> a[u]]
        /\ \A j \in 1 .. Len(l) : a[l[j]] = s[j]
        /\ \A u \in Timers \ Range(l) : a[u] = 0
    BY <1>1 DEF LeftOf
  <2>2. /\ b = [u \in Timers |-> b[u]]
        /\ \A j \in 1 .. (Len(l) + 1) : b[m[j]] = g[j]
        /\ \A u \in Timers \ Range(m) : b[u] = 0
    BY <1>5, <1>7, Zenon DEF LeftOf
  <2> HIDE DEF a, b
  <2>3. b[t] = ms
    <3>1. i + 1 \in 1 .. (Len(l) + 1) /\ i + 1 \in 0 .. (Len(l) + 1)
      BY <1>1
    <3>2. m[i + 1] = t /\ g[i + 1] = ms
      BY <1>5, <1>8, <3>1
    <3> QED
      BY <2>2, <3>1, <3>2
  <2>4. ASSUME NEW u \in Timers, u # t
        PROVE  b[u] = a[u]
    <3>1. CASE u \in Range(l)
      <4>1. PICK j \in 1 .. Len(l) : l[j] = u
        BY <1>2, <3>1 DEF Range
      <4>2. CASE j <= i
        <5>1. j \in 1 .. (Len(l) + 1) /\ j \in 0 .. (Len(l) + 1)
          BY <1>1
        <5>2. m[j] = l[j] /\ g[j] = s[j]
          BY <1>5, <1>8, <4>2, <5>1
        <5> QED
          BY <2>1, <2>2, <4>1, <5>1, <5>2, Zenon
      <4>3. CASE j > i
        <5>1. j + 1 \in 1 .. (Len(l) + 1) /\ j + 1 \in 0 .. (Len(l) + 1) /\ (j + 1) - 1 = j
          BY <1>1
        <5>2. m[j + 1] = l[j]
          BY <1>5, <4>3, <5>1
        <5>3. g[j + 1] = s[j]
          BY <1>8, <4>3, <5>1
        <5> QED
          BY <2>1, <2>2, <4>1, <5>1, <5>2, <5>3, Zenon
      <4> QED
        BY <1>1, <4>2, <4>3
    <3>2. CASE u \notin Range(l)
      BY <1>4, <2>1, <2>2, <2>4, <3>2
    <3> QED
      BY <3>1, <3>2
  <2>5. b = [a EXCEPT ![t] = ms]
    BY <2>1, <2>2, <2>3, <2>4
  <2> QED
    BY <2>5 DEF a, b
<1>10. d[m[1]] > 0
  <2>1. CASE i = 0
    <3>1. m[1] = t
      BY <1>1, <1>5, <2>1
    <3>2. d[t] = ms /\ d[t] \in Nat
      BY <1>1, <2>1 DEF s, Placed
    <3> QED
      BY <3>1, <3>2
  <2>2. CASE i # 0
    <3>1. m[1] = l[1] /\ 1 \in 1 .. Len(l) /\ l # <<>>
      BY <1>1, <1>2, <1>5, <2>2
    <3>2. d[l[1]] = c[l[1]]
      BY <2>2, <3>1 DEF Placed
    <3> QED
      BY <1>2, <3>1, <3>2
  <2> QED
    BY <2>1, <2>2
<1>11. Sound(m, d)
  BY <1>3, <1>4, <1>10 DEF Sound
<1>12. Armed(m, d, l, c, t, ms)
  BY <1>4, <1>9, <1>11, Zenon DEF Armed
<1> QED
  BY <1>12 DEF m

(* The walk of insert_timer ends at such a place, in each of its three     *)
(* cases: the timer is armed for ms and nothing else moves.                *)
LEMMA InsertArms ==
  ASSUME Sound(timer_list, curr), NEW t \in Timers, t \notin Range(timer_list),
         NEW ms \in Nat \ {0}, insert_timer(t, ms)
  PROVE  Armed(timer_list', curr', timer_list, curr, t, ms)
<1> DEFINE l == timer_list
           c == curr
           d == curr'
           s == Sums(timer_list, curr)
<1>1. PICK n \in 0 .. Len(l) :
        /\ \A i \in 1 .. n : ms - s[i - 1] > c[l[i]]
        /\ n < Len(l) => ms - s[n] <= c[l[n + 1]]
        /\ \/ /\ n = Len(l)
              /\ timer_list' = nlist_insert_after(l, n, t)
              /\ d = [c EXCEPT ![t] = ms - s[n]]
           \/ /\ n < Len(l) /\ ms - s[n] = c[l[n + 1]]
              /\ timer_list' = nlist_insert_after(l, n + 1, t)
              /\ d = [c EXCEPT ![t] = 0]
           \/ /\ n < Len(l) /\ ms - s[n] < c[l[n + 1]]
              /\ timer_list' = nlist_insert_after(l, n, t)
              /\ d = [c EXCEPT ![t] = ms - s[n], ![l[n + 1]] = @ - (ms - s[n])]
  BY Zenon DEF insert_timer, Stops, Due
<1>2. /\ Len(l) \in Nat
      /\ \A j \in 1 .. Len(l) : l[j] \in Timers /\ c[l[j]] \in Nat /\ l[j] \in Range(l)
      /\ \A j \in 0 .. Len(l) : s[j] \in Nat
      /\ s[0] = 0
      /\ \A j \in 1 .. Len(l) : s[j] = s[j - 1] + c[l[j]]
  BY SoundSums, Zenon
<1>3. c \in [Timers -> Nat] /\ l \in Seq(Timers) /\ IsInjective(l)
  BY DEF Sound
<1>4. \A j, k \in 1 .. Len(l) : l[j] = l[k] => j = k
  BY <1>3 DEF IsInjective
<1>5. \A j \in 1 .. Len(l) : l[j] # t
  BY <1>2
<1>6. Sound(l, c) /\ t \notin Range(l)
  OBVIOUS
<1> SUFFICES Armed(timer_list', d, l, c, t, ms)
  OBVIOUS
<1> HIDE DEF l, c, d, s
<1>7. ms - s[n] \in Nat /\ s[n] \in Nat
  <2>1. CASE n = 0
    BY <1>2, <2>1
  <2>2. CASE n # 0
    <3>1. n \in 1 .. n /\ n \in 1 .. Len(l) /\ n - 1 \in 0 .. Len(l)
      BY <1>2, <2>2
    <3>2. ms - s[n - 1] > c[l[n]] /\ s[n] = s[n - 1] + c[l[n]]
      BY <1>1, <1>2, <3>1
    <3>3. s[n - 1] \in Nat /\ c[l[n]] \in Nat /\ s[n] \in Nat
      BY <1>2, <3>1
    <3> QED
      BY <3>2, <3>3
  <2> QED
    BY <2>1, <2>2
<1>8. ASSUME NEW i \in 0 .. Len(l), timer_list' = nlist_insert_after(l, i, t),
             d \in [Timers -> Nat], Placed(l, Len(l), i, t, c, d, s, ms)
      PROVE  Armed(timer_list', d, l, c, t, ms)
  <2>1. Armed(nlist_insert_after(l, i, t), d, l, c, t, ms)
    BY <1>6, <1>8, InsertPlaced DEF s, l, c
  <2> QED
    BY <1>8, <2>1
<1>9. CASE /\ n = Len(l)
           /\ timer_list' = nlist_insert_after(l, n, t)
           /\ d = [c EXCEPT ![t] = ms - s[n]]
  <2>1. d \in [Timers -> Nat] /\ d[t] = ms - s[n] /\ \A j \in 1 .. Len(l) : d[l[j]] = c[l[j]]
    BY <1>2, <1>3, <1>5, <1>7, <1>9
  <2>2. Placed(l, Len(l), n, t, c, d, s, ms)
    BY <1>2, <1>7, <1>9, <2>1 DEF Placed
  <2> QED
    BY <1>8, <1>9, <2>1, <2>2, Zenon
<1>10. CASE /\ n < Len(l) /\ ms - s[n] = c[l[n + 1]]
            /\ timer_list' = nlist_insert_after(l, n + 1, t)
            /\ d = [c EXCEPT ![t] = 0]
  <2>1. d \in [Timers -> Nat] /\ d[t] = 0 /\ \A j \in 1 .. Len(l) : d[l[j]] = c[l[j]]
    BY <1>2, <1>3, <1>5, <1>10
  <2>2. n + 1 \in 0 .. Len(l) /\ n + 1 \in 1 .. Len(l) /\ (n + 1) - 1 = n
    BY <1>2, <1>10
  <2>3. s[n + 1] = s[n] + c[l[n + 1]] /\ c[l[n + 1]] \in Nat
    BY <1>2, <2>2
  <2>4. ms = s[n + 1] + d[t] /\ d[t] \in Nat
    BY <1>7, <1>10, <2>1, <2>3
  <2>5. n + 1 < Len(l) => d[l[(n + 1) + 1]] = c[l[(n + 1) + 1]] - d[t]
    <3> SUFFICES ASSUME n + 1 < Len(l)
                 PROVE  d[l[(n + 1) + 1]] = c[l[(n + 1) + 1]] - d[t]
      OBVIOUS
    <3>1. (n + 1) + 1 \in 1 .. Len(l)
      BY <1>2
    <3> QED
      BY <1>2, <2>1, <3>1
  <2>6. Placed(l, Len(l), n + 1, t, c, d, s, ms)
    BY <2>1, <2>4, <2>5 DEF Placed
  <2> QED
    BY <1>8, <1>10, <2>1, <2>2, <2>6, Zenon
<1>11. CASE /\ n < Len(l) /\ ms - s[n] < c[l[n + 1]]
            /\ timer_list' = nlist_insert_after(l, n, t)
            /\ d = [c EXCEPT ![t] = ms - s[n], ![l[n + 1]] = @ - (ms - s[n])]
  <2>1. n + 1 \in 1 .. Len(l) /\ l[n + 1] # t /\ l[n + 1] \in Timers /\ c[l[n + 1]] \in Nat
    BY <1>2, <1>5, <1>11
  <2>2. c[l[n + 1]] - (ms - s[n]) \in Nat
    BY <1>7, <1>11, <2>1
  <2>3. d \in [Timers -> Nat] /\ d[t] = ms - s[n] /\ d[l[n + 1]] = c[l[n + 1]] - (ms - s[n])
    BY <1>3, <1>7, <1>11, <2>1, <2>2, Zenon
  <2>4. ASSUME NEW j \in 1 .. Len(l), j # n + 1
        PROVE  d[l[j]] = c[l[j]]
    <3>1. l[j] # t /\ l[j] # l[n + 1] /\ l[j] \in Timers
      BY <1>2, <1>4, <1>5, <2>1, <2>4
    <3> QED
      BY <1>3, <1>11, <3>1
  <2>5. Placed(l, Len(l), n, t, c, d, s, ms)
    BY <1>7, <2>3, <2>4 DEF Placed
  <2> QED
    BY <1>8, <1>11, <2>3, <2>5, Zenon
<1> QED
  BY <1>1, <1>9, <1>10, <1>11, Zenon

(* m, d is the list and the times of l, c without t. *)
Disarmed(m, d, l, c, t) ==
  /\ Sound(m, d)
  /\ Range(m) = Range(l) \ {t}
  /\ Left(m, d) = [Left(l, c) EXCEPT ![t] = 0]

(* What net_timer_remove does disarms the timer and moves nothing else. *)
LEMMA RemoveDisarms ==
  ASSUME NEW l, NEW c, Sound(l, c), NEW i \in 1 .. Len(l), NEW d,
         d = IF i = Len(l) THEN c ELSE [c EXCEPT ![l[i + 1]] = @ + c[l[i]]]
  PROVE  Disarmed(nlist_remove(l, i), d, l, c, l[i])
<1> DEFINE s == Sums(l, c)
           m == nlist_remove(l, i)
           g == SumsAfterRemove(s, Len(l), i)
<1>1. /\ Len(l) \in Nat
      /\ Prefix(s, l, c, Len(l))
      /\ \A j \in 1 .. Len(l) : l[j] \in Timers /\ c[l[j]] \in Nat /\ l[j] \in Range(l)
      /\ \A j \in 0 .. Len(l) : s[j] \in Nat
      /\ s[0] = 0
      /\ LeftOf(Left(l, c), l, s)
  BY SoundSums, Zenon
<1>2. /\ l \in Seq(Timers) /\ c \in [Timers -> Nat] /\ IsInjective(l)
      /\ l # <<>> => c[l[1]] > 0
  BY DEF Sound
<1>3. m \in Seq(Timers) /\ Removed(m, l, Len(l), i)
  BY <1>2, RemoveElements, Zenon
<1>4. Range(m) = Range(l) \ {l[i]} /\ IsInjective(m)
  BY <1>2, <1>3, RemoveRange
<1>5. Len(m) = Len(l) - 1
        /\ \A j \in 1 .. (Len(l) - 1) : m[j] = IF j < i THEN l[j] ELSE l[j + 1]
  BY <1>3 DEF Removed
<1> HIDE DEF s, m
<1>6. \A j, k \in 1 .. Len(l) : l[j] = l[k] => j = k
  BY <1>2 DEF IsInjective
<1>7. /\ d \in [Timers -> Nat]
      /\ i < Len(l) => d[l[i + 1]] = c[l[i + 1]] + c[l[i]]
      /\ \A j \in 1 .. Len(l) : j # i /\ j # i + 1 => d[l[j]] = c[l[j]]
  <2>1. CASE i = Len(l)
    BY <1>1, <1>2, <2>1
  <2>2. CASE i < Len(l)
    <3>1. i + 1 \in 1 .. Len(l) /\ d = [c EXCEPT ![l[i + 1]] = c[l[i + 1]] + c[l[i]]]
      BY <1>1, <2>2
    <3>2. l[i + 1] \in Timers /\ c[l[i + 1]] + c[l[i]] \in Nat
      BY <1>1, <3>1
    <3>3. d \in [Timers -> Nat] /\ d[l[i + 1]] = c[l[i + 1]] + c[l[i]]
      BY <1>2, <3>1, <3>2
    <3>4. ASSUME NEW j \in 1 .. Len(l), j # i + 1
          PROVE  d[l[j]] = c[l[j]]
      <4>1. l[j] # l[i + 1] /\ l[j] \in Timers
        BY <1>1, <1>6, <3>1, <3>4
      <4> QED
        BY <1>2, <3>1, <4>1
    <3> QED
      BY <3>3, <3>4
  <2> QED
    BY <1>1, <2>1, <2>2
<1>8. Prefix(g, m, d, Len(m))
  <2>1. \A j \in 1 .. Len(l) : c[l[j]] \in Nat
    BY <1>1
  <2>2. Prefix(SumsAfterRemove(s, Len(l), i), m, d, Len(l) - 1)
    BY <1>1, <1>3, <1>7, <2>1, SumsRemove, Zenon
  <2> QED
    BY <1>5, <2>2
<1>9. LeftOf(Left(m, d), m, g)
  <2> HIDE DEF g
  <2> QED
    BY <1>3, <1>4, <1>8, LeftIs, Zenon
<1>10. \A j \in 0 .. (Len(l) - 1) : g[j] = IF j < i THEN s[j] ELSE s[j + 1]
  BY <1>1 DEF SumsAfterRemove
<1> HIDE DEF g
<1>11. Left(m, d) = [Left(l, c) EXCEPT ![l[i]] = 0]
  <2> DEFINE a == Left(l, c)
             b == Left(m, d)
  <2>1. /\ a = [u \in Timers |-> a[u]]
        /\ \A j \in 1 .. Len(l) : a[l[j]] = s[j]
        /\ \A u \in Timers \ Range(l) : a[u] = 0
    BY <1>1 DEF LeftOf
  <2>2. /\ b = [u \in Timers |-> b[u]]
        /\ \A j \in 1 .. (Len(l) - 1) : b[m[j]] = g[j]
        /\ \A u \in Timers \ Range(m) : b[u] = 0
    BY <1>5, <1>9, Zenon DEF LeftOf
  <2> HIDE DEF a, b
  <2>3. b[l[i]] = 0 /\ l[i] \in Timers
    BY <1>1, <1>4, <2>2
  <2>4. ASSUME NEW u \in Timers, u # l[i]
        PROVE  b[u] = a[u]
    <3>1. CASE u \in Range(l)
      <4>1. PICK j \in 1 .. Len(l) : l[j] = u
        BY <1>2, <3>1 DEF Range
      <4>2. CASE j < i
        <5>1. j \in 1 .. (Len(l) - 1) /\ j \in 0 .. (Len(l) - 1)
          BY <1>1, <4>2
        <5>2. m[j] = l[j] /\ g[j] = s[j]
          BY <1>5, <1>10, <4>2, <5>1
        <5> QED
          BY <2>1, <2>2, <4>1, <5>1, <5>2, Zenon
      <4>3. CASE j > i
        <5>1. j - 1 \in 1 .. (Len(l) - 1) /\ j - 1 \in 0 .. (Len(l) - 1) /\ (j - 1) + 1 = j
          BY <1>1, <4>3
        <5>2. m[j - 1] = l[j]
          BY <1>5, <4>3, <5>1
        <5>3. g[j - 1] = s[j]
          BY <1>10, <4>3, <5>1
        <5> QED
          BY <2>1, <2>2, <4>1, <5>1, <5>2, <5>3, Zenon
      <4> QED
        BY <1>1, <2>4, <4>1, <4>2, <4>3
    <3>2. CASE u \notin Range(l)
      BY <1>4, <2>1, <2>2, <3>2
    <3> QED
      BY <3>1, <3>2
  <2>5. b = [a EXCEPT ![l[i]] = 0]
    BY <2>1, <2>2, <2>3, <2>4
  <2> QED
    BY <2>5 DEF a, b
<1>12. ASSUME m # <<>>
       PROVE  d[m[1]] > 0
  <2>0. 1 \in 1 .. (Len(l) - 1) /\ l # <<>> /\ 1 \in 1 .. Len(l)
    BY <1>1, <1>2, <1>3, <1>5, <1>12
  <2>1. CASE i = 1
    <3>1. m[1] = l[2] /\ 2 \in 1 .. Len(l) /\ i < Len(l) /\ i + 1 = 2
      BY <1>1, <1>5, <2>0, <2>1
    <3>2. d[l[2]] = c[l[2]] + c[l[1]] /\ c[l[2]] \in Nat
      BY <1>1, <1>7, <2>1, <3>1
    <3> QED
      BY <1>1, <1>2, <2>0, <3>1, <3>2
  <2>2. CASE i # 1
    <3>1. m[1] = l[1]
      BY <1>5, <2>0, <2>2
    <3>2. d[l[1]] = c[l[1]]
      BY <1>7, <2>0, <2>2
    <3> QED
      BY <1>2, <2>0, <3>1, <3>2
  <2> QED
    BY <2>1, <2>2
<1>13. Sound(m, d)
  BY <1>3, <1>4, <1>7, <1>12 DEF Sound
<1>14. Disarmed(m, d, l, c, l[i])
  BY <1>4, <1>11, <1>13, Zenon DEF Disarmed
<1> QED
  BY <1>14 DEF m

(* The time left when e has passed. *)
Passed(left, l, e) ==
  [t \in Timers |-> IF t \in Range(l) THEN left[t] - e ELSE left[t]]

(* e has passed and no timer is due. *)
Advanced(d, l, c, e) ==
  /\ Sound(l, d)
  /\ \A t \in Range(l) : Left(l, c)[t] > e
  /\ Left(l, d) = Passed(Left(l, c), l, e)

(* The end of a check takes what is left of the time from every timer. *)
LEMMA AdvanceLeft ==
  ASSUME NEW l, NEW c, Sound(l, c), l # <<>>, NEW e \in Nat, e < c[l[1]], NEW d,
         d = [c EXCEPT ![l[1]] = @ - e]
  PROVE  Advanced(d, l, c, e)
<1> DEFINE s == Sums(l, c)
           g == SumsAfterAdvance(s, Len(l), e)
           a == Left(l, c)
           b == Left(l, d)
<1>1. /\ Len(l) \in Nat
      /\ Prefix(s, l, c, Len(l))
      /\ \A j \in 1 .. Len(l) : l[j] \in Timers /\ c[l[j]] \in Nat /\ l[j] \in Range(l)
      /\ \A j \in 0 .. Len(l) : s[j] \in Nat
      /\ s[0] = 0
      /\ \A j \in 1 .. Len(l) : s[j] = s[j - 1] + c[l[j]]
      /\ LeftOf(Left(l, c), l, s)
  BY SoundSums, Zenon
<1>2. l \in Seq(Timers) /\ c \in [Timers -> Nat] /\ IsInjective(l)
  BY DEF Sound
<1> HIDE DEF s
<1>3. Len(l) \in Nat \ {0} /\ 1 \in 1 .. Len(l)
  BY <1>2
<1>4. \A j, k \in 1 .. Len(l) : l[j] = l[k] => j = k
  BY <1>2 DEF IsInjective
<1>5. /\ d \in [Timers -> Nat] /\ d[l[1]] = c[l[1]] - e
      /\ \A j \in 2 .. Len(l) : d[l[j]] = c[l[j]]
  <2>1. l[1] \in Timers /\ c[l[1]] - e \in Nat
    BY <1>1, <1>3
  <2>2. d \in [Timers -> Nat] /\ d[l[1]] = c[l[1]] - e
    BY <1>2, <2>1
  <2>3. ASSUME NEW j \in 2 .. Len(l)
        PROVE  d[l[j]] = c[l[j]]
    <3>1. j \in 1 .. Len(l) /\ j # 1
      OBVIOUS
    <3>2. l[j] # l[1] /\ l[j] \in Timers
      BY <1>1, <1>3, <1>4, <3>1
    <3> QED
      BY <1>2, <3>2
  <2> QED
    BY <2>2, <2>3
<1>6. Prefix(g, l, d, Len(l))
  <2>1. \A j \in 1 .. Len(l) : c[l[j]] \in Nat
    BY <1>1
  <2>2. e <= c[l[1]] /\ Len(l) > 0
    BY <1>3, <2>1
  <2>3. Shortened(l, Len(l), c, d, e)
    BY <1>5 DEF Shortened
  <2> QED
    BY <1>1, <2>1, <2>2, <2>3, SumsAdvance, Zenon
<1>7. LeftOf(Left(l, d), l, g)
  <2> HIDE DEF g
  <2> QED
    BY <1>2, <1>6, LeftIs, Zenon
<1>8. \A j \in 1 .. Len(l) : g[j] = s[j] - e
  BY <1>1 DEF SumsAfterAdvance
<1>9. \A j \in 1 .. Len(l) : s[j] > e
  <2> TAKE j \in 1 .. Len(l)
  <2>1. s[1] <= s[j]
    <3>1. \A k \in 1 .. Len(l) : c[l[k]] \in Nat
      BY <1>1
    <3>2. 1 \in 0 .. Len(l) /\ j \in 1 .. Len(l)
      BY <1>3
    <3> QED
      BY <1>1, <3>1, <3>2, SumsMonotone, Zenon
  <2>2. s[1] = c[l[1]] /\ c[l[1]] \in Nat /\ s[j] \in Nat
    BY <1>1, <1>3
  <2> QED
    BY <2>1, <2>2
<1> HIDE DEF g
<1>10. /\ a = [u \in Timers |-> a[u]]
       /\ \A j \in 1 .. Len(l) : a[l[j]] = s[j]
       /\ \A u \in Timers \ Range(l) : a[u] = 0
  BY <1>1 DEF LeftOf
<1>11. /\ b = [u \in Timers |-> b[u]]
       /\ \A j \in 1 .. Len(l) : b[l[j]] = g[j]
       /\ \A u \in Timers \ Range(l) : b[u] = 0
  BY <1>7, Zenon DEF LeftOf
<1> HIDE DEF a, b
<1>12. ASSUME NEW u \in Range(l)
       PROVE  a[u] > e /\ b[u] = a[u] - e
  <2>1. PICK j \in 1 .. Len(l) : l[j] = u
    BY <1>2 DEF Range
  <2> QED
    BY <1>8, <1>9, <1>10, <1>11, <2>1
<1>13. b = Passed(a, l, e)
  <2>1. \A u \in Timers : b[u] = IF u \in Range(l) THEN a[u] - e ELSE a[u]
    BY <1>10, <1>11, <1>12, Zenon
  <2> QED
    BY <1>11, <2>1 DEF Passed
<1>14. Sound(l, d)
  <2>1. d[l[1]] > 0
    BY <1>1, <1>3, <1>5
  <2> QED
    BY <1>2, <1>5, <2>1 DEF Sound
<1> QED
  BY <1>12, <1>13, <1>14 DEF Advanced, a, b

(* m, d is the list after e, w the timers due at e, which is the first due *)
(* time.                                                                   *)
Expired(m, w, d, l, c, e) ==
  /\ Sound(m, d)
  /\ w \in Seq(Timers) /\ IsInjective(w)
  /\ \A u \in Range(l) : Left(l, c)[u] >= e
  /\ Range(w) = {u \in Range(l) : Left(l, c)[u] = e}
  /\ Range(m) = Range(l) \ Range(w)
  /\ Left(m, d) = Passed(Left(l, c), l, e)
  /\ Left(l, c)[l[1]] = e

(* check_expire takes all timers due first, and only those, and lets the   *)
(* time until then pass for the others.                                    *)
LEMMA ExpireLeft ==
  ASSUME NEW l, NEW c, Sound(l, c), NEW p \in 1 .. Len(l),
         Level(l, c, p),
         p < Len(l) => c[l[p + 1]] # 0,
         NEW d, d = [c EXCEPT ![l[1]] = 0]
  PROVE  Expired(SubSeq(l, p + 1, Len(l)), SubSeq(l, 1, p), d, l, c, c[l[1]])
<1> DEFINE s == Sums(l, c)
           m == SubSeq(l, p + 1, Len(l))
           w == SubSeq(l, 1, p)
           e == c[l[1]]
           g == SumsAfterDrop(s, Len(l), p)
           a == Left(l, c)
           b == Left(m, d)
<1>1. /\ Len(l) \in Nat
      /\ Prefix(s, l, c, Len(l))
      /\ \A j \in 1 .. Len(l) : l[j] \in Timers /\ c[l[j]] \in Nat /\ l[j] \in Range(l)
      /\ \A j \in 0 .. Len(l) : s[j] \in Nat
      /\ s[0] = 0
      /\ \A j \in 1 .. Len(l) : s[j] = s[j - 1] + c[l[j]]
      /\ LeftOf(Left(l, c), l, s)
  BY SoundSums, Zenon
<1>2. l \in Seq(Timers) /\ c \in [Timers -> Nat] /\ IsInjective(l)
  BY DEF Sound
<1>3. \A j, k \in 1 .. Len(l) : l[j] = l[k] => j = k
  BY <1>2 DEF IsInjective
<1>4. w \in Seq(Timers) /\ Len(w) = p /\ \A j \in 1 .. p : w[j] = l[j]
  BY <1>2
<1>5. m \in Seq(Timers) /\ Len(m) = Len(l) - p /\ \A j \in 1 .. (Len(l) - p) : m[j] = l[p + j]
  BY <1>2
<1> HIDE DEF s, m, w
<1>6. 1 \in 1 .. Len(l) /\ e \in Nat /\ s[1] = e
  BY <1>1
<1>7. /\ d \in [Timers -> Nat]
      /\ \A j \in 2 .. Len(l) : d[l[j]] = c[l[j]]
  <2>1. ASSUME NEW j \in 2 .. Len(l)
        PROVE  d[l[j]] = c[l[j]]
    <3>1. j \in 1 .. Len(l) /\ j # 1
      OBVIOUS
    <3>2. l[j] # l[1] /\ l[j] \in Timers
      BY <1>1, <1>3, <1>6, <3>1
    <3> QED
      BY <1>2, <3>2
  <2> QED
    BY <1>2, <2>1
<1>8. Prefix(g, m, d, Len(m))
  <2>1. \A j \in 1 .. Len(l) : c[l[j]] \in Nat
    BY <1>1
  <2>2. \A j \in (p + 1) .. Len(l) : d[l[j]] = c[l[j]]
    BY <1>7
  <2>3. p \in 0 .. Len(l) /\ \A j \in 1 .. (Len(l) - p) : m[j] = l[p + j]
    BY <1>1, <1>5
  <2>4. Prefix(SumsAfterDrop(s, Len(l), p), m, d, Len(l) - p)
    BY <1>1, <2>1, <2>2, <2>3, SumsDrop, Zenon
  <2> QED
    BY <1>5, <2>4
<1>9. IsInjective(m) /\ IsInjective(w)
  <2>1. ASSUME NEW j \in 1 .. (Len(l) - p), NEW k \in 1 .. (Len(l) - p), m[j] = m[k]
        PROVE  j = k
    <3>1. p + j \in 1 .. Len(l) /\ p + k \in 1 .. Len(l)
      BY <1>1
    <3>2. p + j = p + k
      BY <1>3, <1>5, <2>1, <3>1
    <3> QED
      BY <3>2
  <2>2. ASSUME NEW j \in 1 .. p, NEW k \in 1 .. p, w[j] = w[k]
        PROVE  j = k
    <3>1. j \in 1 .. Len(l) /\ k \in 1 .. Len(l)
      BY <1>1
    <3> QED
      BY <1>3, <1>4, <2>2, <3>1
  <2>3. DOMAIN m = 1 .. (Len(l) - p) /\ DOMAIN w = 1 .. p
    BY <1>4, <1>5
  <2> QED
    BY <2>1, <2>2, <2>3, Zenon DEF IsInjective
<1>10. LeftOf(Left(m, d), m, g)
  <2> HIDE DEF g
  <2> QED
    BY <1>5, <1>8, <1>9, LeftIs, Zenon
<1>11. \A j \in 0 .. (Len(l) - p) : g[j] = s[p + j] - s[p]
  BY <1>1 DEF SumsAfterDrop
<1> HIDE DEF g
<1>12. \A j \in 1 .. p : s[j] = e
  <2>1. Flat(s, p)
    BY <1>1, SumsLevel, Zenon
  <2> QED
    BY <1>6, <2>1 DEF Flat
<1>13. ASSUME NEW j \in (p + 1) .. Len(l)
       PROVE  s[j] > e
  <2>1. p + 1 \in 1 .. Len(l) /\ p < Len(l) /\ (p + 1) - 1 = p /\ j \in 0 .. Len(l)
    BY <1>1
  <2>2. s[p + 1] = s[p] + c[l[p + 1]] /\ c[l[p + 1]] \in Nat /\ c[l[p + 1]] # 0
    BY <1>1, <2>1
  <2>3. s[p] = e
    BY <1>12
  <2>4. s[p + 1] <= s[j]
    <3>1. \A k \in 1 .. Len(l) : c[l[k]] \in Nat
      BY <1>1
    <3>2. p + 1 \in 0 .. Len(l)
      BY <2>1
    <3> QED
      BY <1>1, <3>1, <3>2, SumsMonotone, Zenon
  <2>5. s[j] \in Nat
    BY <1>1, <2>1
  <2> QED
    BY <1>6, <2>2, <2>3, <2>4, <2>5
<1>14. /\ a = [u \in Timers |-> a[u]]
       /\ \A j \in 1 .. Len(l) : a[l[j]] = s[j]
       /\ \A u \in Timers \ Range(l) : a[u] = 0
  BY <1>1 DEF LeftOf
<1>15. /\ b = [u \in Timers |-> b[u]]
       /\ \A j \in 1 .. (Len(l) - p) : b[m[j]] = g[j]
       /\ \A u \in Timers \ Range(m) : b[u] = 0
  BY <1>5, <1>10, Zenon DEF LeftOf
<1> HIDE DEF a, b, e
<1>16. \A j \in 1 .. Len(l) : /\ l[j] \in Range(w) <=> j <= p
                              /\ l[j] \in Range(m) <=> j > p
  <2> TAKE j \in 1 .. Len(l)
  <2>1. ASSUME j <= p
        PROVE  l[j] \in Range(w)
    <3>1. j \in DOMAIN w /\ w[j] = l[j]
      BY <1>4, <2>1
    <3> QED
      BY <3>1 DEF Range
  <2>2. ASSUME j > p
        PROVE  l[j] \in Range(m)
    <3>1. j - p \in 1 .. (Len(l) - p) /\ p + (j - p) = j
      BY <1>1, <2>2
    <3>2. j - p \in DOMAIN m /\ m[j - p] = l[j]
      BY <1>5, <3>1
    <3> QED
      BY <3>2 DEF Range
  <2>3. ASSUME l[j] \in Range(w)
        PROVE  j <= p
    <3>1. PICK k \in 1 .. p : w[k] = l[j]
      BY <1>4, <2>3 DEF Range
    <3>2. k \in 1 .. Len(l) /\ l[k] = l[j]
      BY <1>1, <1>4, <3>1
    <3>3. k = j
      BY <1>3, <3>2
    <3> QED
      BY <3>3
  <2>4. ASSUME l[j] \in Range(m)
        PROVE  j > p
    <3>1. PICK k \in 1 .. (Len(l) - p) : m[k] = l[j]
      BY <1>5, <2>4 DEF Range
    <3>2. p + k \in 1 .. Len(l) /\ l[p + k] = l[j]
      BY <1>1, <1>5, <3>1
    <3>3. p + k = j
      BY <1>3, <3>2
    <3> QED
      BY <3>3
  <2> QED
    BY <2>1, <2>2, <2>3, <2>4
<1>17. Range(w) \subseteq Range(l) /\ Range(m) \subseteq Range(l)
  <2>1. \A j \in 1 .. p : w[j] \in Range(l)
    BY <1>1, <1>4
  <2>2. \A j \in 1 .. (Len(l) - p) : m[j] \in Range(l)
    BY <1>1, <1>5
  <2>3. DOMAIN w = 1 .. p /\ DOMAIN m = 1 .. (Len(l) - p)
    BY <1>4, <1>5
  <2>4. \A u \in Range(w) : \E j \in 1 .. p : u = w[j]
    BY <2>3 DEF Range
  <2>5. \A u \in Range(m) : \E j \in 1 .. (Len(l) - p) : u = m[j]
    BY <2>3 DEF Range
  <2> QED
    BY <2>1, <2>2, <2>4, <2>5, Zenon
<1>18. ASSUME NEW u \in Range(l)
       PROVE  /\ a[u] >= e
              /\ a[u] = e <=> u \in Range(w)
              /\ u \in Range(m) <=> u \notin Range(w)
              /\ b[u] = a[u] - e
  <2>1. PICK j \in 1 .. Len(l) : l[j] = u
    BY <1>2 DEF Range
  <2>2. a[u] = s[j] /\ s[j] \in Nat /\ e \in Nat
    BY <1>1, <1>6, <1>14, <2>1 DEF e
  <2>3. CASE j <= p
    <3>1. s[j] = e /\ u \in Range(w) /\ u \notin Range(m) /\ u \in Timers
      BY <1>1, <1>12, <1>16, <2>1, <2>3
    <3>2. b[u] = 0
      BY <1>15, <3>1
    <3> QED
      BY <2>2, <3>1, <3>2
  <2>4. CASE j > p
    <3>1. s[j] > e /\ u \notin Range(w) /\ u \in Range(m)
      BY <1>1, <1>13, <1>16, <2>1, <2>4
    <3>2. j - p \in 1 .. (Len(l) - p) /\ j - p \in 0 .. (Len(l) - p) /\ p + (j - p) = j
      BY <1>1, <2>4
    <3>3. m[j - p] = u /\ g[j - p] = s[j] - s[p] /\ s[p] = e
      BY <1>5, <1>11, <1>12, <2>1, <3>2
    <3>4. b[u] = s[j] - e
      BY <1>15, <3>2, <3>3, Zenon
    <3> QED
      BY <2>2, <3>1, <3>4
  <2> QED
    BY <1>1, <2>3, <2>4
<1>19. b = Passed(a, l, e)
  <2>1. ASSUME NEW u \in Timers
        PROVE  b[u] = IF u \in Range(l) THEN a[u] - e ELSE a[u]
    <3>1. CASE u \in Range(l)
      BY <1>18, <3>1
    <3>2. CASE u \notin Range(l)
      BY <1>14, <1>15, <1>17, <3>2
    <3> QED
      BY <3>1, <3>2
  <2> QED
    BY <1>15, <2>1 DEF Passed
<1>20. Sound(m, d)
  <2>1. ASSUME m # <<>>
        PROVE  d[m[1]] > 0
    <3>1. 1 \in 1 .. (Len(l) - p) /\ p < Len(l) /\ p + 1 \in 2 .. Len(l)
      BY <1>1, <1>5, <2>1
    <3>2. m[1] = l[p + 1] /\ d[l[p + 1]] = c[l[p + 1]] /\ c[l[p + 1]] \in Nat
      BY <1>1, <1>5, <1>7, <3>1
    <3> QED
      BY <3>1, <3>2
  <2> QED
    BY <1>5, <1>7, <1>9, <2>1 DEF Sound
<1>21. a[l[1]] = e
  BY <1>6, <1>14 DEF e
<1>22. Range(w) = {u \in Range(l) : a[u] = e} /\ Range(m) = Range(l) \ Range(w)
  BY <1>17, <1>18
<1>23. Expired(m, w, d, l, c, e)
  BY <1>4, <1>9, <1>18, <1>19, <1>20, <1>21, <1>22 DEF Expired, a, b
<1> QED
  BY <1>23 DEF m, w, e

(* The time left is a number. *)
LEMMA LeftNat ==
  ASSUME NEW l, NEW c, Sound(l, c), NEW t \in Range(l)
  PROVE  Left(l, c)[t] \in Nat
<1>1. /\ Len(l) \in Nat
      /\ \A j \in 0 .. Len(l) : Sums(l, c)[j] \in Nat
      /\ LeftOf(Left(l, c), l, Sums(l, c))
  BY SoundSums, Zenon
<1>2. PICK j \in 1 .. Len(l) : l[j] = t
  BY DEF Sound, Range
<1>3. Left(l, c)[l[j]] = Sums(l, c)[j]
  BY <1>1 DEF LeftOf
<1> QED
  BY <1>1, <1>2, <1>3

(* The inductive invariant.  ListsSound speaks of the first timer only     *)
(* between checks; Sound of every moment, and that needs the wait_list to  *)
(* hold none of the timers in the timer_list, or a callback could be given *)
(* a timer twice.                                                          *)
IInv ==
  /\ TypeOK
  /\ Sound(timer_list, curr)
  /\ IsInjective(wait_list)
  /\ Range(timer_list) \cap Range(wait_list) = {}
  /\ timer \notin Range(wait_list)
  /\ pc \in {"user", "loop"} => wait_list = <<>>
  /\ timer = None <=> pc # "proc"
  /\ \A t \in Timers : flags[t] => reload[t] > 0

(* Nothing is linked into an empty list. *)
LEMMA EmptyRange == Range(<<>>) = {}
  BY DEF Range

(* No timer at first. *)
LEMMA InitHolds == Init => IInv /\ Abstract!Init
<1> SUFFICES ASSUME Init PROVE IInv /\ Abstract!Init
  OBVIOUS
<1> USE DEF Init
<1>1. TypeOK
  BY NoneAssumption DEF TypeOK
<1>2. IsInjective(<<>>)
  BY DEF IsInjective
<1>3. IInv
  BY <1>1, <1>2, EmptyRange, NoneAssumption DEF IInv, Sound, TypeOK
<1>4. Left(timer_list, curr) = [t \in Timers |-> 0]
  BY EmptyRange DEF Left
<1>5. Abstract!Init
  BY <1>4, EmptyRange DEF Abstract!Init
<1> QED
  BY <1>3, <1>5

(* net_timer_add arms a timer that is on neither list. *)
LEMMA AddStep ==
  ASSUME IInv, NEW c \in Calls, net_timer_add(c)
  PROVE  IInv' /\ Abstract!Add(c)
<1> DEFINE t == c.timer
<1>1. t \in Timers /\ c.ms \in Nat \ {0} /\ c.reload \in BOOLEAN
  BY CallsAssumption
<1>2. /\ pc \in {"user", "proc"}
      /\ t \notin Range(timer_list) /\ t \notin Range(wait_list)
      /\ flags' = [flags EXCEPT ![t] = c.reload]
      /\ reload' = [reload EXCEPT ![t] = c.ms]
      /\ insert_timer(t, c.ms)
      /\ wait_list' = wait_list /\ diff_ms' = diff_ms /\ pc' = pc /\ timer' = timer
  BY DEF net_timer_add, UserRuns, timer_is_scheduled
<1> HIDE DEF t
<1>3. Armed(timer_list', curr', timer_list, curr, t, c.ms)
  BY <1>1, <1>2, InsertArms, Zenon DEF IInv
<1>4. /\ Sound(timer_list', curr')
      /\ Range(timer_list') = Range(timer_list) \cup {t}
      /\ Left(timer_list', curr') = [Left(timer_list, curr) EXCEPT ![t] = c.ms]
  BY <1>3 DEF Armed
<1>5. TypeOK'
  BY <1>1, <1>2, <1>4, Zenon DEF IInv, TypeOK, Sound
<1>6. \A u \in Timers : flags'[u] => reload'[u] > 0
  BY <1>1, <1>2 DEF IInv, TypeOK
<1>7. IInv'
  BY <1>2, <1>4, <1>5, <1>6 DEF IInv
<1>8. Abstract!Add(c)
  BY <1>2, <1>4 DEF Abstract!Add, Abstract!UserRuns, IInv, t
<1> QED
  BY <1>7, <1>8

(* net_timer_remove disarms one of the timer_list. *)
LEMMA RemoveStep ==
  ASSUME IInv, NEW t \in Timers, net_timer_remove(t)
  PROVE  IInv' /\ Abstract!Remove(t)
<1>1. /\ pc \in {"user", "proc"}
      /\ wait_list' = wait_list /\ reload' = reload /\ flags' = flags
      /\ diff_ms' = diff_ms /\ pc' = pc /\ timer' = timer
  BY DEF net_timer_remove, UserRuns, fields
<1>2. PICK i \in DOMAIN timer_list :
        /\ timer_list[i] = t
        /\ timer_list' = nlist_remove(timer_list, i)
        /\ curr' = IF i = Len(timer_list) THEN curr
                   ELSE [curr EXCEPT ![timer_list[i + 1]] = @ + curr[t]]
  BY DEF net_timer_remove
<1>3. Disarmed(timer_list', curr', timer_list, curr, t)
  <2>1. i \in 1 .. Len(timer_list) /\ Sound(timer_list, curr)
    BY DEF IInv, Sound
  <2>2. curr' = IF i = Len(timer_list) THEN curr
                ELSE [curr EXCEPT ![timer_list[i + 1]] = @ + curr[timer_list[i]]]
    BY <1>2
  <2>3. Disarmed(nlist_remove(timer_list, i), curr', timer_list, curr, timer_list[i])
    BY <2>1, <2>2, RemoveDisarms, Zenon
  <2> QED
    BY <1>2, <2>3
<1>4. /\ Sound(timer_list', curr')
      /\ Range(timer_list') = Range(timer_list) \ {t}
      /\ Left(timer_list', curr') = [Left(timer_list, curr) EXCEPT ![t] = 0]
  BY <1>3 DEF Disarmed
<1>5. TypeOK'
  BY <1>1, <1>4, Zenon DEF IInv, TypeOK, Sound
<1>6. IInv'
  BY <1>1, <1>4, <1>5 DEF IInv
<1>7. Abstract!Remove(t)
  BY <1>1, <1>4 DEF Abstract!Remove, Abstract!UserRuns, IInv
<1> QED
  BY <1>6, <1>7

(* A callback that clears NET_TIMER_RELOAD ends the series of its timer. *)
LEMMA StopStep ==
  ASSUME IInv, clear_flags
  PROVE  IInv' /\ Abstract!Stop
<1> USE DEF clear_flags, IInv
<1>1. timer \in Timers
  BY DEF TypeOK
<1>2. TypeOK'
  BY <1>1 DEF TypeOK
<1>3. \A u \in Timers : flags'[u] => flags[u]
  BY <1>1 DEF TypeOK
<1>4. IInv'
  BY <1>2, <1>3
<1>5. Abstract!Stop
  BY DEF Abstract!Stop
<1> QED
  BY <1>4, <1>5

(* A check starts with the time since the last. *)
LEMMA BeginStep ==
  ASSUME IInv, NEW ms \in 0 .. MaxDiff, check_begin(ms)
  PROVE  IInv' /\ Abstract!Check
<1> USE DEF check_begin, IInv, fields
<1>1. ms \in Nat
  BY NoneAssumption
<1>2. TypeOK'
  BY <1>1 DEF TypeOK
<1>3. IInv'
  BY <1>2
<1>4. Abstract!Check
  BY <1>1 DEF Abstract!Check
<1> QED
  BY <1>3, <1>4

(* A check ends when what is left of that time makes no timer due. *)
LEMMA EndStep ==
  ASSUME IInv, check_end
  PROVE  IInv' /\ Abstract!Finish
<1>1. /\ pc = "loop" /\ pc' = "user" /\ diff_ms' = 0
      /\ timer_list' = timer_list /\ wait_list' = wait_list /\ timer' = timer
      /\ reload' = reload /\ flags' = flags
  BY DEF check_end, fields
<1>2. wait_list = <<>> /\ timer = None /\ Range(wait_list) = {} /\ diff_ms \in Nat
  BY <1>1, EmptyRange DEF IInv, TypeOK
<1>3. Advanced(curr', timer_list, curr, diff_ms)
  <2>1. CASE timer_list = <<>>
    <3>1. curr' = curr /\ Range(timer_list) = {}
      BY <2>1, EmptyRange DEF check_end
    <3>2. Left(timer_list, curr) = Passed(Left(timer_list, curr), timer_list, diff_ms)
      BY <3>1 DEF Passed, Left
    <3> QED
      BY <3>1, <3>2 DEF Advanced, IInv
  <2>2. CASE timer_list # <<>>
    <3>1. Head(timer_list) = timer_list[1] /\ Sound(timer_list, curr)
      BY <2>2 DEF IInv, Sound
    <3>2. /\ diff_ms < curr[timer_list[1]]
          /\ curr' = [curr EXCEPT ![timer_list[1]] = @ - diff_ms]
      <4>1. /\ curr[timer_list[1]] > diff_ms
            /\ curr' = [curr EXCEPT ![timer_list[1]] = @ - diff_ms]
        BY <2>2, <3>1 DEF check_end
      <4>2. timer_list[1] \in Timers /\ curr[timer_list[1]] \in Nat
        BY <2>2 DEF IInv, TypeOK
      <4> QED
        BY <1>2, <4>1, <4>2
    <3> QED
      BY <1>2, <2>2, <3>1, <3>2, AdvanceLeft, Zenon
  <2> QED
    BY <2>1, <2>2
<1>4. /\ Sound(timer_list, curr')
      /\ \A t \in Range(timer_list) : Left(timer_list, curr)[t] > diff_ms
      /\ Left(timer_list, curr') = Passed(Left(timer_list, curr), timer_list, diff_ms)
  BY <1>3 DEF Advanced
<1>5. TypeOK'
  BY <1>1, <1>4 DEF IInv, TypeOK, Sound
<1>6. IInv'
  BY <1>1, <1>2, <1>4, <1>5 DEF IInv
<1>7. \A t \in Range(timer_list) : Left(timer_list, curr)[t] >= diff_ms
  <2> SUFFICES ASSUME NEW t \in Range(timer_list)
               PROVE  Left(timer_list, curr)[t] >= diff_ms
    OBVIOUS
  <2>1. Left(timer_list, curr)[t] \in Nat
    BY LeftNat DEF IInv
  <2> QED
    BY <1>2, <1>4, <2>1
<1>8. Abstract!Finish
  BY <1>1, <1>2, <1>4, <1>7
  DEF Abstract!Finish, Abstract!Between, Abstract!Pass, Passed
<1> QED
  BY <1>6, <1>8

(* The timers due first expire together. *)
LEMMA ExpireStep ==
  ASSUME IInv, check_expire
  PROVE  IInv' /\ Abstract!Expire
<1> DEFINE e == curr[timer_list[1]]
<1>1. /\ pc = "loop" /\ pc' = "drain" /\ timer' = timer
      /\ reload' = reload /\ flags' = flags /\ timer_list # <<>>
      /\ Head(timer_list) = timer_list[1]
  BY DEF check_expire, fields, IInv, TypeOK
<1>2. wait_list = <<>> /\ timer = None /\ Range(wait_list) = {}
  BY <1>1, EmptyRange DEF IInv
<1>3. e <= diff_ms /\ diff_ms' = diff_ms - e /\ curr' = [curr EXCEPT ![timer_list[1]] = 0]
  BY <1>1 DEF check_expire
<1>4. PICK n \in DOMAIN timer_list :
        /\ \A i \in 2 .. n : curr[timer_list[i]] = 0
        /\ n < Len(timer_list) => curr[timer_list[n + 1]] # 0
        /\ wait_list' = SubSeq(timer_list, 1, n)
        /\ timer_list' = SubSeq(timer_list, n + 1, Len(timer_list))
  BY Zenon DEF check_expire
<1>5. /\ timer_list[1] \in Range(timer_list) /\ timer_list[1] \in Timers
      /\ e \in Nat /\ diff_ms \in Nat
  BY <1>1 DEF IInv, TypeOK, Range
<1>6. Expired(timer_list', wait_list', curr', timer_list, curr, e)
  <2>1. n \in 1 .. Len(timer_list) /\ Sound(timer_list, curr)
    BY DEF IInv, Sound
  <2>2. Level(timer_list, curr, n)
    BY <1>4 DEF Level
  <2>3. Expired(SubSeq(timer_list, n + 1, Len(timer_list)), SubSeq(timer_list, 1, n), curr',
                timer_list, curr, e)
    BY <1>3, <1>4, <2>1, <2>2, ExpireLeft, Zenon
  <2> QED
    BY <1>4, <2>3
<1> HIDE DEF e
<1>7. /\ Sound(timer_list', curr')
      /\ wait_list' \in Seq(Timers) /\ IsInjective(wait_list')
      /\ \A u \in Range(timer_list) : Left(timer_list, curr)[u] >= e
      /\ Range(wait_list') = {u \in Range(timer_list) : Left(timer_list, curr)[u] = e}
      /\ Range(timer_list') = Range(timer_list) \ Range(wait_list')
      /\ Left(timer_list', curr') = Passed(Left(timer_list, curr), timer_list, e)
      /\ Left(timer_list, curr)[timer_list[1]] = e
  BY <1>6 DEF Expired
<1>8. TypeOK'
  BY <1>1, <1>3, <1>5, <1>7 DEF IInv, TypeOK, Sound
<1>9. Range(wait_list') \subseteq Timers
  BY <1>7 DEF IInv, TypeOK, Range
<1>10. timer' \notin Range(wait_list')
  BY <1>1, <1>2, <1>9, NoneAssumption
<1>11. IInv'
  BY <1>1, <1>2, <1>7, <1>8, <1>10 DEF IInv
<1>12. Abstract!Expire
  BY <1>1, <1>2, <1>3, <1>5, <1>7
  DEF Abstract!Expire, Abstract!Between, Abstract!Pass, Passed
<1> QED
  BY <1>11, <1>12

(* What is left of a wait_list without its first timer. *)
LEMMA TailElements ==
  ASSUME NEW w \in Seq(Timers), IsInjective(w), w # <<>>
  PROVE  /\ Head(w) \in Timers /\ Tail(w) \in Seq(Timers)
         /\ IsInjective(Tail(w))
         /\ Head(w) \in Range(w)
         /\ Range(Tail(w)) = Range(w) \ {Head(w)}
<1> DEFINE v == Tail(w)
<1>1. /\ Len(w) \in Nat /\ 1 \in 1 .. Len(w) /\ Head(w) = w[1]
      /\ \A j \in 1 .. Len(w) : w[j] \in Timers
  OBVIOUS
<1>2. v \in Seq(Timers) /\ Len(v) = Len(w) - 1 /\ \A j \in 1 .. (Len(w) - 1) : v[j] = w[j + 1]
  OBVIOUS
<1> HIDE DEF v
<1>3. Removed(v, w, Len(w), 1)
  BY <1>1, <1>2 DEF Removed
<1>4. Range(v) = Range(w) \ {w[1]} /\ IsInjective(v)
  BY <1>1, <1>2, <1>3, RemoveRange
<1>5. w[1] \in Range(w)
  BY <1>1 DEF Range
<1> QED
  BY <1>1, <1>2, <1>4, <1>5 DEF v

(* The inner loop calls one of those that expired; leaving it is a stutter. *)
LEMMA CallStep ==
  ASSUME IInv, check_call
  PROVE  /\ IInv'
         /\ (\E t \in Timers : Abstract!Begin(t)) \/ UNCHANGED Abstract!vars
<1>1. /\ pc = "drain" /\ timer = None
      /\ timer_list' = timer_list /\ curr' = curr /\ reload' = reload /\ flags' = flags
      /\ diff_ms' = diff_ms
  BY DEF check_call, fields, IInv
<1>2. CASE wait_list = <<>>
  <2>1. pc' = "loop" /\ wait_list' = wait_list /\ timer' = timer
    BY <1>2 DEF check_call
  <2>2. TypeOK'
    BY <1>1, <2>1 DEF IInv, TypeOK
  <2>3. IInv'
    BY <1>1, <1>2, <2>1, <2>2 DEF IInv
  <2>4. UNCHANGED Abstract!vars
    BY <1>1, <2>1 DEF Abstract!vars
  <2> QED
    BY <2>3, <2>4
<1>3. CASE wait_list # <<>>
  <2> DEFINE t == Head(wait_list)
  <2>1. pc' = "proc" /\ timer' = t /\ wait_list' = Tail(wait_list)
    BY <1>3 DEF check_call
  <2>2. /\ t \in Timers /\ wait_list' \in Seq(Timers)
        /\ IsInjective(wait_list')
        /\ t \in Range(wait_list)
        /\ Range(wait_list') = Range(wait_list) \ {t}
    BY <1>3, <2>1, TailElements DEF IInv, TypeOK
  <2> HIDE DEF t
  <2>3. TypeOK'
    BY <1>1, <2>1, <2>2 DEF IInv, TypeOK
  <2>4. t # None
    BY <2>2, NoneAssumption
  <2>5. IInv'
    BY <1>1, <2>1, <2>2, <2>3, <2>4 DEF IInv
  <2>6. Abstract!Begin(t)
    BY <1>1, <2>1, <2>2 DEF Abstract!Begin
  <2> QED
    BY <2>2, <2>5, <2>6
<1> QED
  BY <1>2, <1>3

(* A periodic timer is armed again for a period from the time it was due   *)
(* at, unless its callback has armed it.                                   *)
LEMMA ReloadStep ==
  ASSUME IInv, check_reload
  PROVE  IInv' /\ Abstract!Return
<1>1. /\ pc = "proc" /\ pc' = "drain" /\ timer' = None
      /\ wait_list' = wait_list /\ reload' = reload /\ flags' = flags /\ diff_ms' = diff_ms
  BY DEF check_reload, fields
<1>2. timer \in Timers /\ timer # None /\ reload[timer] \in Nat
  BY <1>1 DEF IInv, TypeOK
<1>3. None \notin Range(wait_list)
  BY NoneAssumption DEF IInv, TypeOK, Range
<1> DEFINE again == flags[timer] /\ timer \notin Range(timer_list) \cup Range(wait_list)
<1>4. CASE again
  <2>1. insert_timer(timer, reload[timer])
    BY <1>4 DEF check_reload, timer_is_scheduled
  <2>2. reload[timer] \in Nat \ {0}
    BY <1>2, <1>4 DEF IInv
  <2>3. Armed(timer_list', curr', timer_list, curr, timer, reload[timer])
    BY <1>2, <1>4, <2>1, <2>2, InsertArms DEF IInv
  <2>4. /\ Sound(timer_list', curr')
        /\ Range(timer_list') = Range(timer_list) \cup {timer}
        /\ Left(timer_list', curr') = [Left(timer_list, curr) EXCEPT ![timer] = reload[timer]]
    BY <2>3 DEF Armed
  <2>5. TypeOK'
    BY <1>1, <2>4 DEF IInv, TypeOK, Sound
  <2>6. IInv'
    BY <1>1, <1>3, <2>4, <2>5 DEF IInv
  <2>7. Abstract!Return
    BY <1>1, <1>2, <1>4, <2>4 DEF Abstract!Return, Abstract!Again
  <2> QED
    BY <2>6, <2>7
<1>5. CASE ~again
  <2>1. timer_list' = timer_list /\ curr' = curr
    BY <1>5 DEF check_reload, timer_is_scheduled
  <2>2. TypeOK'
    BY <1>1, <2>1 DEF IInv, TypeOK
  <2>3. IInv'
    BY <1>1, <1>3, <2>1, <2>2 DEF IInv
  <2>4. Abstract!Return
    BY <1>1, <1>2, <1>5, <2>1 DEF Abstract!Return, Abstract!Again
  <2> QED
    BY <2>3, <2>4
<1> QED
  BY <1>4, <1>5

(* Each step keeps the invariant and is a step of TimerSet or a stutter. *)
LEMMA StepSimulates == IInv /\ [Next]_vars => IInv' /\ [Abstract!Next]_Abstract!vars
<1> SUFFICES ASSUME IInv, [Next]_vars
             PROVE  IInv' /\ [Abstract!Next]_Abstract!vars
  OBVIOUS
<1>1. ASSUME NEW c \in Calls, net_timer_add(c)
      PROVE  IInv' /\ Abstract!Next
  BY <1>1, AddStep DEF Abstract!Next
<1>2. ASSUME NEW t \in Timers, net_timer_remove(t)
      PROVE  IInv' /\ Abstract!Next
  BY <1>2, RemoveStep DEF Abstract!Next
<1>3. CASE clear_flags
  BY <1>3, StopStep DEF Abstract!Next
<1>4. ASSUME NEW ms \in 0 .. MaxDiff, check_begin(ms)
      PROVE  IInv' /\ Abstract!Next
  BY <1>4, BeginStep DEF Abstract!Next
<1>5. CASE check_end
  BY <1>5, EndStep DEF Abstract!Next
<1>6. CASE check_expire
  BY <1>6, ExpireStep DEF Abstract!Next
<1>7. CASE check_call
  BY <1>7, CallStep DEF Abstract!Next
<1>8. CASE check_reload
  BY <1>8, ReloadStep DEF Abstract!Next
<1>9. CASE UNCHANGED vars
  <2>1. IInv'
    BY <1>9 DEF vars, IInv, TypeOK
  <2>2. UNCHANGED Abstract!vars
    BY <1>9 DEF vars, Abstract!vars
  <2> QED
    BY <2>1, <2>2
<1> QED
  BY <1>1, <1>2, <1>3, <1>4, <1>5, <1>6, <1>7, <1>8, <1>9 DEF Next, net_timer_check_tmo

(* IInv holds in every state: the timer_list and the wait_list share no    *)
(* timer, and at no moment, in a callback or out of it, is the first timer *)
(* of the timer_list due already.                                          *)
THEOREM TimerInvariant == Spec => []IInv
<1>1. Init => IInv
  BY InitHolds
<1>2. IInv /\ [Next]_vars => IInv'
  BY StepSimulates
<1> QED
  BY <1>1, <1>2, PTL DEF Spec

(* Two lists without repetitions that share nothing. *)
LEMMA ConcatInjective ==
  ASSUME NEW a \in Seq(Timers), NEW b \in Seq(Timers), IsInjective(a), IsInjective(b),
         Range(a) \cap Range(b) = {}
  PROVE  IsInjective(a \o b)
<1> DEFINE n == Len(a)
           m == a \o b
<1>1. Joined(m, a, b, Timers)
  BY ConcatElements, Zenon
<1>2. /\ m \in Seq(Timers) /\ Len(m) = n + Len(b) /\ n \in Nat /\ Len(b) \in Nat
      /\ \A j \in 1 .. n : m[j] = a[j]
      /\ \A j \in 1 .. Len(b) : m[n + j] = b[j]
  BY <1>1 DEF Joined
<1>3. /\ \A j \in 1 .. n : a[j] \in Range(a)
      /\ \A j \in 1 .. Len(b) : b[j] \in Range(b)
      /\ \A j, k \in 1 .. n : a[j] = a[k] => j = k
      /\ \A j, k \in 1 .. Len(b) : b[j] = b[k] => j = k
  BY DEF Range, IsInjective
<1> HIDE DEF m, n
<1>4. \A j \in 1 .. (n + Len(b)) :
        j \in 1 .. n \/ (j - n \in 1 .. Len(b) /\ j = n + (j - n))
  BY <1>2
<1>5. \A j \in 1 .. n, k \in 1 .. (n + Len(b)) : m[j] = m[k] => j = k
  <2> SUFFICES ASSUME NEW j \in 1 .. n, NEW k \in 1 .. (n + Len(b)), m[j] = m[k]
               PROVE  j = k
    OBVIOUS
  <2>1. CASE k \in 1 .. n
    BY <1>2, <1>3, <2>1
  <2>2. CASE k - n \in 1 .. Len(b) /\ k = n + (k - n)
    <3>1. m[k] = b[k - n] /\ m[j] = a[j]
      BY <1>2, <2>2
    <3> QED
      BY <1>3, <2>2, <3>1
  <2> QED
    BY <1>4, <2>1, <2>2
<1>6. \A j, k \in 1 .. (n + Len(b)) : m[j] = m[k] => j = k
  <2> SUFFICES ASSUME NEW j \in 1 .. (n + Len(b)), NEW k \in 1 .. (n + Len(b)), m[j] = m[k]
               PROVE  j = k
    OBVIOUS
  <2>1. CASE j \in 1 .. n
    BY <1>5, <2>1
  <2>2. CASE k \in 1 .. n
    BY <1>5, <2>2
  <2>3. CASE /\ j - n \in 1 .. Len(b) /\ j = n + (j - n)
             /\ k - n \in 1 .. Len(b) /\ k = n + (k - n)
    <3>1. m[j] = b[j - n] /\ m[k] = b[k - n]
      BY <1>2, <2>3, Zenon
    <3>2. j - n = k - n
      BY <1>3, <2>3, <3>1, Zenon
    <3> QED
      BY <1>2, <3>2
  <2> QED
    BY <1>4, <2>1, <2>2, <2>3
<1>7. DOMAIN m = 1 .. (n + Len(b))
  BY <1>2
<1> QED
  BY <1>6, <1>7, Zenon DEF IsInjective, m

(* The lists of timers are sound, whatever is added, removed and reloaded  *)
(* in callbacks: no timer is linked twice, and net_timer_first_tmo returns *)
(* 0 only when there is no timer (timer.c:11-29, 133-168;                  *)
(* net_stack.c:314-318).                                                   *)
THEOREM ListsStaySound == Spec => []ListsSound
<1>1. IInv => ListsSound
  <2> SUFFICES ASSUME IInv PROVE ListsSound
    OBVIOUS
  <2>1. TypeOK
    BY DEF IInv
  <2>2. LinkedOnce
    <3>1. /\ timer_list \in Seq(Timers) /\ IsInjective(timer_list)
          /\ wait_list \in Seq(Timers) /\ IsInjective(wait_list)
          /\ Range(timer_list) \cap Range(wait_list) = {}
          /\ timer \notin Range(wait_list)
      BY DEF IInv, TypeOK, Sound
    <3>2. IsInjective(timer_list \o wait_list)
      BY <3>1, ConcatInjective, Zenon
    <3> QED
      BY <3>1, <3>2 DEF LinkedOnce
  <2>3. ZeroMeansNoTimer
    <3> SUFFICES ASSUME timer_list # <<>>
                 PROVE  net_timer_first_tmo # 0
      BY DEF ZeroMeansNoTimer
    <3>1. Head(timer_list) = timer_list[1] /\ curr[timer_list[1]] > 0
      BY DEF IInv, Sound
    <3>2. curr[timer_list[1]] \in Nat
      BY DEF IInv, TypeOK
    <3> QED
      BY <3>1, <3>2 DEF net_timer_first_tmo
  <2> QED
    BY <2>1, <2>2, <2>3 DEF ListsSound
<1> QED
  BY <1>1, TimerInvariant, PTL

(* The list of differences is a set of timers with a due time each: what   *)
(* is added, removed or reloaded moves no other due time, and timers       *)
(* expire at theirs, together when they are due together (timer.c:42-168). *)
THEOREM ImplementsTimers == Spec => ImplementsTimerSet
<1>1. Init => Abstract!Init
  BY InitHolds
<1>2. IInv /\ [Next]_vars => [Abstract!Next]_Abstract!vars
  BY StepSimulates
<1> QED
  BY <1>1, <1>2, TimerInvariant, PTL DEF Spec, ImplementsTimerSet, Abstract!Spec
=============================================================================
