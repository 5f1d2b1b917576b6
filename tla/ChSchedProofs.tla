--------------------------- MODULE ChSchedProofs ---------------------------
(***************************************************************************)
(* What each function of the scheduler preserves and establishes, for any  *)
(* number of threads and queues: the facts the proofs about the components *)
(* rest on.  First the list operations of chinline.h: the threads in a     *)
(* list, that none is there twice, and that a list kept in falling order   *)
(* of priority stays so.                                                   *)
(***************************************************************************)
EXTENDS ChSched, WellFoundedInduction, TLAPS

\* The order of a list kept by prio_insert.
Sorted(q, prio) ==
    \A i, j \in DOMAIN q : i < j => prio[q[i]] >= prio[q[j]]

-----------------------------------------------------------------------------
\* A nonempty set of natural numbers has a least element, and Min is it.
LEMMA MinNat ==
    ASSUME NEW S \in SUBSET Nat, S # {}
    PROVE  Min(S) \in S /\ \A y \in S : Min(S) <= y
<1> DEFINE R == {ss \in Nat \X Nat : ss[1] < ss[2]}
<1>1. IsWellFoundedOn(R, Nat)
  BY NatLessThanWellFounded DEF OpToRel
<1>2. \A x, y \in Nat : y < x => <<y, x>> \in R
  OBVIOUS
<1> HIDE DEF R
<1>3. PICK x \in S : \A y \in S : ~ (<<y, x>> \in R)
  BY <1>1, WFMin
<1>4. \A y \in S : x <= y
  <2>1. SUFFICES ASSUME NEW y \in S PROVE x <= y
    OBVIOUS
  <2>2. ~ (y < x)
    BY <1>2, <1>3
  <2> QED
    BY <2>2
<1> QED
  BY <1>4 DEF Min

\* A thread is in a list if and only if it is at some place of it.
LEMMA InList ==
    ASSUME NEW S, NEW q \in Seq(S)
    PROVE  /\ \A t : t \in Range(q) <=> \E i \in 1 .. Len(q) : q[i] = t
           /\ \A i \in 1 .. Len(q) : q[i] \in Range(q) /\ q[i] \in S
           /\ Range(q) \subseteq S
           /\ DOMAIN q = 1 .. Len(q)
           /\ Len(q) \in Nat
           /\ q # <<>> <=> Len(q) > 0
  BY DEF Range

\* Two lists joined.
LEMMA JoinedList ==
    ASSUME NEW S, NEW q \in Seq(S), NEW r \in Seq(S)
    PROVE  /\ q \o r \in Seq(S)
           /\ Len(q \o r) = Len(q) + Len(r)
           /\ \A i \in 1 .. Len(q) + Len(r) :
                  (q \o r)[i] = IF i <= Len(q) THEN q[i] ELSE r[i - Len(q)]
  OBVIOUS

\* Lists with the same elements in the same places are the same.
LEMMA EqualLists ==
    ASSUME NEW S, NEW q \in Seq(S), NEW r \in Seq(S), Len(q) = Len(r),
           \A i \in 1 .. Len(q) : q[i] = r[i]
    PROVE  q = r
  OBVIOUS

\* The elements of a list with one inserted at place i.
LEMMA LinkBeforeProperties ==
    ASSUME NEW S, NEW s \in Seq(S), NEW i \in 1 .. Len(s) + 1, NEW e \in S
    PROVE  /\ LinkBefore(s, i, e) \in Seq(S)
           /\ Len(LinkBefore(s, i, e)) = Len(s) + 1
           /\ \A j \in 1 .. Len(s) + 1 : LinkBefore(s, i, e)[j] =
                  IF j < i THEN s[j] ELSE IF j = i THEN e ELSE s[j - 1]
<1> DEFINE a == SubSeq(s, 1, i - 1)
           c == SubSeq(s, i, Len(s))
           d == Append(a, e)
<1>1. a \in Seq(S) /\ Len(a) = i - 1 /\ \A j \in 1 .. i - 1 : a[j] = s[j]
  OBVIOUS
<1>2. /\ c \in Seq(S) /\ Len(c) = Len(s) - i + 1
      /\ \A j \in 1 .. Len(s) - i + 1 : c[j] = s[i + j - 1]
  OBVIOUS
<1> HIDE DEF a, c
<1>3. d = a \o <<e>>
  BY <1>1
<1>4. /\ d \in Seq(S) /\ Len(d) = i
      /\ \A j \in 1 .. i : d[j] = IF j < i THEN a[j] ELSE e
  BY <1>1
<1> HIDE DEF d
<1>5. /\ d \o c \in Seq(S) /\ Len(d \o c) = i + Len(c)
      /\ \A j \in 1 .. i + Len(c) : (d \o c)[j] = IF j <= i THEN d[j] ELSE c[j - i]
  BY <1>4, <1>2, JoinedList
<1>6. LinkBefore(s, i, e) = d \o c
  BY <1>3 DEF LinkBefore, a, c
<1> HIDE DEF LinkBefore
<1>7. ASSUME NEW j \in 1 .. Len(s) + 1
      PROVE  (d \o c)[j] = IF j < i THEN s[j] ELSE IF j = i THEN e ELSE s[j - 1]
  <2>1. CASE j < i
    <3>1. (d \o c)[j] = d[j]
      BY <1>5, <1>2, <2>1
    <3> QED BY <3>1, <1>4, <1>1, <2>1
  <2>2. CASE j = i
    BY <1>5, <1>4, <1>2, <2>2
  <2>3. CASE j > i
    <3>1. (d \o c)[j] = c[j - i]
      BY <1>5, <1>2, <2>3
    <3>2. c[j - i] = s[i + (j - i) - 1]
      BY <1>2, <2>3
    <3> QED BY <3>1, <3>2, <2>3
  <2>4. j < i \/ j = i \/ j > i
    OBVIOUS
  <2> QED BY <2>1, <2>2, <2>3, <2>4
<1> QED
  BY <1>2, <1>5, <1>6, <1>7

\* The elements of a list with the one at place i taken out.
LEMMA CutAtProperties ==
    ASSUME NEW S, NEW s \in Seq(S), NEW i \in 1 .. Len(s)
    PROVE  /\ CutAt(s, i) \in Seq(S)
           /\ Len(CutAt(s, i)) = Len(s) - 1
           /\ \A j \in 1 .. Len(s) - 1 : CutAt(s, i)[j] =
                  IF j < i THEN s[j] ELSE s[j + 1]
<1> DEFINE a == SubSeq(s, 1, i - 1)
           c == SubSeq(s, i + 1, Len(s))
<1>1. a \in Seq(S) /\ Len(a) = i - 1 /\ \A j \in 1 .. i - 1 : a[j] = s[j]
  OBVIOUS
<1>2. /\ c \in Seq(S) /\ Len(c) = Len(s) - i
      /\ \A j \in 1 .. Len(s) - i : c[j] = s[i + j]
  OBVIOUS
<1> HIDE DEF a, c
<1>3. /\ a \o c \in Seq(S) /\ Len(a \o c) = Len(a) + Len(c)
      /\ \A j \in 1 .. Len(a) + Len(c) :
             (a \o c)[j] = IF j <= Len(a) THEN a[j] ELSE c[j - Len(a)]
  BY <1>1, <1>2, JoinedList
<1>4. CutAt(s, i) = a \o c
  BY DEF CutAt, a, c
<1> HIDE DEF CutAt
<1>5. ASSUME NEW j \in 1 .. Len(s) - 1
      PROVE  (a \o c)[j] = IF j < i THEN s[j] ELSE s[j + 1]
  <2>1. CASE j < i
    BY <1>1, <1>2, <1>3, <2>1
  <2>2. CASE j >= i
    <3>1. (a \o c)[j] = c[j - (i - 1)]
      BY <1>3, <1>1, <1>2, <2>2
    <3>2. c[j - (i - 1)] = s[i + (j - (i - 1))]
      BY <1>2, <2>2
    <3> QED BY <3>1, <3>2, <2>2
  <2>3. j < i \/ j >= i
    OBVIOUS
  <2> QED BY <2>1, <2>2, <2>3
<1>6. Len(a \o c) = Len(s) - 1
  BY <1>1, <1>2, <1>3
<1> QED
  BY <1>3, <1>4, <1>5, <1>6

-----------------------------------------------------------------------------
\* The walk of prio_insert stops at a place of the list, after every thread
\* whose priority is at least p and before the first whose priority is lower.
LEMMA FirstBelowProperties ==
    ASSUME NEW q \in Seq(Threads), NEW prio \in [Threads -> Nat], NEW p \in Nat
    PROVE  /\ FirstBelow(q, prio, p) \in 1 .. Len(q) + 1
           /\ \A j \in 1 .. Len(q) :
                  j < FirstBelow(q, prio, p) => prio[q[j]] >= p
           /\ FirstBelow(q, prio, p) <= Len(q)
                  => prio[q[FirstBelow(q, prio, p)]] < p
<1> DEFINE S == {i \in 1 .. Len(q) + 1 : i <= Len(q) => prio[q[i]] < p}
           m == FirstBelow(q, prio, p)
<1>1. S \in SUBSET Nat /\ Len(q) + 1 \in S
  OBVIOUS
<1>2. m = Min(S)
  BY DEF FirstBelow
<1>3. m \in S /\ \A y \in S : m <= y
  BY <1>1, <1>2, MinNat
<1>4. m \in 1 .. Len(q) + 1 /\ (m <= Len(q) => prio[q[m]] < p)
  BY <1>3
<1>5. ASSUME NEW j \in 1 .. Len(q), j < m PROVE prio[q[j]] >= p
  <2>1. j \notin S
    BY <1>3, <1>4, <1>5
  <2>2. ~ (prio[q[j]] < p)
    BY <2>1
  <2>3. q[j] \in Threads
    OBVIOUS
  <2> QED BY <2>2, <2>3
<1> QED
  BY <1>4, <1>5

\* Inserting a thread that is not in the list.
LEMMA InsertList ==
    ASSUME NEW S, NEW q \in Seq(S), NEW i \in 1 .. Len(q) + 1,
           NEW t \in S, NoRepeat(q), t \notin Range(q)
    PROVE  /\ LinkBefore(q, i, t) \in Seq(S)
           /\ NoRepeat(LinkBefore(q, i, t))
           /\ Range(LinkBefore(q, i, t)) = Range(q) \cup {t}
<1> DEFINE r == LinkBefore(q, i, t)
<1>1. /\ r \in Seq(S) /\ Len(r) = Len(q) + 1
      /\ \A j \in 1 .. Len(q) + 1 : r[j] =
             IF j < i THEN q[j] ELSE IF j = i THEN t ELSE q[j - 1]
  BY LinkBeforeProperties
<1> HIDE DEF r
<1>2. \A j \in 1 .. Len(q) : q[j] # t
  BY InList
<1>3. \A x, y \in 1 .. Len(q) : q[x] = q[y] => x = y
  BY InList DEF NoRepeat
<1>4. NoRepeat(r)
  <2>1. SUFFICES ASSUME NEW x \in 1 .. Len(q) + 1, NEW y \in 1 .. Len(q) + 1,
                        r[x] = r[y]
                 PROVE  x = y
    BY <1>1, InList DEF NoRepeat
  <2> DEFINE f(j) == IF j < i THEN j ELSE j - 1
  <2>2. CASE x = i \/ y = i
    <3>1. ASSUME NEW j \in 1 .. Len(q) + 1, j # i PROVE r[j] # t
      <4>1. f(j) \in 1 .. Len(q) /\ r[j] = q[f(j)]
        BY <1>1, <3>1
      <4> QED BY <1>2, <4>1
    <3> QED BY <1>1, <2>1, <2>2, <3>1
  <2>3. CASE x # i /\ y # i
    <3>1. f(x) \in 1 .. Len(q) /\ f(y) \in 1 .. Len(q)
      BY <2>3
    <3>2. r[x] = q[f(x)] /\ r[y] = q[f(y)]
      BY <1>1, <2>3
    <3>3. f(x) = f(y)
      BY <1>3, <2>1, <3>1, <3>2
    <3> QED BY <2>3, <3>3
  <2> QED BY <2>2, <2>3
<1>5. ASSUME NEW x \in Range(r) PROVE x \in Range(q) \cup {t}
  <2>1. PICK j \in 1 .. Len(q) + 1 : r[j] = x
    BY <1>1, InList
  <2>2. CASE j = i
    BY <1>1, <2>1, <2>2
  <2>3. CASE j # i
    <3>1. \E m \in 1 .. Len(q) : x = q[m]
      BY <1>1, <2>1, <2>3
    <3> QED BY <3>1, InList
  <2> QED BY <2>2, <2>3
<1>6. ASSUME NEW x \in Range(q) PROVE x \in Range(r)
  <2>1. PICK j \in 1 .. Len(q) : q[j] = x
    BY InList
  <2>2. \E m \in 1 .. Len(q) + 1 : r[m] = x
    <3>1. CASE j < i
      BY <1>1, <2>1, <3>1
    <3>2. CASE j >= i
      <4>1. j + 1 \in 1 .. Len(q) + 1 /\ r[j + 1] = q[j]
        BY <1>1, <3>2
      <4> QED BY <2>1, <4>1
    <3>3. j < i \/ j >= i
      OBVIOUS
    <3> QED BY <3>1, <3>2, <3>3
  <2> QED BY <1>1, <2>2, InList
<1>7. t \in Range(r)
  <2>1. r[i] = t /\ i \in 1 .. Len(r)
    BY <1>1
  <2> QED BY <1>1, <2>1, InList
<1> QED
  BY <1>1, <1>4, <1>5, <1>6, <1>7 DEF r

\* Inserting a thread after the ones of higher and before the ones of lower
\* priority keeps the order; among equals any place will do.
LEMMA InsertSorted ==
    ASSUME NEW q \in Seq(Threads), NEW prio \in [Threads -> Nat],
           NEW i \in 1 .. Len(q) + 1, NEW t \in Threads, Sorted(q, prio),
           \A j \in 1 .. Len(q) : j < i => prio[q[j]] >= prio[t],
           i <= Len(q) => prio[q[i]] <= prio[t]
    PROVE  Sorted(LinkBefore(q, i, t), prio)
<1> DEFINE r == LinkBefore(q, i, t)
<1>1. /\ r \in Seq(Threads) /\ Len(r) = Len(q) + 1
      /\ \A j \in 1 .. Len(q) + 1 : r[j] =
             IF j < i THEN q[j] ELSE IF j = i THEN t ELSE q[j - 1]
  BY LinkBeforeProperties
<1> HIDE DEF r
<1>2. \A x, y \in 1 .. Len(q) : x < y => prio[q[x]] >= prio[q[y]]
  BY InList DEF Sorted
<1>3. \A j \in 1 .. Len(q) : j >= i => prio[q[j]] <= prio[t]
  <2>1. SUFFICES ASSUME NEW j \in 1 .. Len(q), j >= i
                 PROVE  prio[q[j]] <= prio[t]
    OBVIOUS
  <2>2. q[i] \in Threads /\ q[j] \in Threads
    BY <2>1
  <2>3. prio[q[i]] >= prio[q[j]]
    BY <1>2, <2>1, <2>2
  <2> QED BY <2>1, <2>2, <2>3
<1>4. ASSUME NEW x \in 1 .. Len(q) + 1, NEW y \in 1 .. Len(q) + 1, x < y
      PROVE  prio[r[x]] >= prio[r[y]]
  <2>1. CASE y < i
    <3>1. x \in 1 .. Len(q) /\ y \in 1 .. Len(q) /\ x < i
      BY <1>4, <2>1
    <3>2. r[x] = q[x]
      BY <1>1, <3>1
    <3>3. r[y] = q[y]
      BY <1>1, <2>1, <3>1
    <3> QED BY <1>2, <1>4, <3>1, <3>2, <3>3
  <2>2. CASE y = i
    BY <1>1, <1>4, <2>2
  <2>3. CASE y > i /\ x = i
    <3>1. r[x] = t /\ r[y] = q[y - 1] /\ y - 1 \in 1 .. Len(q)
      BY <1>1, <2>3
    <3>2. q[y - 1] \in Threads
      BY <3>1
    <3> QED BY <1>3, <2>3, <3>1, <3>2
  <2>4. CASE y > i /\ x < i
    <3>1. r[x] = q[x] /\ r[y] = q[y - 1] /\ y - 1 \in 1 .. Len(q) /\ x \in 1 .. Len(q)
      BY <1>1, <2>4
    <3>2. q[y - 1] \in Threads /\ q[x] \in Threads
      BY <3>1
    <3>3. prio[q[x]] >= prio[t] /\ prio[t] >= prio[q[y - 1]]
      BY <1>3, <2>4, <3>1, <3>2
    <3> QED BY <3>1, <3>2, <3>3
  <2>5. CASE y > i /\ x > i
    <3>1. /\ r[x] = q[x - 1] /\ r[y] = q[y - 1]
          /\ y - 1 \in 1 .. Len(q) /\ x - 1 \in 1 .. Len(q)
      BY <1>1, <2>5
    <3>2. x - 1 < y - 1
      BY <1>4
    <3> QED BY <1>2, <3>1, <3>2
  <2>6. y < i \/ y = i \/ (y > i /\ (x = i \/ x < i \/ x > i))
    OBVIOUS
  <2> QED BY <2>1, <2>2, <2>3, <2>4, <2>5, <2>6
<1>5. DOMAIN r = 1 .. Len(q) + 1
  BY <1>1, InList
<1> QED
  BY <1>4, <1>5 DEF Sorted, r

\* Taking the first thread.
LEMMA TailList ==
    ASSUME NEW S, NEW q \in Seq(S), q # <<>>, NoRepeat(q)
    PROVE  /\ Head(q) \in S /\ Head(q) \in Range(q)
           /\ Tail(q) \in Seq(S)
           /\ Len(Tail(q)) = Len(q) - 1
           /\ NoRepeat(Tail(q))
           /\ Range(Tail(q)) = Range(q) \ {Head(q)}
           /\ \A prio : Sorted(q, prio) => Sorted(Tail(q), prio)
<1> DEFINE r == Tail(q)
<1>1. /\ r \in Seq(S) /\ Len(r) = Len(q) - 1 /\ Head(q) \in S
      /\ \A j \in 1 .. Len(q) - 1 : r[j] = q[j + 1]
  OBVIOUS
<1>2. Head(q) = q[1] /\ 1 \in 1 .. Len(q)
  BY InList
<1> HIDE DEF r
<1>3. \A x, y \in 1 .. Len(q) : q[x] = q[y] => x = y
  BY InList DEF NoRepeat
<1>4. NoRepeat(r)
  <2>1. SUFFICES ASSUME NEW x \in 1 .. Len(q) - 1, NEW y \in 1 .. Len(q) - 1,
                        r[x] = r[y]
                 PROVE  x = y
    BY <1>1, InList DEF NoRepeat
  <2>2. q[x + 1] = q[y + 1] /\ x + 1 \in 1 .. Len(q) /\ y + 1 \in 1 .. Len(q)
    BY <1>1, <2>1
  <2>3. x + 1 = y + 1
    BY <1>3, <2>2
  <2> QED BY <2>3
<1>5. ASSUME NEW x PROVE x \in Range(r) <=> x \in Range(q) \ {Head(q)}
  <2>1. ASSUME x \in Range(r) PROVE x \in Range(q) \ {Head(q)}
    <3>1. PICK j \in 1 .. Len(q) - 1 : r[j] = x
      BY <1>1, <2>1, InList
    <3>2. q[j + 1] = x /\ j + 1 \in 1 .. Len(q) /\ j + 1 # 1
      BY <1>1, <3>1
    <3>3. x # q[1]
      BY <1>2, <1>3, <3>2
    <3> QED BY <1>2, <3>2, <3>3, InList
  <2>2. ASSUME x \in Range(q), x # Head(q) PROVE x \in Range(r)
    <3>1. PICK j \in 1 .. Len(q) : q[j] = x
      BY <2>2, InList
    <3>2. j # 1
      BY <1>2, <2>2, <3>1
    <3>3. j - 1 \in 1 .. Len(r) /\ r[j - 1] = x
      BY <1>1, <3>1, <3>2
    <3> QED BY <1>1, <3>3, InList
  <2> QED BY <2>1, <2>2
<1>6. ASSUME NEW prio, Sorted(q, prio) PROVE Sorted(r, prio)
  <2>1. \A x, y \in 1 .. Len(q) : x < y => prio[q[x]] >= prio[q[y]]
    BY <1>6, InList DEF Sorted
  <2>2. SUFFICES ASSUME NEW x \in 1 .. Len(q) - 1, NEW y \in 1 .. Len(q) - 1, x < y
                 PROVE  prio[r[x]] >= prio[r[y]]
    BY <1>1, InList DEF Sorted
  <2>3. /\ r[x] = q[x + 1] /\ r[y] = q[y + 1]
        /\ x + 1 \in 1 .. Len(q) /\ y + 1 \in 1 .. Len(q) /\ x + 1 < y + 1
    BY <1>1, <2>2
  <2> QED BY <2>1, <2>3
<1>7. Head(q) \in Range(q)
  BY <1>2, InList
<1> QED
  BY <1>1, <1>4, <1>5, <1>6, <1>7 DEF r
\* Taking the last thread.
LEMMA ButLastList ==
    ASSUME NEW S, NEW q \in Seq(S), q # <<>>, NoRepeat(q)
    PROVE  /\ LastOf(q) \in S /\ LastOf(q) \in Range(q)
           /\ ButLast(q) \in Seq(S)
           /\ Len(ButLast(q)) = Len(q) - 1
           /\ NoRepeat(ButLast(q))
           /\ Range(ButLast(q)) = Range(q) \ {LastOf(q)}
<1> DEFINE r == ButLast(q)
           n == Len(q)
<1>1. n \in Nat /\ n > 0 /\ LastOf(q) = q[n]
  BY InList DEF LastOf
<1>2. \A j \in 1 .. n - 1 : q[j] \in S
  BY InList
<1>3. /\ r \in Seq(S) /\ Len(r) = n - 1
      /\ \A j \in 1 .. n - 1 : r[j] = q[j]
  <2>1. r = SubSeq(q, 1, n - 1)
    BY DEF ButLast
  <2> HIDE DEF r, n
  <2>2. /\ SubSeq(q, 1, n - 1) \in Seq(S)
        /\ Len(SubSeq(q, 1, n - 1)) = IF 1 <= n - 1 THEN (n - 1) - 1 + 1 ELSE 0
        /\ \A j \in 1 .. (n - 1) - 1 + 1 : SubSeq(q, 1, n - 1)[j] = q[1 + j - 1]
    BY <1>1, <1>2
  <2> QED BY <1>1, <2>1, <2>2
<1> HIDE DEF r, n
<1>4. \A x, y \in 1 .. n : q[x] = q[y] => x = y
  BY InList DEF NoRepeat, n
<1>5. NoRepeat(r)
  BY <1>1, <1>3, <1>4, InList DEF NoRepeat
<1>6. ASSUME NEW x PROVE x \in Range(r) <=> x \in Range(q) \ {LastOf(q)}
  <2>1. ASSUME x \in Range(r) PROVE x \in Range(q) \ {LastOf(q)}
    <3>1. PICK j \in 1 .. n - 1 : r[j] = x
      BY <1>3, <2>1, InList
    <3>2. q[j] = x /\ j \in 1 .. n /\ j # n /\ n \in 1 .. n
      BY <1>1, <1>3, <3>1
    <3>3. x # q[n]
      BY <1>4, <3>2
    <3> QED BY <1>1, <3>2, <3>3, InList DEF n
  <2>2. ASSUME x \in Range(q), x # LastOf(q) PROVE x \in Range(r)
    <3>1. PICK j \in 1 .. n : q[j] = x
      BY <2>2, InList DEF n
    <3>2. j \in 1 .. Len(r) /\ r[j] = x
      BY <1>1, <1>3, <2>2, <3>1
    <3> QED BY <1>3, <3>2, InList
  <2> QED BY <2>1, <2>2
<1>7. LastOf(q) \in Range(q) /\ LastOf(q) \in S
  <2>1. n \in 1 .. Len(q)
    BY <1>1 DEF n
  <2> QED BY <1>1, <2>1, InList
<1> QED
  BY <1>3, <1>5, <1>6, <1>7 DEF r, n

\* Adding a thread at the end.
LEMMA AppendList ==
    ASSUME NEW S, NEW q \in Seq(S), NEW t \in S, NoRepeat(q), t \notin Range(q)
    PROVE  /\ Append(q, t) \in Seq(S)
           /\ Len(Append(q, t)) = Len(q) + 1
           /\ NoRepeat(Append(q, t))
           /\ Range(Append(q, t)) = Range(q) \cup {t}
<1> DEFINE r == Append(q, t)
           n == Len(q)
<1>1. /\ r \in Seq(S) /\ Len(r) = n + 1 /\ r[n + 1] = t
      /\ \A j \in 1 .. n : r[j] = q[j]
  OBVIOUS
<1>2. n \in Nat
  OBVIOUS
<1> HIDE DEF r, n
<1>3. \A x, y \in 1 .. n : q[x] = q[y] => x = y
  BY InList DEF NoRepeat, n
<1>4. \A x \in 1 .. n : q[x] # t
  BY InList DEF n
<1>5. NoRepeat(r)
  <2>1. SUFFICES ASSUME NEW x \in 1 .. n + 1, NEW y \in 1 .. n + 1, r[x] = r[y]
                 PROVE  x = y
    BY <1>1, InList DEF NoRepeat
  <2>2. \A j \in 1 .. n + 1 : j \in 1 .. n \/ j = n + 1
    BY <1>2
  <2> QED BY <1>1, <1>3, <1>4, <2>1, <2>2
<1>6. ASSUME NEW x PROVE x \in Range(r) <=> x \in Range(q) \cup {t}
  <2>1. x \in Range(r) <=> \E j \in 1 .. n + 1 : r[j] = x
    BY <1>1, InList
  <2>2. x \in Range(q) <=> \E j \in 1 .. n : q[j] = x
    BY InList DEF n
  <2>3. 1 .. n + 1 = (1 .. n) \cup {n + 1}
    BY <1>2
  <2> QED BY <1>1, <2>1, <2>2, <2>3
<1> QED
  BY <1>1, <1>5, <1>6 DEF r, n

\* Taking a thread out of the list it is in; other lists are not affected.
LEMMA UnlinkList ==
    ASSUME NEW S, NEW q \in Seq(S), NoRepeat(q), NEW t
    PROVE  /\ Unlink(q, t) \in Seq(S)
           /\ NoRepeat(Unlink(q, t))
           /\ Range(Unlink(q, t)) = Range(q) \ {t}
           /\ Len(Unlink(q, t)) = IF t \in Range(q) THEN Len(q) - 1 ELSE Len(q)
           /\ t \notin Range(q) => Unlink(q, t) = q
<1>1. CASE t \notin Range(q)
  BY <1>1 DEF Unlink
<1>2. CASE t \in Range(q)
  <2> DEFINE i == IndexOf(q, t)
             n == Len(q)
             r == CutAt(q, i)
  <2>1. i \in 1 .. n /\ q[i] = t
    BY <1>2, InList DEF IndexOf
  <2> HIDE DEF i
  <2>2. /\ r \in Seq(S) /\ Len(r) = n - 1 /\ n \in Nat
        /\ \A j \in 1 .. n - 1 : r[j] = IF j < i THEN q[j] ELSE q[j + 1]
    BY <2>1, CutAtProperties
  <2>3. Unlink(q, t) = r
    BY <1>2 DEF Unlink, i
  <2> HIDE DEF r
  <2> DEFINE f(j) == IF j < i THEN j ELSE j + 1
  <2>4. \A j \in 1 .. n - 1 : f(j) \in 1 .. n /\ f(j) # i /\ r[j] = q[f(j)]
    BY <2>1, <2>2
  <2>5. \A x, y \in 1 .. n - 1 : f(x) = f(y) => x = y
    BY <2>1
  <2>6. \A m \in 1 .. n : m # i => \E j \in 1 .. n - 1 : f(j) = m
    <3>1. SUFFICES ASSUME NEW m \in 1 .. n, m # i
                   PROVE  \E j \in 1 .. n - 1 : f(j) = m
      OBVIOUS
    <3>2. CASE m < i
      BY <2>1, <3>1, <3>2
    <3>3. CASE m > i
      <4>1. m - 1 \in 1 .. n - 1 /\ f(m - 1) = m
        BY <2>1, <2>2, <3>3
      <4> QED BY <4>1
    <3> QED BY <2>1, <3>1, <3>2, <3>3
  <2> HIDE DEF f
  <2>7. \A x, y \in 1 .. n : q[x] = q[y] => x = y
    BY InList DEF NoRepeat
  <2>8. NoRepeat(r)
    <3>1. SUFFICES ASSUME NEW x \in 1 .. n - 1, NEW y \in 1 .. n - 1, r[x] = r[y]
                   PROVE  x = y
      BY <2>2, InList DEF NoRepeat
    <3>2. f(x) = f(y)
      BY <2>4, <2>7, <3>1
    <3> QED BY <2>5, <3>2
  <2>9. ASSUME NEW x PROVE x \in Range(r) <=> x \in Range(q) \ {t}
    <3>1. x \in Range(r) <=> \E j \in 1 .. n - 1 : r[j] = x
      BY <2>2, InList
    <3>2. x \in Range(q) <=> \E j \in 1 .. n : q[j] = x
      BY InList
    <3>3. ASSUME NEW j \in 1 .. n - 1, r[j] = x PROVE x \in Range(q) /\ x # t
      BY <2>1, <2>4, <2>7, <3>2, <3>3
    <3>4. ASSUME NEW m \in 1 .. n, q[m] = x, x # t PROVE x \in Range(r)
      <4>1. m # i
        BY <2>1, <3>4
      <4>2. PICK j \in 1 .. n - 1 : f(j) = m
        BY <2>6, <4>1
      <4> QED BY <2>4, <3>1, <3>4, <4>2
    <3> QED BY <3>1, <3>2, <3>3, <3>4
  <2> QED BY <1>2, <2>2, <2>3, <2>8, <2>9
<1> QED
  BY <1>1, <1>2

-----------------------------------------------------------------------------
(* The scheduler. *)

Runnable == {"READY", "CURRENT"}

\* A kernel between two functions of the scheduler.
Good(k, P) == k \in Kernel(P) /\ ReadyListOK(k) /\ IdleOK(k)

\* j differs from k at most in who of the runnable threads runs, in their
\* order in the ready list, and in the time slices.
Same(k, j) ==
    /\ j.prio = k.prio /\ j.queue = k.queue /\ j.u = k.u /\ j.armed = k.armed
    /\ \A t \in Threads : \/ j.state[t] = k.state[t]
                          \/ j.state[t] \in Runnable /\ k.state[t] \in Runnable

\* Some ready thread does not rank below the running one.
MayYield(k) == \E t \in Range(k.ready) : k.prio[t] >= k.prio[k.cur]

-----------------------------------------------------------------------------
\* The parts of a kernel record.
LEMMA KernelParts ==
    ASSUME NEW P, NEW k \in Kernel(P)
    PROVE  /\ k.cur \in Threads /\ k.ready \in Seq(Threads)
           /\ k.state \in [Threads -> States] /\ k.prio \in [Threads -> Nat]
           /\ k.preempt \in [Threads -> 0 .. Quantum]
           /\ k.queue \in [Queues -> Seq(Threads)]
           /\ k.u \in [Threads -> P] /\ k.armed \in SUBSET Threads
  BY DEF Kernel

\* prio_insert puts a thread in its place in a list in order.
LEMMA PrioInsert ==
    ASSUME NEW q \in Seq(Threads), NEW prio \in [Threads -> Nat],
           NEW t \in Threads, NoRepeat(q), Sorted(q, prio), t \notin Range(q),
           NEW r, r = prio_insert(q, prio, t)
    PROVE  /\ r \in Seq(Threads) /\ NoRepeat(r) /\ Sorted(r, prio)
           /\ Range(r) = Range(q) \cup {t}
           /\ \A x : x \in Range(r) <=> x \in Range(q) \/ x = t
<1> DEFINE i == FirstBelow(q, prio, prio[t])
<1>1. prio[t] \in Nat
  OBVIOUS
<1>2. /\ i \in 1 .. Len(q) + 1
      /\ \A m \in 1 .. Len(q) : m < i => prio[q[m]] >= prio[t]
      /\ i <= Len(q) => prio[q[i]] < prio[t]
  BY <1>1, FirstBelowProperties
<1>3. r = LinkBefore(q, i, t)
  BY DEF prio_insert
<1> HIDE DEF i
<1>4. i <= Len(q) => prio[q[i]] <= prio[t]
  <2>1. i <= Len(q) => q[i] \in Threads
    BY <1>2
  <2> QED BY <1>2, <2>1
<1>5. r \in Seq(Threads) /\ NoRepeat(r) /\ Range(r) = Range(q) \cup {t}
  BY <1>2, <1>3, InsertList
<1>6. Sorted(r, prio)
  BY <1>2, <1>3, <1>4, InsertSorted
<1> QED
  BY <1>5, <1>6

\* chSchReadyI puts the thread in the ready list and changes nothing else.
LEMMA ReadyI ==
    ASSUME NEW P, NEW k \in Kernel(P), NEW tp \in Threads,
           NoRepeat(k.ready), Sorted(k.ready, k.prio), tp \notin Range(k.ready),
           NEW j, j = chSchReadyI(k, tp)
    PROVE  /\ j \in Kernel(P)
           /\ NoRepeat(j.ready) /\ Sorted(j.ready, k.prio)
           /\ Range(j.ready) = Range(k.ready) \cup {tp}
           /\ j.state = [k.state EXCEPT ![tp] = "READY"]
           /\ j.cur = k.cur /\ j.prio = k.prio /\ j.preempt = k.preempt
           /\ j.queue = k.queue /\ j.u = k.u /\ j.armed = k.armed
<1>1. PICK r : r = prio_insert(k.ready, k.prio, tp)
  OBVIOUS
<1>2. j = [k EXCEPT !.state[tp] = "READY", !.ready = r]
  BY <1>1 DEF chSchReadyI
<1>3. /\ k.ready \in Seq(Threads) /\ k.prio \in [Threads -> Nat]
      /\ k.state \in [Threads -> States]
  BY KernelParts
<1>4. /\ r \in Seq(Threads) /\ NoRepeat(r) /\ Sorted(r, k.prio)
      /\ Range(r) = Range(k.ready) \cup {tp}
  BY <1>1, <1>3, PrioInsert
<1>5. /\ j.state = [k.state EXCEPT ![tp] = "READY"] /\ j.ready = r
      /\ j.cur = k.cur /\ j.prio = k.prio /\ j.preempt = k.preempt
      /\ j.queue = k.queue /\ j.u = k.u /\ j.armed = k.armed
  BY <1>2 DEF Kernel
<1>6. j \in Kernel(P)
  <2>1. [k.state EXCEPT ![tp] = "READY"] \in [Threads -> States]
    BY <1>3 DEF States
  <2> QED BY <1>2, <1>4, <2>1 DEF Kernel
<1> QED
  BY <1>4, <1>5, <1>6

\* PickFirst makes a thread current that no ready thread outranks.
LEMMA Pick ==
    ASSUME NEW P, NEW k \in Kernel(P),
           NoRepeat(k.ready), Sorted(k.ready, k.prio), k.ready # <<>>,
           NEW j, j = PickFirst(k)
    PROVE  /\ j \in Kernel(P)
           /\ NoRepeat(j.ready) /\ Sorted(j.ready, k.prio)
           /\ j.cur \in Range(k.ready)
           /\ Range(j.ready) = Range(k.ready) \ {j.cur}
           /\ \A t \in Range(k.ready) : k.prio[t] <= k.prio[j.cur]
           /\ j.state = [k.state EXCEPT ![j.cur] = "CURRENT"]
           /\ j.prio = k.prio /\ j.preempt = k.preempt
           /\ j.queue = k.queue /\ j.u = k.u /\ j.armed = k.armed
<1> DEFINE q == k.ready
<1>1. q \in Seq(Threads) /\ k.prio \in [Threads -> Nat]
  BY KernelParts
<1>2. /\ j.ready = Tail(q) /\ j.cur = Head(q)
      /\ j.state = [k.state EXCEPT ![Head(q)] = "CURRENT"]
      /\ j.prio = k.prio /\ j.preempt = k.preempt
      /\ j.queue = k.queue /\ j.u = k.u /\ j.armed = k.armed
  BY DEF PickFirst, Kernel
<1>3. /\ Head(q) \in Threads /\ Head(q) \in Range(q) /\ Tail(q) \in Seq(Threads)
      /\ NoRepeat(Tail(q)) /\ Range(Tail(q)) = Range(q) \ {Head(q)}
      /\ Sorted(Tail(q), k.prio)
  BY <1>1, TailList
<1>4. \A t \in Range(q) : k.prio[t] <= k.prio[Head(q)]
  <2>1. SUFFICES ASSUME NEW t \in Range(q) PROVE k.prio[t] <= k.prio[Head(q)]
    OBVIOUS
  <2>2. PICK i \in 1 .. Len(q) : q[i] = t
    BY <1>1, InList
  <2>3. DOMAIN q = 1 .. Len(q) /\ 1 \in 1 .. Len(q) /\ Head(q) = q[1] /\ t \in Threads
    BY <1>1, <2>2, InList
  <2>4. CASE i = 1
    BY <1>1, <1>3, <2>2, <2>3, <2>4
  <2>5. CASE i > 1
    <3>1. k.prio[q[1]] >= k.prio[q[i]]
      BY <2>3, <2>5 DEF Sorted
    <3> QED BY <1>1, <1>3, <2>2, <2>3, <3>1
  <2> QED BY <2>4, <2>5
<1>5. j \in Kernel(P)
  <2>1. j = [k EXCEPT !.cur = Head(q), !.state = j.state, !.ready = j.ready]
    BY DEF PickFirst, Kernel
  <2>2. j.state \in [Threads -> States]
    BY <1>2, KernelParts DEF States
  <2> QED BY <1>2, <1>3, <2>1, <2>2 DEF Kernel
<1> QED
  BY <1>2, <1>3, <1>4, <1>5

\* Highest, without the head of the list.
LEMMA HighestMeans ==
    ASSUME NEW P, NEW k \in Kernel(P), Sorted(k.ready, k.prio)
    PROVE  Highest(k) <=> \A t \in Range(k.ready) : k.prio[t] <= k.prio[k.cur]
<1> DEFINE q == k.ready
<1>1. q \in Seq(Threads) /\ k.prio \in [Threads -> Nat] /\ k.cur \in Threads
  BY KernelParts
<1>2. CASE q = <<>>
  <2>1. Range(q) = {}
    BY <1>2 DEF Range
  <2>2. firstprio(k) = 0 /\ k.prio[k.cur] >= 0
    BY <1>1, <1>2 DEF firstprio, NOPRIO
  <2> QED BY <2>1, <2>2 DEF Highest
<1>3. CASE q # <<>>
  <2>1. 1 \in 1 .. Len(q) /\ Head(q) = q[1] /\ q[1] \in Range(q) /\ DOMAIN q = 1 .. Len(q)
    BY <1>1, <1>3, InList
  <2>2. Highest(k) <=> k.prio[q[1]] <= k.prio[k.cur]
    BY <1>3, <2>1 DEF Highest, firstprio
  <2>3. ASSUME NEW t \in Range(q) PROVE k.prio[t] <= k.prio[q[1]]
    <3>1. PICK i \in 1 .. Len(q) : q[i] = t
      BY <1>1, InList
    <3>2. i = 1 \/ k.prio[q[1]] >= k.prio[q[i]]
      BY <2>1 DEF Sorted
    <3>3. q[1] \in Threads /\ t \in Threads
      BY <1>1, <2>1, InList
    <3> QED BY <1>1, <3>1, <3>2, <3>3
  <2>4. Range(q) \subseteq Threads
    BY <1>1, InList
  <2> QED BY <1>1, <2>1, <2>2, <2>3, <2>4
<1> QED
  BY <1>2, <1>3
-----------------------------------------------------------------------------
\* chSchReadyI, on a kernel that is in order.
LEMMA ReadyGood ==
    ASSUME NEW P, NEW k, Good(k, P), NEW tp \in Threads,
           k.state[tp] \notin Runnable, NEW j, j = chSchReadyI(k, tp)
    PROVE  /\ Good(j, P)
           /\ j.state = [k.state EXCEPT ![tp] = "READY"]
           /\ j.cur = k.cur /\ j.prio = k.prio /\ j.preempt = k.preempt
           /\ j.queue = k.queue /\ j.u = k.u /\ j.armed = k.armed
<1>1. k \in Kernel(P) /\ NoRepeat(k.ready) /\ Sorted(k.ready, k.prio)
  BY DEF Good, ReadyListOK, Sorted
<1>2. tp \notin Range(k.ready)
  BY DEF Good, ReadyListOK, Runnable
<1>3. /\ j \in Kernel(P) /\ NoRepeat(j.ready) /\ Sorted(j.ready, k.prio)
      /\ Range(j.ready) = Range(k.ready) \cup {tp}
      /\ j.state = [k.state EXCEPT ![tp] = "READY"]
      /\ j.cur = k.cur /\ j.prio = k.prio /\ j.preempt = k.preempt
      /\ j.queue = k.queue /\ j.u = k.u /\ j.armed = k.armed
  BY <1>1, <1>2, ReadyI
<1>4. k.state \in [Threads -> States]
  BY <1>1, KernelParts
<1>5. ReadyListOK(j)
  <2>1. \A t \in Threads : j.state[t] = "READY" <=> t \in Range(j.ready)
    BY <1>3, <1>4 DEF Good, ReadyListOK
  <2>2. \A t \in Threads : j.state[t] = "CURRENT" <=> t = j.cur
    BY <1>3, <1>4 DEF Good, ReadyListOK, Runnable
  <2> QED BY <1>3, <2>1, <2>2 DEF ReadyListOK, Sorted
<1>6. IdleOK(j)
  BY <1>3, <1>4, IdleAssumption DEF Good, IdleOK
<1> QED
  BY <1>3, <1>5, <1>6 DEF Good

\* While another thread runs, the idle thread is in the ready list.
LEMMA SomeoneReady ==
    ASSUME NEW P, NEW k, Good(k, P), k.cur # Idle
    PROVE  k.ready # <<>>
<1>1. Idle \in Range(k.ready)
  BY IdleAssumption DEF Good, ReadyListOK, IdleOK
<1> QED BY <1>1 DEF Range

\* chSchGoSleepS puts the caller, and nobody else, to sleep, and the thread
\* it switches to is one of the highest priority.
LEMMA GoSleepS ==
    ASSUME NEW P, NEW k, Good(k, P), k.cur # Idle, NEW ns \in Blocked,
           NEW j, j = chSchGoSleepS(k, ns)
    PROVE  /\ Good(j, P) /\ Highest(j)
           /\ Same([k EXCEPT !.state[k.cur] = ns], j)
           /\ j.state[k.cur] = ns
           /\ j.cur # k.cur
<1> DEFINE k1 == [k EXCEPT !.state[k.cur] = ns, !.preempt[k.cur] = Quantum]
<1>1. k \in Kernel(P) /\ NoRepeat(k.ready) /\ Sorted(k.ready, k.prio)
  BY DEF Good, ReadyListOK, Sorted
<1>2. k.ready # <<>>
  BY SomeoneReady
<1>3. /\ k1.ready = k.ready /\ k1.prio = k.prio /\ k1.queue = k.queue
      /\ k1.u = k.u /\ k1.armed = k.armed
      /\ k1.state = [k.state EXCEPT ![k.cur] = ns]
  BY <1>1 DEF Kernel
<1>4. k1 \in Kernel(P)
  <2>1. [k.preempt EXCEPT ![k.cur] = Quantum] \in [Threads -> 0 .. Quantum]
    BY <1>1, KernelParts, QuantumAssumption
  <2>2. [k.state EXCEPT ![k.cur] = ns] \in [Threads -> States]
    BY <1>1, KernelParts DEF States
  <2> QED BY <1>1, <2>1, <2>2 DEF Kernel
<1>5. j = PickFirst(k1)
  BY DEF chSchGoSleepS
<1> HIDE DEF k1
<1>6. /\ j \in Kernel(P) /\ NoRepeat(j.ready) /\ Sorted(j.ready, k.prio)
      /\ j.cur \in Range(k.ready)
      /\ Range(j.ready) = Range(k.ready) \ {j.cur}
      /\ \A t \in Range(k.ready) : k.prio[t] <= k.prio[j.cur]
      /\ j.state = [k1.state EXCEPT ![j.cur] = "CURRENT"]
      /\ j.prio = k.prio /\ j.queue = k.queue /\ j.u = k.u /\ j.armed = k.armed
  <2>1. NoRepeat(k1.ready) /\ Sorted(k1.ready, k1.prio) /\ k1.ready # <<>>
    BY <1>1, <1>2, <1>3
  <2>2. /\ j \in Kernel(P) /\ NoRepeat(j.ready) /\ Sorted(j.ready, k1.prio)
        /\ j.cur \in Range(k1.ready)
        /\ Range(j.ready) = Range(k1.ready) \ {j.cur}
        /\ \A t \in Range(k1.ready) : k1.prio[t] <= k1.prio[j.cur]
        /\ j.state = [k1.state EXCEPT ![j.cur] = "CURRENT"]
        /\ j.prio = k1.prio /\ j.queue = k1.queue /\ j.u = k1.u /\ j.armed = k1.armed
    BY <1>4, <1>5, <2>1, Pick
  <2> QED BY <1>3, <2>2
<1>7. k.state \in [Threads -> States] /\ k.cur \in Threads /\ j.cur \in Threads
  BY <1>1, <1>6, KernelParts
<1>8. j.cur # k.cur /\ k.state[j.cur] = "READY"
  BY <1>6, <1>7 DEF Good, ReadyListOK
<1>9. \A t \in Threads : j.state[t] = IF t = j.cur THEN "CURRENT"
                                      ELSE IF t = k.cur THEN ns ELSE k.state[t]
  BY <1>3, <1>6, <1>7
<1>10. ReadyListOK(j)
  <2>1. ns # "READY" /\ ns # "CURRENT"
    BY DEF Blocked
  <2>2. \A t \in Threads : j.state[t] = "READY" <=> t \in Range(j.ready)
    BY <1>6, <1>7, <1>8, <1>9, <2>1 DEF Good, ReadyListOK
  <2>3. \A t \in Threads : j.state[t] = "CURRENT" <=> t = j.cur
    BY <1>7, <1>8, <1>9, <2>1 DEF Good, ReadyListOK
  <2> QED BY <1>6, <2>2, <2>3 DEF ReadyListOK, Sorted
<1>11. IdleOK(j)
  BY <1>6, <1>9, IdleAssumption DEF Good, IdleOK
<1>12. Highest(j)
  BY <1>6, HighestMeans
<1>13. Same([k EXCEPT !.state[k.cur] = ns], j)
  <2>1. /\ [k EXCEPT !.state[k.cur] = ns].state = [k.state EXCEPT ![k.cur] = ns]
        /\ [k EXCEPT !.state[k.cur] = ns].prio = k.prio
        /\ [k EXCEPT !.state[k.cur] = ns].queue = k.queue
        /\ [k EXCEPT !.state[k.cur] = ns].u = k.u
        /\ [k EXCEPT !.state[k.cur] = ns].armed = k.armed
    BY <1>1 DEF Kernel
  <2> QED BY <1>6, <1>7, <1>8, <1>9, <2>1 DEF Same, Runnable
<1> QED
  BY <1>6, <1>7, <1>8, <1>9, <1>10, <1>11, <1>12, <1>13 DEF Good
\* The caller and a ready thread of the highest priority change places.
LEMMA Switch ==
    ASSUME NEW P, NEW k, Good(k, P), NEW j \in Kernel(P),
           j.cur \in Range(k.ready),
           \A t \in Range(k.ready) : k.prio[t] <= k.prio[j.cur],
           k.prio[k.cur] <= k.prio[j.cur],
           NoRepeat(j.ready), Sorted(j.ready, k.prio),
           Range(j.ready) = (Range(k.ready) \ {j.cur}) \cup {k.cur},
           j.state = [k.state EXCEPT ![j.cur] = "CURRENT", ![k.cur] = "READY"],
           j.prio = k.prio, j.queue = k.queue, j.u = k.u, j.armed = k.armed
    PROVE  Good(j, P) /\ Highest(j) /\ Same(k, j)
<1>1. k \in Kernel(P)
  BY DEF Good
<1>2. k.state \in [Threads -> States] /\ k.cur \in Threads /\ j.cur \in Threads
  BY <1>1, KernelParts
<1>3. j.cur # k.cur /\ k.state[j.cur] = "READY" /\ k.state[k.cur] = "CURRENT"
  BY <1>2 DEF Good, ReadyListOK
<1>4. \A t \in Threads : j.state[t] = IF t = j.cur THEN "CURRENT"
                                      ELSE IF t = k.cur THEN "READY" ELSE k.state[t]
  BY <1>2, <1>3
<1>5. ReadyListOK(j)
  <2>1. \A t \in Threads : j.state[t] = "READY" <=> t \in Range(j.ready)
    BY <1>2, <1>3, <1>4 DEF Good, ReadyListOK
  <2>2. \A t \in Threads : j.state[t] = "CURRENT" <=> t = j.cur
    BY <1>2, <1>3, <1>4 DEF Good, ReadyListOK
  <2> QED BY <2>1, <2>2 DEF ReadyListOK, Sorted
<1>6. IdleOK(j)
  BY <1>4, IdleAssumption DEF Good, IdleOK
<1>7. Highest(j)
  BY HighestMeans
<1>8. Same(k, j)
  BY <1>3, <1>4 DEF Same, Runnable
<1> QED
  BY <1>5, <1>6, <1>7, <1>8 DEF Good

\* What both ways of giving up the processor start with.
LEMMA PickYield ==
    ASSUME NEW P, NEW k, Good(k, P), MayYield(k), NEW k1, k1 = PickFirst(k)
    PROVE  /\ k1 \in Kernel(P)
           /\ NoRepeat(k1.ready) /\ Sorted(k1.ready, k.prio)
           /\ k1.cur \in Range(k.ready)
           /\ Range(k1.ready) = Range(k.ready) \ {k1.cur}
           /\ \A t \in Range(k.ready) : k.prio[t] <= k.prio[k1.cur]
           /\ k.prio[k.cur] <= k.prio[k1.cur]
           /\ k1.state = [k.state EXCEPT ![k1.cur] = "CURRENT"]
           /\ k1.prio = k.prio /\ k1.preempt = k.preempt
           /\ k1.queue = k.queue /\ k1.u = k.u /\ k1.armed = k.armed
           /\ k.cur \in Threads /\ k.cur \notin Range(k1.ready)
           /\ k.prio \in [Threads -> Nat]
<1>1. k \in Kernel(P) /\ NoRepeat(k.ready) /\ Sorted(k.ready, k.prio)
  BY DEF Good, ReadyListOK, Sorted
<1>2. PICK t \in Range(k.ready) : k.prio[t] >= k.prio[k.cur]
  BY DEF MayYield
<1>3. k.ready # <<>>
  BY <1>2 DEF Range
<1>4. /\ k1 \in Kernel(P)
      /\ NoRepeat(k1.ready) /\ Sorted(k1.ready, k.prio)
      /\ k1.cur \in Range(k.ready)
      /\ Range(k1.ready) = Range(k.ready) \ {k1.cur}
      /\ \A x \in Range(k.ready) : k.prio[x] <= k.prio[k1.cur]
      /\ k1.state = [k.state EXCEPT ![k1.cur] = "CURRENT"]
      /\ k1.prio = k.prio /\ k1.preempt = k.preempt
      /\ k1.queue = k.queue /\ k1.u = k.u /\ k1.armed = k.armed
  <2>1. /\ k1 \in Kernel(P)
        /\ NoRepeat(k1.ready) /\ Sorted(k1.ready, k.prio)
        /\ k1.cur \in Range(k.ready)
    BY <1>1, <1>3, Pick
  <2>4. Range(k1.ready) = Range(k.ready) \ {k1.cur}
    <3>1. k1.ready = Tail(k.ready) /\ k1.cur = Head(k.ready)
      BY <1>1 DEF PickFirst, Kernel
    <3>2. k.ready \in Seq(Threads)
      BY <1>1, KernelParts
    <3>3. Range(Tail(k.ready)) = Range(k.ready) \ {Head(k.ready)}
      BY <1>1, <1>3, <3>2, TailList
    <3> QED BY <3>1, <3>3
  <2>2. \A x \in Range(k.ready) : k.prio[x] <= k.prio[k1.cur]
    BY <1>1, <1>3, Pick
  <2>3. /\ k1.state = [k.state EXCEPT ![k1.cur] = "CURRENT"]
        /\ k1.prio = k.prio /\ k1.preempt = k.preempt
        /\ k1.queue = k.queue /\ k1.u = k.u /\ k1.armed = k.armed
    BY <1>1, <1>3, Pick
  <2> QED BY <2>1, <2>2, <2>3, <2>4
<1>5. k.cur \in Threads /\ k.prio \in [Threads -> Nat] /\ k.ready \in Seq(Threads)
  BY <1>1, KernelParts
<1>6. k.prio[k.cur] <= k.prio[k1.cur]
  <2>1. k.prio[t] \in Nat /\ k.prio[k.cur] \in Nat /\ k.prio[k1.cur] \in Nat
    BY <1>4, <1>5, InList
  <2> QED BY <1>2, <1>4, <2>1
<1>7. k.cur \notin Range(k1.ready)
  BY <1>4, <1>5 DEF Good, ReadyListOK
<1> QED
  BY <1>4, <1>5, <1>6, <1>7

\* The two ways to give the processor to the first ready thread.
LEMMA RescheduleBehind ==
    ASSUME NEW P, NEW k, Good(k, P), MayYield(k),
           NEW j, j = chSchDoRescheduleBehind(k)
    PROVE  Good(j, P) /\ Highest(j) /\ Same(k, j)
<1>1. PICK k1 : k1 = PickFirst(k)
  OBVIOUS
<1>2. PICK k2 : k2 = [k1 EXCEPT !.preempt[k.cur] = Quantum]
  OBVIOUS
<1>3. PICK c : c = k.cur
  OBVIOUS
<1>4. j = chSchReadyI(k2, c)
  BY <1>1, <1>2, <1>3 DEF chSchDoRescheduleBehind
<1>5. /\ k1 \in Kernel(P)
      /\ NoRepeat(k1.ready) /\ Sorted(k1.ready, k.prio)
      /\ k1.cur \in Range(k.ready)
      /\ Range(k1.ready) = Range(k.ready) \ {k1.cur}
      /\ \A t \in Range(k.ready) : k.prio[t] <= k.prio[k1.cur]
      /\ k.prio[c] <= k.prio[k1.cur]
      /\ k1.state = [k.state EXCEPT ![k1.cur] = "CURRENT"]
      /\ k1.prio = k.prio
      /\ k1.queue = k.queue /\ k1.u = k.u /\ k1.armed = k.armed
      /\ c \in Threads /\ c \notin Range(k1.ready)
  BY <1>1, <1>3, PickYield
<1>6. /\ k2.ready = k1.ready /\ k2.cur = k1.cur /\ k2.state = k1.state
      /\ k2.prio = k1.prio /\ k2.queue = k1.queue /\ k2.u = k1.u
      /\ k2.armed = k1.armed
  BY <1>2, <1>5 DEF Kernel
<1>7. k2 \in Kernel(P)
  <2>1. k1.preempt \in [Threads -> 0 .. Quantum]
    BY <1>5, KernelParts
  <2>2. Quantum \in 0 .. Quantum
    BY QuantumAssumption
  <2>3. [k1.preempt EXCEPT ![c] = Quantum] \in [Threads -> 0 .. Quantum]
    BY <2>1, <2>2
  <2> QED BY <1>2, <1>3, <1>5, <2>3 DEF Kernel
<1>8. /\ j \in Kernel(P)
      /\ NoRepeat(j.ready) /\ Sorted(j.ready, k2.prio)
      /\ Range(j.ready) = Range(k2.ready) \cup {c}
      /\ j.state = [k2.state EXCEPT ![c] = "READY"]
      /\ j.cur = k2.cur /\ j.prio = k2.prio
      /\ j.queue = k2.queue /\ j.u = k2.u /\ j.armed = k2.armed
  <2>1. NoRepeat(k2.ready) /\ Sorted(k2.ready, k2.prio) /\ c \notin Range(k2.ready)
    BY <1>5, <1>6
  <2>2. c \in Threads
    BY <1>5
  <2> QED BY <1>4, <1>7, <2>1, <2>2, ReadyI
<1>9. /\ j.cur = k1.cur /\ Sorted(j.ready, k.prio)
      /\ Range(j.ready) = (Range(k.ready) \ {j.cur}) \cup {c}
      /\ j.state = [k.state EXCEPT ![j.cur] = "CURRENT", ![c] = "READY"]
      /\ j.prio = k.prio /\ j.queue = k.queue /\ j.u = k.u /\ j.armed = k.armed
  BY <1>5, <1>6, <1>8
<1> QED
  BY <1>3, <1>5, <1>8, <1>9, Switch

\* chSchDoRescheduleAhead, when the first ready thread may have the processor.
LEMMA RescheduleAhead ==
    ASSUME NEW P, NEW k, Good(k, P), MayYield(k),
           NEW j, j = chSchDoRescheduleAhead(k)
    PROVE  Good(j, P) /\ Highest(j) /\ Same(k, j)
<1>1. PICK k1 : k1 = PickFirst(k)
  OBVIOUS
<1>2. PICK c, pr, q : c = k.cur /\ pr = k.prio /\ q = k1.ready
  OBVIOUS
<1>3. PICK at : at = FirstBelow(q, pr, pr[c] + 1)
  OBVIOUS
<1>4. j = [k1 EXCEPT !.state[c] = "READY", !.ready = LinkBefore(q, at, c)]
  BY <1>1, <1>2, <1>3 DEF chSchDoRescheduleAhead
<1>5. /\ k1 \in Kernel(P)
      /\ NoRepeat(k1.ready) /\ Sorted(k1.ready, k.prio)
      /\ k1.cur \in Range(k.ready)
      /\ Range(k1.ready) = Range(k.ready) \ {k1.cur}
      /\ \A t \in Range(k.ready) : k.prio[t] <= k.prio[k1.cur]
      /\ k.prio[c] <= k.prio[k1.cur]
      /\ k1.state = [k.state EXCEPT ![k1.cur] = "CURRENT"]
      /\ k1.prio = k.prio
      /\ k1.queue = k.queue /\ k1.u = k.u /\ k1.armed = k.armed
      /\ c \in Threads /\ c \notin Range(k1.ready)
      /\ k.prio \in [Threads -> Nat]
  BY <1>1, <1>2, PickYield
<1>6. /\ q \in Seq(Threads) /\ NoRepeat(q) /\ Sorted(q, pr)
      /\ c \in Threads /\ c \notin Range(q) /\ pr \in [Threads -> Nat]
  BY <1>2, <1>5, KernelParts
<1>7. /\ at \in 1 .. Len(q) + 1
      /\ \A m \in 1 .. Len(q) : m < at => pr[q[m]] >= pr[c] + 1
      /\ at <= Len(q) => pr[q[at]] < pr[c] + 1
  <2>1. pr[c] + 1 \in Nat
    BY <1>6
  <2> QED BY <1>3, <1>6, <2>1, FirstBelowProperties
<1>8. PICK r : r = LinkBefore(q, at, c)
  OBVIOUS
<1>9. /\ j.ready = r /\ j.cur = k1.cur
      /\ j.state = [k1.state EXCEPT ![c] = "READY"]
      /\ j.prio = k1.prio /\ j.queue = k1.queue /\ j.u = k1.u /\ j.armed = k1.armed
  BY <1>4, <1>5, <1>8 DEF Kernel
<1>10. r \in Seq(Threads) /\ NoRepeat(r) /\ Range(r) = Range(q) \cup {c}
  BY <1>6, <1>7, <1>8, InsertList
<1>11. Sorted(r, pr)
  <2>1. \A m \in 1 .. Len(q) : q[m] \in Threads
    BY <1>6
  <2>2. \A m \in 1 .. Len(q) : m < at => pr[q[m]] >= pr[c]
    BY <1>6, <1>7, <2>1
  <2>3. at <= Len(q) => pr[q[at]] <= pr[c]
    <3>1. at <= Len(q) => q[at] \in Threads
      BY <1>7, <2>1
    <3> QED BY <1>6, <1>7, <3>1
  <2> QED BY <1>6, <1>7, <1>8, <2>2, <2>3, InsertSorted
<1>12. j \in Kernel(P)
  <2>1. k1.state \in [Threads -> States]
    BY <1>5, KernelParts
  <2>2. [k1.state EXCEPT ![c] = "READY"] \in [Threads -> States]
    BY <2>1 DEF States
  <2>3. j = [k1 EXCEPT !.state = [k1.state EXCEPT ![c] = "READY"], !.ready = r]
    BY <1>4, <1>5, <1>8 DEF Kernel
  <2> QED BY <1>5, <1>10, <2>2, <2>3 DEF Kernel
<1>13. /\ NoRepeat(j.ready) /\ Sorted(j.ready, k.prio)
       /\ Range(j.ready) = (Range(k.ready) \ {j.cur}) \cup {c}
       /\ j.state = [k.state EXCEPT ![j.cur] = "CURRENT", ![c] = "READY"]
       /\ j.prio = k.prio /\ j.queue = k.queue /\ j.u = k.u /\ j.armed = k.armed
  BY <1>2, <1>5, <1>9, <1>10, <1>11
<1> QED
  BY <1>2, <1>5, <1>9, <1>12, <1>13, Switch
\* firstprio compared with the priority of the running thread.
LEMMA FirstPrio ==
    ASSUME NEW P, NEW k, Good(k, P)
    PROVE  /\ firstprio(k) \in Nat /\ k.prio[k.cur] \in Nat
           /\ firstprio(k) >= k.prio[k.cur] => MayYield(k)
<1>1. k \in Kernel(P) /\ k.ready \in Seq(Threads) /\ k.prio \in [Threads -> Nat]
  BY KernelParts DEF Good
<1>2. k.cur \in Threads
  BY <1>1, KernelParts
<1>3. k.prio[k.cur] \in Nat /\ k.prio[k.cur] > 0
  <2>1. k.prio[Idle] = 1 /\ \A t \in Threads \ {Idle} : k.prio[t] > k.prio[Idle]
    BY DEF Good, IdleOK, IDLEPRIO
  <2> QED BY <1>1, <1>2, <2>1
<1>4. CASE k.ready = <<>>
  BY <1>3, <1>4 DEF firstprio, NOPRIO
<1>5. CASE k.ready # <<>>
  <2>1. 1 \in 1 .. Len(k.ready) /\ Head(k.ready) = k.ready[1]
    BY <1>1, <1>5, InList
  <2>2. k.ready[1] \in Range(k.ready) /\ k.ready[1] \in Threads
    BY <1>1, <2>1, InList
  <2>3. firstprio(k) = k.prio[k.ready[1]]
    BY <1>5, <2>1 DEF firstprio
  <2> QED BY <1>1, <1>3, <2>2, <2>3 DEF MayYield
<1> QED
  BY <1>4, <1>5

\* The functions that may switch leave the highest priority running.
LEMMA RescheduleS ==
    ASSUME NEW P, NEW k, Good(k, P), NEW j, j = chSchRescheduleS(k)
    PROVE  Good(j, P) /\ Highest(j) /\ Same(k, j)
<1>1. CASE firstprio(k) > k.prio[k.cur]
  <2>1. MayYield(k)
    BY <1>1, FirstPrio
  <2>2. j = chSchDoRescheduleAhead(k)
    BY <1>1 DEF chSchRescheduleS
  <2> QED BY <2>1, <2>2, RescheduleAhead
<1>2. CASE ~ (firstprio(k) > k.prio[k.cur])
  <2>1. j = k
    BY <1>2 DEF chSchRescheduleS
  <2>2. Highest(k)
    BY <1>2, FirstPrio DEF Highest
  <2> QED BY <2>1, <2>2 DEF Same
<1> QED
  BY <1>1, <1>2

\* chSchDoYieldS gives the processor to a thread of the same priority.
LEMMA DoYieldS ==
    ASSUME NEW P, NEW k, Good(k, P), NEW j, j = chSchDoYieldS(k)
    PROVE  Good(j, P) /\ Highest(j) /\ Same(k, j)
<1>1. CASE firstprio(k) >= k.prio[k.cur]
  <2>1. MayYield(k)
    BY <1>1, FirstPrio
  <2>2. j = chSchDoRescheduleBehind(k)
    BY <1>1 DEF chSchDoYieldS
  <2> QED BY <2>1, <2>2, RescheduleBehind
<1>2. CASE ~ (firstprio(k) >= k.prio[k.cur])
  <2>1. j = k
    BY <1>2 DEF chSchDoYieldS
  <2>2. Highest(k)
    BY <1>2, FirstPrio DEF Highest
  <2> QED BY <2>1, <2>2 DEF Same
<1> QED
  BY <1>1, <1>2

\* The end of an interrupt, with its preemption test.
LEMMA Epilogue ==
    ASSUME NEW P, NEW k, Good(k, P), NEW j, j = _port_irq_epilogue(k)
    PROVE  Good(j, P) /\ Highest(j) /\ Same(k, j)
<1>1. CASE chSchIsPreemptionRequired(k)
  <2>1. firstprio(k) >= k.prio[k.cur]
    BY <1>1, FirstPrio DEF chSchIsPreemptionRequired
  <2>2. MayYield(k)
    BY <2>1, FirstPrio
  <2>3. j = chSchDoRescheduleBehind(k) \/ j = chSchDoRescheduleAhead(k)
    BY <1>1 DEF _port_irq_epilogue, chSchDoReschedule
  <2> QED BY <2>2, <2>3, RescheduleBehind, RescheduleAhead
<1>2. CASE ~ chSchIsPreemptionRequired(k)
  <2>1. j = k
    BY <1>2 DEF _port_irq_epilogue
  <2>2. Highest(k)
    BY <1>2, FirstPrio DEF Highest, chSchIsPreemptionRequired
  <2> QED BY <2>1, <2>2 DEF Same
<1> QED
  BY <1>1, <1>2

\* The state chSysInit leaves: the main thread runs and the idle thread is
\* ready.
LEMMA Started ==
    ASSUME NEW P, RDY_OK \in P, NEW main \in Threads \ {Idle},
           NEW b \in [Threads -> Nat \ {NOPRIO}], b[Idle] = IDLEPRIO,
           \A t \in Threads \ {Idle} : b[t] > IDLEPRIO,
           NEW k,
           k = [cur     |-> main,
                ready   |-> <<Idle>>,
                state   |-> [t \in Threads |-> IF t = main THEN "CURRENT"
                                               ELSE IF t = Idle THEN "READY"
                                               ELSE "SUSPENDED"],
                prio    |-> b,
                preempt |-> [t \in Threads |-> Quantum],
                queue   |-> [q \in Queues |-> <<>>],
                u       |-> [t \in Threads |-> RDY_OK],
                armed   |-> {}]
    PROVE  Good(k, P) /\ Highest(k)
<1>1. k \in Kernel(P)
  <2>1. b \in [Threads -> Nat] /\ Quantum \in 0 .. Quantum
    BY QuantumAssumption
  <2>2. <<Idle>> \in Seq(Threads) /\ <<>> \in Seq(Threads)
    BY IdleAssumption
  <2>3. [t \in Threads |-> IF t = main THEN "CURRENT"
            ELSE IF t = Idle THEN "READY" ELSE "SUSPENDED"] \in [Threads -> States]
    BY DEF States, Blocked
  <2>4. [q \in Queues |-> <<>>] \in [Queues -> Seq(Threads)]
    BY <2>2
  <2>5. [t \in Threads |-> RDY_OK] \in [Threads -> P]
    OBVIOUS
  <2>6. [t \in Threads |-> Quantum] \in [Threads -> 0 .. Quantum]
    BY <2>1
  <2> QED BY <2>1, <2>2, <2>3, <2>4, <2>5, <2>6 DEF Kernel
<1>2. /\ k.cur = main /\ k.ready = <<Idle>> /\ k.prio = b
      /\ \A t \in Threads : k.state[t] = IF t = main THEN "CURRENT"
                                         ELSE IF t = Idle THEN "READY" ELSE "SUSPENDED"
  OBVIOUS
<1>3. Range(k.ready) = {Idle} /\ DOMAIN k.ready = {1} /\ k.ready[1] = Idle
  BY <1>2 DEF Range
<1>4. ReadyListOK(k)
  BY <1>2, <1>3, IdleAssumption DEF ReadyListOK, NoRepeat
<1>5. IdleOK(k)
  BY <1>2, IdleAssumption DEF IdleOK
<1>6. Highest(k)
  <2>1. firstprio(k) = b[Idle] /\ k.prio[k.cur] = b[main]
    BY <1>2 DEF firstprio
  <2> QED BY <2>1, IdleAssumption DEF Highest, IDLEPRIO
<1> QED BY <1>1, <1>4, <1>5, <1>6 DEF Good

\* A change of the other parts of the kernel does not matter here.
LEMMA OtherParts ==
    ASSUME NEW P, NEW k, Good(k, P), NEW j \in Kernel(P),
           j.cur = k.cur, j.ready = k.ready, j.state = k.state, j.prio = k.prio
    PROVE  Good(j, P) /\ (Highest(j) <=> Highest(k))
  BY DEF Good, ReadyListOK, IdleOK, Highest, firstprio

\* Nor does the state of a thread that is not runnable and stays so.
LEMMA BlockedParts ==
    ASSUME NEW P, NEW k, Good(k, P), NEW j \in Kernel(P),
           j.cur = k.cur, j.ready = k.ready, j.prio = k.prio,
           \A t \in Threads : \/ j.state[t] = k.state[t]
                              \/ j.state[t] \notin Runnable /\ k.state[t] \notin Runnable
    PROVE  Good(j, P) /\ (Highest(j) <=> Highest(k))
<1>1. ReadyListOK(j)
  BY DEF Good, ReadyListOK, Runnable
<1>2. IdleOK(j)
  BY IdleAssumption DEF Good, IdleOK, Runnable
<1>3. Highest(j) <=> Highest(k)
  BY DEF Highest, firstprio
<1> QED BY <1>1, <1>2, <1>3 DEF Good

\* The tick is charged to the running thread; nothing else changes.
LEMMA Charge ==
    ASSUME NEW P, NEW k, Good(k, P), NEW j, j = ChargeTick(k)
    PROVE  /\ Good(j, P) /\ Same(k, j) /\ (Highest(j) <=> Highest(k))
           /\ j.cur = k.cur /\ j.state = k.state
<1>1. /\ k \in Kernel(P) /\ k.preempt \in [Threads -> 0 .. Quantum]
      /\ k.cur \in Threads /\ Quantum \in Nat
  BY KernelParts, QuantumAssumption DEF Good
<1>2. PICK c, f : /\ c = k.cur
                  /\ f = [k.preempt EXCEPT ![c] = IF k.preempt[c] > 0
                                                  THEN k.preempt[c] - 1
                                                  ELSE k.preempt[c]]
  OBVIOUS
<1>3. f \in [Threads -> 0 .. Quantum]
  <2>1. k.preempt[c] \in 0 .. Quantum
    BY <1>1, <1>2
  <2>2. (IF k.preempt[c] > 0 THEN k.preempt[c] - 1 ELSE k.preempt[c]) \in 0 .. Quantum
    BY <1>1, <2>1
  <2> QED BY <1>1, <1>2, <2>2
<1>4. j = [k EXCEPT !.preempt = f]
  BY <1>2 DEF ChargeTick
<1>5. /\ j \in Kernel(P) /\ j.cur = k.cur /\ j.ready = k.ready
      /\ j.state = k.state /\ j.prio = k.prio
      /\ j.queue = k.queue /\ j.u = k.u /\ j.armed = k.armed
  BY <1>1, <1>3, <1>4 DEF Kernel
<1>6. Good(j, P) /\ (Highest(j) <=> Highest(k))
  BY <1>5, OtherParts
<1>7. Same(k, j)
  BY <1>5 DEF Same
<1> QED BY <1>5, <1>6, <1>7

\* chSchWakeupS makes the thread runnable with its message and keeps the
\* highest priority running.
LEMMA WakeupS ==
    ASSUME NEW P, NEW k, Good(k, P), Highest(k), NEW t \in Threads,
           k.state[t] \notin Runnable, NEW m \in P,
           NEW j, j = chSchWakeupS(k, t, m)
    PROVE  /\ Good(j, P) /\ Highest(j)
           /\ j.state[t] \in Runnable
           /\ \A x \in Threads \ {t} :
                  \/ j.state[x] = k.state[x]
                  \/ j.state[x] \in Runnable /\ k.state[x] \in Runnable
           /\ j.prio = k.prio /\ j.queue = k.queue /\ j.armed = k.armed
           /\ j.u = [k.u EXCEPT ![t] = m]
<1>1. PICK k1 : k1 = [k EXCEPT !.u[t] = m]
  OBVIOUS
<1>2. /\ Good(k1, P) /\ Highest(k1)
      /\ k1.u = [k.u EXCEPT ![t] = m]
      /\ k1.cur = k.cur /\ k1.ready = k.ready /\ k1.state = k.state
      /\ k1.prio = k.prio /\ k1.queue = k.queue /\ k1.armed = k.armed
  <2>1. k \in Kernel(P) /\ k.u \in [Threads -> P]
    BY KernelParts DEF Good
  <2>2. /\ k1.u = [k.u EXCEPT ![t] = m]
        /\ k1.cur = k.cur /\ k1.ready = k.ready /\ k1.state = k.state
        /\ k1.prio = k.prio /\ k1.queue = k.queue /\ k1.armed = k.armed
    BY <1>1, <2>1 DEF Kernel
  <2>3. [k.u EXCEPT ![t] = m] \in [Threads -> P]
    BY <2>1
  <2>4. k1 \in Kernel(P)
    BY <1>1, <2>1, <2>3 DEF Kernel
  <2> QED BY <2>2, <2>4, OtherParts
<1>3. /\ k1 \in Kernel(P) /\ NoRepeat(k1.ready) /\ Sorted(k1.ready, k1.prio)
      /\ ReadyListOK(k1)
  BY <1>2 DEF Good, ReadyListOK, Sorted
<1>4. /\ k1.cur \in Threads /\ k1.state \in [Threads -> States]
      /\ k1.prio \in [Threads -> Nat] /\ k1.ready \in Seq(Threads)
  BY <1>3, KernelParts
<1>5. \A x \in Range(k1.ready) : x \in Threads /\ k1.prio[x] <= k1.prio[k1.cur]
  BY <1>2, <1>3, <1>4, HighestMeans, InList
<1>6. t # k1.cur /\ k1.state[t] \notin Runnable
  BY <1>2, <1>3, <1>4 DEF ReadyListOK, Runnable
<1>7. CASE k.prio[t] <= k.prio[k.cur]
  <2>1. j = chSchReadyI(k1, t)
    BY <1>1, <1>7 DEF chSchWakeupS
  <2>2. /\ Good(j, P) /\ j.state = [k1.state EXCEPT ![t] = "READY"]
        /\ j.cur = k1.cur /\ j.prio = k1.prio
        /\ j.queue = k1.queue /\ j.u = k1.u /\ j.armed = k1.armed
    BY <1>2, <1>6, <2>1, ReadyGood
  <2>3. \A x \in Range(j.ready) : x \in Range(k1.ready) \/ x = t
    <3>1. j.ready \in Seq(Threads)
      BY <2>2, KernelParts DEF Good
    <3>2. Range(j.ready) \subseteq Threads
      BY <3>1, InList
    <3> QED BY <1>3, <1>4, <2>2, <3>2 DEF Good, ReadyListOK
  <2>4. Highest(j)
    <3>1. \A x \in Range(j.ready) : j.prio[x] <= j.prio[j.cur]
      BY <1>2, <1>5, <1>7, <2>2, <2>3
    <3>2. j \in Kernel(P) /\ Sorted(j.ready, j.prio)
      BY <2>2 DEF Good, ReadyListOK, Sorted
    <3> QED BY <3>1, <3>2, HighestMeans
  <2> QED BY <1>2, <1>4, <2>2, <2>4 DEF Runnable
<1>8. CASE ~ (k.prio[t] <= k.prio[k.cur])
  <2>1. PICK k2, c : k2 = chSchReadyI(k1, c) /\ c = k1.cur
    OBVIOUS
  <2>2. j = [k2 EXCEPT !.cur = t, !.state[t] = "CURRENT"]
    BY <1>1, <1>2, <1>8, <2>1 DEF chSchWakeupS
  <2>3. c \in Threads /\ c \notin Range(k1.ready) /\ c # t
    BY <1>3, <1>4, <1>6, <2>1 DEF ReadyListOK
  <2>4. /\ k2 \in Kernel(P) /\ NoRepeat(k2.ready) /\ Sorted(k2.ready, k1.prio)
        /\ k2.state = [k1.state EXCEPT ![c] = "READY"]
        /\ k2.prio = k1.prio
        /\ k2.queue = k1.queue /\ k2.u = k1.u /\ k2.armed = k1.armed
    BY <1>3, <1>4, <2>1, <2>3, ReadyI
  <2>5. \A x : x \in Range(k2.ready) <=> x \in Range(k1.ready) \/ x = c
    <3>1. k2.ready = prio_insert(k1.ready, k1.prio, c)
      BY <1>3, <2>1 DEF chSchReadyI, Kernel
    <3> QED BY <1>3, <1>4, <2>3, <3>1, PrioInsert
  <2>6. /\ j.cur = t /\ j.ready = k2.ready
        /\ j.state = [k2.state EXCEPT ![t] = "CURRENT"]
        /\ j.prio = k2.prio
        /\ j.queue = k2.queue /\ j.u = k2.u /\ j.armed = k2.armed
    BY <2>2, <2>4 DEF Kernel
  <2>7. j \in Kernel(P)
    <3>1. k2.state \in [Threads -> States]
      BY <2>4, KernelParts
    <3>2. [k2.state EXCEPT ![t] = "CURRENT"] \in [Threads -> States]
      BY <3>1 DEF States
    <3> QED BY <2>2, <2>4, <3>2 DEF Kernel
  <2>8. \A x \in Threads : j.state[x] = IF x = t THEN "CURRENT"
                                        ELSE IF x = c THEN "READY" ELSE k1.state[x]
    BY <1>4, <2>3, <2>4, <2>6
  <2>9. k1.state[c] = "CURRENT" /\ \A x \in Threads : k1.state[x] = "CURRENT" <=> x = c
    BY <1>3, <2>1, <2>3 DEF ReadyListOK
  <2>10. ReadyListOK(j)
    <3>1. \A x \in Threads : j.state[x] = "READY" <=> x \in Range(j.ready)
      BY <1>3, <1>6, <2>3, <2>5, <2>6, <2>8 DEF ReadyListOK, Runnable
    <3>2. \A x \in Threads : j.state[x] = "CURRENT" <=> x = j.cur
      BY <2>6, <2>8, <2>9
    <3> QED BY <2>4, <2>6, <3>1, <3>2 DEF ReadyListOK, Sorted
  <2>11. IdleOK(j)
    BY <1>2, <2>4, <2>6, <2>8, IdleAssumption DEF Good, IdleOK
  <2>12. Highest(j)
    <3>1. k1.prio[c] <= k1.prio[t]
      BY <1>2, <1>4, <1>8, <2>1
    <3>2. \A x \in Range(k1.ready) : k1.prio[x] \in Nat
      BY <1>4, <1>5
    <3>3. \A x \in Range(j.ready) : j.prio[x] <= j.prio[j.cur]
      <4>1. j.ready \in Seq(Threads)
        BY <2>7, KernelParts
      <4>2. \A x \in Range(j.ready) : x \in Range(k1.ready) \/ x = c
        BY <2>5, <2>6, <4>1, InList
      <4> QED BY <1>4, <1>5, <2>1, <2>4, <2>6, <3>1, <3>2, <4>2
    <3>4. Sorted(j.ready, j.prio)
      BY <2>4, <2>6
    <3> QED BY <2>7, <3>3, <3>4, HighestMeans
  <2>13. \A x \in Threads \ {t} : \/ j.state[x] = k.state[x]
                                  \/ j.state[x] \in Runnable /\ k.state[x] \in Runnable
    BY <1>2, <2>8, <2>9 DEF Runnable
  <2>14. j.state[t] \in Runnable
    BY <2>8 DEF Runnable
  <2> QED BY <1>2, <2>4, <2>6, <2>7, <2>10, <2>11, <2>12, <2>13, <2>14 DEF Good
<1> QED
  BY <1>7, <1>8
=============================================================================
