------------------------ MODULE SessionHistory_proofs ------------------------
(* Proofs about SessionHistory, for any ring, chunks, events and pages: the *)
(* stored history is the output and the events as they came, a line number *)
(* stands for one line, and a reader gets every line or is told.           *)
EXTENDS SessionHistory, SequenceTheorems, FiniteSetTheorems, WellFoundedInduction, TLAPS

(* A set of numbers has a least one. *)
LEMMA LeastNumber ==
  ASSUME NEW T \in SUBSET Nat, T # {}
  PROVE  \E n \in T : \A m \in T : n <= m
<1>1. PICK n \in T : \A m \in T : ~ <<m, n>> \in OpToRel(<, Nat)
  BY NatLessThanWellFounded, WFMin
<1>2. \A m \in T : ~ m < n
  BY <1>1 DEF OpToRel
<1> QED BY <1>2

-----------------------------------------------------------------------------
(* Intervals: the characters of a piece of output                          *)

Interval(a, b) == [k \in 1 .. b - a |-> a + k]

LEMMA IntervalTyped ==
  ASSUME NEW a \in Nat, NEW b \in Nat, a <= b
  PROVE  /\ Interval(a, b) \in Seq(Nat) /\ Len(Interval(a, b)) = b - a
         /\ \A k \in 1 .. b - a : Interval(a, b)[k] = a + k
         /\ Interval(a, b) = <<>> <=> a = b
<1>1. b - a \in Nat
  OBVIOUS
<1>2. Interval(a, b) \in [1 .. b - a -> Nat]
  BY DEF Interval
<1>3. Interval(a, b) \in Seq(Nat)
  BY <1>1, <1>2, SeqDef
<1>4. DOMAIN Interval(a, b) = 1 .. b - a /\ DOMAIN Interval(a, b) = 1 .. Len(Interval(a, b))
      /\ Len(Interval(a, b)) \in Nat
  BY <1>2, <1>3, LenProperties
<1>5. Len(Interval(a, b)) = b - a
  BY <1>1, <1>4
<1>6. Interval(a, b) = <<>> <=> a = b
  BY <1>3, <1>5, EmptySeq
<1> QED BY <1>3, <1>5, <1>6 DEF Interval

LEMMA IntervalsJoin ==
  ASSUME NEW a \in Nat, NEW b \in Nat, NEW c \in Nat, a <= b, b <= c
  PROVE  Interval(a, b) \o Interval(b, c) = Interval(a, c)
<1> DEFINE s == Interval(a, b)
           t == Interval(b, c)
           u == Interval(a, c)
<1>1. /\ s \in Seq(Nat) /\ Len(s) = b - a /\ \A k \in 1 .. b - a : s[k] = a + k
      /\ t \in Seq(Nat) /\ Len(t) = c - b /\ \A k \in 1 .. c - b : t[k] = b + k
      /\ u \in Seq(Nat) /\ Len(u) = c - a /\ \A k \in 1 .. c - a : u[k] = a + k
  <2>1. s \in Seq(Nat) /\ Len(s) = b - a /\ \A k \in 1 .. b - a : s[k] = a + k
    BY IntervalTyped
  <2>2. t \in Seq(Nat) /\ Len(t) = c - b /\ \A k \in 1 .. c - b : t[k] = b + k
    BY IntervalTyped
  <2>3. u \in Seq(Nat) /\ Len(u) = c - a /\ \A k \in 1 .. c - a : u[k] = a + k
    <3>1. a <= c
      OBVIOUS
    <3> QED BY <3>1, IntervalTyped
  <2> QED BY <2>1, <2>2, <2>3
<1> HIDE DEF s, t, u
<1>2. /\ s \o t \in Seq(Nat) /\ Len(s \o t) = Len(s) + Len(t)
      /\ \A i \in 1 .. Len(s) + Len(t) : (s \o t)[i] = IF i <= Len(s) THEN s[i] ELSE t[i - Len(s)]
  BY <1>1, ConcatProperties
<1>3. Len(s \o t) = c - a
  BY <1>1, <1>2
<1>4. ASSUME NEW i \in 1 .. c - a PROVE (s \o t)[i] = u[i]
  <2>1. (s \o t)[i] = IF i <= b - a THEN s[i] ELSE t[i - (b - a)]
    <3>1. Len(s) = b - a /\ Len(t) = c - b /\ i \in 1 .. Len(s) + Len(t)
      BY <1>1
    <3> QED BY <1>2, <3>1
  <2>2. CASE i <= b - a
    BY <1>1, <2>1, <2>2
  <2>3. CASE ~(i <= b - a)
    <3>1. i - (b - a) \in 1 .. c - b /\ b + (i - (b - a)) = a + i
      BY <2>3
    <3> QED BY <1>1, <2>1, <2>3, <3>1
  <2> QED BY <2>2, <2>3
<1>5. s \o t = u
  BY <1>1, <1>2, <1>3, <1>4, SeqEqual
<1> QED BY <1>5 DEF s, t, u

(* An interval goes on: what a reader saw of it stays its beginning. *)
LEMMA IntervalPrefix ==
  ASSUME NEW a \in Nat, NEW b \in Nat, NEW c \in Nat, a <= b, b <= c
  PROVE  IsPrefix(Interval(a, b), Interval(a, c))
<1> DEFINE s == Interval(a, b)
           u == Interval(a, c)
           p == SubSeq(u, 1, b - a)
           r == SubSeq(s, 1, b - a)
<1>1. /\ s \in Seq(Nat) /\ Len(s) = b - a /\ \A k \in 1 .. b - a : s[k] = a + k
      /\ u \in Seq(Nat) /\ Len(u) = c - a /\ \A k \in 1 .. c - a : u[k] = a + k
  <2>1. s \in Seq(Nat) /\ Len(s) = b - a /\ \A k \in 1 .. b - a : s[k] = a + k
    BY IntervalTyped
  <2>2. u \in Seq(Nat) /\ Len(u) = c - a /\ \A k \in 1 .. c - a : u[k] = a + k
    <3>1. a <= c
      OBVIOUS
    <3> QED BY <3>1, IntervalTyped
  <2> QED BY <2>1, <2>2
<1> HIDE DEF s, u
<1>2. /\ p \in Seq(Nat) /\ Len(p) = (IF 1 <= b - a THEN b - a - 1 + 1 ELSE 0)
      /\ \A i \in 1 .. b - a - 1 + 1 : p[i] = u[1 + i - 1]
  <2>1. \A i \in 1 .. b - a : u[i] \in Nat
    BY <1>1
  <2> QED BY <2>1, SubSeqProperties
<1>3. r = s
  BY <1>1, SubSeqFull
<1>4. p = s
  <2>1. Len(p) = Len(s)
    BY <1>1, <1>2
  <2> HIDE DEF p
  <2>2. \A i \in 1 .. Len(p) : p[i] = s[i]
    BY <1>1, <1>2, <2>1
  <2> QED BY <1>1, <1>2, <2>1, <2>2, SeqEqual
<1> QED BY <1>1, <1>3, <1>4 DEF s, u, IsPrefix

LEMMA SamePrefix == \A s : Len(s) \in Nat => IsPrefix(s, s)
  BY DEF IsPrefix

(* A function that rises from one number to the next rises. *)
LEMMA Rising ==
  ASSUME NEW n \in Nat, NEW f \in [0 .. n -> Nat], \A i \in 1 .. n : f[i - 1] <= f[i],
         NEW i \in 0 .. n, NEW j \in 0 .. n, i <= j
  PROVE  f[i] <= f[j]
<1> DEFINE T == {m \in i .. n : f[m] < f[i]}
<1>1. SUFFICES ASSUME T # {} PROVE FALSE
  <2>1. f[i] \in Nat /\ f[j] \in Nat /\ j \in i .. n
    OBVIOUS
  <2>2. CASE f[j] < f[i]
    BY <2>1, <2>2
  <2> QED BY <2>1, <2>2
<1>2. T \in SUBSET Nat
  OBVIOUS
<1>3. PICK m \in T : \A l \in T : m <= l
  <2> HIDE DEF T
  <2> QED BY <1>1, <1>2, LeastNumber
<1>4. m # i /\ m \in 1 .. n /\ m - 1 \in i .. n /\ m - 1 \notin T
  BY <1>3
<1>5. f[m - 1] <= f[m] /\ ~(f[m - 1] < f[i]) /\ f[m] < f[i]
  BY <1>3, <1>4
<1>6. f[m - 1] \in Nat /\ f[m] \in Nat /\ f[i] \in Nat
  BY <1>4
<1> QED BY <1>5, <1>6

-----------------------------------------------------------------------------
(* Lines and the characters in them                                        *)

(* The lines of T have, in order and once each, the characters up to q     *)
(* from one of them on ...                                                 *)
Covers(T, from, q) ==
  \A c \in from .. q : \E j \in 1 .. Len(T) : \E l \in 1 .. Len(T[j].text) : T[j].text[l] = c

InOrder(T) ==
  \A i, j \in 1 .. Len(T) : \A k \in 1 .. Len(T[i].text), l \in 1 .. Len(T[j].text) :
    i < j \/ (i = j /\ k < l) => T[i].text[k] < T[j].text[l]

Kept(T, q) ==
  /\ InOrder(T)
  /\ \A i \in 1 .. Len(T) : \A k \in 1 .. Len(T[i].text) :
       T[i].text[k] \in 1 .. q /\ Covers(T, T[i].text[k], q)

(* ... and the events of T stand where they happened.                      *)
Placed(T, q) ==
  \A i \in 1 .. Len(T) : T[i].type = "event" =>
    /\ T[i].after <= q
    /\ \A j \in 1 .. Len(T) : \A k \in 1 .. Len(T[j].text) :
         IF j < i THEN T[j].text[k] <= T[i].after ELSE T[j].text[k] > T[i].after

(* What is appended brings the characters from a to b, or it is events.    *)
Adds(P, a, b) ==
  /\ InOrder(P) /\ Covers(P, a + 1, b)
  /\ \A i \in 1 .. Len(P) : \A k \in 1 .. Len(P[i].text) : P[i].text[k] \in a + 1 .. b
  /\ \A i \in 1 .. Len(P) : P[i].type = "output" \/ (a = b /\ P[i].after = a)

LEMMA LinesTyped ==
  ASSUME NEW T \in Seq(Line)
  PROVE  /\ Len(T) \in Nat /\ DOMAIN T = 1 .. Len(T)
         /\ \A i \in 1 .. Len(T) :
              /\ T[i] \in Line /\ T[i].line \in Nat /\ T[i].after \in Nat /\ T[i].text \in Seq(Nat)
              /\ T[i].type \in {"output", "event"}
              /\ Len(T[i].text) \in Nat /\ DOMAIN T[i].text = 1 .. Len(T[i].text)
              /\ \A k \in 1 .. Len(T[i].text) : T[i].text[k] \in Nat
<1>1. Len(T) \in Nat /\ DOMAIN T = 1 .. Len(T) /\ \A i \in 1 .. Len(T) : T[i] \in Line
  BY LenProperties, ElementOfSeq
<1>2. ASSUME NEW e \in Line
      PROVE  /\ e.line \in Nat /\ e.after \in Nat /\ e.text \in Seq(Nat) /\ e.type \in {"output", "event"}
             /\ Len(e.text) \in Nat /\ DOMAIN e.text = 1 .. Len(e.text)
             /\ \A k \in 1 .. Len(e.text) : e.text[k] \in Nat
  <2>1. e.line \in Nat /\ e.after \in Nat /\ e.text \in Seq(Nat) /\ e.type \in {"output", "event"}
    BY DEF Line
  <2> QED BY <2>1, LenProperties, ElementOfSeq
<1> QED BY <1>1, <1>2

(* Dropping the oldest lines disturbs nothing. *)
LEMMA RestKept ==
  ASSUME NEW T \in Seq(Line), NEW q \in Nat, NEW m \in 0 .. Len(T), Kept(T, q), Placed(T, q)
  PROVE  LET R == SubSeq(T, m + 1, Len(T)) IN
         /\ R \in Seq(Line) /\ Len(R) = Len(T) - m
         /\ \A i \in 1 .. Len(R) : i + m \in 1 .. Len(T) /\ R[i] = T[i + m]
         /\ Kept(R, q) /\ Placed(R, q)
<1> DEFINE R == SubSeq(T, m + 1, Len(T))
<1>1. Len(T) \in Nat /\ m \in Nat /\ m <= Len(T) /\ \A i \in 1 .. Len(T) : T[i] \in Line
  BY LinesTyped
<1>2. /\ R \in Seq(Line) /\ Len(R) = IF m + 1 <= Len(T) THEN Len(T) - (m + 1) + 1 ELSE 0
      /\ \A i \in 1 .. Len(T) - (m + 1) + 1 : R[i] = T[m + 1 + i - 1]
  <2>1. \A i \in m + 1 .. Len(T) : T[i] \in Line
    BY <1>1
  <2> QED BY <1>1, <2>1, SubSeqProperties
<1> HIDE DEF R
<1>3. Len(R) = Len(T) - m
  BY <1>1, <1>2
<1>4. \A i \in 1 .. Len(R) : i + m \in 1 .. Len(T) /\ R[i] = T[i + m]
  <2> SUFFICES ASSUME NEW i \in 1 .. Len(R) PROVE i + m \in 1 .. Len(T) /\ R[i] = T[i + m]
    OBVIOUS
  <2>1. i \in 1 .. Len(T) - (m + 1) + 1 /\ m + 1 + i - 1 = i + m /\ i + m \in 1 .. Len(T)
    BY <1>1, <1>3
  <2> QED BY <1>2, <2>1
<1>5. InOrder(R)
  <2> SUFFICES ASSUME NEW i \in 1 .. Len(R), NEW j \in 1 .. Len(R),
                      NEW k \in 1 .. Len(R[i].text), NEW l \in 1 .. Len(R[j].text),
                      i < j \/ (i = j /\ k < l)
               PROVE  R[i].text[k] < R[j].text[l]
    BY DEF InOrder
  <2>1. i + m < j + m \/ (i + m = j + m /\ k < l)
    BY <1>1, <1>3
  <2> QED BY <1>4, <2>1 DEF Kept, InOrder
<1>6. ASSUME NEW i \in 1 .. Len(R), NEW k \in 1 .. Len(R[i].text)
      PROVE  R[i].text[k] \in 1 .. q /\ Covers(R, R[i].text[k], q)
  <2> DEFINE t == R[i].text[k]
  <2>1. t \in 1 .. q /\ Covers(T, t, q)
    BY <1>4 DEF Kept
  <2>2. ASSUME NEW c \in t .. q
        PROVE  \E j \in 1 .. Len(R) : \E l \in 1 .. Len(R[j].text) : R[j].text[l] = c
    <3>1. PICK j \in 1 .. Len(T) : \E l \in 1 .. Len(T[j].text) : T[j].text[l] = c
      BY <2>1 DEF Covers
    <3>2. PICK l \in 1 .. Len(T[j].text) : T[j].text[l] = c
      BY <3>1
    <3>3. ~(j < i + m)
      <4>1. SUFFICES ASSUME j < i + m PROVE FALSE
        OBVIOUS
      <4>2. i + m \in 1 .. Len(T) /\ R[i] = T[i + m] /\ k \in 1 .. Len(T[i + m].text) /\ t = T[i + m].text[k]
        BY <1>4
      <4>3. T[j].text[l] < T[i + m].text[k]
        BY <4>1, <4>2 DEF Kept, InOrder
      <4> HIDE DEF t
      <4> QED BY <2>1, <3>2, <4>2, <4>3
    <3>4. j - m \in 1 .. Len(R) /\ (j - m) + m = j
      BY <1>1, <1>3, <3>3
    <3>5. R[j - m] = T[j]
      BY <1>4, <3>4
    <3> QED BY <3>2, <3>4, <3>5
  <2>3. Covers(R, t, q)
    <3> HIDE DEF t
    <3> QED BY <2>2 DEF Covers
  <2> QED BY <2>1, <2>3
<1>7. Placed(R, q)
  <2> SUFFICES ASSUME NEW i \in 1 .. Len(R), R[i].type = "event"
               PROVE  /\ R[i].after <= q
                      /\ \A j \in 1 .. Len(R) : \A k \in 1 .. Len(R[j].text) :
                           IF j < i THEN R[j].text[k] <= R[i].after ELSE R[j].text[k] > R[i].after
    BY DEF Placed
  <2>1. \A j \in 1 .. Len(R) : j < i <=> j + m < i + m
    BY <1>1, <1>3
  <2> QED BY <1>4, <2>1 DEF Placed
<1> QED BY <1>2, <1>3, <1>4, <1>5, <1>6, <1>7 DEF Kept, R

(* Appending more characters, or events after all of them. *)
LEMMA JoinKept ==
  ASSUME NEW L \in Seq(Line), NEW P \in Seq(Line), NEW a \in Nat, NEW b \in Nat, a <= b,
         Kept(L, a), Placed(L, a), Adds(P, a, b)
  PROVE  /\ L \o P \in Seq(Line) /\ Len(L \o P) = Len(L) + Len(P)
         /\ \A i \in 1 .. Len(L) : (L \o P)[i] = L[i]
         /\ \A i \in 1 .. Len(P) : (L \o P)[Len(L) + i] = P[i]
         /\ Kept(L \o P, b) /\ Placed(L \o P, b)
<1> DEFINE T == L \o P
           n == Len(L)
<1>1. /\ n \in Nat /\ Len(P) \in Nat
      /\ T \in Seq(Line) /\ Len(T) = n + Len(P)
      /\ \A i \in 1 .. n + Len(P) : T[i] = IF i <= n THEN L[i] ELSE P[i - n]
  BY LinesTyped, ConcatProperties
<1> HIDE DEF T, n
<1>2. \A i \in 1 .. n : i \in 1 .. Len(T) /\ T[i] = L[i]
  BY <1>1
<1>3. ASSUME NEW i \in 1 .. Len(P) PROVE n + i \in 1 .. Len(T) /\ T[n + i] = P[i]
  <2>1. n + i \in 1 .. n + Len(P) /\ ~(n + i <= n) /\ n + i - n = i
    BY <1>1
  <2> QED BY <1>1, <2>1
<1>4. ASSUME NEW i \in 1 .. Len(T), i \notin 1 .. n
      PROVE  i - n \in 1 .. Len(P) /\ T[i] = P[i - n] /\ i > n
  <2>1. i - n \in 1 .. Len(P) /\ ~(i <= n) /\ i \in 1 .. n + Len(P)
    BY <1>1, <1>4
  <2> QED BY <1>1, <2>1
<1>5. ASSUME NEW i \in 1 .. n, NEW k \in 1 .. Len(L[i].text) PROVE L[i].text[k] \in 1 .. a
  BY <1>5 DEF Kept, n
<1>6. ASSUME NEW i \in 1 .. Len(P), NEW k \in 1 .. Len(P[i].text) PROVE P[i].text[k] \in a + 1 .. b
  BY DEF Adds
<1>7. InOrder(T)
  <2> SUFFICES ASSUME NEW i \in 1 .. Len(T), NEW j \in 1 .. Len(T),
                      NEW k \in 1 .. Len(T[i].text), NEW l \in 1 .. Len(T[j].text),
                      i < j \/ (i = j /\ k < l)
               PROVE  T[i].text[k] < T[j].text[l]
    BY DEF InOrder
  <2>1. CASE i \in 1 .. n /\ j \in 1 .. n
    BY <1>2, <2>1 DEF Kept, InOrder, n
  <2>2. CASE i \in 1 .. n /\ j \notin 1 .. n
    <3> DEFINE m == j - n
    <3>1. T[i].text[k] \in 1 .. a
      BY <1>2, <1>5, <2>2
    <3>2. m \in 1 .. Len(P) /\ T[j] = P[m]
      BY <1>4, <2>2
    <3> HIDE DEF m
    <3>3. T[j].text[l] \in a + 1 .. b
      BY <1>6, <3>2
    <3> DEFINE u == T[i].text[k]
               w == T[j].text[l]
    <3>4. u \in 1 .. a /\ w \in a + 1 .. b
      BY <3>1, <3>3
    <3> HIDE DEF u, w
    <3>5. u < w
      BY <3>4
    <3> QED BY <3>5 DEF u, w
  <2>3. CASE i \notin 1 .. n /\ j \in 1 .. n
    <3>1. i > n /\ j <= n
      BY <1>4, <2>3
    <3> QED BY <1>1, <2>3, <3>1
  <2>4. CASE i \notin 1 .. n /\ j \notin 1 .. n
    <3>1. /\ i - n \in 1 .. Len(P) /\ T[i] = P[i - n]
          /\ j - n \in 1 .. Len(P) /\ T[j] = P[j - n]
      BY <1>4, <2>4
    <3>2. i - n < j - n \/ (i - n = j - n /\ k < l)
      BY <1>1
    <3> QED BY <3>1, <3>2 DEF Adds, InOrder
  <2> QED BY <2>1, <2>2, <2>3, <2>4
<1>8. Covers(T, a + 1, b)
  <2> SUFFICES ASSUME NEW c \in a + 1 .. b
               PROVE  \E j \in 1 .. Len(T) : \E l \in 1 .. Len(T[j].text) : T[j].text[l] = c
    BY DEF Covers
  <2>1. PICK j \in 1 .. Len(P) : \E l \in 1 .. Len(P[j].text) : P[j].text[l] = c
    BY DEF Adds, Covers
  <2> QED BY <1>3, <2>1
<1>9. ASSUME NEW i \in 1 .. Len(T), NEW k \in 1 .. Len(T[i].text)
      PROVE  T[i].text[k] \in 1 .. b /\ Covers(T, T[i].text[k], b)
  <2>1. CASE i \in 1 .. n
    <3>1. T[i] = L[i] /\ T[i].text[k] \in 1 .. a /\ Covers(L, T[i].text[k], a)
      BY <1>2, <1>5, <2>1 DEF Kept, n
    <3> SUFFICES ASSUME NEW c \in T[i].text[k] .. b
                 PROVE  \E j \in 1 .. Len(T) : \E l \in 1 .. Len(T[j].text) : T[j].text[l] = c
      BY <3>1 DEF Covers
    <3>2. CASE c <= a
      <4>1. c \in T[i].text[k] .. a
        BY <3>1, <3>2
      <4>2. PICK j \in 1 .. Len(L) : \E l \in 1 .. Len(L[j].text) : L[j].text[l] = c
        BY <3>1, <4>1 DEF Covers
      <4> QED BY <1>2, <4>2 DEF n
    <3>3. CASE ~(c <= a)
      <4>1. c \in a + 1 .. b
        BY <3>1, <3>3
      <4> QED BY <1>8, <4>1 DEF Covers
    <3> QED BY <3>2, <3>3
  <2>2. CASE i \notin 1 .. n
    <3>1. T[i].text[k] \in a + 1 .. b
      BY <1>4, <1>6, <2>2
    <3> SUFFICES ASSUME NEW c \in T[i].text[k] .. b
                 PROVE  \E j \in 1 .. Len(T) : \E l \in 1 .. Len(T[j].text) : T[j].text[l] = c
      BY <3>1 DEF Covers
    <3>2. c \in a + 1 .. b
      BY <3>1
    <3> QED BY <1>8, <3>2 DEF Covers
  <2> QED BY <2>1, <2>2
<1>10. Placed(T, b)
  <2> SUFFICES ASSUME NEW i \in 1 .. Len(T), T[i].type = "event"
               PROVE  /\ T[i].after <= b
                      /\ \A j \in 1 .. Len(T) : \A k \in 1 .. Len(T[j].text) :
                           IF j < i THEN T[j].text[k] <= T[i].after ELSE T[j].text[k] > T[i].after
    BY DEF Placed
  <2>0. T[i].after \in Nat
    BY <1>1, LinesTyped
  <2>1. CASE i \in 1 .. n
    <3>1. T[i] = L[i] /\ T[i].after <= a
      BY <1>2, <2>1 DEF Placed, n
    <3> SUFFICES ASSUME NEW j \in 1 .. Len(T), NEW k \in 1 .. Len(T[j].text)
                 PROVE  IF j < i THEN T[j].text[k] <= T[i].after ELSE T[j].text[k] > T[i].after
      BY <2>0, <3>1
    <3>2. CASE j \in 1 .. n
      BY <1>2, <2>1, <3>1, <3>2 DEF Placed, n
    <3>3. CASE j \notin 1 .. n
      <4>1. T[j].text[k] \in a + 1 .. b /\ j > n
        BY <1>4, <1>6, <3>3
      <4> DEFINE w == T[j].text[k]
                 e == T[i].after
      <4>2. w \in a + 1 .. b /\ e \in Nat /\ e <= a /\ ~(j < i)
        BY <1>1, <2>0, <2>1, <3>1, <4>1
      <4> HIDE DEF w, e
      <4>3. w > e
        BY <4>2
      <4> QED BY <4>2, <4>3 DEF w, e
    <3> QED BY <3>2, <3>3
  <2>2. CASE i \notin 1 .. n
    <3>1. a = b /\ T[i].after = a
      BY <1>4, <2>2 DEF Adds
    <3> SUFFICES ASSUME NEW j \in 1 .. Len(T), NEW k \in 1 .. Len(T[j].text)
                 PROVE  IF j < i THEN T[j].text[k] <= T[i].after ELSE T[j].text[k] > T[i].after
      BY <2>0, <3>1
    <3>2. CASE j \in 1 .. n
      <4>1. T[j].text[k] \in 1 .. a /\ j < i
        <5>1. i > n
          BY <1>4, <2>2
        <5> QED BY <1>1, <1>2, <1>5, <3>2, <5>1
      <4> QED BY <3>1, <4>1
    <3>3. CASE j \notin 1 .. n
      <4>1. T[j].text[k] \in a + 1 .. b
        BY <1>4, <1>6, <3>3
      <4> QED BY <3>1, <4>1
    <3> QED BY <3>2, <3>3
  <2> QED BY <2>1, <2>2
<1> QED BY <1>1, <1>2, <1>3, <1>7, <1>9, <1>10 DEF Kept, T, n

(* Lines with one interval after the other bring all of them; f says where *)
(* they meet.                                                              *)
LEMMA IntervalsAdd ==
  ASSUME NEW P \in Seq(Line), NEW f \in [0 .. Len(P) -> Nat],
         \A i \in 1 .. Len(P) :
           f[i - 1] <= f[i] /\ P[i].type = "output" /\ P[i].text = Interval(f[i - 1], f[i])
  PROVE  f[0] <= f[Len(P)] /\ Adds(P, f[0], f[Len(P)])
<1> DEFINE n == Len(P)
           a == f[0]
           b == f[n]
<1>1. n \in Nat /\ a \in Nat /\ b \in Nat
  BY LinesTyped
<1>2. ASSUME NEW i \in 0 .. n, NEW j \in 0 .. n, i <= j PROVE f[i] <= f[j]
  BY <1>1, <1>2, Rising
<1>3. ASSUME NEW i \in 1 .. n
      PROVE  /\ i \in 0 .. n /\ i - 1 \in 0 .. n /\ f[i] \in Nat /\ f[i - 1] \in Nat /\ f[i - 1] <= f[i]
             /\ Len(P[i].text) = f[i] - f[i - 1]
             /\ \A k \in 1 .. Len(P[i].text) : P[i].text[k] = f[i - 1] + k
  <2>1. i \in 0 .. n /\ i - 1 \in 0 .. n
    BY <1>1
  <2> DEFINE x == f[i - 1]
             y == f[i]
  <2>2. y \in Nat /\ x \in Nat /\ x <= y /\ P[i].text = Interval(x, y)
    BY <2>1 DEF n
  <2> HIDE DEF x, y
  <2>3. Len(Interval(x, y)) = y - x /\ \A k \in 1 .. y - x : Interval(x, y)[k] = x + k
    BY <2>2, IntervalTyped
  <2> QED BY <2>1, <2>2, <2>3 DEF x, y
<1> HIDE DEF n, a, b
<1>4. ASSUME NEW i \in 1 .. n, NEW k \in 1 .. Len(P[i].text)
      PROVE  P[i].text[k] \in f[i - 1] + 1 .. f[i]
  <2> DEFINE x == f[i - 1]
             y == f[i]
  <2>1. x \in Nat /\ y \in Nat /\ k \in 1 .. y - x /\ P[i].text[k] = x + k
    BY <1>3
  <2> HIDE DEF x, y
  <2>2. P[i].text[k] \in x + 1 .. y
    BY <2>1
  <2> QED BY <2>2 DEF x, y
<1>5. ASSUME NEW i \in 1 .. n, NEW k \in 1 .. Len(P[i].text) PROVE P[i].text[k] \in a + 1 .. b
  <2>1. P[i].text[k] \in f[i - 1] + 1 .. f[i]
    BY <1>4
  <2>2. a <= f[i - 1] /\ f[i] <= b
    <3>1. i \in 0 .. n /\ i - 1 \in 0 .. n /\ 0 \in 0 .. n /\ n \in 0 .. n /\ 0 <= i - 1 /\ i <= n
      BY <1>1, <1>3
    <3> QED BY <1>2, <3>1 DEF a, b
  <2> DEFINE x == f[i - 1]
             y == f[i]
             t == P[i].text[k]
  <2>3. x \in Nat /\ y \in Nat /\ t \in x + 1 .. y /\ a <= x /\ y <= b
    BY <1>3, <2>1, <2>2
  <2> HIDE DEF x, y, t
  <2>4. t \in a + 1 .. b
    BY <1>1, <2>3
  <2> QED BY <2>4 DEF t
<1>6. InOrder(P)
  <2> SUFFICES ASSUME NEW i \in 1 .. n, NEW j \in 1 .. n,
                      NEW k \in 1 .. Len(P[i].text), NEW l \in 1 .. Len(P[j].text),
                      i < j \/ (i = j /\ k < l)
               PROVE  P[i].text[k] < P[j].text[l]
    BY DEF InOrder, n
  <2>1. CASE i < j
    <3>1. i \in 0 .. n /\ j - 1 \in 0 .. n /\ i <= j - 1
      BY <1>1, <2>1
    <3>2. f[i] <= f[j - 1]
      BY <1>2, <3>1
    <3>3. P[i].text[k] \in f[i - 1] + 1 .. f[i] /\ P[j].text[l] \in f[j - 1] + 1 .. f[j]
      BY <1>4
    <3>4. f[i - 1] \in Nat /\ f[i] \in Nat /\ f[j - 1] \in Nat /\ f[j] \in Nat
      BY <1>3
    <3> DEFINE t == P[i].text[k]
               u == P[j].text[l]
               w == f[i - 1]
               x == f[i]
               y == f[j - 1]
               z == f[j]
    <3>5. t \in w + 1 .. x /\ u \in y + 1 .. z /\ x <= y /\ w \in Nat /\ x \in Nat /\ y \in Nat /\ z \in Nat
      BY <3>2, <3>3, <3>4
    <3> HIDE DEF t, u, w, x, y, z
    <3>6. t < u
      BY <3>5
    <3> QED BY <3>6 DEF t, u
  <2>2. CASE i = j /\ k < l
    <3>1. P[i].text[k] = f[i - 1] + k /\ P[i].text[l] = f[i - 1] + l
      BY <1>3, <2>2
    <3>2. k \in Nat /\ l \in Nat /\ f[i - 1] \in Nat
      BY <1>3, <2>2
    <3> QED BY <2>2, <3>1, <3>2
  <2> QED BY <2>1, <2>2
<1>7. Covers(P, a + 1, b)
  <2> SUFFICES ASSUME NEW c \in a + 1 .. b
               PROVE  \E j \in 1 .. Len(P) : \E l \in 1 .. Len(P[j].text) : P[j].text[l] = c
    BY DEF Covers
  <2> DEFINE reached == {m \in 0 .. n : c <= f[m]}
  <2>1. reached \in SUBSET Nat /\ n \in reached
    BY <1>1 DEF b
  <2>2. PICK m \in reached : \A l \in reached : m <= l
    <3> HIDE DEF reached
    <3> QED BY <2>1, LeastNumber
  <2>3. m # 0
    BY <1>1, <2>2 DEF a
  <2>4. m \in 1 .. n /\ m - 1 \in 0 .. n /\ m - 1 \notin reached
    BY <1>1, <2>2, <2>3
  <2>5. f[m - 1] < c /\ c <= f[m]
    BY <1>3, <1>1, <2>2, <2>4
  <2>6. c - f[m - 1] \in 1 .. Len(P[m].text) /\ f[m - 1] + (c - f[m - 1]) = c
    BY <1>1, <1>3, <2>4, <2>5
  <2>7. P[m].text[c - f[m - 1]] = c
    BY <1>3, <2>4, <2>6
  <2> QED BY <2>4, <2>6, <2>7 DEF n
<1>8. a <= b
  BY <1>1, <1>2 DEF a, b
<1> QED BY <1>5, <1>6, <1>7, <1>8 DEF Adds, n, a, b

LEMMA EventsAdd ==
  ASSUME NEW P \in Seq(Line), NEW a \in Nat,
         \A i \in 1 .. Len(P) : P[i].after = a /\ P[i].text = <<>>
  PROVE  Adds(P, a, a)
<1>1. \A i \in 1 .. Len(P) : Len(P[i].text) = 0
  OBVIOUS
<1>2. \A i \in 1 .. Len(P) : \A k \in 1 .. Len(P[i].text) : FALSE
  BY <1>1
<1>3. \A c \in a + 1 .. a : FALSE
  OBVIOUS
<1> QED BY <1>2, <1>3 DEF Adds, InOrder, Covers

(* A pending line is shown behind the others. *)
View(L, n, p) == IF p = <<>> THEN L ELSE Append(L, OutputLine(n, p))

LEMMA ViewKept ==
  ASSUME NEW L \in Seq(Line), NEW n \in Nat, NEW a \in Nat, NEW b \in Nat, a <= b,
         Kept(L, a), Placed(L, a)
  PROVE  LET T == View(L, n, Interval(a, b)) IN
         /\ T \in Seq(Line) /\ Len(L) <= Len(T)
         /\ Len(T) = IF a = b THEN Len(L) ELSE Len(L) + 1
         /\ \A i \in 1 .. Len(L) : T[i] = L[i]
         /\ a # b => T[Len(L) + 1] = OutputLine(n, Interval(a, b))
         /\ Kept(T, b) /\ Placed(T, b)
<1> DEFINE p == Interval(a, b)
           e == OutputLine(n, p)
           P == <<e>>
           T == View(L, n, p)
<1>1. Len(L) \in Nat /\ p \in Seq(Nat) /\ (p = <<>> <=> a = b)
  BY LinesTyped, IntervalTyped
<1>2. CASE a = b
  <2>1. T = L
    BY <1>1, <1>2 DEF View
  <2> QED BY <1>1, <1>2, <2>1
<1>3. CASE a # b
  <2>1. e \in Line /\ e.text = p /\ e.type = "output"
    BY <1>1 DEF OutputLine, Line
  <2>2. T = Append(L, e)
    BY <1>1, <1>3 DEF View
  <2> HIDE DEF e, T
  <2>3. P \in Seq(Line) /\ Len(P) = 1 /\ P[1] = e /\ T = L \o P
    BY <2>1, <2>2, AppendIsConcat
  <2> HIDE DEF P
  <2> DEFINE f == [i \in 0 .. 1 |-> IF i = 0 THEN a ELSE b]
  <2>4. f \in [0 .. Len(P) -> Nat] /\ f[0] = a /\ f[1] = b
    BY <2>3
  <2>5. \A i \in 1 .. Len(P) : f[i - 1] <= f[i] /\ P[i].type = "output" /\ P[i].text = Interval(f[i - 1], f[i])
    <3> SUFFICES ASSUME NEW i \in 1 .. Len(P)
                 PROVE  f[i - 1] <= f[i] /\ P[i].type = "output" /\ P[i].text = Interval(f[i - 1], f[i])
      OBVIOUS
    <3>1. i = 1 /\ i - 1 = 0
      BY <2>3
    <3> QED BY <2>1, <2>3, <2>4, <3>1
  <2> HIDE DEF f
  <2>6. Adds(P, a, b)
    BY <2>3, <2>4, <2>5, IntervalsAdd
  <2>7. /\ L \o P \in Seq(Line) /\ Len(L \o P) = Len(L) + Len(P)
        /\ \A i \in 1 .. Len(L) : (L \o P)[i] = L[i]
        /\ \A i \in 1 .. Len(P) : (L \o P)[Len(L) + i] = P[i]
        /\ Kept(L \o P, b) /\ Placed(L \o P, b)
    BY <2>3, <2>6, JoinKept
  <2>8. T \in Seq(Line) /\ Len(T) = Len(L) + 1 /\ \A i \in 1 .. Len(L) : T[i] = L[i]
    BY <2>3, <2>7
  <2>9. T[Len(L) + 1] = e
    <3>1. 1 \in 1 .. Len(P)
      BY <2>3
    <3> QED BY <2>3, <2>7, <3>1
  <2> QED BY <1>1, <1>3, <2>3, <2>7, <2>8, <2>9 DEF e, T
<1> QED BY <1>2, <1>3

-----------------------------------------------------------------------------
(* The pieces of a chunk                                                   *)

(* The characters of a chunk before its m-th break. *)
CharsBefore(chunk, m) ==
  Cardinality({i \in DOMAIN chunk : chunk[i] = "char" /\ BreaksBefore(chunk, i) < m})

LEMMA ChunkTyped ==
  ASSUME NEW chunk \in Chunks
  PROVE  /\ Len(chunk) \in Nat /\ DOMAIN chunk = 1 .. Len(chunk)
         /\ BreakCount(chunk) \in Nat
         /\ \A i \in DOMAIN chunk : BreaksBefore(chunk, i) \in 0 .. BreakCount(chunk)
<1>1. chunk \in Seq({"char", "cr", "lf"})
  BY HistoryAssumption
<1>2. Len(chunk) \in Nat /\ DOMAIN chunk = 1 .. Len(chunk)
  BY <1>1, LenProperties
<1> DEFINE n == Len(chunk)
           all == {b \in 1 .. n + 1 - 1 : IsBreak(chunk, b)}
<1>3. IsFiniteSet(all) /\ Cardinality(all) \in Nat /\ BreakCount(chunk) = Cardinality(all)
  <2>1. IsFiniteSet(1 .. n + 1 - 1) /\ all \in SUBSET (1 .. n + 1 - 1)
    BY <1>2, FS_Interval
  <2>2. IsFiniteSet(all)
    BY <2>1, FS_Subset
  <2>3. Cardinality(all) \in Nat
    BY <2>2, FS_CardinalityType
  <2> QED BY <2>2, <2>3 DEF BreakCount, BreaksBefore
<1>4. ASSUME NEW i \in 1 .. n PROVE BreaksBefore(chunk, i) \in 0 .. BreakCount(chunk)
  <2> DEFINE part == {b \in 1 .. i - 1 : IsBreak(chunk, b)}
  <2>1. \A b \in 1 .. i - 1 : b \in 1 .. n + 1 - 1
    BY <1>2
  <2>2. part \in SUBSET all
    BY <2>1
  <2>3. BreaksBefore(chunk, i) = Cardinality(part)
    BY DEF BreaksBefore
  <2> HIDE DEF part, all
  <2>4. IsFiniteSet(part) /\ Cardinality(part) <= Cardinality(all)
    BY <1>3, <2>2, FS_Subset
  <2>5. Cardinality(part) \in Nat
    BY <2>4, FS_CardinalityType
  <2> QED BY <1>3, <2>3, <2>4, <2>5
<1> QED BY <1>2, <1>3, <1>4

LEMMA CharsCounted ==
  ASSUME NEW chunk \in Chunks
  PROVE  /\ CharsBefore(chunk, 0) = 0
         /\ CharsBefore(chunk, BreakCount(chunk) + 1) = Chars(chunk, Len(chunk))
         /\ \A m \in Nat : CharsBefore(chunk, m) \in Nat /\ CharsBefore(chunk, m) <= CharsBefore(chunk, m + 1)
<1> DEFINE upto(m) == {i \in DOMAIN chunk : chunk[i] = "char" /\ BreaksBefore(chunk, i) < m}
<1>1. IsFiniteSet(DOMAIN chunk)
  BY ChunkTyped, FS_Interval
<1>2. \A m : IsFiniteSet(upto(m)) /\ CharsBefore(chunk, m) = Cardinality(upto(m))
  <2> SUFFICES ASSUME NEW m PROVE IsFiniteSet(upto(m)) /\ CharsBefore(chunk, m) = Cardinality(upto(m))
    OBVIOUS
  <2>1. upto(m) \in SUBSET DOMAIN chunk
    OBVIOUS
  <2> QED BY <1>1, <2>1, FS_Subset DEF CharsBefore
<1>3. upto(0) = {}
  BY ChunkTyped
<1>4. CharsBefore(chunk, 0) = 0
  BY <1>2, <1>3, FS_EmptySet
<1>5. upto(BreakCount(chunk) + 1) = {i \in 1 .. Len(chunk) : chunk[i] = "char"}
  BY ChunkTyped
<1>6. CharsBefore(chunk, BreakCount(chunk) + 1) = Chars(chunk, Len(chunk))
  BY <1>2, <1>5 DEF Chars
<1>7. ASSUME NEW m \in Nat PROVE CharsBefore(chunk, m) \in Nat /\ CharsBefore(chunk, m) <= CharsBefore(chunk, m + 1)
  <2>1. \A i \in DOMAIN chunk : BreaksBefore(chunk, i) < m => BreaksBefore(chunk, i) < m + 1
    BY ChunkTyped
  <2>2. upto(m) \in SUBSET upto(m + 1)
    BY <2>1
  <2>3. Cardinality(upto(m)) \in Nat
    BY <1>2, FS_CardinalityType
  <2>4. Cardinality(upto(m)) <= Cardinality(upto(m + 1))
    <3> HIDE DEF upto
    <3> QED BY <1>2, <2>2, FS_Subset
  <2> QED BY <1>2, <2>3, <2>4
<1> QED BY <1>4, <1>6, <1>7

LEMMA PieceIsInterval ==
  ASSUME NEW chunk \in Chunks, NEW m \in Nat, printed \in Nat
  PROVE  Piece(chunk, m) = Interval(printed + CharsBefore(chunk, m), printed + CharsBefore(chunk, m + 1))
<1> DEFINE upto(l) == {i \in DOMAIN chunk : chunk[i] = "char" /\ BreaksBefore(chunk, i) < l}
           here == {i \in {i \in DOMAIN chunk : BreaksBefore(chunk, i) = m} : chunk[i] = "char"}
           x == CharsBefore(chunk, m)
           y == CharsBefore(chunk, m + 1)
<1>1. IsFiniteSet(DOMAIN chunk)
  BY ChunkTyped, FS_Interval
<1>2. upto(m) \in SUBSET DOMAIN chunk /\ here \in SUBSET DOMAIN chunk
  OBVIOUS
<1>3. IsFiniteSet(upto(m)) /\ IsFiniteSet(here)
  BY <1>1, <1>2, FS_Subset
<1>4. upto(m) \cap here = {}
  BY ChunkTyped
<1>5. upto(m + 1) = upto(m) \cup here
  <2>1. \A i \in DOMAIN chunk : BreaksBefore(chunk, i) \in Nat
    BY ChunkTyped
  <2>2. \A i \in DOMAIN chunk :
          BreaksBefore(chunk, i) < m + 1 <=> (BreaksBefore(chunk, i) < m \/ BreaksBefore(chunk, i) = m)
    BY <2>1
  <2> QED BY <2>2
<1>6. x = Cardinality(upto(m)) /\ y = Cardinality(upto(m + 1))
  BY DEF CharsBefore
<1>7. Piece(chunk, m) = [k \in 1 .. Cardinality(here) |-> printed + Cardinality(upto(m)) + k]
  BY DEF Piece
<1>8. x \in Nat /\ y \in Nat /\ Cardinality(here) \in Nat
  <2>1. Cardinality(here) \in Nat
    BY <1>3, FS_CardinalityType
  <2>2. \A l \in Nat : CharsBefore(chunk, l) \in Nat
    BY CharsCounted
  <2>3. m + 1 \in Nat
    OBVIOUS
  <2> QED BY <2>1, <2>2, <2>3
<1>9. y = x + Cardinality(here)
  <2>1. Cardinality({}) = 0
    BY FS_EmptySet
  <2> HIDE DEF upto, here, x, y
  <2>2. Cardinality(upto(m) \cup here) = Cardinality(upto(m)) + Cardinality(here) - Cardinality(upto(m) \cap here)
    BY <1>3, FS_Union
  <2> QED BY <1>4, <1>5, <1>6, <1>8, <2>1, <2>2
<1> HIDE DEF upto, here, x, y
<1>10. Piece(chunk, m) = [k \in 1 .. Cardinality(here) |-> printed + x + k]
  BY <1>6, <1>7
<1>11. (printed + y) - (printed + x) = Cardinality(here)
  BY <1>8, <1>9
<1>12. Interval(printed + x, printed + y) = [k \in 1 .. Cardinality(here) |-> printed + x + k]
  BY <1>11 DEF Interval
<1> QED BY <1>10, <1>12 DEF x, y

(* Where the lines meet that a chunk makes of the pending output, which    *)
(* begins behind q, and itself.                                            *)
Meet(chunk, q) ==
  [m \in 0 .. BreakCount(chunk) + 1 |-> IF m = 0 THEN q ELSE printed + CharsBefore(chunk, m)]

LEMMA PartsMeet ==
  ASSUME NEW chunk \in Chunks, NEW q \in Nat, printed \in Nat, q <= printed,
         pendingOutput = Interval(q, printed)
  PROVE  LET f == Meet(chunk, q)
             n == BreakCount(chunk) IN
         /\ f \in [0 .. n + 1 -> Nat] /\ f[0] = q /\ f[n + 1] = printed + Chars(chunk, Len(chunk))
         /\ \A m \in 0 .. n : f[m] <= f[m + 1] /\ Part(chunk, m) = Interval(f[m], f[m + 1])
<1> DEFINE f == Meet(chunk, q)
           n == BreakCount(chunk)
<1>1. n \in Nat /\ \A m \in Nat : CharsBefore(chunk, m) \in Nat
  BY ChunkTyped, CharsCounted
<1>2. \A m \in 0 .. n + 1 : f[m] = IF m = 0 THEN q ELSE printed + CharsBefore(chunk, m)
  BY DEF Meet
<1>3. f \in [0 .. n + 1 -> Nat]
  BY <1>1 DEF Meet
<1>4. f[0] = q /\ f[n + 1] = printed + Chars(chunk, Len(chunk))
  <2>1. 0 \in 0 .. n + 1 /\ n + 1 \in 0 .. n + 1 /\ n + 1 # 0
    BY <1>1
  <2>2. CharsBefore(chunk, n + 1) = Chars(chunk, Len(chunk))
    BY CharsCounted
  <2> HIDE DEF f, n
  <2> QED BY <1>2, <2>1, <2>2
<1> HIDE DEF f, n
<1>5. ASSUME NEW m \in 0 .. n PROVE f[m] <= f[m + 1] /\ Part(chunk, m) = Interval(f[m], f[m + 1])
  <2> DEFINE x == printed + CharsBefore(chunk, m)
             y == printed + CharsBefore(chunk, m + 1)
  <2>1. m \in Nat /\ m \in 0 .. n + 1 /\ m + 1 \in 0 .. n + 1 /\ m + 1 # 0
    BY <1>1
  <2>2. f[m + 1] = y /\ x \in Nat /\ y \in Nat /\ x <= y
    <3>1. CharsBefore(chunk, m) <= CharsBefore(chunk, m + 1)
      BY <2>1, CharsCounted
    <3>2. CharsBefore(chunk, m) \in Nat /\ CharsBefore(chunk, m + 1) \in Nat
      BY <1>1, <2>1
    <3>3. f[m + 1] = y
      BY <1>2, <2>1
    <3> QED BY <3>1, <3>2, <3>3
  <2>3. Piece(chunk, m) = Interval(x, y)
    BY <2>1, PieceIsInterval
  <2>4. CASE m = 0
    <3>1. x = printed /\ f[m] = q
      BY <1>4, <2>4, CharsCounted
    <3>2. Part(chunk, m) = Interval(q, printed) \o Interval(printed, y)
      BY <2>3, <2>4, <3>1 DEF Part
    <3> HIDE DEF x, y
    <3>3. Part(chunk, m) = Interval(q, y)
      BY <2>2, <3>1, <3>2, IntervalsJoin
    <3> QED BY <2>2, <3>1, <3>3
  <2>5. CASE m # 0
    <3>1. f[m] = x /\ Part(chunk, m) = Piece(chunk, m)
      BY <1>2, <2>1, <2>5 DEF Part
    <3> QED BY <2>2, <2>3, <3>1
  <2> QED BY <2>4, <2>5
<1> QED BY <1>3, <1>4, <1>5 DEF f, n

-----------------------------------------------------------------------------
(* The lines with the pending one, by number                               *)

Pending(p) == IF p = <<>> THEN 0 ELSE 1

LEMMA ViewNumbered ==
  ASSUME NEW L \in Seq(Line), NEW n \in Nat, NEW p \in Seq(Nat),
         \A i \in 1 .. Len(L) : L[i].line = n - Len(L) + i - 1
  PROVE  LET S == View(L, n, p) IN
         /\ S \in Seq(Line) /\ Len(S) = Len(L) + Pending(p) /\ n - Len(L) \in Nat
         /\ \A i \in 1 .. Len(L) : S[i] = L[i]
         /\ p # <<>> => S[Len(L) + 1] = OutputLine(n, p)
         /\ \A i \in 1 .. Len(S) : S[i].line = n - Len(L) + i - 1
         /\ (IF S = <<>> THEN n ELSE S[1].line) = n - Len(L)
         /\ (IF S = <<>> THEN n ELSE Last(S).line + 1) = n + Pending(p)
<1> DEFINE S == View(L, n, p)
           e == OutputLine(n, p)
<1>1. Len(L) \in Nat /\ \A i \in 1 .. Len(L) : L[i].line \in Nat
  BY LinesTyped
<1>2. e \in Line /\ e.line = n
  BY DEF OutputLine, Line
<1>3. /\ S \in Seq(Line) /\ Len(S) = Len(L) + Pending(p)
      /\ \A i \in 1 .. Len(L) : S[i] = L[i]
      /\ p # <<>> => S[Len(L) + 1] = e
  <2>1. CASE p = <<>>
    BY <1>1, <2>1 DEF View, Pending
  <2>2. CASE p # <<>>
    <3>1. S = Append(L, e)
      BY <2>2 DEF View
    <3> HIDE DEF S, e
    <3> QED BY <1>2, <2>2, <3>1, AppendProperties DEF Pending
  <2> QED BY <2>1, <2>2
<1> HIDE DEF S, e
<1>4. n - Len(L) \in Nat
  <2>1. CASE Len(L) = 0
    BY <2>1
  <2>2. CASE Len(L) # 0
    <3>1. 1 \in 1 .. Len(L)
      BY <1>1, <2>2
    <3>2. L[1].line = n - Len(L) + 1 - 1 /\ L[1].line \in Nat
      BY <1>1, <3>1
    <3> QED BY <1>1, <3>2
  <2> QED BY <2>1, <2>2
<1>5. ASSUME NEW i \in 1 .. Len(S) PROVE S[i].line = n - Len(L) + i - 1
  <2>1. CASE i \in 1 .. Len(L)
    BY <1>3, <2>1
  <2>2. CASE i \notin 1 .. Len(L)
    <3>1. p # <<>> /\ i = Len(L) + 1
      BY <1>1, <1>3, <2>2 DEF Pending
    <3> QED BY <1>1, <1>2, <1>3, <3>1
  <2> QED BY <2>1, <2>2
<1>6. Len(S) \in Nat /\ (S = <<>> <=> Len(S) = 0) /\ Pending(p) \in 0 .. 1
  <2>1. S = <<>> => Len(S) = 0
    BY EmptySeq
  <2> QED BY <1>3, <2>1, LenProperties, EmptySeq DEF Pending
<1>7. (IF S = <<>> THEN n ELSE S[1].line) = n - Len(L)
  <2>1. CASE S = <<>>
    BY <1>1, <1>3, <1>6, <2>1
  <2>2. CASE S # <<>>
    <3>1. 1 \in 1 .. Len(S)
      BY <1>6, <2>2
    <3> QED BY <1>1, <1>5, <2>2, <3>1
  <2> QED BY <2>1, <2>2
<1>8. (IF S = <<>> THEN n ELSE Last(S).line + 1) = n + Pending(p)
  <2>1. CASE S = <<>>
    BY <1>1, <1>3, <1>6, <2>1
  <2>2. CASE S # <<>>
    <3>1. Len(S) \in 1 .. Len(S)
      BY <1>6, <2>2
    <3>2. S[Len(S)].line = n - Len(L) + Len(S) - 1
      BY <1>5, <3>1
    <3> QED BY <1>1, <1>3, <1>6, <2>2, <3>2 DEF Last
  <2> QED BY <2>1, <2>2
<1> QED BY <1>3, <1>4, <1>5, <1>7, <1>8 DEF S, e

-----------------------------------------------------------------------------
(* The invariant                                                           *)

(* The lines hold the output up to q, the pending output is the rest.      *)
Text ==
  \E q \in Nat : /\ q <= printed /\ pendingOutput = Interval(q, printed)
                 /\ Kept(lines, q) /\ Placed(lines, q)

(* The reader is never ahead of what there is. *)
Inv == TypeOK /\ NumbersConsecutive /\ Text /\ cursor <= AvailableEnd

LEMMA SnapshotNumbered ==
  ASSUME TypeOK, NumbersConsecutive
  PROVE  /\ SnapshotLines = View(lines, nextLine, pendingOutput)
         /\ SnapshotLines \in Seq(Line) /\ Len(SnapshotLines) = Len(lines) + Pending(pendingOutput)
         /\ Len(lines) \in Nat /\ DOMAIN SnapshotLines = 1 .. Len(SnapshotLines)
         /\ \A i \in 1 .. Len(lines) : SnapshotLines[i] = lines[i]
         /\ pendingOutput # <<>> => SnapshotLines[Len(lines) + 1] = OutputLine(nextLine, pendingOutput)
         /\ \A i \in 1 .. Len(SnapshotLines) : SnapshotLines[i].line = nextLine - Len(lines) + i - 1
         /\ AvailableStart = nextLine - Len(lines) /\ AvailableStart \in Nat
         /\ AvailableEnd = nextLine + Pending(pendingOutput)
<1>1. lines \in Seq(Line) /\ nextLine \in Nat /\ pendingOutput \in Seq(Nat)
  BY DEF TypeOK
<1>2. Len(lines) \in Nat /\ DOMAIN lines = 1 .. Len(lines)
  BY <1>1, LinesTyped
<1>3. \A i \in 1 .. Len(lines) : lines[i].line = nextLine - Len(lines) + i - 1
  BY <1>2 DEF NumbersConsecutive
<1>4. SnapshotLines = View(lines, nextLine, pendingOutput)
  BY DEF SnapshotLines, Flushed, View
<1>5. /\ SnapshotLines \in Seq(Line) /\ Len(SnapshotLines) = Len(lines) + Pending(pendingOutput)
      /\ nextLine - Len(lines) \in Nat
      /\ \A i \in 1 .. Len(lines) : SnapshotLines[i] = lines[i]
      /\ pendingOutput # <<>> => SnapshotLines[Len(lines) + 1] = OutputLine(nextLine, pendingOutput)
      /\ \A i \in 1 .. Len(SnapshotLines) : SnapshotLines[i].line = nextLine - Len(lines) + i - 1
      /\ (IF SnapshotLines = <<>> THEN nextLine ELSE SnapshotLines[1].line) = nextLine - Len(lines)
      /\ (IF SnapshotLines = <<>> THEN nextLine ELSE Last(SnapshotLines).line + 1)
           = nextLine + Pending(pendingOutput)
  BY <1>1, <1>3, <1>4, ViewNumbered
<1>6. DOMAIN SnapshotLines = 1 .. Len(SnapshotLines)
  BY <1>5, LinesTyped
<1> HIDE DEF SnapshotLines
<1> QED BY <1>2, <1>4, <1>5, <1>6 DEF AvailableStart, AvailableEnd

LEMMA InvFaithful == Inv => HistoryFaithful
<1> SUFFICES ASSUME Inv PROVE TextKept /\ EventsInPlace
  BY DEF HistoryFaithful, Inv
<1> DEFINE S == SnapshotLines
<1>1. PICK q \in Nat : q <= printed /\ pendingOutput = Interval(q, printed) /\ Kept(lines, q) /\ Placed(lines, q)
  BY DEF Inv, Text
<1>2. lines \in Seq(Line) /\ nextLine \in Nat /\ printed \in Nat
  BY DEF Inv, TypeOK
<1>3. S = View(lines, nextLine, Interval(q, printed))
  BY <1>1, SnapshotNumbered DEF Inv
<1> HIDE DEF S
<1>4. S \in Seq(Line) /\ Kept(S, printed) /\ Placed(S, printed)
  BY <1>1, <1>2, <1>3, ViewKept
<1>5. DOMAIN S = 1 .. Len(S) /\ \A i \in 1 .. Len(S) : DOMAIN S[i].text = 1 .. Len(S[i].text)
  BY <1>4, LinesTyped
<1>6. Shown = UNION {ToSet(S[i].text) : i \in 1 .. Len(S)}
  BY <1>5 DEF Shown, S
<1>7. \A c : c \in Shown <=> \E i \in 1 .. Len(S) : \E k \in 1 .. Len(S[i].text) : S[i].text[k] = c
  BY <1>5, <1>6 DEF ToSet
<1>8. Shown \subseteq 1 .. printed
  BY <1>4, <1>7 DEF Kept
<1>9. ASSUME NEW c \in Shown PROVE c .. printed \subseteq Shown
  <2>1. PICK i \in 1 .. Len(S) : \E k \in 1 .. Len(S[i].text) : S[i].text[k] = c
    BY <1>7, <1>9
  <2>2. Covers(S, c, printed)
    BY <1>4, <2>1 DEF Kept
  <2> QED BY <1>7, <2>2 DEF Covers
<1>10. TextKept
  <2>1. InOrder(S)
    BY <1>4 DEF Kept
  <2> QED BY <1>5, <1>8, <1>9, <2>1 DEF TextKept, InOrder, S
<1>11. EventsInPlace
  BY <1>4, <1>5 DEF EventsInPlace, Placed, S
<1> QED BY <1>10, <1>11

-----------------------------------------------------------------------------
(* Steps that append                                                       *)

(* The lines become T, of which the oldest are dropped: T goes on with the *)
(* numbers, and the pending line goes on in its own line.                  *)
Goes(T) ==
  IF Len(T) = Len(lines) THEN pendingOutput' # <<>> /\ IsPrefix(pendingOutput, pendingOutput')
  ELSE T[Len(lines) + 1].type = "output" /\ IsPrefix(pendingOutput, T[Len(lines) + 1].text)

Grows(T) ==
  /\ T \in Seq(Line) /\ Len(lines) <= Len(T)
  /\ \A i \in 1 .. Len(T) : T[i].line = nextLine - Len(lines) + i - 1
  /\ \A i \in 1 .. Len(lines) : T[i] = lines[i]
  /\ lines' = Newest(T, MaxLines) /\ nextLine' = nextLine - Len(lines) + Len(T)
  /\ \E q \in Nat : /\ q <= printed' /\ pendingOutput' = Interval(q, printed')
                    /\ Kept(T, q) /\ Placed(T, q)
  /\ pendingOutput # <<>> => Goes(T)
  /\ printed' \in 0 .. MaxPrinted

LEMMA NewestKept ==
  ASSUME NEW T \in Seq(Line), NEW q \in Nat, Kept(T, q), Placed(T, q)
  PROVE  \E m \in 0 .. Len(T) :
           LET R == Newest(T, MaxLines) IN
           /\ R \in Seq(Line) /\ Len(R) = Len(T) - m /\ Len(R) <= MaxLines
           /\ \A i \in 1 .. Len(R) : i + m \in 1 .. Len(T) /\ R[i] = T[i + m]
           /\ Kept(R, q) /\ Placed(R, q)
<1> DEFINE m == Larger(0, Len(T) - MaxLines)
           R == SubSeq(T, m + 1, Len(T))
<1>1. Len(T) \in Nat /\ MaxLines \in Nat
  BY LinesTyped, HistoryAssumption
<1>2. m \in 0 .. Len(T) /\ Len(T) - m <= MaxLines
  BY <1>1 DEF Larger
<1>3. Newest(T, MaxLines) = R
  BY DEF Newest
<1> HIDE DEF m
<1>4. /\ R \in Seq(Line) /\ Len(R) = Len(T) - m
      /\ \A i \in 1 .. Len(R) : i + m \in 1 .. Len(T) /\ R[i] = T[i + m]
      /\ Kept(R, q) /\ Placed(R, q)
  BY <1>2, RestKept
<1> HIDE DEF R
<1> QED BY <1>2, <1>3, <1>4

LEMMA GrowsKeeps ==
  ASSUME Inv, NEW T, Grows(T), UNCHANGED readerVars, closed' \in BOOLEAN
  PROVE  Inv'
<1>1. PICK q \in Nat : q <= printed' /\ pendingOutput' = Interval(q, printed') /\ Kept(T, q) /\ Placed(T, q)
  BY DEF Grows
<1>2. PICK m \in 0 .. Len(T) :
        /\ lines' \in Seq(Line) /\ Len(lines') = Len(T) - m /\ Len(lines') <= MaxLines
        /\ \A i \in 1 .. Len(lines') : i + m \in 1 .. Len(T) /\ lines'[i] = T[i + m]
        /\ Kept(lines', q) /\ Placed(lines', q)
  BY <1>1, NewestKept DEF Grows
<1>3. /\ Len(lines) \in Nat /\ Len(T) \in Nat /\ nextLine \in Nat /\ Len(lines) <= Len(T)
      /\ nextLine' = nextLine - Len(lines) + Len(T)
      /\ \A i \in 1 .. Len(T) : T[i].line = nextLine - Len(lines) + i - 1
  BY LinesTyped DEF Inv, TypeOK, Grows
<1>4. nextLine' \in Nat /\ nextLine' >= nextLine
  BY <1>3
<1>5. printed' \in 0 .. MaxPrinted /\ printed' \in Nat
  BY DEF Grows
<1>6. pendingOutput' \in Seq(Nat)
  BY <1>1, <1>5, IntervalTyped
<1>7. TypeOK'
  BY <1>2, <1>4, <1>5, <1>6 DEF Inv, TypeOK, readerVars
<1>8. NumbersConsecutive'
  <2>1. DOMAIN lines' = 1 .. Len(lines') /\ Len(lines') \in Nat
    BY <1>2, LinesTyped
  <2> SUFFICES ASSUME NEW i \in 1 .. Len(lines')
               PROVE  lines'[i].line = nextLine' - Len(lines') + i - 1
    BY <2>1 DEF NumbersConsecutive
  <2>2. i + m \in 1 .. Len(T) /\ lines'[i] = T[i + m]
    BY <1>2
  <2>3. lines'[i].line = nextLine - Len(lines) + (i + m) - 1
    BY <1>3, <2>2
  <2>4. m \in Nat /\ Len(lines') = Len(T) - m
    BY <1>2, <1>3
  <2> QED BY <1>3, <2>1, <2>3, <2>4
<1>9. Text'
  BY <1>1, <1>2 DEF Text
<1>10. AvailableEnd <= AvailableEnd'
  <2>1. AvailableEnd = nextLine + Pending(pendingOutput)
    BY SnapshotNumbered DEF Inv
  <2>2. (TypeOK /\ NumbersConsecutive => AvailableEnd = nextLine + Pending(pendingOutput))'
    BY SnapshotNumbered, PTL
  <2>3. AvailableEnd' = nextLine' + Pending(pendingOutput')
    BY <1>7, <1>8, <2>2
  <2>4. Pending(pendingOutput) \in 0 .. 1 /\ Pending(pendingOutput') \in 0 .. 1
    BY DEF Pending
  <2>5. Len(T) = Len(lines) => Pending(pendingOutput) <= Pending(pendingOutput')
    BY DEF Grows, Goes, Pending
  <2>6. CASE Len(T) = Len(lines)
    BY <1>3, <2>1, <2>3, <2>4, <2>5, <2>6
  <2>7. CASE Len(T) # Len(lines)
    BY <1>3, <2>1, <2>3, <2>4, <2>7
  <2> QED BY <2>6, <2>7
<1>11. cursor' <= AvailableEnd'
  <2>1. cursor' = cursor /\ cursor <= AvailableEnd /\ cursor \in Int
    BY DEF Inv, TypeOK, readerVars, NoLine
  <2>2. AvailableEnd \in Int /\ AvailableEnd' \in Int
    <3>1. AvailableEnd = nextLine + Pending(pendingOutput)
      BY SnapshotNumbered DEF Inv
    <3>2. (TypeOK /\ NumbersConsecutive => AvailableEnd = nextLine + Pending(pendingOutput))'
      BY SnapshotNumbered, PTL
    <3> QED BY <1>3, <1>4, <1>7, <1>8, <3>1, <3>2 DEF Pending
  <2> QED BY <1>10, <2>1, <2>2
<1> QED BY <1>7, <1>8, <1>9, <1>11 DEF Inv

(* What a line number stood for is what it stands for. *)
Stable ==
  \A i \in DOMAIN SnapshotLines, j \in DOMAIN SnapshotLines' :
    LET before == SnapshotLines[i]
        now    == SnapshotLines'[j]
    IN  before.line = now.line => before.type = now.type /\ IsPrefix(before.text, now.text)

LEMMA GrowsStable ==
  ASSUME Inv, NEW T, Grows(T), Inv'
  PROVE  Stable
<1> DEFINE S == SnapshotLines
           R == SnapshotLines'
           n == Len(lines)
<1>1. PICK q \in Nat : q <= printed' /\ pendingOutput' = Interval(q, printed') /\ Kept(T, q) /\ Placed(T, q)
  BY DEF Grows
<1>2. PICK m \in 0 .. Len(T) :
        /\ lines' \in Seq(Line) /\ Len(lines') = Len(T) - m
        /\ \A i \in 1 .. Len(lines') : i + m \in 1 .. Len(T) /\ lines'[i] = T[i + m]
  BY <1>1, NewestKept DEF Grows
<1>3. /\ n \in Nat /\ Len(T) \in Nat /\ nextLine \in Nat /\ n <= Len(T) /\ m \in Nat
      /\ nextLine' = nextLine - n + Len(T)
  BY <1>2, LinesTyped DEF Inv, TypeOK, Grows
<1>4. /\ S \in Seq(Line) /\ Len(S) = n + Pending(pendingOutput) /\ DOMAIN S = 1 .. Len(S)
      /\ \A i \in 1 .. n : S[i] = lines[i]
      /\ pendingOutput # <<>> => S[n + 1] = OutputLine(nextLine, pendingOutput)
      /\ \A i \in 1 .. Len(S) : S[i].line = nextLine - n + i - 1
  BY SnapshotNumbered DEF Inv
<1>5. /\ R \in Seq(Line) /\ Len(R) = Len(lines') + Pending(pendingOutput') /\ DOMAIN R = 1 .. Len(R)
      /\ Len(lines') \in Nat
      /\ \A j \in 1 .. Len(lines') : R[j] = lines'[j]
      /\ pendingOutput' # <<>> => R[Len(lines') + 1] = OutputLine(nextLine', pendingOutput')
      /\ \A j \in 1 .. Len(R) : R[j].line = nextLine' - Len(lines') + j - 1
  <2>1. (TypeOK /\ NumbersConsecutive
           => /\ SnapshotLines \in Seq(Line) /\ Len(SnapshotLines) = Len(lines) + Pending(pendingOutput)
              /\ DOMAIN SnapshotLines = 1 .. Len(SnapshotLines) /\ Len(lines) \in Nat
              /\ \A i \in 1 .. Len(lines) : SnapshotLines[i] = lines[i]
              /\ pendingOutput # <<>> => SnapshotLines[Len(lines) + 1] = OutputLine(nextLine, pendingOutput)
              /\ \A i \in 1 .. Len(SnapshotLines) : SnapshotLines[i].line = nextLine - Len(lines) + i - 1)'
    BY SnapshotNumbered, PTL
  <2> QED BY <2>1 DEF Inv
<1> SUFFICES ASSUME NEW i \in 1 .. Len(S), NEW j \in 1 .. Len(R), S[i].line = R[j].line
             PROVE  S[i].type = R[j].type /\ IsPrefix(S[i].text, R[j].text)
  BY <1>4, <1>5 DEF Stable
<1> HIDE DEF S, R, n
<1>6. Pending(pendingOutput) \in 0 .. 1 /\ Pending(pendingOutput') \in 0 .. 1
  BY DEF Pending
<1>7. i = j + m
  <2>1. S[i].line = nextLine - n + i - 1 /\ R[j].line = nextLine' - Len(lines') + j - 1
    BY <1>4, <1>5
  <2>2. Len(S) \in Nat /\ Len(R) \in Nat
    BY <1>3, <1>4, <1>5, <1>6
  <2> DEFINE u == Len(lines')
             w == nextLine'
             t == Len(T)
  <2>3. u = t - m /\ w = nextLine - n + t /\ nextLine - n + i - 1 = w - u + j - 1
    BY <1>2, <1>3, <2>1
  <2>4. u \in Nat /\ t \in Nat /\ n \in Nat /\ m \in Nat /\ nextLine \in Nat /\ i \in Nat /\ j \in Nat
    BY <1>3, <1>5, <2>2
  <2> HIDE DEF u, w, t
  <2> QED BY <2>3, <2>4
<1>8. CASE i \in 1 .. n
  <2>1. j \in 1 .. Len(lines')
    BY <1>2, <1>3, <1>5, <1>6, <1>7, <1>8
  <2>2. S[i] = lines[i] /\ R[j] = T[i]
    BY <1>2, <1>4, <1>5, <1>7, <1>8, <2>1
  <2>3. T[i] = lines[i]
    BY <1>8 DEF Grows, n
  <2>4. Len(S[i].text) \in Nat
    BY <1>4, LinesTyped
  <2> QED BY <2>2, <2>3, <2>4, SamePrefix
<1>9. CASE i \notin 1 .. n
  <2>1. pendingOutput # <<>> /\ i = n + 1
    <3>1. CASE pendingOutput = <<>>
      BY <1>3, <1>4, <1>9, <3>1 DEF Pending
    <3>2. CASE pendingOutput # <<>>
      BY <1>3, <1>4, <1>6, <1>9, <3>2
    <3> QED BY <3>1, <3>2
  <2>2. S[i].type = "output" /\ S[i].text = pendingOutput
    BY <1>4, <2>1 DEF OutputLine
  <2>3. CASE Len(T) = n
    <3>1. j = Len(lines') + 1
      BY <1>2, <1>3, <1>7, <2>1, <2>3
    <3>2. pendingOutput' # <<>> /\ IsPrefix(pendingOutput, pendingOutput')
      BY <2>1, <2>3 DEF Grows, Goes, n
    <3>3. R[j].type = "output" /\ R[j].text = pendingOutput'
      BY <1>5, <3>1, <3>2 DEF OutputLine
    <3> QED BY <2>2, <3>2, <3>3
  <2>4. CASE Len(T) # n
    <3>1. j \in 1 .. Len(lines')
      <4> DEFINE u == Len(lines')
                 t == Len(T)
      <4>1. u = t - m /\ n + 1 = j + m /\ n < t /\ n \in Nat /\ t \in Nat /\ m \in Nat /\ j \in Nat /\ j >= 1
        <5>1. Len(R) \in Nat
          BY <1>5, <1>6
        <5>2. j \in Nat /\ j >= 1
          BY <5>1
        <5>3. n < Len(T)
          BY <1>3, <2>4
        <5>4. n + 1 = j + m
          BY <1>7, <2>1
        <5> QED BY <1>2, <1>3, <5>2, <5>3, <5>4
      <4> HIDE DEF u, t
      <4>2. j \in 1 .. u
        BY <4>1
      <4> QED BY <4>2 DEF u
    <3>2. R[j] = T[n + 1]
      BY <1>2, <1>5, <1>7, <2>1, <3>1
    <3>3. T[n + 1].type = "output" /\ IsPrefix(pendingOutput, T[n + 1].text)
      BY <2>1, <2>4 DEF Grows, Goes, n
    <3> QED BY <2>2, <3>2, <3>3
  <2> QED BY <2>3, <2>4
<1> QED BY <1>8, <1>9

-----------------------------------------------------------------------------
(* The steps                                                               *)

LEMMA OutputGrows ==
  ASSUME Inv, NEW chunk \in Chunks, Output(chunk)
  PROVE  \E T : Grows(T)
<1> DEFINE n == BreakCount(chunk)
           P == [i \in 1 .. n |-> OutputLine(nextLine + i - 1, Part(chunk, i - 1))]
           T == lines \o P
<1>0. /\ lines \in Seq(Line) /\ Len(lines) \in Nat /\ nextLine \in Nat /\ printed \in Nat
      /\ \A i \in 1 .. Len(lines) : lines[i].line = nextLine - Len(lines) + i - 1
      /\ n \in Nat
  BY LinesTyped, ChunkTyped DEF Inv, TypeOK, NumbersConsecutive
<1>1. PICK q \in Nat : q <= printed /\ pendingOutput = Interval(q, printed) /\ Kept(lines, q) /\ Placed(lines, q)
  BY DEF Inv, Text
<1> DEFINE f == Meet(chunk, q)
<1>2. /\ f \in [0 .. n + 1 -> Nat] /\ f[0] = q /\ f[n + 1] = printed + Chars(chunk, Len(chunk))
      /\ \A m \in 0 .. n : f[m] <= f[m + 1] /\ Part(chunk, m) = Interval(f[m], f[m + 1])
  BY <1>0, <1>1, PartsMeet
<1>3. /\ lines' = Newest(T, MaxLines) /\ nextLine' = nextLine + n
      /\ pendingOutput' = Part(chunk, n) /\ printed' = printed + Chars(chunk, Len(chunk))
      /\ printed' <= MaxPrinted
  BY DEF Output, AppendOutput
<1> HIDE DEF f, n
<1>4. \A i \in 1 .. n : /\ i - 1 \in 0 .. n /\ i - 1 + 1 = i /\ f[i - 1] \in Nat /\ f[i] \in Nat
                        /\ nextLine + i - 1 \in Nat
  BY <1>0, <1>2
<1>5. \A i \in 1 .. n : f[i - 1] <= f[i] /\ Part(chunk, i - 1) = Interval(f[i - 1], f[i])
  BY <1>2, <1>4
<1>6. \A i \in 1 .. n : Part(chunk, i - 1) \in Seq(Nat)
  <2> SUFFICES ASSUME NEW i \in 1 .. n PROVE Part(chunk, i - 1) \in Seq(Nat)
    OBVIOUS
  <2> DEFINE x == f[i - 1]
             y == f[i]
  <2>1. x \in Nat /\ y \in Nat /\ x <= y /\ Part(chunk, i - 1) = Interval(x, y)
    BY <1>4, <1>5
  <2> HIDE DEF x, y
  <2> QED BY <2>1, IntervalTyped
<1>7. \A i \in 1 .. n : OutputLine(nextLine + i - 1, Part(chunk, i - 1)) \in Line
  BY <1>4, <1>6 DEF OutputLine, Line
<1>8. P \in Seq(Line) /\ Len(P) = n
  <2>1. P \in [1 .. n -> Line]
    BY <1>7
  <2>2. P \in Seq(Line)
    BY <1>0, <2>1, SeqDef
  <2>3. DOMAIN P = 1 .. n /\ DOMAIN P = 1 .. Len(P) /\ Len(P) \in Nat
    BY <2>1, <2>2, LenProperties
  <2> HIDE DEF P
  <2> QED BY <1>0, <2>2, <2>3
<1>9. \A i \in 1 .. n : /\ P[i].type = "output" /\ P[i].line = nextLine + i - 1
                        /\ P[i].text = Interval(f[i - 1], f[i])
  BY <1>5 DEF OutputLine
<1> HIDE DEF P
<1> DEFINE g == [m \in 0 .. n |-> f[m]]
<1>10. g \in [0 .. Len(P) -> Nat] /\ g[0] = q /\ g[n] = f[n] /\ f[n] \in Nat /\ f[n + 1] \in Nat
  <2>1. \A m \in 0 .. n : m \in 0 .. n + 1
    BY <1>0
  <2> QED BY <1>0, <1>2, <1>8, <2>1
<1>11. \A i \in 1 .. Len(P) :
         g[i - 1] <= g[i] /\ P[i].type = "output" /\ P[i].text = Interval(g[i - 1], g[i])
  <2> SUFFICES ASSUME NEW i \in 1 .. n
               PROVE  g[i - 1] <= g[i] /\ P[i].type = "output" /\ P[i].text = Interval(g[i - 1], g[i])
    BY <1>8
  <2>1. g[i] = f[i] /\ g[i - 1] = f[i - 1]
    BY <1>4
  <2> HIDE DEF g
  <2> QED BY <1>5, <1>9, <2>1
<1> HIDE DEF g
<1>12. q <= f[n] /\ Adds(P, q, f[n])
  <2>1. g[0] <= g[Len(P)] /\ Adds(P, g[0], g[Len(P)])
    BY <1>8, <1>10, <1>11, IntervalsAdd
  <2> QED BY <1>8, <1>10, <2>1
<1>13. /\ T \in Seq(Line) /\ Len(T) = Len(lines) + n
       /\ \A i \in 1 .. Len(lines) : T[i] = lines[i]
       /\ \A i \in 1 .. n : T[Len(lines) + i] = P[i]
       /\ Kept(T, f[n]) /\ Placed(T, f[n])
  BY <1>0, <1>1, <1>8, <1>10, <1>12, JoinKept
<1> HIDE DEF T
<1>14. \A i \in 1 .. Len(T) : T[i].line = nextLine - Len(lines) + i - 1
  <2> SUFFICES ASSUME NEW i \in 1 .. Len(T) PROVE T[i].line = nextLine - Len(lines) + i - 1
    OBVIOUS
  <2>1. CASE i \in 1 .. Len(lines)
    BY <1>0, <1>13, <2>1
  <2>2. CASE i \notin 1 .. Len(lines)
    <3>1. i - Len(lines) \in 1 .. n /\ Len(lines) + (i - Len(lines)) = i
      BY <1>0, <1>13, <2>2
    <3>2. T[i] = P[i - Len(lines)]
      BY <1>13, <3>1
    <3> QED BY <1>0, <1>9, <3>1, <3>2
  <2> QED BY <2>1, <2>2
<1>15. n \in 0 .. n /\ Part(chunk, n) = Interval(f[n], f[n + 1]) /\ f[n] <= f[n + 1] /\ f[n + 1] = printed'
  BY <1>0, <1>2, <1>3
<1>16. pendingOutput # <<>> => Goes(T)
  <2> SUFFICES ASSUME pendingOutput # <<>> PROVE Goes(T)
    OBVIOUS
  <2>1. q # printed
    BY <1>0, <1>1, IntervalTyped
  <2>2. \A m \in 0 .. n : m + 1 \in 1 .. n + 1
    BY <1>0
  <2>3. printed <= f[1]
    <3>1. 1 \in 0 .. n + 1 /\ CharsBefore(chunk, 1) \in Nat
      BY <1>0, CharsCounted
    <3>2. f[1] = printed + CharsBefore(chunk, 1)
      BY <3>1 DEF f, Meet, n
    <3> QED BY <1>0, <3>1, <3>2
  <2>4. f[1] \in Nat /\ q < f[1]
    <3>1. 1 \in 0 .. n + 1
      BY <1>0
    <3> QED BY <1>0, <1>1, <1>2, <2>1, <2>3, <3>1
  <2>5. IsPrefix(pendingOutput, Interval(q, f[1]))
    BY <1>0, <1>1, <2>3, <2>4, IntervalPrefix
  <2>6. CASE n = 0
    <3>1. pendingOutput' = Interval(q, f[1])
      BY <1>2, <1>3, <1>15, <2>6
    <3>2. pendingOutput' # <<>>
      <4> DEFINE y == f[1]
      <4>1. y \in Nat /\ q <= y /\ q # y /\ pendingOutput' = Interval(q, y)
        BY <2>4, <3>1
      <4> HIDE DEF y
      <4> QED BY <4>1, IntervalTyped
    <3> QED BY <1>0, <1>13, <2>5, <2>6, <3>1, <3>2 DEF Goes
  <2>7. CASE n # 0
    <3>1. 1 \in 1 .. n /\ 1 - 1 = 0
      BY <1>0, <2>7
    <3>2. T[Len(lines) + 1] = P[1] /\ P[1].type = "output" /\ P[1].text = Interval(q, f[1])
      BY <1>2, <1>9, <1>13, <3>1
    <3> QED BY <1>0, <1>13, <2>5, <2>7, <3>2 DEF Goes
  <2> QED BY <2>6, <2>7
<1>17. printed' \in 0 .. MaxPrinted
  BY <1>3, <1>10, <1>15, HistoryAssumption
<1>18. nextLine' = nextLine - Len(lines) + Len(T)
  BY <1>0, <1>3, <1>13
<1>19. lines' = Newest(T, MaxLines)
  BY <1>3 DEF T
<1>20. f[n] <= printed' /\ pendingOutput' = Interval(f[n], printed')
  BY <1>3, <1>15
<1>21. Len(lines) <= Len(T)
  BY <1>0, <1>13
<1> QED BY <1>10, <1>13, <1>14, <1>16, <1>17, <1>18, <1>19, <1>20, <1>21 DEF Grows

LEMMA EventGrows ==
  ASSUME Inv, NEW q \in Nat, q <= printed, pendingOutput = Interval(q, printed),
         Kept(lines, q), Placed(lines, q),
         printed <= printed', printed' \in 0 .. MaxPrinted,
         NEW n \in Nat \ {0}, AppendEvent(Interval(q, printed'), n)
  PROVE  \E T : Grows(T)
<1> DEFINE rest == Interval(q, printed')
           F == Flushed(rest)
           first == nextLine + Len(F) - Len(lines)
           E == [i \in 1 .. n |-> EventLine(first + i - 1, printed')]
           T == F \o E
<1>0. /\ lines \in Seq(Line) /\ Len(lines) \in Nat /\ nextLine \in Nat
      /\ printed \in Nat /\ printed' \in Nat /\ q <= printed'
      /\ \A i \in 1 .. Len(lines) : lines[i].line = nextLine - Len(lines) + i - 1
  BY LinesTyped DEF Inv, TypeOK, NumbersConsecutive
<1>1. rest \in Seq(Nat) /\ F = View(lines, nextLine, rest)
  BY <1>0, IntervalTyped DEF Flushed, View
<1>2. lines' = Newest(T, MaxLines) /\ nextLine' = first + n /\ pendingOutput' = <<>>
  BY DEF AppendEvent
<1>3. /\ F \in Seq(Line) /\ Len(lines) <= Len(F)
      /\ \A i \in 1 .. Len(lines) : F[i] = lines[i]
      /\ q # printed' => F[Len(lines) + 1] = OutputLine(nextLine, rest) /\ Len(F) = Len(lines) + 1
      /\ Kept(F, printed') /\ Placed(F, printed')
  <2> DEFINE b == printed'
  <2>1. b \in Nat /\ q <= b /\ F = View(lines, nextLine, Interval(q, b)) /\ rest = Interval(q, b)
    BY <1>0, <1>1
  <2> HIDE DEF F, b, rest
  <2>2. LET V == View(lines, nextLine, Interval(q, b)) IN
        /\ V \in Seq(Line) /\ Len(lines) <= Len(V)
        /\ Len(V) = IF q = b THEN Len(lines) ELSE Len(lines) + 1
        /\ \A i \in 1 .. Len(lines) : V[i] = lines[i]
        /\ q # b => V[Len(lines) + 1] = OutputLine(nextLine, Interval(q, b))
        /\ Kept(V, b) /\ Placed(V, b)
    BY <1>0, <2>1, ViewKept
  <2>3. q # b => F[Len(lines) + 1] = OutputLine(nextLine, rest) /\ Len(F) = Len(lines) + 1
    BY <2>1, <2>2
  <2>4. /\ F \in Seq(Line) /\ Len(lines) <= Len(F) /\ \A i \in 1 .. Len(lines) : F[i] = lines[i]
        /\ Kept(F, b) /\ Placed(F, b)
    BY <2>1, <2>2
  <2> QED BY <2>3, <2>4 DEF b
<1>4. \A i \in 1 .. Len(F) : F[i].line = nextLine - Len(lines) + i - 1
  <2> HIDE DEF F, rest
  <2> DEFINE V == View(lines, nextLine, rest)
  <2>1. \A i \in 1 .. Len(V) : V[i].line = nextLine - Len(lines) + i - 1
    BY <1>0, <1>1, ViewNumbered
  <2> QED BY <1>1, <2>1
<1> HIDE DEF F
<1>5. Len(F) \in Nat /\ first \in Nat
  BY <1>0, <1>3, LinesTyped
<1> HIDE DEF first
<1>6. \A i \in 1 .. n : EventLine(first + i - 1, printed') \in Line
  <2>1. \A i \in 1 .. n : first + i - 1 \in Nat
    BY <1>5
  <2>2. <<>> \in Seq(Nat)
    BY EmptySeq
  <2> QED BY <1>0, <2>1, <2>2 DEF EventLine, Line
<1>7. E \in Seq(Line) /\ Len(E) = n
  <2>1. E \in [1 .. n -> Line]
    BY <1>6
  <2>2. E \in Seq(Line)
    BY <2>1, SeqDef
  <2>3. DOMAIN E = 1 .. n /\ DOMAIN E = 1 .. Len(E) /\ Len(E) \in Nat
    BY <2>1, <2>2, LenProperties
  <2> HIDE DEF E
  <2> QED BY <2>2, <2>3
<1>8. \A i \in 1 .. n : E[i].after = printed' /\ E[i].text = <<>> /\ E[i].line = first + i - 1
  BY DEF EventLine
<1> HIDE DEF E
<1>9. Adds(E, printed', printed')
  <2> DEFINE b == printed'
  <2>1. b \in Nat /\ \A i \in 1 .. Len(E) : E[i].after = b /\ E[i].text = <<>>
    BY <1>0, <1>7, <1>8
  <2> HIDE DEF b
  <2>2. Adds(E, b, b)
    BY <1>7, <2>1, EventsAdd
  <2> QED BY <2>2 DEF b
<1>10. /\ T \in Seq(Line) /\ Len(T) = Len(F) + n
       /\ \A i \in 1 .. Len(F) : T[i] = F[i]
       /\ \A i \in 1 .. n : T[Len(F) + i] = E[i]
       /\ Kept(T, printed') /\ Placed(T, printed')
  <2> DEFINE b == printed'
  <2>1. b \in Nat /\ b <= b /\ Kept(F, b) /\ Placed(F, b) /\ Adds(E, b, b)
    BY <1>0, <1>3, <1>9
  <2> HIDE DEF b
  <2>2. /\ T \in Seq(Line) /\ Len(T) = Len(F) + Len(E)
        /\ \A i \in 1 .. Len(F) : T[i] = F[i]
        /\ \A i \in 1 .. Len(E) : T[Len(F) + i] = E[i]
        /\ Kept(T, b) /\ Placed(T, b)
    BY <1>3, <1>7, <2>1, JoinKept
  <2> QED BY <1>7, <2>2 DEF b
<1> HIDE DEF T
<1>11. \A i \in 1 .. Len(T) : T[i].line = nextLine - Len(lines) + i - 1
  <2> SUFFICES ASSUME NEW i \in 1 .. Len(T) PROVE T[i].line = nextLine - Len(lines) + i - 1
    OBVIOUS
  <2>1. CASE i \in 1 .. Len(F)
    BY <1>4, <1>10, <2>1
  <2>2. CASE i \notin 1 .. Len(F)
    <3>1. i - Len(F) \in 1 .. n /\ Len(F) + (i - Len(F)) = i
      BY <1>5, <1>10, <2>2
    <3>2. T[i].line = first + (i - Len(F)) - 1
      BY <1>8, <1>10, <3>1
    <3> QED BY <1>0, <1>5, <3>1, <3>2 DEF first
  <2> QED BY <2>1, <2>2
<1>12. \A i \in 1 .. Len(lines) : T[i] = lines[i]
  BY <1>0, <1>3, <1>5, <1>10
<1>13. pendingOutput # <<>> => Goes(T)
  <2> SUFFICES ASSUME pendingOutput # <<>> PROVE Goes(T)
    OBVIOUS
  <2>1. q # printed
    BY <1>0, IntervalTyped
  <2>2. q # printed'
    BY <1>0, <2>1
  <2>3. Len(lines) + 1 \in 1 .. Len(F) /\ Len(T) # Len(lines)
    BY <1>0, <1>3, <1>10, <2>2
  <2>4. T[Len(lines) + 1] = OutputLine(nextLine, rest)
    BY <1>3, <1>10, <2>2, <2>3
  <2>5. IsPrefix(pendingOutput, rest)
    BY <1>0, IntervalPrefix
  <2> HIDE DEF rest
  <2> QED BY <2>3, <2>4, <2>5 DEF Goes, OutputLine
<1>14. pendingOutput' = Interval(printed', printed')
  BY <1>0, <1>2, IntervalTyped
<1>15. nextLine' = nextLine - Len(lines) + Len(T) /\ Len(lines) <= Len(T)
  BY <1>0, <1>2, <1>3, <1>5, <1>10 DEF first
<1>16. lines' = Newest(T, MaxLines)
  BY <1>2 DEF T
<1>17. printed' \in Nat /\ printed' <= printed'
  BY <1>0
<1> QED BY <1>10, <1>11, <1>12, <1>13, <1>14, <1>15, <1>16, <1>17 DEF Grows

LEMMA RecordGrows ==
  ASSUME Inv, NEW n \in EventSizes, Record(n)
  PROVE  \E T : Grows(T)
<1>1. PICK q \in Nat : q <= printed /\ pendingOutput = Interval(q, printed) /\ Kept(lines, q) /\ Placed(lines, q)
  BY DEF Inv, Text
<1>2. printed' = printed /\ printed \in 0 .. MaxPrinted
  BY DEF Record, Inv, TypeOK
<1>3. AppendEvent(pendingOutput, n) /\ n \in Nat \ {0}
  BY HistoryAssumption DEF Record
<1>4. printed <= printed' /\ printed' \in 0 .. MaxPrinted /\ AppendEvent(Interval(q, printed'), n)
  BY <1>1, <1>2, <1>3, HistoryAssumption
<1> QED BY <1>1, <1>3, <1>4, EventGrows

LEMMA FinalizeGrows ==
  ASSUME Inv, NEW partial \in BOOLEAN, Finalize(partial)
  PROVE  \E T : Grows(T)
<1> DEFINE more == IF partial THEN 1 ELSE 0
           last == [i \in 1 .. more |-> printed + 1]
<1>1. PICK q \in Nat : q <= printed /\ pendingOutput = Interval(q, printed) /\ Kept(lines, q) /\ Placed(lines, q)
  BY DEF Inv, Text
<1>2. printed \in Nat /\ more \in 0 .. 1 /\ printed' = printed + more /\ printed + more <= MaxPrinted
      /\ AppendEvent(pendingOutput \o last, 1)
  BY DEF Finalize, Inv, TypeOK
<1>3. last = Interval(printed, printed + more)
  <2>1. (printed + more) - printed = more /\ \A i \in 1 .. more : printed + 1 = printed + i
    BY <1>2
  <2> HIDE DEF more
  <2> QED BY <2>1 DEF Interval
<1> HIDE DEF last, more
<1>4. printed + more \in Nat /\ printed <= printed + more
  BY <1>2
<1>5. pendingOutput \o last = Interval(q, printed + more)
  <2> DEFINE b == printed + more
  <2>1. b \in Nat /\ printed <= b /\ last = Interval(printed, b)
    BY <1>3, <1>4
  <2> HIDE DEF b
  <2>2. Interval(q, printed) \o Interval(printed, b) = Interval(q, b)
    BY <1>1, <1>2, <2>1, IntervalsJoin
  <2> QED BY <1>1, <2>1, <2>2 DEF b
<1>6. printed <= printed' /\ printed' \in 0 .. MaxPrinted
  BY <1>2, <1>4, HistoryAssumption
<1>7. AppendEvent(Interval(q, printed'), 1)
  BY <1>2, <1>5
<1>8. 1 \in Nat \ {0}
  OBVIOUS
<1> QED BY <1>1, <1>6, <1>7, <1>8, EventGrows

(* A page begins at its effective line and has no hole. *)
LEMMA SliceAt ==
  ASSUME NEW S \in Seq(Line), NEW n \in 0 .. Len(S), NEW max \in Nat \ {0}
  PROVE  LET r == First(max, From(n, S)) IN
         /\ r \in Seq(Line) /\ Len(r) \in Nat /\ n + Len(r) <= Len(S)
         /\ \A i \in 1 .. Len(r) : n + i \in 1 .. Len(S) /\ r[i] = S[n + i]
<1> DEFINE rest == From(n, S)
           k == IF max < Len(rest) THEN max ELSE Len(rest)
           r == First(max, rest)
<1>1. Len(S) \in Nat /\ n \in Nat /\ n <= Len(S) /\ \A i \in 1 .. Len(S) : S[i] \in Line
  BY LinesTyped
<1>2. /\ rest \in Seq(Line) /\ Len(rest) = IF n + 1 <= Len(S) THEN Len(S) - (n + 1) + 1 ELSE 0
      /\ \A i \in 1 .. Len(S) - (n + 1) + 1 : rest[i] = S[n + 1 + i - 1]
  <2>1. \A i \in n + 1 .. Len(S) : S[i] \in Line
    BY <1>1
  <2>2. n + 1 \in Int /\ Len(S) \in Int
    BY <1>1
  <2> QED BY <2>1, <2>2, SubSeqProperties DEF From
<1> HIDE DEF rest
<1>3. Len(rest) = Len(S) - n
  BY <1>1, <1>2
<1>4. \A i \in 1 .. Len(rest) : n + i \in 1 .. Len(S) /\ rest[i] = S[n + i]
  <2> SUFFICES ASSUME NEW i \in 1 .. Len(rest) PROVE n + i \in 1 .. Len(S) /\ rest[i] = S[n + i]
    OBVIOUS
  <2>1. i \in 1 .. Len(S) - (n + 1) + 1 /\ n + 1 + i - 1 = n + i /\ n + i \in 1 .. Len(S)
    BY <1>1, <1>3
  <2> QED BY <1>2, <2>1
<1>5. k \in 0 .. Len(rest)
  BY <1>1, <1>3
<1>6. r = SubSeq(rest, 1, k)
  BY DEF First
<1> HIDE DEF k, r
<1>7. /\ r \in Seq(Line) /\ Len(r) = IF 1 <= k THEN k - 1 + 1 ELSE 0
      /\ \A i \in 1 .. k - 1 + 1 : r[i] = rest[1 + i - 1]
  <2>1. \A i \in 1 .. k : rest[i] \in Line
    BY <1>1, <1>3, <1>4, <1>5
  <2>2. k \in Int
    BY <1>1, <1>3, <1>5
  <2> QED BY <1>6, <2>1, <2>2, SubSeqProperties
<1>8. Len(r) = k /\ k \in Nat /\ k <= Len(rest)
  BY <1>1, <1>3, <1>5, <1>7
<1>9. \A i \in 1 .. Len(r) : i \in 1 .. Len(rest) /\ r[i] = rest[i]
  BY <1>1, <1>3, <1>7, <1>8
<1> QED BY <1>1, <1>3, <1>4, <1>7, <1>8, <1>9 DEF r, rest

LEMMA ReadGets ==
  ASSUME Inv, NEW max \in Nat \ {0}
  PROVE  LET p == ReadPage(cursor, max) IN
         /\ p \in [effectiveLine : Nat, nextLine : Nat, truncatedBefore : BOOLEAN, lines : Seq(Line)]
         /\ p.nextLine <= AvailableEnd
         /\ cursor # NoLine =>
              /\ p.nextLine >= cursor
              /\ \A l \in cursor .. p.nextLine - 1 :
                   \/ p.truncatedBefore /\ l < p.effectiveLine
                   \/ \E i \in DOMAIN p.lines : p.lines[i].line = l
<1> DEFINE S == SnapshotLines
           start == AvailableStart
           end == AvailableEnd
           from == EffectiveLine(cursor, max)
           slice == First(max, From(from - start, S))
           p == ReadPage(cursor, max)
<1>1. /\ S \in Seq(Line) /\ Len(S) \in Nat /\ start \in Nat /\ end = start + Len(S)
      /\ \A i \in 1 .. Len(S) : S[i].line = start + i - 1
  <2>1. nextLine \in Nat /\ Len(lines) \in Nat /\ Pending(pendingOutput) \in 0 .. 1
    BY LinesTyped DEF Inv, TypeOK, Pending
  <2>2. /\ S \in Seq(Line) /\ Len(S) = Len(lines) + Pending(pendingOutput)
        /\ \A i \in 1 .. Len(S) : S[i].line = nextLine - Len(lines) + i - 1
        /\ start = nextLine - Len(lines) /\ start \in Nat
        /\ end = nextLine + Pending(pendingOutput)
    BY SnapshotNumbered DEF Inv
  <2> HIDE DEF S, start, end
  <2> QED BY <2>1, <2>2
<1>2. cursor \in Nat \cup {NoLine} /\ cursor <= end
  BY DEF Inv, TypeOK
<1>3. from = IF cursor = NoLine THEN Larger(start, end - max)
             ELSE IF cursor < start THEN start ELSE IF cursor > end THEN end ELSE cursor
  BY DEF EffectiveLine
<1> HIDE DEF S, start, end, from
<1>4. from \in Nat /\ start <= from /\ from <= end
  <2>1. CASE cursor = NoLine
    BY <1>1, <1>3, <2>1 DEF Larger
  <2>2. CASE cursor # NoLine
    <3>1. cursor \in Nat
      BY <1>2, <2>2
    <3> QED BY <1>1, <1>2, <1>3, <2>2, <3>1
  <2> QED BY <2>1, <2>2
<1>5. from - start \in 0 .. Len(S)
  BY <1>1, <1>4
<1>6. /\ slice \in Seq(Line) /\ Len(slice) \in Nat /\ (from - start) + Len(slice) <= Len(S)
      /\ \A i \in 1 .. Len(slice) :
           (from - start) + i \in 1 .. Len(S) /\ slice[i] = S[(from - start) + i]
  BY <1>1, <1>5, SliceAt
<1>7. p.effectiveLine = from /\ p.lines = slice
      /\ p.nextLine = (IF slice = <<>> THEN from ELSE Last(slice).line + 1)
      /\ p.truncatedBefore = (IF cursor = NoLine THEN from > start ELSE cursor < start)
      /\ p = [effectiveLine |-> p.effectiveLine, lines |-> p.lines, nextLine |-> p.nextLine,
              truncatedBefore |-> p.truncatedBefore]
  BY DEF ReadPage, from, slice, S, start
<1> HIDE DEF p, slice
<1>8. \A i \in 1 .. Len(slice) : slice[i].line = from + i - 1
  <2> SUFFICES ASSUME NEW i \in 1 .. Len(slice) PROVE slice[i].line = from + i - 1
    OBVIOUS
  <2>1. slice[i].line = start + ((from - start) + i) - 1
    BY <1>1, <1>6
  <2> QED BY <1>1, <1>4, <1>6, <2>1
<1>9. p.nextLine = from + Len(slice)
  <2>1. CASE slice = <<>>
    BY <1>4, <1>7, <2>1, EmptySeq
  <2>2. CASE slice # <<>>
    <3>1. Len(slice) \in 1 .. Len(slice)
      BY <1>6, <2>2, EmptySeq
    <3> QED BY <1>4, <1>6, <1>7, <1>8, <2>2, <3>1 DEF Last
  <2> QED BY <2>1, <2>2
<1>10. p.nextLine \in Nat /\ p.nextLine <= end
  BY <1>1, <1>4, <1>6, <1>9
<1>11. p \in [effectiveLine : Nat, nextLine : Nat, truncatedBefore : BOOLEAN, lines : Seq(Line)]
  <2>1. (from > start) \in BOOLEAN /\ (cursor < start) \in BOOLEAN
    OBVIOUS
  <2>2. p.truncatedBefore = (from > start) \/ p.truncatedBefore = (cursor < start)
    BY <1>7
  <2>3. p.truncatedBefore \in BOOLEAN
    BY <2>1, <2>2
  <2> QED BY <1>4, <1>6, <1>7, <1>10, <2>3
<1>12. ASSUME cursor # NoLine
       PROVE  /\ p.nextLine >= cursor
              /\ \A l \in cursor .. p.nextLine - 1 :
                   \/ p.truncatedBefore /\ l < p.effectiveLine
                   \/ \E i \in DOMAIN p.lines : p.lines[i].line = l
  <2>1. cursor \in Nat /\ cursor <= from /\ (cursor < from => cursor < start)
    BY <1>1, <1>2, <1>3, <1>4, <1>12
  <2>2. p.nextLine >= cursor
    BY <1>4, <1>6, <1>9, <2>1
  <2> SUFFICES ASSUME NEW l \in cursor .. p.nextLine - 1
               PROVE  \/ p.truncatedBefore /\ l < p.effectiveLine
                      \/ \E i \in DOMAIN p.lines : p.lines[i].line = l
    BY <2>2
  <2>3. CASE l < from
    <3>1. cursor < start
      BY <1>4, <1>10, <2>1, <2>3
    <3> QED BY <1>7, <1>12, <2>3, <3>1
  <2>4. CASE ~(l < from)
    <3>1. l - from + 1 \in 1 .. Len(slice)
      BY <1>4, <1>6, <1>9, <2>1, <2>4
    <3>2. slice[l - from + 1].line = from + (l - from + 1) - 1
      BY <1>8, <3>1
    <3>3. slice[l - from + 1].line = l
      BY <1>4, <1>10, <2>1, <3>2
    <3>4. DOMAIN slice = 1 .. Len(slice)
      BY <1>6, LenProperties
    <3> QED BY <1>7, <3>1, <3>3, <3>4
  <2> QED BY <2>3, <2>4
<1> QED BY <1>10, <1>11, <1>12 DEF p, end

-----------------------------------------------------------------------------
(* The theorems                                                            *)

LEMMA InitInv == Init => Inv
<1> SUFFICES ASSUME Init PROVE Inv
  OBVIOUS
<1>1. PICK n \in EventSizes : /\ lines = Newest([i \in 1 .. n |-> EventLine(i, 0)], MaxLines)
                              /\ nextLine = n + 1
  BY DEF Init
<1> DEFINE E == [i \in 1 .. n |-> EventLine(i, 0)]
<1>2. n \in Nat \ {0}
  BY HistoryAssumption
<1>3. \A i \in 1 .. n : EventLine(i, 0) \in Line
  <2>1. <<>> \in Seq(Nat)
    BY EmptySeq
  <2> QED BY <1>2, <2>1 DEF EventLine, Line
<1>4. E \in Seq(Line) /\ Len(E) = n
  <2>1. E \in [1 .. n -> Line]
    BY <1>3
  <2>2. E \in Seq(Line)
    BY <1>2, <2>1, SeqDef
  <2>3. DOMAIN E = 1 .. n /\ DOMAIN E = 1 .. Len(E) /\ Len(E) \in Nat
    BY <2>1, <2>2, LenProperties
  <2> HIDE DEF E
  <2> QED BY <1>2, <2>2, <2>3
<1>5. \A i \in 1 .. n : E[i].after = 0 /\ E[i].text = <<>> /\ E[i].line = i
  BY DEF EventLine
<1>6. Kept(E, 0) /\ Placed(E, 0)
  <2>1. \A i \in 1 .. Len(E) : Len(E[i].text) = 0 /\ E[i].after = 0
    BY <1>4, <1>5
  <2> HIDE DEF E
  <2>2. \A i \in 1 .. Len(E) : \A k \in 1 .. Len(E[i].text) : FALSE
    BY <2>1
  <2> QED BY <2>1, <2>2 DEF Kept, Placed, InOrder
<1> HIDE DEF E
<1>7. PICK m \in 0 .. Len(E) :
        /\ lines \in Seq(Line) /\ Len(lines) = Len(E) - m /\ Len(lines) <= MaxLines
        /\ \A i \in 1 .. Len(lines) : i + m \in 1 .. Len(E) /\ lines[i] = E[i + m]
        /\ Kept(lines, 0) /\ Placed(lines, 0)
  <2>1. lines = Newest(E, MaxLines) /\ 0 \in Nat
    BY <1>1 DEF E
  <2> QED BY <1>4, <1>6, <2>1, NewestKept
<1>8. /\ printed = 0 /\ pendingOutput = <<>> /\ closed = FALSE /\ cursor \in {NoLine, 0}
      /\ page = NoPage
  BY DEF Init
<1>9. TypeOK
  <2>1. <<>> \in Seq(Nat) /\ <<>> \in Seq(Line) /\ 0 \in 0 .. MaxPrinted
    BY EmptySeq, HistoryAssumption
  <2>2. page \in [effectiveLine : Nat, nextLine : Nat, truncatedBefore : BOOLEAN, lines : Seq(Line)]
    BY <1>8, <2>1 DEF NoPage
  <2>3. lines \in Seq(Line) /\ Len(lines) <= MaxLines
    BY <1>7
  <2>4. nextLine \in Nat
    BY <1>1, <1>2
  <2>5. cursor \in Nat \cup {NoLine}
    BY <1>8
  <2>6. pendingOutput \in Seq(Nat) /\ printed \in 0 .. MaxPrinted /\ closed \in BOOLEAN
    BY <1>8, <2>1
  <2> HIDE DEF Line
  <2> QED BY <2>2, <2>3, <2>4, <2>5, <2>6, Zenon DEF TypeOK
<1>10. NumbersConsecutive
  <2>1. DOMAIN lines = 1 .. Len(lines) /\ Len(lines) \in Nat
    BY <1>7, LinesTyped
  <2> SUFFICES ASSUME NEW i \in 1 .. Len(lines) PROVE lines[i].line = nextLine - Len(lines) + i - 1
    BY <2>1 DEF NumbersConsecutive
  <2>2. i + m \in 1 .. n /\ lines[i] = E[i + m]
    BY <1>4, <1>7
  <2>3. lines[i].line = i + m
    BY <1>5, <2>2
  <2>4. nextLine = n + 1 /\ Len(lines) = n - m /\ m \in Nat
    BY <1>1, <1>4, <1>7
  <2> QED BY <1>2, <2>1, <2>3, <2>4
<1>11. Text
  <2>1. 0 \in Nat /\ 0 <= printed /\ pendingOutput = Interval(0, printed)
    BY <1>8, IntervalTyped
  <2> QED BY <1>7, <2>1 DEF Text
<1>12. cursor <= AvailableEnd
  <2>1. AvailableEnd = nextLine + Pending(pendingOutput)
    BY <1>9, <1>10, SnapshotNumbered
  <2> QED BY <1>1, <1>2, <1>8, <2>1 DEF Pending, NoLine
<1> QED BY <1>9, <1>10, <1>11, <1>12 DEF Inv

(* Nothing but a read moves the reader, and a read leaves the lines.       *)
LEMMA StepInv ==
  ASSUME Inv, [Next]_vars
  PROVE  /\ Inv' /\ Stable
         /\ UNCHANGED readerVars \/ \E n \in PageSizes : Read(n)
<1>1. ASSUME NEW T, Grows(T), UNCHANGED readerVars, closed' \in BOOLEAN PROVE Inv' /\ Stable
  BY <1>1, GrowsKeeps, GrowsStable
<1>2. ASSUME NEW chunk \in Chunks, Output(chunk) PROVE Inv' /\ Stable /\ UNCHANGED readerVars
  <2>1. UNCHANGED readerVars /\ closed' \in BOOLEAN
    BY <1>2 DEF Output, Inv, TypeOK
  <2> QED BY <1>1, <1>2, <2>1, OutputGrows
<1>3. ASSUME NEW n \in EventSizes, Record(n) PROVE Inv' /\ Stable /\ UNCHANGED readerVars
  <2>1. UNCHANGED readerVars /\ closed' \in BOOLEAN
    BY <1>3 DEF Record, Inv, TypeOK
  <2> QED BY <1>1, <1>3, <2>1, RecordGrows
<1>4. ASSUME NEW partial \in BOOLEAN, Finalize(partial) PROVE Inv' /\ Stable /\ UNCHANGED readerVars
  <2>1. UNCHANGED readerVars /\ closed' \in BOOLEAN
    BY <1>4 DEF Finalize
  <2> QED BY <1>1, <1>4, <2>1, FinalizeGrows
<1>5. ASSUME UNCHANGED <<historyVars, printed>>
      PROVE  /\ Stable /\ (NumbersConsecutive /\ Text)'
             /\ AvailableEnd' = AvailableEnd /\ UNCHANGED <<lines, nextLine, pendingOutput>>
  <2>1. UNCHANGED <<lines, nextLine, pendingOutput, printed>>
    BY <1>5 DEF historyVars
  <2>2. SnapshotLines' = SnapshotLines /\ AvailableEnd' = AvailableEnd
    BY <2>1 DEF SnapshotLines, Flushed, AvailableEnd
  <2>3. (NumbersConsecutive /\ Text)'
    BY <2>1 DEF NumbersConsecutive, Text, Inv
  <2>4. /\ SnapshotLines \in Seq(Line) /\ DOMAIN SnapshotLines = 1 .. Len(SnapshotLines)
        /\ \A i \in 1 .. Len(SnapshotLines) : SnapshotLines[i].line = nextLine - Len(lines) + i - 1
        /\ nextLine - Len(lines) \in Nat
    BY SnapshotNumbered DEF Inv
  <2> DEFINE S == SnapshotLines
             base == nextLine - Len(lines)
  <2>5. S \in Seq(Line) /\ DOMAIN S = 1 .. Len(S) /\ \A i \in 1 .. Len(S) : S[i].line = base + i - 1
    BY <2>4
  <2>6. base \in Nat
    BY <2>4
  <2> HIDE DEF S, base
  <2>7. ASSUME NEW i \in DOMAIN S, NEW j \in DOMAIN S, S[i].line = S[j].line
        PROVE  S[i].type = S[j].type /\ IsPrefix(S[i].text, S[j].text)
    <3>1. base + i - 1 = base + j - 1 /\ i \in Nat /\ j \in Nat
      BY <2>5, <2>7, LinesTyped
    <3>2. i = j
      BY <2>6, <3>1
    <3>3. Len(S[i].text) \in Nat
      BY <2>5, LinesTyped
    <3> QED BY <3>2, <3>3, SamePrefix
  <2>8. Stable
    BY <2>2, <2>7 DEF Stable, S
  <2> QED BY <2>1, <2>2, <2>3, <2>8
<1>6. ASSUME NEW n \in PageSizes, Read(n) PROVE Inv' /\ Stable
  <2>1. n \in Nat \ {0}
    BY HistoryAssumption
  <2>2. /\ page' = ReadPage(cursor, n) /\ cursor' = ReadPage(cursor, n).nextLine
        /\ UNCHANGED <<historyVars, closed, printed>>
    BY <1>6 DEF Read
  <2> DEFINE p == ReadPage(cursor, n)
  <2>3. p \in [effectiveLine : Nat, nextLine : Nat, truncatedBefore : BOOLEAN, lines : Seq(Line)]
        /\ p.nextLine <= AvailableEnd
    BY <2>1, ReadGets
  <2> HIDE DEF p
  <2>4. p.nextLine \in Nat /\ page' = p /\ cursor' = p.nextLine
    BY <2>2, <2>3 DEF p
  <2>5. /\ Stable /\ (NumbersConsecutive /\ Text)'
        /\ AvailableEnd' = AvailableEnd /\ UNCHANGED <<lines, nextLine, pendingOutput>>
    BY <1>5, <2>2
  <2>6. TypeOK'
    BY <2>2, <2>3, <2>4, <2>5 DEF Inv, TypeOK
  <2>7. cursor' <= AvailableEnd'
    BY <2>3, <2>4, <2>5
  <2> QED BY <2>5, <2>6, <2>7 DEF Inv
<1>7. CASE UNCHANGED vars
  <2>1. UNCHANGED <<historyVars, printed, closed, cursor, page>> /\ UNCHANGED readerVars
    BY <1>7 DEF vars, readerVars
  <2>2. /\ Stable /\ (NumbersConsecutive /\ Text)'
        /\ AvailableEnd' = AvailableEnd /\ UNCHANGED <<lines, nextLine, pendingOutput>>
    BY <1>5, <2>1
  <2>3. TypeOK'
    BY <2>1, <2>2 DEF Inv, TypeOK
  <2>4. cursor' <= AvailableEnd'
    BY <2>1, <2>2 DEF Inv
  <2> QED BY <2>1, <2>2, <2>3, <2>4 DEF Inv
<1> QED BY <1>2, <1>3, <1>4, <1>6, <1>7 DEF Next

LEMMA InvAlways == Spec => []Inv
<1>1. Inv /\ [Next]_vars => Inv'
  BY StepInv
<1> QED BY <1>1, InitInv, PTL DEF Spec

(* The stored lines are records with text and a number, no more of them    *)
(* than the ring holds (history.ts).                                       *)
THEOREM HistoryTyped == Spec => []TypeOK
<1>1. Inv => TypeOK
  BY DEF Inv
<1> QED BY <1>1, InvAlways, PTL

(* However chunks are cut and events come between, the numbers have no     *)
(* hole, every character that is not trimmed stands in one line and in     *)
(* order, and events stand where they happened (appendOutput, appendEvent, *)
(* flushPendingOutput, trim).                                              *)
THEOREM HistoryAlwaysFaithful == Spec => []HistoryFaithful
  BY InvFaithful, InvAlways, PTL

(* A line number stands for one line for ever: what was read under it may  *)
(* grow but is never replaced (pushLine, read).                            *)
THEOREM NumbersStayStable == Spec => NumbersStable
<1>1. Inv /\ [Next]_vars => [Stable]_vars
  BY StepInv
<1>2. Spec => [][Stable]_vars
  BY <1>1, InvAlways, PTL DEF Spec
<1> QED BY <1>2 DEF NumbersStable, Stable

Onward ==
  page' # page /\ cursor # NoLine =>
    /\ cursor' >= cursor
    /\ \A n \in cursor .. cursor' - 1 :
         \/ page'.truncatedBefore /\ n < page'.effectiveLine
         \/ \E i \in DOMAIN page'.lines : page'.lines[i].line = n

(* A reader that goes on at nextLine gets every line or is told that some  *)
(* are gone, and never goes back (read, nextLine, truncatedBefore).        *)
THEOREM ReaderAlwaysGoesOn == Spec => ReaderGoesOn
<1>1. ASSUME Inv, [Next]_vars PROVE Onward
  <2> SUFFICES ASSUME page' # page, cursor # NoLine
               PROVE  /\ cursor' >= cursor
                      /\ \A n \in cursor .. cursor' - 1 :
                           \/ page'.truncatedBefore /\ n < page'.effectiveLine
                           \/ \E i \in DOMAIN page'.lines : page'.lines[i].line = n
    BY DEF Onward
  <2>1. PICK max \in PageSizes : Read(max)
    BY <1>1, StepInv DEF readerVars
  <2>2. max \in Nat \ {0}
    BY HistoryAssumption
  <2>3. page' = ReadPage(cursor, max) /\ cursor' = ReadPage(cursor, max).nextLine
    BY <2>1 DEF Read
  <2> DEFINE p == ReadPage(cursor, max)
  <2>4. /\ p.nextLine >= cursor
        /\ \A l \in cursor .. p.nextLine - 1 :
             \/ p.truncatedBefore /\ l < p.effectiveLine
             \/ \E i \in DOMAIN p.lines : p.lines[i].line = l
    BY <1>1, <2>2, ReadGets
  <2>5. page' = p /\ cursor' = p.nextLine
    BY <2>3
  <2> HIDE DEF p
  <2> QED BY <2>4, <2>5
<1>2. Inv /\ [Next]_vars => [Onward]_vars
  BY <1>1
<1>3. Spec => [][Onward]_vars
  BY <1>2, InvAlways, PTL DEF Spec
<1> QED BY <1>3 DEF ReaderGoesOn, Onward
=============================================================================
