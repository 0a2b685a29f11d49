------------------------- MODULE SessionStream_proofs -------------------------
(***************************************************************************)
(* What TLAPS proves about SessionStream for any number of clients and any *)
(* sizes of pages, chunks and rings.                                       *)
(*                                                                         *)
(* 1. BufferInv: an offset names the same character for ever.              *)
(* 2. RingInv: the numbers of the event ring are consecutive, its count of *)
(*    characters is the true one, and it is within its limits.             *)
(* 3. NoLostWakeup is inductive by itself.                                 *)
(* 4. ReadInv: when no client follows the readMore hint, what a client has *)
(*    received lies below its cursor, in order and without a silent gap.   *)
(*    It needs BufferInv: a page is only right if the ring is.             *)
(***************************************************************************)
EXTENDS SessionStream, SequenceTheorems, FiniteSetTheorems, WellFoundedInduction, TLAPS

USE DEF sessionVars, clientVars

BufferInv ==
  /\ buffer \in Seq(Nat) /\ bufferStart \in Nat
  /\ BufferIsTail

LEMMA BufferInvInit == Init => BufferInv
  BY SizesAssumption DEF Init, BufferInv, BufferIsTail

LEMMA BufferInvAppend ==
  ASSUME BufferInv, NEW n \in Nat, AppendToBuffer(n)
  PROVE  BufferInv'
<1> DEFINE text == buffer \o Chunk(n)
<1> DEFINE cut  == Excess(text)
<1>1. n \in Nat /\ MaxBufferChars \in Nat
  BY SizesAssumption
<1>2. CurrentBufferEnd \in Nat
  BY DEF BufferInv, CurrentBufferEnd
<1>3. /\ Chunk(n) \in Seq(Nat) /\ Len(Chunk(n)) = n
      /\ \A i \in 1 .. n : Chunk(n)[i] = CurrentBufferEnd + i - 1
  BY <1>1, <1>2 DEF Chunk
<1>4. /\ text \in Seq(Nat) /\ Len(text) = Len(buffer) + n /\ Len(text) \in Nat
      /\ \A i \in 1 .. Len(text) :
           text[i] = IF i <= Len(buffer) THEN buffer[i] ELSE Chunk(n)[i - Len(buffer)]
  <2>1. buffer \in Seq(Nat) /\ Len(buffer) \in Nat
    BY LenProperties DEF BufferInv
  <2>2. /\ text \in Seq(Nat) /\ Len(text) = Len(buffer) + Len(Chunk(n))
        /\ \A i \in 1 .. Len(buffer) + Len(Chunk(n)) :
             text[i] = IF i <= Len(buffer) THEN buffer[i] ELSE Chunk(n)[i - Len(buffer)]
    BY <1>3, <2>1, ConcatProperties
  <2> QED
    BY <1>1, <1>3, <2>1, <2>2
<1>5. \A i \in 1 .. Len(text) : text[i] = bufferStart + i - 1
  <2> SUFFICES ASSUME NEW i \in 1 .. Len(text) PROVE text[i] = bufferStart + i - 1
    OBVIOUS
  <2>1. CASE i <= Len(buffer)
    BY <1>4, <2>1 DEF BufferInv, BufferIsTail
  <2>2. CASE i > Len(buffer)
    <3>1. i - Len(buffer) \in 1 .. n
      BY <1>1, <1>4, <2>2 DEF BufferInv
    <3>2. text[i] = CurrentBufferEnd + (i - Len(buffer)) - 1
      BY <1>3, <1>4, <2>2, <3>1 DEF BufferInv
    <3> QED
      BY <3>2, <1>4 DEF CurrentBufferEnd, BufferInv
  <2> QED
    BY <2>1, <2>2, <1>4 DEF BufferInv
<1>a. cut = IF Len(text) > MaxBufferChars THEN Len(text) - MaxBufferChars ELSE 0
  BY DEF Excess
<1> HIDE DEF text, cut
<1>6. cut \in Nat /\ cut <= Len(text) /\ Len(text) - cut <= MaxBufferChars
  BY <1>1, <1>4, <1>a
<1>7. buffer' = SubSeq(text, cut + 1, Len(text)) /\ bufferStart' = bufferStart + cut
  BY DEF AppendToBuffer, text, cut
<1>8. \A i \in cut + 1 .. Len(text) : text[i] \in Nat
  BY <1>4, <1>6, ElementOfSeq
<1>9. /\ buffer' \in Seq(Nat) /\ Len(buffer') = Len(text) - cut
      /\ \A i \in 1 .. Len(text) - cut : buffer'[i] = text[cut + i]
  BY <1>4, <1>6, <1>7, <1>8, SubSeqProperties
<1>10. bufferStart' \in Nat
  BY <1>6, <1>7 DEF BufferInv
<1>11. \A i \in 1 .. Len(buffer') : buffer'[i] = bufferStart' + i - 1
  BY <1>4, <1>5, <1>6, <1>7, <1>9 DEF BufferInv
<1> QED
  BY <1>6, <1>9, <1>10, <1>11 DEF BufferInv, BufferIsTail

LEMMA BufferInvNext == BufferInv /\ [Next]_vars => BufferInv'
<1> SUFFICES ASSUME BufferInv, [Next]_vars PROVE BufferInv'
  OBVIOUS
<1>1. ASSUME NEW n \in Nat, AppendToBuffer(n) PROVE BufferInv'
  BY <1>1, BufferInvAppend
<1>2. CASE UNCHANGED <<buffer, bufferStart>>
  BY <1>2 DEF BufferInv, BufferIsTail
<1>3. ASSUME NEW n \in ChunkSizes, Output(n) \/ Record(n) PROVE BufferInv'
  BY <1>1, <1>2, <1>3, SizesAssumption DEF Output, Record
<1>6. ASSUME NEW n \in ChunkSizes, NEW partial \in BOOLEAN, Finalize(n, partial) PROVE BufferInv'
  <2>1. AppendToBuffer(1) \/ UNCHANGED <<buffer, bufferStart>>
    BY <1>6 DEF Finalize
  <2> QED
    BY <1>1, <1>2, <2>1
<1>4. ASSUME NEW c \in Clients, ClientStep(c) PROVE UNCHANGED <<buffer, bufferStart>>
  BY <1>4 DEF ClientStep, StartPoll, WaitTimesOut, AbortPoll, FinishPoll
<1>5. UNCHANGED vars => UNCHANGED <<buffer, bufferStart>>
  BY DEF vars
<1> QED
  BY <1>2, <1>3, <1>4, <1>5, <1>6 DEF Next, SessionStep

LEMMA BufferInvariant == Spec => []BufferInv
  BY BufferInvInit, BufferInvNext, PTL DEF Spec

(* The output ring always holds exactly the last characters that the       *)
(* session wrote, whatever the chunk sizes and the capacity.               *)
THEOREM BufferAlwaysTail == Spec => []BufferIsTail
<1>1. BufferInv => BufferIsTail
  BY DEF BufferInv
<1> QED
  BY <1>1, BufferInvariant, PTL
-----------------------------------------------------------------------------
(* Of numbers there is a least one: what holds of 0 and passes from each   *)
(* number to the next holds of all of them.                                *)
LEMMA LeastNumber ==
  ASSUME NEW S \in SUBSET Nat, S # {}
  PROVE  \E k \in S : \A j \in S : k <= j
<1>1. PICK k \in S : \A j \in S : <<j, k>> \notin OpToRel(<, Nat)
  BY NatLessThanWellFounded, WFMin
<1>2. \A j \in S : j \in Nat /\ k \in Nat /\ ~(j < k)
  BY <1>1 DEF OpToRel
<1> QED BY <1>2

Event == [seq : Nat, length : Nat]

LEMMA SumsExist ==
  ASSUME NEW n \in Nat, NEW f \in [1 .. n -> Nat]
  PROVE  \E s \in [0 .. n -> Nat] : s[0] = 0 /\ \A i \in 1 .. n : s[i] = s[i - 1] + f[i]
<1> DEFINE Upto(m) == \E s \in [0 .. m -> Nat] : s[0] = 0 /\ \A i \in 1 .. m : s[i] = s[i - 1] + f[i]
           Bad == {m \in 0 .. n : ~Upto(m)}
<1>1. Upto(0)
  <2> DEFINE s == [i \in 0 .. 0 |-> 0]
  <2>1. s \in [0 .. 0 -> Nat] /\ s[0] = 0
    OBVIOUS
  <2> HIDE DEF s
  <2>2. 1 .. 0 = {}
    OBVIOUS
  <2> QED BY <2>1, <2>2
<1>2. ASSUME NEW m \in 1 .. n, Upto(m - 1) PROVE Upto(m)
  <2>1. PICK s \in [0 .. m - 1 -> Nat] : s[0] = 0 /\ \A i \in 1 .. m - 1 : s[i] = s[i - 1] + f[i]
    BY <1>2
  <2> DEFINE t == [i \in 0 .. m |-> IF i = m THEN s[m - 1] + f[m] ELSE s[i]]
  <2>2. s[m - 1] \in Nat /\ f[m] \in Nat
    BY <2>1
  <2>3. t[m] = s[m - 1] + f[m] /\ \A i \in 0 .. m - 1 : t[i] = s[i]
    OBVIOUS
  <2>4. t \in [0 .. m -> Nat]
    BY <2>1, <2>2
  <2> HIDE DEF t
  <2>5. t[0] = 0
    BY <2>1, <2>3
  <2>6. ASSUME NEW i \in 1 .. m PROVE t[i] = t[i - 1] + f[i]
    <3>1. CASE i = m
      BY <2>3, <3>1
    <3>2. CASE i # m
      <4>1. i \in 1 .. m - 1 /\ i \in 0 .. m - 1 /\ i - 1 \in 0 .. m - 1
        BY <3>2
      <4> QED BY <2>1, <2>3, <4>1
    <3> QED BY <3>1, <3>2
  <2> QED BY <2>4, <2>5, <2>6
<1> HIDE DEF Upto
<1>3. Bad = {}
  <2> SUFFICES ASSUME Bad # {} PROVE FALSE
    OBVIOUS
  <2>0. Bad \in SUBSET Nat
    OBVIOUS
  <2> HIDE DEF Bad
  <2>1. PICK m \in Bad : \A j \in Bad : m <= j
    BY <2>0, LeastNumber
  <2> USE DEF Bad
  <2>2. m \in 1 .. n
    BY <1>1, <2>1
  <2>3. m - 1 \in 0 .. n /\ m - 1 \notin Bad
    BY <2>1, <2>2
  <2> QED BY <1>2, <2>1, <2>2, <2>3
<1>4. Upto(n)
  BY <1>3
<1> QED BY <1>4 DEF Upto

(* What LengthOfFirst sums up.                                             *)
LEMMA FirstLengths ==
  ASSUME NEW e \in Seq(Event)
  PROVE  /\ LengthOfFirst(e, 0) = 0
         /\ \A k \in 0 .. Len(e) : LengthOfFirst(e, k) \in Nat
         /\ \A k \in 1 .. Len(e) : LengthOfFirst(e, k) = LengthOfFirst(e, k - 1) + e[k].length
<1> DEFINE n == Len(e)
           Sums(s) == s = [i \in 0 .. n |-> IF i = 0 THEN 0 ELSE s[i - 1] + e[i].length]
           sum == CHOOSE s : Sums(s)
<1>1. n \in Nat /\ \A i \in 1 .. n : e[i].length \in Nat
  <2>1. \A i \in 1 .. Len(e) : e[i] \in Event
    BY ElementOfSeq
  <2> QED BY <2>1, LenProperties DEF Event
<1>2. \A k : LengthOfFirst(e, k) = sum[k]
  BY Zenon DEF LengthOfFirst
<1> HIDE DEF n
<1>3. \E s : Sums(s)
  <2> DEFINE f == [i \in 1 .. n |-> e[i].length]
  <2>1. f \in [1 .. n -> Nat]
    BY <1>1
  <2>2. PICK s \in [0 .. n -> Nat] : s[0] = 0 /\ \A i \in 1 .. n : s[i] = s[i - 1] + f[i]
    BY <1>1, <2>1, SumsExist
  <2>3. \A i \in 0 .. n : s[i] = IF i = 0 THEN 0 ELSE s[i - 1] + e[i].length
    <3> SUFFICES ASSUME NEW i \in 0 .. n PROVE s[i] = IF i = 0 THEN 0 ELSE s[i - 1] + e[i].length
      OBVIOUS
    <3>1. i # 0 => i \in 1 .. n /\ f[i] = e[i].length
      BY <1>1
    <3> HIDE DEF f
    <3> QED BY <2>2, <3>1
  <2>4. Sums(s)
    BY <2>2, <2>3
  <2> QED BY <2>4
<1>4. Sums(sum)
  BY <1>3
<1> HIDE DEF sum
<1>5. sum[0] = 0 /\ \A i \in 1 .. n : i - 1 \in 0 .. n /\ sum[i] = sum[i - 1] + e[i].length
  BY <1>1, <1>4
<1> HIDE DEF Sums
<1> DEFINE Bad == {k \in 0 .. n : sum[k] \notin Nat}
<1>6. Bad = {}
  <2> SUFFICES ASSUME Bad # {} PROVE FALSE
    OBVIOUS
  <2>0. Bad \in SUBSET Nat
    BY <1>1
  <2> HIDE DEF Bad
  <2>1. PICK m \in Bad : \A j \in Bad : m <= j
    BY <2>0, LeastNumber
  <2> USE DEF Bad
  <2>2. m \in 1 .. n
    BY <1>1, <1>5, <2>1
  <2> DEFINE j == m - 1
  <2>3. j \in 0 .. n /\ j \notin Bad
    BY <1>1, <2>1, <2>2
  <2>4. sum[m] = sum[j] + e[m].length
    BY <1>5, <2>2
  <2> HIDE DEF j
  <2>5. sum[j] \in Nat
    BY <2>3
  <2>6. sum[m] \in Nat
    BY <1>1, <2>2, <2>4, <2>5
  <2> QED BY <2>1, <2>6
<1>7. \A k \in 0 .. n : sum[k] \in Nat
  BY <1>6
<1> QED BY <1>2, <1>5, <1>7 DEF n

(* A sum over first events does not depend on those behind them ...        *)
LEMMA SamePrefix ==
  ASSUME NEW e \in Seq(Event), NEW g \in Seq(Event), NEW d \in 0 .. Len(e), NEW m \in Nat,
         Len(e) >= d + m, Len(g) >= m,
         \A i \in 1 .. m : g[i] = e[d + i]
  PROVE  \A k \in 0 .. m : LengthOfFirst(g, k) = LengthOfFirst(e, d + k) - LengthOfFirst(e, d)
<1> DEFINE S(k) == LengthOfFirst(e, k)
           T(k) == LengthOfFirst(g, k)
           Bad == {k \in 0 .. m : T(k) # S(d + k) - S(d)}
<1>1. /\ Len(e) \in Nat /\ Len(g) \in Nat /\ T(0) = 0
      /\ \A k \in 0 .. Len(e) : S(k) \in Nat
      /\ \A k \in 1 .. Len(e) : S(k) = S(k - 1) + e[k].length
      /\ \A k \in 1 .. Len(g) : T(k) = T(k - 1) + g[k].length
      /\ \A k \in 1 .. Len(e) : e[k].length \in Nat
  <2>1. \A i \in 1 .. Len(e) : e[i] \in Event
    BY ElementOfSeq
  <2>2. \A i \in 1 .. Len(e) : e[i].length \in Nat
    BY <2>1 DEF Event
  <2> HIDE DEF Event
  <2> QED BY <2>2, FirstLengths, LenProperties
<1> HIDE DEF S, T
<1>2. ASSUME Bad # {} PROVE FALSE
  <2>0. Bad \in SUBSET Nat
    OBVIOUS
  <2> HIDE DEF Bad
  <2>1. PICK k \in Bad : \A j \in Bad : k <= j
    BY <1>2, <2>0, LeastNumber
  <2> USE DEF Bad
  <2>2. k # 0
    <3>1. S(d) \in Nat /\ d + 0 = d
      BY <1>1
    <3> QED BY <1>1, <2>1, <3>1
  <2> DEFINE j == k - 1
  <2>3. j \in 0 .. m /\ j \notin Bad /\ k = j + 1 /\ k \in 1 .. m
    BY <2>1, <2>2
  <2> HIDE DEF j
  <2>4. T(j) = S(d + j) - S(d)
    BY <2>3
  <2>5. T(k) = T(j) + g[k].length /\ g[k] = e[d + k]
    <3>1. k \in 1 .. Len(g) /\ k - 1 = j
      BY <1>1, <2>3
    <3> QED BY <1>1, <2>3, <3>1
  <2>6. S(d + k) = S(d + j) + e[d + k].length
    <3>1. d + k \in 1 .. Len(e) /\ d + k - 1 = d + j
      BY <1>1, <2>3
    <3> QED BY <1>1, <3>1
  <2>7. S(d + j) \in Nat /\ S(d) \in Nat /\ e[d + k].length \in Nat
    <3>1. d + j \in 0 .. Len(e) /\ d + k \in 1 .. Len(e) /\ d \in 0 .. Len(e)
      BY <1>1, <2>3
    <3> QED BY <1>1, <3>1
  <2>8. T(k) = S(d + k) - S(d)
    BY <2>4, <2>5, <2>6, <2>7
  <2> QED BY <2>1, <2>8
<1> QED BY <1>2 DEF S, T

(* ... and does not shrink with more of them.                              *)
LEMMA MoreIsLonger ==
  ASSUME NEW e \in Seq(Event), NEW j \in 0 .. Len(e), NEW k \in 0 .. Len(e), j <= k
  PROVE  LengthOfFirst(e, j) <= LengthOfFirst(e, k)
<1> DEFINE g == SubSeq(e, j + 1, Len(e))
           m == Len(e) - j
<1>1. Len(e) \in Nat /\ m \in Nat /\ j + 1 \in Nat
  BY LenProperties
<1>2. g \in Seq(Event) /\ Len(g) = m /\ \A i \in 1 .. m : g[i] = e[j + i]
  BY <1>1, SubSeqProperties
<1> HIDE DEF g
<1>3. \A i \in 0 .. m : LengthOfFirst(g, i) = LengthOfFirst(e, j + i) - LengthOfFirst(e, j)
  <2>1. Len(e) >= j + m /\ Len(g) >= m
    BY <1>1, <1>2
  <2> HIDE DEF m
  <2> QED BY <1>1, <1>2, <2>1, SamePrefix
<1>4. LengthOfFirst(g, k - j) \in Nat /\ LengthOfFirst(e, k) \in Nat /\ LengthOfFirst(e, j) \in Nat
  BY <1>1, <1>2, FirstLengths
<1>5. LengthOfFirst(g, k - j) = LengthOfFirst(e, k) - LengthOfFirst(e, j)
  <2>1. k - j \in 0 .. m /\ j + (k - j) = k
    BY <1>1
  <2> QED BY <1>3, <2>1
<1> DEFINE a == LengthOfFirst(e, j)
           b == LengthOfFirst(e, k)
           c == LengthOfFirst(g, k - j)
<1>6. a \in Nat /\ b \in Nat /\ c \in Nat /\ c = b - a
  BY <1>4, <1>5
<1> HIDE DEF a, b, c
<1>7. a <= b
  BY <1>6
<1> QED BY <1>7 DEF a, b

(* Numbers below n such that with each all smaller ones are among them.    *)
LEMMA LowerSet ==
  ASSUME NEW n \in Nat, NEW S \in SUBSET (0 .. n - 1),
         \A k \in S : \A j \in 0 .. k : j \in S
  PROVE  Cardinality(S) \in 0 .. n /\ Cardinality(S) \notin S
<1>1. PICK c \in 0 .. n : S = 0 .. c - 1
  <2> DEFINE Out == (0 .. n) \ S
  <2>1. n \in Out
    OBVIOUS
  <2>2. Out \in SUBSET Nat
    OBVIOUS
  <2> HIDE DEF Out
  <2>5. PICK c \in Out : \A j \in Out : c <= j
    BY <2>1, <2>2, LeastNumber
  <2> USE DEF Out
  <2>3. ASSUME NEW j \in 0 .. c - 1 PROVE j \in S
    BY <2>5
  <2>4. ASSUME NEW j \in S PROVE j \in 0 .. c - 1
    <3>1. ~(c <= j)
      BY <2>5
    <3> QED BY <2>5, <3>1
  <2> QED BY <2>5, <2>3, <2>4
<1>2. Cardinality(S) = c
  <2>1. 0 \in Int /\ c - 1 \in Int /\ c - 1 - 0 + 1 = c /\ (0 > c - 1 <=> c = 0)
    BY <1>1
  <2>2. Cardinality(0 .. c - 1) = IF 0 > c - 1 THEN 0 ELSE c - 1 - 0 + 1
    BY <2>1, FS_Interval
  <2> QED BY <1>1, <2>1, <2>2
<1> QED BY <1>1, <1>2
-----------------------------------------------------------------------------
TranscriptOf(e, s, k, chars) ==
  [events |-> e, eventSeqStart |-> s, nextEventSeq |-> k, transcriptCharCount |-> chars]

Contiguous(t) ==
  /\ \A i \in 1 .. Len(t.events) : t.events[i].seq = t.eventSeqStart + i - 1
  /\ t.eventSeqStart + Len(t.events) = t.nextEventSeq

(* Trimming goes by the count, so it removes the right number of events    *)
(* only while the count is the true one.                                   *)
Ring(t) ==
  /\ t = TranscriptOf(t.events, t.eventSeqStart, t.nextEventSeq, t.transcriptCharCount)
  /\ t.events \in Seq(Event)
  /\ t.eventSeqStart \in Nat /\ t.nextEventSeq \in Nat
  /\ Contiguous(t)
  /\ t.transcriptCharCount = LengthOfFirst(t.events, Len(t.events))

Fits(t) == ~Overfull(t.events, t.transcriptCharCount, 0) \/ t.events = <<>>

RingInv == Ring(transcript) /\ Fits(transcript)

(* The prefixes that are too short to drop are the shorter ones, so their  *)
(* number is the length of the first that is not.                          *)
LEMMA FirstThatFits ==
  ASSUME NEW e \in Seq(Event)
  PROVE  LET chars   == LengthOfFirst(e, Len(e))
             dropped == Cardinality({j \in 0 .. Len(e) - 1 : Overfull(e, chars, j)})
         IN  dropped \in 0 .. Len(e) /\ (dropped < Len(e) => ~Overfull(e, chars, dropped))
<1> DEFINE chars   == LengthOfFirst(e, Len(e))
           short   == {j \in 0 .. Len(e) - 1 : Overfull(e, chars, j)}
           dropped == Cardinality(short)
<1>1. Len(e) \in Nat /\ MaxTranscriptEvents \in Nat /\ MaxTranscriptChars \in Nat
  BY LenProperties, SizesAssumption
<1>2. \A j \in 0 .. Len(e) : LengthOfFirst(e, j) \in Nat
  BY FirstLengths
<1>3. chars \in Nat
  BY <1>1, <1>2
<1> HIDE DEF chars
<1>4. ASSUME NEW k \in short, NEW j \in 0 .. k PROVE j \in short
  <2>1. k \in 0 .. Len(e) /\ j \in 0 .. Len(e) - 1 /\ j \in 0 .. Len(e) /\ j <= k
    BY <1>1
  <2>2. LengthOfFirst(e, j) <= LengthOfFirst(e, k)
    BY <2>1, MoreIsLonger
  <2>3. LengthOfFirst(e, j) \in Nat /\ LengthOfFirst(e, k) \in Nat
    BY <1>2, <2>1
  <2>4. Len(e) - k > MaxTranscriptEvents \/ chars - LengthOfFirst(e, k) > MaxTranscriptChars
    BY DEF Overfull
  <2>5. Len(e) - j > MaxTranscriptEvents \/ chars - LengthOfFirst(e, j) > MaxTranscriptChars
    <3> DEFINE a == LengthOfFirst(e, j)
               b == LengthOfFirst(e, k)
    <3>1. a \in Nat /\ b \in Nat /\ a <= b
      BY <2>2, <2>3
    <3>2. Len(e) - k > MaxTranscriptEvents \/ chars - b > MaxTranscriptChars
      BY <2>4
    <3> HIDE DEF a, b
    <3>3. Len(e) - j > MaxTranscriptEvents \/ chars - a > MaxTranscriptChars
      BY <1>1, <1>3, <2>1, <3>1, <3>2
    <3> QED BY <3>3 DEF a
  <2> QED BY <2>1, <2>5 DEF Overfull
<1>5. short \in SUBSET (0 .. Len(e) - 1)
  OBVIOUS
<1> HIDE DEF short
<1>6. dropped \in 0 .. Len(e) /\ dropped \notin short
  BY <1>1, <1>4, <1>5, LowerSet
<1>7. dropped < Len(e) => dropped \in 0 .. Len(e) - 1
  BY <1>1, <1>6
<1> HIDE DEF dropped
<1>8. dropped < Len(e) => ~Overfull(e, chars, dropped)
  BY <1>6, <1>7 DEF short
<1> QED BY <1>6, <1>8 DEF dropped, short, chars

LEMMA RestOfRing ==
  ASSUME NEW n \in Nat, NEW d \in 0 .. n, NEW s \in Nat, NEW k, s + n = k
  PROVE  n - d \in Nat /\ s + d \in Nat /\ s + d + (n - d) = k
  OBVIOUS

LEMMA TrimKeepsRing ==
  ASSUME NEW e \in Seq(Event), NEW s \in Nat, NEW k \in Nat, NEW chars,
         Contiguous(TranscriptOf(e, s, k, chars)), chars = LengthOfFirst(e, Len(e)),
         NEW t, t = TrimTranscriptEvents(TranscriptOf(e, s, k, chars))
  PROVE  Ring(t) /\ Fits(t)
<1> DEFINE short   == {j \in 0 .. Len(e) - 1 : Overfull(e, chars, j)}
<1> DEFINE dropped == Cardinality(short)
<1> DEFINE rest    == SubSeq(e, dropped + 1, Len(e))
<1> DEFINE start   == IF rest = <<>> THEN k ELSE rest[1].seq
<1>1. Len(e) \in Nat /\ \A i \in 1 .. Len(e) : e[i] \in Event
  BY LenProperties, ElementOfSeq
<1>2. (\A i \in 1 .. Len(e) : e[i].seq = s + i - 1) /\ s + Len(e) = k
  BY DEF Contiguous, TranscriptOf
<1>3. dropped \in 0 .. Len(e) /\ (dropped < Len(e) => ~Overfull(e, chars, dropped))
  BY FirstThatFits
<1>4. t = TranscriptOf(rest, start, k, chars - LengthOfFirst(e, dropped))
  BY DEF TrimTranscriptEvents, TranscriptOf
<1> HIDE DEF dropped
<1>5. /\ rest \in Seq(Event) /\ Len(rest) = Len(e) - dropped
      /\ \A i \in 1 .. Len(e) - dropped : rest[i] = e[dropped + i]
  BY <1>1, <1>3, SubSeqProperties
<1> HIDE DEF rest
<1> DEFINE m == Len(e) - dropped
<1>6. m \in Nat /\ s + dropped \in Nat /\ s + dropped + m = k
  <2>1. Len(e) \in Nat /\ s + Len(e) = k
    BY <1>1, <1>2
  <2> QED
    BY <2>1, <1>3, RestOfRing
<1>7. \A i \in 1 .. m : rest[i].seq = s + dropped + i - 1
  <2> SUFFICES ASSUME NEW i \in 1 .. m PROVE rest[i].seq = s + dropped + i - 1
    OBVIOUS
  <2>1. dropped + i \in 1 .. Len(e)
    BY <1>1, <1>3
  <2>2. e[dropped + i].seq = s + (dropped + i) - 1
    BY <1>2, <2>1
  <2>3. rest[i] = e[dropped + i]
    BY <1>5
  <2> QED
    BY <1>1, <1>3, <2>2, <2>3
<1>8. start = s + dropped
  <2>1. CASE rest = <<>>
    <3>1. Len(rest) = 0 /\ start = k
      BY <2>1
    <3> QED
      BY <3>1, <1>5, <1>6
  <2>2. CASE rest # <<>>
    <3>1. 1 \in 1 .. m
      BY <1>5, <1>6, <2>2, EmptySeq
    <3> QED
      BY <3>1, <1>3, <1>6, <1>7, <2>2
  <2> QED
    BY <2>1, <2>2
<1> HIDE DEF start, m
<1>9. /\ t.events = rest /\ t.eventSeqStart = start /\ t.nextEventSeq = k
      /\ t.transcriptCharCount = chars - LengthOfFirst(e, dropped)
      /\ t = TranscriptOf(t.events, t.eventSeqStart, t.nextEventSeq, t.transcriptCharCount)
  BY <1>4 DEF TranscriptOf
<1>10. Len(rest) = m
  BY <1>5 DEF m
<1>11. Contiguous(t)
  BY <1>6, <1>7, <1>8, <1>9, <1>10 DEF Contiguous
<1>12. /\ LengthOfFirst(rest, m) = LengthOfFirst(e, Len(e)) - LengthOfFirst(e, dropped)
       /\ LengthOfFirst(rest, 0) = 0
       /\ LengthOfFirst(e, Len(e)) \in Nat /\ LengthOfFirst(e, dropped) \in Nat
  <2>1. \A i \in 0 .. m : LengthOfFirst(rest, i) = LengthOfFirst(e, dropped + i) - LengthOfFirst(e, dropped)
    <3>1. Len(e) >= dropped + m /\ Len(rest) >= m /\ \A i \in 1 .. m : rest[i] = e[dropped + i]
      BY <1>1, <1>3, <1>5, <1>6, <1>10 DEF m
    <3> QED BY <1>3, <1>5, <1>6, <3>1, SamePrefix
  <2>2. m \in 0 .. m /\ dropped + m = Len(e) /\ Len(e) \in 0 .. Len(e)
    BY <1>1, <1>3, <1>6 DEF m
  <2> QED BY <1>3, <1>5, <2>1, <2>2, FirstLengths
<1>13. t.transcriptCharCount = LengthOfFirst(t.events, Len(t.events))
  BY <1>9, <1>10, <1>12
<1>14. Fits(t)
  <2> SUFFICES ASSUME rest # <<>> PROVE ~Overfull(rest, chars - LengthOfFirst(e, dropped), 0)
    BY <1>9 DEF Fits
  <2>1. m > 0
    <3>1. Len(rest) # 0
      BY <1>5, EmptySeq
    <3> QED BY <1>6, <1>10, <3>1
  <2>2. dropped < Len(e) /\ m - 0 = Len(e) - dropped
    BY <1>1, <1>3, <1>6, <2>1 DEF m
  <2>3. ~Overfull(e, chars, dropped)
    BY <1>3, <2>2
  <2>4. chars - LengthOfFirst(e, dropped) - LengthOfFirst(rest, 0) = chars - LengthOfFirst(e, dropped)
    BY <1>12
  <2> QED BY <1>10, <2>2, <2>3, <2>4 DEF Overfull
<1> QED
  BY <1>5, <1>6, <1>8, <1>9, <1>11, <1>13, <1>14 DEF Ring

LEMMA PushKeepsRing ==
  ASSUME NEW t, Ring(t), NEW n \in Nat
  PROVE  Ring(PushEvent(t, n)) /\ Fits(PushEvent(t, n))
<1> DEFINE new == [seq |-> t.nextEventSeq, length |-> ClippedLength(n)]
<1> DEFINE e   == Append(t.events, new)
<1> DEFINE chars == t.transcriptCharCount + ClippedLength(n)
<1>1. ClippedLength(n) \in Nat
  BY SizesAssumption DEF ClippedLength
<1>2. new \in Event /\ new.seq = t.nextEventSeq /\ new.length = ClippedLength(n)
  BY <1>1 DEF Ring, Event
<1>3. /\ Len(t.events) \in Nat
      /\ t.eventSeqStart \in Nat /\ t.nextEventSeq \in Nat
      /\ t.eventSeqStart + Len(t.events) = t.nextEventSeq
      /\ \A i \in 1 .. Len(t.events) :
           t.events[i].seq = t.eventSeqStart + i - 1
  BY LenProperties DEF Ring, Contiguous
<1> HIDE DEF new
<1>4. /\ e \in Seq(Event) /\ Len(e) = Len(t.events) + 1
      /\ \A i \in 1 .. Len(e) :
           e[i] = IF i <= Len(t.events) THEN t.events[i] ELSE new
  BY <1>2, <1>3, AppendProperties DEF Ring
<1> HIDE DEF e
<1>5. \A i \in 1 .. Len(e) : e[i].seq = t.eventSeqStart + i - 1
  <2> SUFFICES ASSUME NEW i \in 1 .. Len(e) PROVE e[i].seq = t.eventSeqStart + i - 1
    OBVIOUS
  <2>1. CASE i <= Len(t.events)
    <3>1. e[i] = t.events[i] /\ i \in 1 .. Len(t.events)
      BY <1>3, <1>4, <2>1
    <3> QED
      BY <1>3, <3>1
  <2>2. CASE i > Len(t.events)
    <3>1. e[i] = new /\ i = Len(t.events) + 1
      BY <1>3, <1>4, <2>2
    <3> QED
      BY <1>2, <1>3, <3>1
  <2> QED
    BY <1>3, <1>4, <2>1, <2>2
<1>6. t.eventSeqStart + Len(e) = t.nextEventSeq + 1
  <2>1. Len(e) = Len(t.events) + 1
    BY <1>4
  <2>2. Len(t.events) \in Nat /\ t.eventSeqStart \in Nat /\ t.eventSeqStart + Len(t.events) = t.nextEventSeq
    BY <1>3
  <2> QED
    BY <2>1, <2>2
<1>6a. chars = LengthOfFirst(e, Len(e))
  <2> DEFINE g == t.events
             m == Len(g)
  <2>1. /\ m \in Nat /\ Len(e) = m + 1 /\ e[m + 1] = new /\ \A i \in 1 .. m : g[i] = e[0 + i]
        /\ g \in Seq(Event) /\ t.transcriptCharCount = LengthOfFirst(g, m)
    BY <1>3, <1>4 DEF Ring
  <2>2. 0 \in 0 .. Len(e) /\ Len(e) >= 0 + m /\ Len(g) >= m
    BY <2>1
  <2> HIDE DEF g, m
  <2>3. \A k \in 0 .. m : LengthOfFirst(g, k) = LengthOfFirst(e, 0 + k) - LengthOfFirst(e, 0)
    BY <1>4, <2>1, <2>2, SamePrefix
  <2>4. LengthOfFirst(g, m) = LengthOfFirst(e, m) - LengthOfFirst(e, 0)
    <3>1. m \in 0 .. m /\ 0 + m = m
      BY <2>1
    <3> QED BY <2>3, <3>1
  <2>5. m \in 0 .. Len(e) /\ m + 1 \in 1 .. Len(e) /\ m + 1 - 1 = m
    BY <2>1
  <2>6. LengthOfFirst(e, 0) = 0 /\ \A k \in 0 .. Len(e) : LengthOfFirst(e, k) \in Nat
    BY <1>4, FirstLengths
  <2>7. \A k \in 1 .. Len(e) : LengthOfFirst(e, k) = LengthOfFirst(e, k - 1) + e[k].length
    BY <1>4, FirstLengths
  <2>8. LengthOfFirst(e, m + 1) = LengthOfFirst(e, m) + ClippedLength(n)
    BY <1>2, <2>1, <2>5, <2>7
  <2>9. LengthOfFirst(g, m) = LengthOfFirst(e, m)
    BY <2>4, <2>5, <2>6
  <2> QED BY <2>1, <2>8, <2>9
<1> DEFINE pushed == TranscriptOf(e, t.eventSeqStart, t.nextEventSeq + 1, chars)
<1>7. Contiguous(pushed)
  BY <1>5, <1>6 DEF Contiguous, TranscriptOf
<1>8. PushEvent(t, n) = TrimTranscriptEvents(pushed)
  <2>1. t = TranscriptOf(t.events, t.eventSeqStart,
                         t.nextEventSeq, t.transcriptCharCount)
    BY DEF Ring
  <2>2. PushEvent(t, n) =
          TrimTranscriptEvents([t EXCEPT !.events = e, !.nextEventSeq = @ + 1,
                                                  !.transcriptCharCount = chars])
    BY DEF PushEvent, e, new
  <2>3. [t EXCEPT !.events = e, !.nextEventSeq = @ + 1, !.transcriptCharCount = chars] = pushed
    <3>1. PICK f, s, k, x : t = TranscriptOf(f, s, k, x)
      BY <2>1
    <3>2. /\ t.eventSeqStart = s /\ t.nextEventSeq = k
      BY <3>1 DEF TranscriptOf
    <3> HIDE DEF chars
    <3>3. PICK u : u = [TranscriptOf(f, s, k, x) EXCEPT !.events = e, !.nextEventSeq = k + 1,
                                                        !.transcriptCharCount = chars]
      OBVIOUS
    <3>4. u = TranscriptOf(e, s, k + 1, chars)
      BY <3>3 DEF TranscriptOf
    <3> QED
      BY <3>1, <3>2, <3>3, <3>4
  <2> QED
    BY <2>2, <2>3
<1>9. t.eventSeqStart \in Nat /\ t.nextEventSeq + 1 \in Nat
  BY DEF Ring
<1> QED
  BY <1>4, <1>6a, <1>7, <1>8, <1>9, TrimKeepsRing DEF Ring

LEMMA RingInvInit == Init => RingInv
<1> SUFFICES ASSUME Init PROVE RingInv
  OBVIOUS
<1>1. Ring(NoEvents)
  <2>1. <<>> \in Seq(Event) /\ Len(<<>>) = 0
    BY EmptySeq
  <2>2. LengthOfFirst(<<>>, 0) = 0
    BY <2>1, FirstLengths
  <2> QED BY <2>1, <2>2 DEF NoEvents, Ring, TranscriptOf, Contiguous
<1>2. PICK n \in ChunkSizes : transcript = PushEvent(NoEvents, n)
  BY DEF Init
<1> QED
  BY <1>1, <1>2, PushKeepsRing, SizesAssumption DEF RingInv

LEMMA RingInvNext == RingInv /\ [Next]_vars => RingInv'
<1> SUFFICES ASSUME RingInv, [Next]_vars PROVE RingInv'
  OBVIOUS
<1>1. ASSUME NEW n \in ChunkSizes, Output(n) \/ Record(n) PROVE RingInv'
  <2>1. transcript' = PushEvent(transcript, n)
    BY <1>1 DEF Output, Record
  <2> QED
    BY <2>1, PushKeepsRing, SizesAssumption DEF RingInv
<1>2. ASSUME NEW n \in ChunkSizes, NEW partial \in BOOLEAN, Finalize(n, partial) PROVE RingInv'
  <2>1. PICK t : /\ t = transcript \/ t = PushEvent(transcript, 1)
                 /\ transcript' = PushEvent(t, n)
    BY <1>2 DEF Finalize
  <2>2. Ring(t)
    BY <2>1, PushKeepsRing DEF RingInv
  <2> QED
    BY <2>1, <2>2, PushKeepsRing, SizesAssumption DEF RingInv
<1>3. ASSUME NEW c \in Clients, ClientStep(c) PROVE UNCHANGED transcript
  BY <1>3 DEF ClientStep, StartPoll, WaitTimesOut, AbortPoll, FinishPoll
<1>4. CASE UNCHANGED transcript
  BY <1>4 DEF RingInv
<1>5. UNCHANGED vars => UNCHANGED transcript
  BY DEF vars
<1> QED
  BY <1>1, <1>2, <1>3, <1>4, <1>5 DEF Next, SessionStep

(* However many events are dropped, the numbers of those that remain run   *)
(* from eventSeqStart to nextEventSeq without a hole.                      *)
THEOREM EventsAlwaysContiguous == Spec => []EventsContiguous
<1>1. RingInv => EventsContiguous
  BY DEF RingInv, Ring, Contiguous, EventsContiguous
<1> QED
  BY <1>1, RingInvInit, RingInvNext, PTL DEF Spec

(* The rings are what they are addressed as: the tail of the output and    *)
(* the last events, by consecutive numbers, trimmed by true counts of      *)
(* characters and within their limits (appendToBuffer, pushEvent,          *)
(* trimTranscriptEvents).                                                  *)
THEOREM RingsAlwaysExact == Spec => []RingsExact
<1>1. BufferInv /\ RingInv => RingsExact
  <2>1. RingInv => EventsContiguous
    BY DEF RingInv, Ring, Contiguous, EventsContiguous
  <2>2. RingInv => CharCountExact
    BY DEF RingInv, Ring, Fits, CharCountExact
  <2>3. BufferInv => BufferIsTail
    BY DEF BufferInv
  <2> QED BY <2>1, <2>2, <2>3 DEF RingsExact
<1>2. Spec => []RingInv
  BY RingInvInit, RingInvNext, PTL DEF Spec
<1> QED
  BY <1>1, <1>2, BufferInvariant, PTL
-----------------------------------------------------------------------------
(* What a step of the session leaves waiting has nothing to wake up for,   *)
(* because every one of them ends with FlushWaiters.                       *)
LEMMA FlushLeavesNoneBehind ==
  ASSUME NEW p, NEW end, NEW next, NEW over, Flushed(p, end, next, over).state = "waiting"
  PROVE  ~HasRequestedChange(Flushed(p, end, next, over), end, next, over)
  BY DEF Flushed

Polls == [state : {"idle", "waiting", "reading"}, offset : Int, seq : Int]

LEMMA NoLostWakeupNext ==
  ASSUME poll \in [Clients -> Polls], NoLostWakeup, Next
  PROVE  NoLostWakeup'
<1>1. ASSUME SessionStep PROVE NoLostWakeup'
  <2>1. FlushWaiters
    BY <1>1 DEF SessionStep, Output, Record, Finalize
  <2> QED
    BY <2>1, FlushLeavesNoneBehind DEF FlushWaiters, NoLostWakeup, CurrentBufferEnd
<1>2. ASSUME NEW c \in Clients, NEW p,
             UNCHANGED sessionVars, poll' = [poll EXCEPT ![c] = p],
             p.state = "waiting" =>
               ~HasRequestedChange(p, CurrentBufferEnd, transcript.nextEventSeq, closed)
      PROVE  NoLostWakeup'
  BY <1>2 DEF NoLostWakeup, CurrentBufferEnd
<1>3. ASSUME NEW c \in Clients, NEW seq \in {NoSeq, transcript.nextEventSeq}, StartPoll(c, seq)
      PROVE  NoLostWakeup'
  BY <1>2, <1>3, FlushLeavesNoneBehind DEF StartPoll
<1>4. ASSUME NEW c \in Clients, WaitTimesOut(c) PROVE NoLostWakeup'
  <2>1. [poll[c] EXCEPT !.state = "reading"].state = "reading"
    BY DEF Polls
  <2>2. poll' = [poll EXCEPT ![c] = [poll[c] EXCEPT !.state = "reading"]]
    BY <1>4 DEF WaitTimesOut
  <2> QED
    BY <1>2, <1>4, <2>1, <2>2 DEF WaitTimesOut
<1>5. ASSUME NEW c \in Clients, AbortPoll(c) PROVE NoLostWakeup'
  BY <1>2, <1>5 DEF AbortPoll, NoPoll
<1>6. ASSUME NEW c \in Clients, NEW size \in PageSizes, FinishPoll(c, size) PROVE NoLostWakeup'
  BY <1>2, <1>6 DEF FinishPoll, NoPoll
<1> QED
  BY <1>1, <1>3, <1>4, <1>5, <1>6 DEF Next, ClientStep
-----------------------------------------------------------------------------
(* A page of a ring that holds the characters from start to end, read at   *)
(* an offset.                                                              *)
IsPage(s, start, end, offset) ==
  /\ s.effectiveOffset \in Nat /\ s.nextOffset \in Nat
  /\ s.truncatedAfter \in BOOLEAN
  /\ s.effectiveOffset <= s.nextOffset /\ s.nextOffset <= end
  /\ offset # NoOffset =>
       /\ s.effectiveOffset = Larger(start, offset)
       /\ s.truncatedBefore <=> offset < start
  /\ s.output \in Seq(Nat) /\ Len(s.output) = s.nextOffset - s.effectiveOffset
  /\ \A i \in 1 .. Len(s.output) : s.output[i] = s.effectiveOffset + i - 1

(* What a page is, for a cursor that is not beyond the end of the buffer.  *)
LEMMA SnapshotPage ==
  ASSUME NEW start \in Nat, NEW b \in Seq(Nat),
         \A i \in 1 .. Len(b) : b[i] = start + i - 1,
         NEW offset \in Nat \cup {NoOffset}, offset <= start + Len(b),
         NEW n \in PageSizes
  PROVE  IsPage(Snapshot(start, b, offset, n), start, start + Len(b), offset)
<1> DEFINE s == Snapshot(start, b, offset, n)
<1> DEFINE end == start + Len(b)
<1> DEFINE size == PageSize(n)
<1> DEFINE first == EffectiveOffset(start, end, offset, size)
<1> DEFINE last == Smaller(first + size, end)
<1>1. Len(b) \in Nat /\ end \in Nat
  BY LenProperties
<1>2. size \in Nat /\ size > 0
  BY SizesAssumption DEF PageSize
<1> HIDE DEF size
<1>3. first \in Nat /\ start <= first /\ first <= end
  BY <1>1, <1>2 DEF EffectiveOffset, Smaller, Larger, NoOffset
<1>4. offset # NoOffset => first = Larger(start, offset)
  BY <1>1, <1>2 DEF EffectiveOffset, Smaller, Larger, NoOffset
<1> HIDE DEF first
<1>5. last \in Nat /\ first <= last /\ last <= end
  BY <1>1, <1>2, <1>3 DEF Smaller
<1> HIDE DEF last
<1>6. /\ s.effectiveOffset = first /\ s.nextOffset = last
      /\ s.output = SubSeq(b, first - start + 1, last - start)
      /\ s.truncatedAfter \in BOOLEAN
      /\ offset # NoOffset => (s.truncatedBefore <=> offset < start)
  <2> DEFINE before == IF offset = NoOffset THEN first > start ELSE offset < start
  <2> DEFINE after  == last < end
  <2> DEFINE output == SubSeq(b, first - start + 1, last - start)
  <2>1. s = [effectiveOffset |-> first, nextOffset |-> last, truncatedBefore |-> before,
             truncatedAfter |-> after, output |-> output]
    BY DEF Snapshot, first, last, size
  <2>2. after \in BOOLEAN /\ (offset # NoOffset => (before <=> offset < start))
    OBVIOUS
  <2> HIDE DEF before, after, output, s
  <2>3. /\ s.effectiveOffset = first /\ s.nextOffset = last /\ s.truncatedBefore = before
        /\ s.truncatedAfter = after /\ s.output = output
    BY <2>1
  <2> QED
    BY <2>2, <2>3 DEF output
<1> HIDE DEF s
<1>7. \A i \in first - start + 1 .. last - start : i \in 1 .. Len(b) /\ b[i] \in Nat
  BY <1>1, <1>3, <1>5, ElementOfSeq
<1>8. /\ s.output \in Seq(Nat) /\ Len(s.output) = last - first
      /\ \A i \in 1 .. last - first : s.output[i] = b[first - start + i]
  <2> DEFINE u == first - start + 1
  <2> DEFINE v == last - start
  <2>1. u \in Int /\ v \in Int /\ v - u + 1 = last - first /\ (u > v => last - first = 0)
    BY <1>3, <1>5
  <2> HIDE DEF u, v
  <2>2. /\ SubSeq(b, u, v) \in Seq(Nat)
        /\ Len(SubSeq(b, u, v)) = IF u <= v THEN v - u + 1 ELSE 0
        /\ \A i \in 1 .. v - u + 1 : SubSeq(b, u, v)[i] = b[u + i - 1]
    BY <1>7, <2>1, SubSeqProperties DEF u, v
  <2>3. s.output = SubSeq(b, u, v)
    BY <1>6 DEF u, v
  <2>4. \A i \in 1 .. last - first : u + i - 1 = first - start + i
    BY <1>3, <1>5 DEF u
  <2> QED
    BY <2>1, <2>2, <2>3, <2>4
<1>9. \A i \in 1 .. last - first : s.output[i] = first + i - 1
  <2> SUFFICES ASSUME NEW i \in 1 .. last - first PROVE s.output[i] = first + i - 1
    OBVIOUS
  <2>1. first - start + i \in 1 .. Len(b)
    BY <1>1, <1>3, <1>5
  <2>2. b[first - start + i] = start + (first - start + i) - 1
    BY <2>1
  <2>3. s.output[i] = b[first - start + i]
    BY <1>8
  <2> QED
    BY <1>3, <1>5, <2>2, <2>3
<1> QED
  BY <1>3, <1>4, <1>5, <1>6, <1>8, <1>9 DEF IsPage, s

ClientTypes ==
  /\ poll \in [Clients -> Polls]
  /\ cursor \in [Clients -> Nat \cup {NoOffset}]
  /\ received \in [Clients -> Seq(Nat)]
  /\ base \in [Clients -> Nat]
  /\ skipped \in [Clients -> SUBSET Int]

CursorInRange == \A c \in Clients : cursor[c] <= CurrentBufferEnd

LEMMA PageOfClient ==
  ASSUME BufferInv, ClientTypes, CursorInRange, NEW c \in Clients, NEW n \in PageSizes
  PROVE  IsPage(Snapshot(bufferStart, buffer, cursor[c], n), bufferStart, CurrentBufferEnd, cursor[c])
<1>1. /\ bufferStart \in Nat /\ buffer \in Seq(Nat)
      /\ \A i \in 1 .. Len(buffer) : buffer[i] = bufferStart + i - 1
  BY DEF BufferInv, BufferIsTail
<1>2. cursor[c] \in Nat \cup {NoOffset} /\ cursor[c] <= bufferStart + Len(buffer)
  BY DEF ClientTypes, CursorInRange, CurrentBufferEnd
<1> QED
  BY <1>1, <1>2, SnapshotPage DEF CurrentBufferEnd

StreamInv == BufferInv /\ RingInv /\ ClientTypes /\ CursorInRange /\ NoLostWakeup

LEMMA StreamInvInit == Init => StreamInv
<1> SUFFICES ASSUME Init PROVE StreamInv
  OBVIOUS
<1>1. ClientTypes /\ NoLostWakeup
  BY DEF Init, ClientTypes, NoLostWakeup, NoPoll, NoOffset, Polls
<1>2. CursorInRange
  BY DEF Init, CursorInRange, CurrentBufferEnd, NoOffset
<1> QED
  BY <1>1, <1>2, BufferInvInit, RingInvInit DEF StreamInv

LEMMA EndGrows ==
  ASSUME StreamInv, [Next]_vars
  PROVE  /\ CurrentBufferEnd \in Nat /\ CurrentBufferEnd' \in Nat
         /\ CurrentBufferEnd <= CurrentBufferEnd'
<1>1. BufferInv /\ BufferInv'
  BY BufferInvNext DEF StreamInv
<1>2. CurrentBufferEnd \in Nat /\ CurrentBufferEnd' \in Nat
  BY <1>1, LenProperties DEF BufferInv, CurrentBufferEnd
<1>3. ASSUME NEW n \in Nat, AppendToBuffer(n) PROVE CurrentBufferEnd <= CurrentBufferEnd'
  <2> DEFINE text == buffer \o Chunk(n)
  <2> DEFINE cut == Excess(text)
  <2>1. n \in Nat /\ MaxBufferChars \in Nat
    BY SizesAssumption
  <2>2. Chunk(n) \in Seq(Nat) /\ Len(Chunk(n)) = n
    BY <1>2, <2>1 DEF Chunk
  <2>3. text \in Seq(Nat) /\ Len(text) = Len(buffer) + n /\ Len(buffer) \in Nat
    BY <1>1, <2>1, <2>2, ConcatProperties, LenProperties DEF BufferInv
  <2>4. cut \in Nat /\ cut <= Len(text)
    BY <2>1, <2>3 DEF Excess
  <2> HIDE DEF text, cut
  <2>5. buffer' = SubSeq(text, cut + 1, Len(text)) /\ bufferStart' = bufferStart + cut
    BY <1>3 DEF AppendToBuffer, text, cut
  <2>6. Len(buffer') = Len(text) - cut
    <3>1. \A i \in cut + 1 .. Len(text) : text[i] \in Nat
      BY <2>3, <2>4, ElementOfSeq
    <3> QED
      BY <2>1, <2>3, <2>4, <2>5, <3>1, SubSeqProperties
  <2>7. bufferStart \in Nat
    BY <1>1 DEF BufferInv
  <2>8. /\ CurrentBufferEnd' = bufferStart + cut + (Len(text) - cut)
        /\ CurrentBufferEnd = bufferStart + Len(buffer)
    BY <2>5, <2>6 DEF CurrentBufferEnd
  <2> QED
    BY <2>1, <2>3, <2>4, <2>7, <2>8
<1>4. ASSUME SessionStep
      PROVE  (\E n \in Nat : AppendToBuffer(n)) \/ UNCHANGED CurrentBufferEnd
  BY <1>4, SizesAssumption DEF SessionStep, Output, Record, Finalize, CurrentBufferEnd
<1>5. ASSUME NEW c \in Clients, ClientStep(c) PROVE UNCHANGED CurrentBufferEnd
  BY <1>5 DEF ClientStep, StartPoll, WaitTimesOut, AbortPoll, FinishPoll, CurrentBufferEnd
<1>6. UNCHANGED vars => UNCHANGED CurrentBufferEnd
  BY DEF vars, CurrentBufferEnd
<1> QED
  BY <1>2, <1>3, <1>4, <1>5, <1>6 DEF Next

LEMMA CursorNext ==
  ASSUME StreamInv, NEW c \in Clients, NEW n \in PageSizes, FinishPoll(c, n)
  PROVE  /\ cursor' = [cursor EXCEPT ![c] = cursor'[c]]
         /\ cursor'[c] \in Nat /\ cursor'[c] <= CurrentBufferEnd
         /\ HintClients = {} =>
              cursor'[c] = Snapshot(bufferStart, buffer, cursor[c], n).nextOffset
<1> DEFINE s == Snapshot(bufferStart, buffer, cursor[c], n)
<1>1. IsPage(s, bufferStart, CurrentBufferEnd, cursor[c])
  BY PageOfClient DEF StreamInv
<1>2. /\ bufferStart \in Nat /\ bufferStart <= CurrentBufferEnd /\ CurrentBufferEnd \in Nat
  BY LenProperties DEF StreamInv, BufferInv, CurrentBufferEnd
<1>3. cursor' = [cursor EXCEPT ![c] = NextCursor(c, s)]
  BY DEF FinishPoll
<1> HIDE DEF s
<1>4. NextCursor(c, s) \in Nat /\ NextCursor(c, s) <= CurrentBufferEnd
  BY <1>1, <1>2 DEF IsPage, NextCursor, ReadMoreOffset, Larger
<1>5. HintClients = {} => NextCursor(c, s) = s.nextOffset
  BY DEF NextCursor
<1> QED
  BY <1>3, <1>4, <1>5 DEF StreamInv, ClientTypes, s

LEMMA ReadingIsPoll ==
  ASSUME NEW p \in Polls, NEW q, q = [p EXCEPT !.state = "reading"]
  PROVE  q \in Polls
  BY DEF Polls

LEMMA ClientTypesNext ==
  ASSUME StreamInv, [Next]_vars
  PROVE  ClientTypes' /\ CursorInRange'
<1> USE DEF ClientTypes
<1>1. ClientTypes /\ CursorInRange /\ transcript.nextEventSeq \in Nat
  BY DEF StreamInv, RingInv, Ring
<1>2. CurrentBufferEnd \in Nat /\ CurrentBufferEnd' \in Nat /\ CurrentBufferEnd <= CurrentBufferEnd'
  BY EndGrows
<1>3. UNCHANGED cursor => CursorInRange'
  <2> SUFFICES ASSUME UNCHANGED cursor, NEW c \in Clients PROVE cursor'[c] <= CurrentBufferEnd'
    BY DEF CursorInRange
  <2>1. cursor[c] \in Int /\ cursor[c] <= CurrentBufferEnd
    BY <1>1 DEF CursorInRange, NoOffset
  <2> QED
    BY <1>2, <2>1
<1>4. ASSUME SessionStep PROVE ClientTypes' /\ CursorInRange'
  <2>1. FlushWaiters /\ UNCHANGED clientVars
    BY <1>4 DEF SessionStep, Output, Record, Finalize
  <2>2. ASSUME NEW c \in Clients PROVE poll'[c] \in Polls
    <3>1. poll'[c] = poll[c] \/ poll'[c] = [poll[c] EXCEPT !.state = "reading"]
      BY <2>1 DEF FlushWaiters, Flushed
    <3> QED
      BY <1>1, <3>1, ReadingIsPoll
  <2>3. poll' \in [Clients -> Polls]
    BY <2>1, <2>2 DEF FlushWaiters
  <2> QED
    BY <1>1, <1>3, <2>1, <2>3
<1>5. ASSUME NEW c \in Clients, NEW seq \in {NoSeq, transcript.nextEventSeq}, StartPoll(c, seq)
      PROVE  ClientTypes' /\ CursorInRange'
  <2>1. seq \in Int /\ (cursor[c] = NoOffset \/ cursor[c] \in Nat)
    BY <1>1 DEF NoSeq
  <2>2. UNCHANGED clientVars
    BY <1>5 DEF StartPoll
  <2>3. poll' \in [Clients -> Polls]
    <3> DEFINE p == [state |-> "waiting", seq |-> seq,
                     offset |-> IF cursor[c] = NoOffset THEN CurrentBufferEnd ELSE cursor[c]]
    <3> DEFINE q == Flushed(p, CurrentBufferEnd, transcript.nextEventSeq, closed)
    <3>1. p \in Polls
      BY <1>2, <2>1 DEF Polls
    <3> HIDE DEF p
    <3>2. q = p \/ q = [p EXCEPT !.state = "reading"]
      BY DEF Flushed
    <3> HIDE DEF q
    <3>3. q \in Polls
      BY <3>1, <3>2, ReadingIsPoll
    <3>4. poll' = [poll EXCEPT ![c] = q]
      BY <1>5 DEF StartPoll, p, q
    <3> QED
      BY <1>1, <3>3, <3>4
  <2> QED
    BY <1>1, <1>3, <2>2, <2>3
<1>6. ASSUME NEW c \in Clients, WaitTimesOut(c) \/ AbortPoll(c)
      PROVE  ClientTypes' /\ CursorInRange'
  <2>1. UNCHANGED clientVars
    BY <1>6 DEF WaitTimesOut, AbortPoll
  <2>2. PICK q : q = [poll[c] EXCEPT !.state = "reading"]
    OBVIOUS
  <2>3. q \in Polls /\ NoPoll \in Polls
    BY <1>1, <2>2, ReadingIsPoll DEF Polls, NoPoll
  <2>4. poll' = [poll EXCEPT ![c] = q] \/ poll' = [poll EXCEPT ![c] = NoPoll]
    BY <1>6, <2>2 DEF WaitTimesOut, AbortPoll
  <2> QED
    BY <1>1, <1>3, <2>1, <2>3, <2>4
<1>7. ASSUME NEW c \in Clients, NEW n \in PageSizes, FinishPoll(c, n)
      PROVE  ClientTypes' /\ CursorInRange'
  <2> DEFINE s == Snapshot(bufferStart, buffer, cursor[c], n)
  <2>1. IsPage(s, bufferStart, CurrentBufferEnd, cursor[c])
    BY PageOfClient DEF StreamInv
  <2> HIDE DEF s
  <2>2. /\ s.effectiveOffset \in Nat /\ s.output \in Seq(Nat)
    BY <2>1 DEF IsPage
  <2>3. cursor' \in [Clients -> Nat \cup {NoOffset}] /\ CursorInRange'
    <3>1. cursor' = [cursor EXCEPT ![c] = cursor'[c]] /\ cursor'[c] \in Nat
          /\ cursor'[c] <= CurrentBufferEnd
      BY <1>7, CursorNext
    <3>2. \A d \in Clients : d # c => cursor'[d] = cursor[d]
      BY <1>1, <3>1
    <3>3. \A d \in Clients : cursor'[d] <= CurrentBufferEnd
      BY <1>1, <3>1, <3>2 DEF CursorInRange
    <3>4. \A d \in Clients : cursor'[d] \in Int
      <4>1. \A d \in Clients : cursor'[d] \in Nat \cup {NoOffset}
        BY <1>1, <3>1, <3>2
      <4> QED
        BY <4>1 DEF NoOffset
    <3>5. CursorInRange'
      BY <1>2, <3>3, <3>4 DEF CursorInRange
    <3> QED
      BY <1>1, <3>1, <3>5
  <2>4. received' \in [Clients -> Seq(Nat)]
    <3>1. received[c] \o s.output \in Seq(Nat)
      BY <1>1, <2>2, ConcatProperties
    <3> QED
      BY <1>1, <1>7, <3>1 DEF FinishPoll, s
  <2>5. base' \in [Clients -> Nat]
    BY <1>1, <1>7, <2>2 DEF FinishPoll, s
  <2>6. skipped' \in [Clients -> SUBSET Int]
    <3>1. cursor[c] .. s.effectiveOffset - 1 \subseteq Int
      OBVIOUS
    <3> QED
      BY <1>1, <1>7, <3>1 DEF FinishPoll, s
  <2>7. poll' \in [Clients -> Polls]
    BY <1>1, <1>7 DEF FinishPoll, NoPoll, Polls
  <2> QED
    BY <2>3, <2>4, <2>5, <2>6, <2>7
<1>8. CASE UNCHANGED vars
  BY <1>1, <1>3, <1>8 DEF vars
<1> QED
  BY <1>4, <1>5, <1>6, <1>7, <1>8 DEF Next, ClientStep

LEMMA StreamInvNext == StreamInv /\ [Next]_vars => StreamInv'
<1> SUFFICES ASSUME StreamInv, [Next]_vars PROVE StreamInv'
  OBVIOUS
<1>1. ClientTypes' /\ CursorInRange'
  BY ClientTypesNext
<1>2. NoLostWakeup'
  <2>1. CASE Next
    BY <2>1, NoLostWakeupNext DEF StreamInv, ClientTypes
  <2>2. CASE UNCHANGED vars
    BY <2>2 DEF StreamInv, NoLostWakeup, CurrentBufferEnd, vars
  <2> QED
    BY <2>1, <2>2
<1> QED
  BY <1>1, <1>2, BufferInvNext, RingInvNext DEF StreamInv

LEMMA StreamInvariant == Spec => []StreamInv
  BY StreamInvInit, StreamInvNext, PTL DEF Spec

(* No client is left waiting for a change that has already happened, in    *)
(* whatever order output, records, the end of the session and polls come.  *)
THEOREM NoWakeupIsLost == Spec => []NoLostWakeup
<1>1. StreamInv => NoLostWakeup
  BY DEF StreamInv
<1> QED
  BY <1>1, StreamInvariant, PTL
-----------------------------------------------------------------------------
(* What a client has received, as far as its own cursor.  The three parts  *)
(* are the same for every client, so they are stated for one.              *)
Behind(r, k)  == (k = NoOffset => r = <<>>) /\ \A i \in 1 .. Len(r) : r[i] < k
InOrder(r)    == \A i, j \in 1 .. Len(r) : i < j => r[i] < r[j]
NoGap(r, b, k, missed) ==
  \A p \in b .. k - 1 : p \in missed \/ \E i \in 1 .. Len(r) : r[i] = p

Good(r, b, k, missed) == Behind(r, k) /\ InOrder(r) /\ NoGap(r, b, k, missed)

ReadInv == \A c \in Clients : Good(received[c], base[c], cursor[c], skipped[c])

NewBase(s, k, b)        == IF k = NoOffset THEN s.effectiveOffset ELSE b
NewMissed(s, k, missed) ==
  IF s.truncatedBefore /\ k # NoOffset THEN missed \cup k .. s.effectiveOffset - 1 ELSE missed

(* One page appended to what was received before.                          *)
LEMMA PageAppended ==
  ASSUME NEW r \in Seq(Nat), NEW k \in Nat \cup {NoOffset}, NEW b \in Nat,
         NEW missed \in SUBSET Int, Good(r, b, k, missed),
         NEW start \in Nat, NEW end \in Nat, NEW s, IsPage(s, start, end, k)
  PROVE  Good(r \o s.output, NewBase(s, k, b), s.nextOffset, NewMissed(s, k, missed))
<1>r. \A x, y \in 1 .. Len(r) : x < y => r[x] < r[y]
  BY DEF Good, InOrder
<1> DEFINE b2 == NewBase(s, k, b)
<1> DEFINE missed2 == NewMissed(s, k, missed)
<1>0. /\ Behind(r, k) /\ InOrder(r) /\ NoGap(r, b, k, missed)
      /\ b2 = IF k = NoOffset THEN s.effectiveOffset ELSE b
      /\ missed2 = IF s.truncatedBefore /\ k # NoOffset
                   THEN missed \cup k .. s.effectiveOffset - 1 ELSE missed
  BY DEF Good, NewBase, NewMissed
<1> HIDE DEF b2, missed2
<1> DEFINE first == s.effectiveOffset
<1> DEFINE last  == s.nextOffset
<1> DEFINE all   == r \o s.output
<1>1. /\ first \in Nat /\ last \in Nat /\ first <= last
      /\ s.output \in Seq(Nat) /\ Len(s.output) = last - first
      /\ \A i \in 1 .. last - first : s.output[i] = first + i - 1
      /\ k # NoOffset => first = Larger(start, k) /\ (s.truncatedBefore <=> k < start)
  BY DEF IsPage
<1> DEFINE m == Len(r)
<1>2. /\ m \in Nat /\ Len(all) = m + (last - first)
      /\ \A i \in 1 .. m : all[i] = r[i] /\ r[i] \in Nat
  BY <1>1, ConcatProperties, ElementOfSeq, LenProperties
<1>3. \A i \in m + 1 .. m + (last - first) : all[i] = first + (i - m) - 1
  <2> SUFFICES ASSUME NEW i \in m + 1 .. m + (last - first) PROVE all[i] = first + (i - m) - 1
    OBVIOUS
  <2>1. i - m \in 1 .. last - first /\ i \in 1 .. m + (last - first) /\ ~(i <= m)
    BY <1>1, <1>2
  <2>2. all[i] = s.output[i - m]
    BY <1>1, <1>2, <2>1, ConcatProperties
  <2> QED
    BY <1>1, <2>1, <2>2
<1> HIDE DEF all
<1>4. k \in Nat => k <= first
  BY <1>1 DEF Larger, NoOffset
<1>5. \A i \in 1 .. m : r[i] < first
  <2>1. CASE k = NoOffset
    BY <2>1, <1>0, EmptySeq DEF Behind
  <2>2. CASE k \in Nat
    BY <1>0, <1>1, <1>2, <1>4, <2>2 DEF Behind
  <2> QED
    BY <2>1, <2>2
<1> HIDE DEF first, last
<1>6. \A i \in 1 .. Len(all) : all[i] < last
  <2> SUFFICES ASSUME NEW i \in 1 .. Len(all) PROVE all[i] < last
    OBVIOUS
  <2>0. first \in Nat /\ last \in Nat /\ first <= last /\ m \in Nat /\ Len(all) = m + (last - first)
    BY <1>1, <1>2 DEF first, last
  <2>1. CASE i <= m
    <3>1. all[i] = r[i] /\ r[i] \in Nat /\ r[i] < first
      BY <2>0, <2>1, <1>2, <1>5
    <3> QED
      BY <2>0, <3>1
  <2>2. CASE i > m
    <3>1. all[i] = first + (i - m) - 1
      BY <2>0, <2>2, <1>3
    <3> QED
      BY <2>0, <2>2, <3>1
  <2> QED
    BY <1>1, <1>2, <2>1, <2>2
<1>7. InOrder(all)
  <2> SUFFICES ASSUME NEW i \in 1 .. Len(all), NEW j \in 1 .. Len(all), i < j
               PROVE  all[i] < all[j]
    BY DEF InOrder
  <2>1. CASE j <= m
    <3>1. i \in 1 .. m /\ j \in 1 .. m
      <4>1. m \in Nat /\ Len(all) \in Nat
        BY <1>1, <1>2
      <4> HIDE DEF m, all
      <4> QED BY <2>1, <4>1
    <3>2. all[i] = r[i] /\ all[j] = r[j]
      BY <1>2, <3>1
    <3>3. r[i] < r[j]
      BY <1>r, <3>1
    <3> QED
      BY <3>2, <3>3
  <2>2. CASE i <= m /\ j > m
    <3>1. all[i] < first /\ all[i] \in Nat
      BY <1>2, <1>5, <2>2
    <3>2. all[j] = first + (j - m) - 1
      BY <1>1, <1>2, <1>3, <2>2
    <3> QED
      BY <1>1, <1>2, <2>2, <3>1, <3>2
  <2>3. CASE i > m
    <3>1. all[i] = first + (i - m) - 1 /\ all[j] = first + (j - m) - 1
      BY <1>1, <1>2, <1>3, <2>3
    <3> QED
      BY <1>1, <1>2, <3>1
  <2> QED
    BY <1>1, <1>2, <2>1, <2>2, <2>3
<1>8. ASSUME NEW p \in b2 .. last - 1
      PROVE  p \in missed2 \/ \E i \in 1 .. Len(all) : all[i] = p
  <2>1. p \in Int /\ b2 \in Nat
    BY <1>0, <1>1, <1>8 DEF first
  <2>2. CASE p >= first
    <3>1. m + (p - first) + 1 \in m + 1 .. m + (last - first)
      <4>1. first \in Nat /\ last \in Nat /\ m \in Nat /\ p \in Int /\ p >= first /\ p < last
        BY <1>1, <1>2, <1>8, <2>1, <2>2 DEF first, last
      <4> QED
        BY <4>1
    <3>2. all[m + (p - first) + 1] = p
      <4> DEFINE i == m + (p - first) + 1
      <4>1. all[i] = first + (i - m) - 1
        BY <1>3, <3>1
      <4>2. first \in Nat /\ m \in Nat
        BY <1>1, <1>2 DEF first
      <4> QED
        BY <2>1, <4>1, <4>2
    <3>3. m + (p - first) + 1 \in 1 .. Len(all)
      BY <1>1, <1>2, <3>1
    <3> QED
      BY <3>2, <3>3
  <2>3. CASE p < first
    <3>1. k \in Nat /\ b2 = b
      BY <1>0, <1>8, <2>1, <2>3, <1>1 DEF first
    <3>2. CASE p >= k
      <4>1. s.truncatedBefore
        BY <1>1, <2>1, <2>3, <3>1, <3>2 DEF Larger, NoOffset
      <4>2. p \in k .. first - 1
        BY <1>1, <2>1, <2>3, <3>1, <3>2
      <4> QED
        BY <1>0, <3>1, <4>1, <4>2 DEF first, NoOffset
    <3>3. CASE p < k
      <4>1. p \in b .. k - 1
        BY <1>8, <2>1, <3>1, <3>3, <1>1
      <4>2. p \in missed \/ \E i \in 1 .. m : r[i] = p
        BY <1>0, <4>1 DEF NoGap
      <4>3. missed \subseteq missed2
        BY <1>0
      <4>4. \A i \in 1 .. m : i \in 1 .. Len(all)
        BY <1>1, <1>2
      <4> QED
        BY <1>2, <4>2, <4>3, <4>4
    <3> QED
      BY <2>1, <3>1, <3>2, <3>3
  <2> QED
    BY <1>1, <2>1, <2>2, <2>3
<1> QED
  <2>1. last # NoOffset
    BY <1>1 DEF NoOffset
  <2> QED
    BY <1>6, <1>7, <1>8, <2>1 DEF Good, Behind, NoGap, all, last, b2, missed2

LEMMA ReadInvInit == Init => ReadInv
  BY EmptySeq DEF Init, ReadInv, Good, Behind, InOrder, NoGap, NoOffset

LEMMA ReadInvNext ==
  ASSUME HintClients = {}, StreamInv, ReadInv, [Next]_vars
  PROVE  ReadInv'
<1>1. CASE UNCHANGED clientVars
  BY <1>1 DEF ReadInv
<1>2. SessionStep => UNCHANGED clientVars
  BY DEF SessionStep, Output, Record, Finalize
<1>3. ASSUME NEW c \in Clients, NEW seq, StartPoll(c, seq) \/ WaitTimesOut(c) \/ AbortPoll(c)
      PROVE  UNCHANGED clientVars
  BY <1>3 DEF StartPoll, WaitTimesOut, AbortPoll
<1>4. ASSUME NEW c \in Clients, NEW n \in PageSizes, FinishPoll(c, n) PROVE ReadInv'
  <2> DEFINE s == Snapshot(bufferStart, buffer, cursor[c], n)
  <2>1. IsPage(s, bufferStart, CurrentBufferEnd, cursor[c])
    BY PageOfClient DEF StreamInv
  <2>2. cursor' = [cursor EXCEPT ![c] = cursor'[c]] /\ cursor'[c] = s.nextOffset
    BY <1>4, CursorNext
  <2>3. /\ received' = [received EXCEPT ![c] = received[c] \o s.output]
        /\ base' = [base EXCEPT ![c] = IF cursor[c] = NoOffset THEN s.effectiveOffset ELSE base[c]]
        /\ skipped' = [skipped EXCEPT ![c] =
             IF s.truncatedBefore /\ cursor[c] # NoOffset
             THEN skipped[c] \cup cursor[c] .. s.effectiveOffset - 1 ELSE skipped[c]]
    BY <1>4 DEF FinishPoll
  <2> HIDE DEF s
  <2>4. /\ received[c] \in Seq(Nat) /\ cursor[c] \in Nat \cup {NoOffset} /\ base[c] \in Nat
        /\ skipped[c] \in SUBSET Int
        /\ Good(received[c], base[c], cursor[c], skipped[c])
    BY DEF StreamInv, ClientTypes, ReadInv
  <2>5. bufferStart \in Nat /\ CurrentBufferEnd \in Nat
    BY LenProperties DEF StreamInv, BufferInv, CurrentBufferEnd
  <2>6. /\ received'[c] = received[c] \o s.output
        /\ base'[c] = NewBase(s, cursor[c], base[c])
        /\ skipped'[c] = NewMissed(s, cursor[c], skipped[c])
    BY <2>3 DEF StreamInv, ClientTypes, NewBase, NewMissed
  <2>7. Good(received'[c], base'[c], cursor'[c], skipped'[c])
    <3>1. Good(received[c] \o s.output, NewBase(s, cursor[c], base[c]), s.nextOffset,
               NewMissed(s, cursor[c], skipped[c]))
      BY <2>1, <2>4, <2>5, PageAppended
    <3> QED
      BY <2>2, <2>6, <3>1
  <2>8. ASSUME NEW d \in Clients, d # c
        PROVE  /\ received'[d] = received[d] /\ cursor'[d] = cursor[d]
               /\ base'[d] = base[d] /\ skipped'[d] = skipped[d]
    BY <2>2, <2>3, <2>8 DEF StreamInv, ClientTypes
  <2> QED
    BY <2>7, <2>8 DEF ReadInv
<1>5. UNCHANGED vars => UNCHANGED clientVars
  BY DEF vars
<1> QED
  BY <1>1, <1>2, <1>3, <1>4, <1>5 DEF Next, ClientStep

LEMMA ReadInvariant ==
  ASSUME HintClients = {}
  PROVE  Spec => []ReadInv
<1>1. StreamInv /\ ReadInv /\ [Next]_vars => ReadInv'
  BY ReadInvNext
<1> QED
  BY <1>1, ReadInvInit, StreamInvariant, PTL DEF Spec

(* A client that goes on at nextOffset receives every character at most    *)
(* once and in the order the session wrote them.                           *)
THEOREM AlwaysReceivedInOrder ==
  ASSUME HintClients = {}
  PROVE  Spec => []ReceivedInOrder
<1>1. ReadInv => ReceivedInOrder
  BY DEF ReadInv, Good, InOrder, ReceivedInOrder
<1> QED
  BY <1>1, ReadInvariant, PTL

(* And it misses none unless the page says truncatedBefore.                *)
THEOREM NeverASilentGap ==
  ASSUME HintClients = {}
  PROVE  Spec => []NoSilentGap
<1>1. ReadInv => NoSilentGap
  BY DEF ReadInv, Good, NoGap, NoSilentGap
<1> QED
  BY <1>1, ReadInvariant, PTL

(* Both together: reading on at nextOffset is reading the output.          *)
THEOREM AlwaysReadsOnward ==
  ASSUME HintClients = {}
  PROVE  Spec => []ReadsOnward
<1>1. ReceivedInOrder /\ NoSilentGap => ReadsOnward
  BY DEF ReadsOnward
<1> QED
  BY <1>1, AlwaysReceivedInOrder, NeverASilentGap, PTL
=============================================================================
