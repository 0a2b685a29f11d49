------------------------- MODULE Distributed_proofs -------------------------
(* Proofs about distributed mode.  About Cluster, for any nodes and items  *)
(* and any bounds: a node that is ready is known to Redis, and the store   *)
(* has what a node holds once its saves and removals are through.  About   *)
(* RedisClient, for any number of commands and connections: a command gets *)
(* its own reply, and one that waited runs in the chosen database.  About  *)
(* RespParser, for any replies cut anywhere: only whole ones are taken.    *)
EXTENDS Cluster, RedisClient, SequenceTheorems, FiniteSetTheorems, WellFoundedInduction, TLAPS

(* A set of numbers has a least one. *)
LEMMA LeastNumber ==
  ASSUME NEW T \in SUBSET Nat, T # {}
  PROVE  \E n \in T : \A m \in T : n <= m
<1>1. PICK n \in T : \A m \in T : ~ <<m, n>> \in OpToRel(<, Nat)
  BY NatLessThanWellFounded, WFMin
<1>2. \A m \in T : ~ m < n
  BY <1>1 DEF OpToRel
<1> QED BY <1>2

(* So has a set of numbers with a bound a greatest one. *)
LEMMA GreatestNumber ==
  ASSUME NEW k \in Nat, NEW T \in SUBSET (1 .. k), T # {}
  PROVE  \E n \in T : \A m \in T : m <= n
<1> DEFINE U == {k - n : n \in T}
<1>1. U \in SUBSET Nat /\ U # {}
  <2>1. \A n \in T : k - n \in Nat
    OBVIOUS
  <2> QED BY <2>1
<1> HIDE DEF U
<1>2. PICK u \in U : \A v \in U : u <= v
  BY <1>1, LeastNumber
<1> USE DEF U
<1>3. PICK n \in T : u = k - n
  BY <1>2
<1>4. \A m \in T : k - n <= k - m
  BY <1>2, <1>3
<1> QED BY <1>4

-----------------------------------------------------------------------------
(* Sequences by position                                                   *)

LEMMA JoinedAt ==
  ASSUME NEW S, NEW s \in Seq(S), NEW t \in Seq(S)
  PROVE  /\ s \o t \in Seq(S)
         /\ \A p \in 1 .. Len(s) : p \in 1 .. Len(s \o t) /\ (s \o t)[p] = s[p]
         /\ \A p \in 1 .. Len(t) : Len(s) + p \in 1 .. Len(s \o t) /\ (s \o t)[Len(s) + p] = t[p]
         /\ \A p \in 1 .. Len(s \o t) : p \in 1 .. Len(s) \/ p - Len(s) \in 1 .. Len(t)
         /\ ToSet(s \o t) = ToSet(s) \cup ToSet(t)
<1>1. /\ s \o t \in Seq(S) /\ Len(s \o t) = Len(s) + Len(t)
      /\ \A p \in 1 .. Len(s) + Len(t) : (s \o t)[p] = IF p <= Len(s) THEN s[p] ELSE t[p - Len(s)]
  BY ConcatProperties
<1>2. /\ Len(s) \in Nat /\ Len(t) \in Nat /\ DOMAIN s = 1 .. Len(s) /\ DOMAIN t = 1 .. Len(t)
      /\ DOMAIN (s \o t) = 1 .. Len(s \o t)
  BY <1>1, LenProperties
<1>3. \A p \in 1 .. Len(s) : p \in 1 .. Len(s \o t) /\ (s \o t)[p] = s[p]
  BY <1>1, <1>2
<1>4. ASSUME NEW p \in 1 .. Len(t) PROVE Len(s) + p \in 1 .. Len(s \o t) /\ (s \o t)[Len(s) + p] = t[p]
  <2>1. Len(s) + p \in 1 .. Len(s) + Len(t) /\ ~(Len(s) + p <= Len(s)) /\ Len(s) + p - Len(s) = p
    BY <1>2
  <2> QED BY <1>1, <2>1
<1>5. \A p \in 1 .. Len(s \o t) : p \in 1 .. Len(s) \/ p - Len(s) \in 1 .. Len(t)
  BY <1>1, <1>2
<1>6. ToSet(s \o t) \subseteq ToSet(s) \cup ToSet(t)
  <2> SUFFICES ASSUME NEW p \in 1 .. Len(s \o t) PROVE (s \o t)[p] \in ToSet(s) \cup ToSet(t)
    BY <1>2 DEF ToSet
  <2>1. CASE p \in 1 .. Len(s)
    BY <1>2, <1>3, <2>1 DEF ToSet
  <2>2. CASE p - Len(s) \in 1 .. Len(t)
    <3>1. Len(s) + (p - Len(s)) = p
      BY <1>2
    <3>2. (s \o t)[p] = t[p - Len(s)]
      BY <1>4, <2>2, <3>1
    <3> QED BY <1>2, <2>2, <3>2 DEF ToSet
  <2> QED BY <1>5, <2>1, <2>2
<1>7. ToSet(s) \cup ToSet(t) \subseteq ToSet(s \o t)
  BY <1>2, <1>3, <1>4 DEF ToSet
<1> QED BY <1>1, <1>3, <1>4, <1>5, <1>6, <1>7

LEMMA JoinedSet ==
  ASSUME NEW S, NEW s \in Seq(S), NEW t \in Seq(S)
  PROVE  s \o t \in Seq(S) /\ ToSet(s \o t) = ToSet(s) \cup ToSet(t)
BY JoinedAt

LEMMA OneRequest ==
  ASSUME NEW S, NEW e \in S
  PROVE  /\ <<e>> \in Seq(S) /\ Len(<<e>>) = 1 /\ <<e>>[1] = e /\ ToSet(<<e>>) = {e}
         /\ \A s \in Seq(S) : Append(s, e) = s \o <<e>>
<1>1. <<e>> \in Seq(S) /\ Len(<<e>>) = 1 /\ <<e>>[1] = e /\ DOMAIN <<e>> = {1}
  OBVIOUS
<1>2. ToSet(<<e>>) = {e}
  BY <1>1 DEF ToSet
<1> QED BY <1>1, <1>2, AppendIsConcat

LEMMA TailAt ==
  ASSUME NEW S, NEW s \in Seq(S), s # <<>>
  PROVE  /\ Tail(s) \in Seq(S) /\ Head(s) = s[1] /\ Head(s) \in S /\ 1 \in 1 .. Len(s)
         /\ \A p \in 1 .. Len(Tail(s)) : p + 1 \in 2 .. Len(s) /\ Tail(s)[p] = s[p + 1]
         /\ \A p \in 2 .. Len(s) : p - 1 \in 1 .. Len(Tail(s)) /\ Tail(s)[p - 1] = s[p]
         /\ ToSet(s) = {Head(s)} \cup ToSet(Tail(s))
<1>1. /\ Head(s) \in S /\ Tail(s) \in Seq(S) /\ Len(Tail(s)) = Len(s) - 1
      /\ \A p \in 1 .. Len(Tail(s)) : Tail(s)[p] = s[p + 1]
  BY HeadTailProperties
<1>2. /\ Len(s) \in Nat \ {0} /\ DOMAIN s = 1 .. Len(s) /\ DOMAIN Tail(s) = 1 .. Len(Tail(s))
  BY <1>1, LenProperties, EmptySeq
<1>3. Head(s) = s[1]
  OBVIOUS
<1>4. \A p \in 1 .. Len(Tail(s)) : p + 1 \in 2 .. Len(s) /\ Tail(s)[p] = s[p + 1]
  BY <1>1, <1>2
<1>5. ASSUME NEW p \in 2 .. Len(s) PROVE p - 1 \in 1 .. Len(Tail(s)) /\ Tail(s)[p - 1] = s[p]
  <2>1. p - 1 \in 1 .. Len(Tail(s)) /\ p - 1 + 1 = p
    BY <1>1, <1>2
  <2> QED BY <1>1, <2>1
<1>6. ToSet(s) \subseteq {Head(s)} \cup ToSet(Tail(s))
  <2> SUFFICES ASSUME NEW p \in 1 .. Len(s) PROVE s[p] \in {Head(s)} \cup ToSet(Tail(s))
    BY <1>2 DEF ToSet
  <2>1. p = 1 \/ p \in 2 .. Len(s)
    BY <1>2
  <2> QED BY <1>2, <1>3, <1>5, <2>1 DEF ToSet
<1>7. {Head(s)} \cup ToSet(Tail(s)) \subseteq ToSet(s)
  BY <1>2, <1>3, <1>4 DEF ToSet
<1> QED BY <1>1, <1>2, <1>3, <1>4, <1>5, <1>6, <1>7

LEMMA RestAt ==
  ASSUME NEW S, NEW s \in Seq(S), NEW k \in 0 .. Len(s)
  PROVE  /\ SubSeq(s, k + 1, Len(s)) \in Seq(S)
         /\ \A p \in 1 .. Len(SubSeq(s, k + 1, Len(s))) :
              p + k \in k + 1 .. Len(s) /\ SubSeq(s, k + 1, Len(s))[p] = s[p + k]
         /\ \A p \in k + 1 .. Len(s) :
              p - k \in 1 .. Len(SubSeq(s, k + 1, Len(s))) /\ SubSeq(s, k + 1, Len(s))[p - k] = s[p]
         /\ ToSet(SubSeq(s, k + 1, Len(s))) \subseteq ToSet(s)
<1> DEFINE r == SubSeq(s, k + 1, Len(s))
<1>1. Len(s) \in Nat /\ DOMAIN s = 1 .. Len(s) /\ \A p \in 1 .. Len(s) : s[p] \in S
  BY LenProperties, ElementOfSeq
<1>2. /\ r \in Seq(S) /\ Len(r) = IF k + 1 <= Len(s) THEN Len(s) - (k + 1) + 1 ELSE 0
      /\ \A p \in 1 .. Len(s) - (k + 1) + 1 : r[p] = s[k + 1 + p - 1]
  BY <1>1, SubSeqProperties
<1> HIDE DEF r
<1>3. Len(r) = Len(s) - k
  <2>1. Len(s) \in Nat /\ k \in Nat /\ k <= Len(s)
    BY <1>1
  <2>2. CASE k = Len(s)
    BY <1>2, <2>1, <2>2
  <2>3. CASE k + 1 <= Len(s)
    BY <1>2, <2>1, <2>3
  <2> QED BY <2>1, <2>2, <2>3
<1>a. DOMAIN r = 1 .. Len(r)
  BY <1>2, LenProperties
<1>4. ASSUME NEW p \in 1 .. Len(r) PROVE p + k \in k + 1 .. Len(s) /\ r[p] = s[p + k]
  <2>1. p \in 1 .. Len(s) - (k + 1) + 1 /\ k + 1 + p - 1 = p + k /\ p + k \in k + 1 .. Len(s)
    BY <1>1, <1>3
  <2> QED BY <1>2, <2>1
<1>5. ASSUME NEW p \in k + 1 .. Len(s) PROVE p - k \in 1 .. Len(r) /\ r[p - k] = s[p]
  <2>1. p - k \in 1 .. Len(r) /\ p - k + k = p
    BY <1>1, <1>3
  <2> QED BY <1>4, <2>1
<1>6. ToSet(r) \subseteq ToSet(s)
  <2> SUFFICES ASSUME NEW p \in 1 .. Len(r) PROVE r[p] \in ToSet(s)
    BY <1>a DEF ToSet
  <2>1. p + k \in 1 .. Len(s)
    BY <1>1, <1>4
  <2> QED BY <1>1, <1>4, <2>1 DEF ToSet
<1> QED BY <1>2, <1>4, <1>5, <1>6 DEF r

LEMMA FirstAt ==
  ASSUME NEW S, NEW s \in Seq(S), NEW k \in 0 .. Len(s)
  PROVE  SubSeq(s, 1, k) \in Seq(S) /\ ToSet(SubSeq(s, 1, k)) \subseteq ToSet(s)
<1> DEFINE r == SubSeq(s, 1, k)
<1>1. Len(s) \in Nat /\ DOMAIN s = 1 .. Len(s) /\ \A p \in 1 .. Len(s) : s[p] \in S
  BY LenProperties, ElementOfSeq
<1>2. /\ r \in Seq(S) /\ Len(r) = IF 1 <= k THEN k - 1 + 1 ELSE 0
      /\ \A p \in 1 .. k - 1 + 1 : r[p] = s[1 + p - 1]
  <2>1. \A p \in 1 .. k : s[p] \in S
    BY <1>1
  <2> QED BY <2>1, SubSeqProperties
<1> HIDE DEF r
<1>3. DOMAIN r = 1 .. k
  BY <1>1, <1>2, LenProperties
<1>4. \A p \in 1 .. k : p \in 1 .. Len(s) /\ r[p] = s[p]
  BY <1>1, <1>2
<1> QED BY <1>1, <1>2, <1>3, <1>4 DEF r, ToSet

-----------------------------------------------------------------------------
(* Requests and the requests that follow their replies                     *)

LEMMA RequestTyped ==
  ASSUME NEW op \in {"set", "del", "add", "rem", "node", "unnode", "ids", "values"},
         NEW of \in SUBSET Items, NEW by \in {"own", "beat", "read", "stop"}
  PROVE  /\ Request(op, of, by) \in Requested
         /\ Request(op, of, by).op = op /\ Request(op, of, by).of = of /\ Request(op, of, by).by = by
BY DEF Request, Requested

Held(n) == ToSet(held[n])

LEMMA HeldTyped ==
  ASSUME TypeOK, NEW n \in Nodes
  PROVE  /\ held[n] \in Seq(Items) /\ Len(held[n]) \in Nat /\ IsInjective(held[n])
         /\ DOMAIN held[n] = 1 .. Len(held[n])
         /\ \A p \in 1 .. Len(held[n]) : held[n][p] \in Held(n)
         /\ Held(n) \subseteq Items
<1>1. held[n] \in Seq(Items) /\ IsInjective(held[n])
  BY DEF TypeOK
<1>2. /\ Len(held[n]) \in Nat /\ DOMAIN held[n] = 1 .. Len(held[n])
      /\ \A p \in 1 .. Len(held[n]) : held[n][p] \in Items
  BY <1>1, LenProperties, ElementOfSeq
<1> QED BY <1>1, <1>2 DEF Held, ToSet

LEMMA WireTyped ==
  ASSUME TypeOK, NEW n \in Nodes
  PROVE  /\ sent[n] \in Seq(Requested) /\ Len(sent[n]) \in Nat
         /\ replies[n] \in Seq(Requested) /\ Len(replies[n]) \in Nat
         /\ \A p \in 1 .. Len(sent[n]) : sent[n][p] \in Requested /\ sent[n][p] \in Wire(n)
         /\ \A p \in 1 .. Len(replies[n]) :
              replies[n][p] \in Requested /\ Answered(replies[n][p]) /\ replies[n][p] \in Wire(n)
         /\ \A q \in Wire(n) : q \in Requested
<1> DEFINE Replied == {q \in Requested : Answered(q)}
<1>1. sent[n] \in Seq(Requested) /\ replies[n] \in Seq(Replied)
  BY DEF TypeOK
<1>2. /\ Len(sent[n]) \in Nat /\ DOMAIN sent[n] = 1 .. Len(sent[n])
      /\ \A p \in 1 .. Len(sent[n]) : sent[n][p] \in Requested
  BY <1>1, LenProperties, ElementOfSeq
<1> HIDE DEF Replied
<1>3. /\ Len(replies[n]) \in Nat /\ DOMAIN replies[n] = 1 .. Len(replies[n])
      /\ \A p \in 1 .. Len(replies[n]) : replies[n][p] \in Replied
      /\ replies[n] \in [1 .. Len(replies[n]) -> Replied]
  BY <1>1, LenProperties, ElementOfSeq
<1> USE DEF Replied
<1>4. replies[n] \in Seq(Requested)
  <2>1. Replied \subseteq Requested
    OBVIOUS
  <2> HIDE DEF Replied
  <2> QED BY <1>1, <2>1
<1> QED BY <1>1, <1>2, <1>3, <1>4 DEF Wire, ToSet

(* The heartbeat goes on with an item that the node holds. *)
LEMMA NextIsHeld ==
  ASSUME TypeOK, NEW n \in Nodes, Ahead(n) # {}
  PROVE  NextItem(n) \in Held(n)
<1>1. Ahead(n) \in SUBSET Nat /\ Ahead(n) \subseteq 1 .. Len(held[n])
  BY HeldTyped DEF Ahead
<1>2. \E p \in Ahead(n) : \A l \in Ahead(n) : p <= l
  BY <1>1, LeastNumber
<1>3. PICK p \in Ahead(n) : NextItem(n) = held[n][p]
  BY <1>2 DEF NextItem
<1> QED BY <1>1, <1>3, HeldTyped

LEMMA FollowingTyped ==
  ASSUME TypeOK, NEW n \in Nodes, NEW q \in Requested, Answered(q)
  PROVE  /\ Following(n, q) # NoRequest => Following(n, q) \in Requested
         /\ q.op = "set" => Following(n, q) = Request("add", q.of, q.by)
         /\ q.op = "del" => Following(n, q) = Request("rem", q.of, q.by)
         /\ Following(n, q).op = "add" => q.op = "set" /\ Following(n, q).of = q.of
         /\ Following(n, q).op = "rem" => q.op = "del" /\ Following(n, q).of = q.of
         /\ Following(n, q).op = "set" => \E i \in Held(n) : Following(n, q).of = {i}
         /\ Following(n, q).op \notin {"del", "node", "unnode"}
         /\ Following(n, q) # NoRequest => Following(n, q).by = q.by
<1> DEFINE f == Following(n, q)
<1>0. /\ q.op \in {"set", "del", "add", "rem", "node", "unnode", "ids", "values"} /\ q.of \in SUBSET Items
      /\ q.by \in {"own", "beat", "read", "stop"}
  BY DEF Requested
<1>1. CASE q.op = "set"
  <2>1. f = Request("add", q.of, q.by)
    BY <1>1 DEF Following
  <2> HIDE DEF f
  <2>2. f \in Requested /\ f.op = "add" /\ f.of = q.of /\ f.by = q.by
    BY <1>0, <2>1, RequestTyped
  <2> QED BY <1>1, <2>1, <2>2 DEF f
<1>2. CASE q.op = "del"
  <2>1. f = Request("rem", q.of, q.by)
    BY <1>2 DEF Following
  <2> HIDE DEF f
  <2>2. f \in Requested /\ f.op = "rem" /\ f.of = q.of /\ f.by = q.by
    BY <1>0, <2>1, RequestTyped
  <2> QED BY <1>2, <2>1, <2>2 DEF f
<1>3. CASE q.op = "ids"
  <2>1. f = Request("values", q.got, q.by) /\ q.got \in SUBSET Items
    BY <1>3 DEF Following, Answered
  <2> HIDE DEF f
  <2>2. f \in Requested /\ f.op = "values" /\ f.by = q.by
    BY <1>0, <2>1, RequestTyped
  <2> QED BY <1>3, <2>2 DEF f
<1>4. CASE q.by = "beat" /\ q.op \in {"node", "add"} /\ Ahead(n) = {}
  <2>1. f = Request("ids", {}, "beat")
    BY <1>4 DEF Following
  <2> HIDE DEF f
  <2>2. f \in Requested /\ f.op = "ids" /\ f.by = q.by
    BY <1>4, <2>1, RequestTyped
  <2> QED BY <1>4, <2>2 DEF f
<1>5. CASE q.by = "beat" /\ q.op \in {"node", "add"} /\ Ahead(n) # {}
  <2>1. f = Request("set", {NextItem(n)}, "beat")
    BY <1>5 DEF Following
  <2> HIDE DEF f
  <2>2. NextItem(n) \in Held(n) /\ {NextItem(n)} \in SUBSET Items
    BY <1>5, NextIsHeld, HeldTyped
  <2>3. f \in Requested /\ f.op = "set" /\ f.of = {NextItem(n)} /\ f.by = q.by
    BY <1>5, <2>1, <2>2, RequestTyped
  <2> QED BY <1>5, <2>2, <2>3 DEF f
<1>6. CASE q.op \notin {"set", "del", "ids"} /\ ~(q.by = "beat" /\ q.op \in {"node", "add"})
  <2>1. f = NoRequest
    BY <1>6 DEF Following
  <2> HIDE DEF f
  <2>2. f.op = "none"
    BY <2>1 DEF NoRequest, Request
  <2> QED BY <1>6, <2>1, <2>2 DEF f
<1> QED BY <1>1, <1>2, <1>3, <1>4, <1>5, <1>6

(* What follows the first replies: the answered ones each once, removals   *)
(* first.                                                                  *)
LEMMA RequestsFollow ==
  ASSUME TypeOK, NEW n \in Nodes, NEW k \in 1 .. Len(replies[n]), NEW at \in Orders(n, k)
  PROVE  /\ Requests(n, at) \in Seq(Requested)
         /\ \A p \in 1 .. Len(Requests(n, at)) :
              /\ at[p] \in 1 .. k
              /\ Requests(n, at)[p] = Following(n, replies[n][at[p]])
              /\ Requests(n, at)[p] # NoRequest
         /\ \A j \in 1 .. k : Following(n, replies[n][j]) # NoRequest =>
              \E p \in 1 .. Len(Requests(n, at)) : at[p] = j
         /\ \A p, q \in 1 .. Len(Requests(n, at)) : p < q => Sooner(n, at[p], at[q])
<1> DEFINE answered == {j \in 1 .. k : Following(n, replies[n][j]) # NoRequest}
           c == Cardinality(answered)
           next == Requests(n, at)
<1>0. k \in Nat /\ k <= Len(replies[n])
  BY WireTyped
<1>1. IsFiniteSet(answered) /\ c \in Nat
  <2>1. IsFiniteSet(1 .. k)
    BY <1>0, FS_Interval
  <2>2. answered \subseteq 1 .. k
    OBVIOUS
  <2> HIDE DEF answered
  <2> QED BY <2>1, <2>2, FS_Subset, FS_CardinalityType
<1>2. /\ at \in Bijection(1 .. c, answered)
      /\ \A p, q \in DOMAIN at : p < q => Sooner(n, at[p], at[q])
  BY DEF Orders
<1> HIDE DEF c
<1>3. at \in [1 .. c -> answered] /\ \A j \in answered : \E p \in 1 .. c : at[p] = j
  BY <1>2 DEF Bijection, Injection, Surjection
<1>4. DOMAIN at = 1 .. c /\ \A p \in 1 .. c : at[p] \in answered
  BY <1>3
<1>5. next = [p \in 1 .. c |-> Following(n, replies[n][at[p]])]
  BY <1>4 DEF Requests
<1>6. \A p \in 1 .. c : Following(n, replies[n][at[p]]) \in Requested
  <2> SUFFICES ASSUME NEW p \in 1 .. c PROVE Following(n, replies[n][at[p]]) \in Requested
    OBVIOUS
  <2>1. at[p] \in 1 .. Len(replies[n]) /\ Following(n, replies[n][at[p]]) # NoRequest
    BY <1>0, <1>4, WireTyped
  <2> QED BY <2>1, WireTyped, FollowingTyped
<1> HIDE DEF next
<1>7. next \in [1 .. c -> Requested]
  BY <1>5, <1>6
<1>8. next \in Seq(Requested) /\ Len(next) = c
  BY <1>1, <1>7
<1> QED BY <1>2, <1>3, <1>4, <1>5, <1>8 DEF next

-----------------------------------------------------------------------------
(* Types                                                                   *)

LEMMA CacheTyped ==
  ASSUME TypeOK, NEW n \in Nodes, NEW k \in 1 .. Len(replies[n])
  PROVE  CacheAfter(n, k) \in SUBSET (Items \X Nodes)
<1>0. k \in Nat /\ k <= Len(replies[n])
  BY WireTyped
<1>1. Lists(n, k) \in SUBSET (1 .. k) /\ \A j \in 1 .. k : j \in 1 .. Len(replies[n])
  BY <1>0, WireTyped DEF Lists
<1>2. ASSUME Lists(n, k) # {} PROVE LastList(n, k) \subseteq Items \X Nodes
  <2>1. \E j \in Lists(n, k) : \A l \in Lists(n, k) : l <= j
    BY <1>0, <1>1, <1>2, GreatestNumber
  <2>2. PICK j \in Lists(n, k) : LastList(n, k) = replies[n][j].got
    BY <2>1 DEF LastList
  <2>3. replies[n][j].op = "values" /\ j \in 1 .. Len(replies[n])
    BY <1>1, <2>2 DEF Lists
  <2> QED BY <2>2, <2>3, WireTyped DEF Answered
<1>3. SavedByBeat(n, k) \subseteq Items
  <2>1. \A j \in 1 .. k : replies[n][j].of \subseteq Items
    BY <1>1, WireTyped DEF Requested
  <2> QED BY <2>1 DEF SavedByBeat
<1>4. cache[n] \subseteq Items \X Nodes
  BY DEF TypeOK
<1>5. \A i \in SavedByBeat(n, k) : Record(n, i) \in Items \X Nodes
  BY <1>3 DEF Record
<1> QED BY <1>2, <1>4, <1>5 DEF CacheAfter

LEMMA SendTyped ==
  ASSUME TypeOK, NEW n \in Nodes, NEW t \in Seq(Requested), sent' = [sent EXCEPT ![n] = @ \o t]
  PROVE  /\ sent' \in [Nodes -> Seq(Requested)] /\ sent'[n] = sent[n] \o t
         /\ \A m \in Nodes \ {n} : sent'[m] = sent[m]
<1>1. sent[n] \o t \in Seq(Requested)
  BY WireTyped, JoinedAt
<1> QED BY <1>1 DEF TypeOK

LEMMA SendOneTyped ==
  ASSUME TypeOK, NEW n \in Nodes, NEW e \in Requested, sent' = [sent EXCEPT ![n] = Append(@, e)]
  PROVE  /\ sent' = [sent EXCEPT ![n] = @ \o <<e>>]
         /\ <<e>> \in Seq(Requested)
         /\ sent' \in [Nodes -> Seq(Requested)]
<1>1. Append(sent[n], e) = sent[n] \o <<e>> /\ <<e>> \in Seq(Requested)
  BY WireTyped, OneRequest
<1>2. sent' = [sent EXCEPT ![n] = @ \o <<e>>]
  BY <1>1 DEF TypeOK
<1> QED BY <1>1, <1>2, SendTyped

(* Removing an item leaves the others, each once. *)
LEMMA RemoveHeld ==
  ASSUME NEW s \in Seq(Items), IsInjective(s), NEW p \in 1 .. Len(s)
  PROVE  /\ RemoveAt(s, p) \in Seq(Items) /\ IsInjective(RemoveAt(s, p))
         /\ ToSet(RemoveAt(s, p)) = ToSet(s) \ {s[p]}
<1> DEFINE r == RemoveAt(s, p)
           N == Len(s)
<1>1. /\ N \in Nat /\ DOMAIN s = 1 .. N /\ \A l \in 1 .. N : s[l] \in Items
  BY LenProperties, ElementOfSeq
<1>2. /\ SubSeq(s, 1, p - 1) \in Seq(Items) /\ Len(SubSeq(s, 1, p - 1)) = p - 1
      /\ \A l \in 1 .. p - 1 : SubSeq(s, 1, p - 1)[l] = s[l]
  <2>1. \A l \in 1 .. p - 1 : s[l] \in Items
    BY <1>1
  <2>2. /\ SubSeq(s, 1, p - 1) \in Seq(Items)
        /\ Len(SubSeq(s, 1, p - 1)) = IF 1 <= p - 1 THEN (p - 1) - 1 + 1 ELSE 0
        /\ \A l \in 1 .. (p - 1) - 1 + 1 : SubSeq(s, 1, p - 1)[l] = s[1 + l - 1]
    BY <2>1, SubSeqProperties
  <2> QED BY <1>1, <2>2
<1>3. /\ SubSeq(s, p + 1, N) \in Seq(Items) /\ Len(SubSeq(s, p + 1, N)) = N - p
      /\ \A l \in 1 .. N - p : SubSeq(s, p + 1, N)[l] = s[p + l]
  <2>1. \A l \in p + 1 .. N : s[l] \in Items
    BY <1>1
  <2>2. /\ SubSeq(s, p + 1, N) \in Seq(Items)
        /\ Len(SubSeq(s, p + 1, N)) = IF p + 1 <= N THEN N - (p + 1) + 1 ELSE 0
        /\ \A l \in 1 .. N - (p + 1) + 1 : SubSeq(s, p + 1, N)[l] = s[p + 1 + l - 1]
    BY <1>1, <2>1, SubSeqProperties
  <2>a. N \in Nat /\ p \in Nat /\ p <= N
    BY <1>1
  <2> HIDE DEF N
  <2>3. N - (p + 1) + 1 = N - p /\ (~(p + 1 <= N) => N - p = 0)
    BY <2>a
  <2>4. \A l \in 1 .. N - p : p + 1 + l - 1 = p + l
    BY <1>1
  <2> QED BY <2>2, <2>3, <2>4
<1>4. /\ r \in Seq(Items) /\ Len(r) = N - 1
      /\ \A l \in 1 .. N - 1 : r[l] = s[IF l < p THEN l ELSE l + 1]
  <2>1. r = SubSeq(s, 1, p - 1) \o SubSeq(s, p + 1, N)
    BY DEF RemoveAt
  <2>2. /\ r \in Seq(Items) /\ Len(r) = (p - 1) + (N - p)
        /\ \A l \in 1 .. (p - 1) + (N - p) :
             r[l] = IF l <= p - 1 THEN SubSeq(s, 1, p - 1)[l] ELSE SubSeq(s, p + 1, N)[l - (p - 1)]
    <3> DEFINE x == SubSeq(s, 1, p - 1)
               y == SubSeq(s, p + 1, N)
    <3>1. x \in Seq(Items) /\ y \in Seq(Items) /\ Len(x) = p - 1 /\ Len(y) = N - p /\ r = x \o y
      BY <1>2, <1>3, <2>1
    <3> HIDE DEF x, y, r, N
    <3>2. /\ r \in Seq(Items) /\ Len(r) = Len(x) + Len(y)
          /\ \A l \in 1 .. Len(x) + Len(y) : r[l] = IF l <= Len(x) THEN x[l] ELSE y[l - Len(x)]
      BY <3>1, ConcatProperties
    <3>3. /\ r \in Seq(Items) /\ Len(r) = (p - 1) + (N - p)
          /\ \A l \in 1 .. (p - 1) + (N - p) : r[l] = IF l <= p - 1 THEN x[l] ELSE y[l - (p - 1)]
      BY <3>1, <3>2
    <3> QED BY <3>3 DEF x, y
  <2> HIDE DEF r, N
  <2>3. (p - 1) + (N - p) = N - 1
    BY <1>1
  <2>4. ASSUME NEW l \in 1 .. N - 1, l < p PROVE r[l] = s[l]
    <3>1. l <= p - 1 /\ l \in 1 .. p - 1
      BY <1>1, <2>4
    <3> QED BY <1>2, <2>2, <2>3, <3>1
  <2>5. ASSUME NEW l \in 1 .. N - 1, ~(l < p) PROVE r[l] = s[l + 1]
    <3>1. ~(l <= p - 1) /\ l - (p - 1) \in 1 .. N - p /\ p + (l - (p - 1)) = l + 1
      BY <1>1, <2>5
    <3> QED BY <1>3, <2>2, <2>3, <3>1
  <2> QED BY <2>2, <2>3, <2>4, <2>5
<1> HIDE DEF r, N
<1>5. DOMAIN r = 1 .. N - 1
  BY <1>4, LenProperties
<1>6. IsInjective(r)
  <2> SUFFICES ASSUME NEW a \in 1 .. N - 1, NEW b \in 1 .. N - 1, r[a] = r[b] PROVE a = b
    BY <1>5 DEF IsInjective
  <2> DEFINE x == IF a < p THEN a ELSE a + 1
             y == IF b < p THEN b ELSE b + 1
  <2>1. x \in 1 .. N /\ y \in 1 .. N
    BY <1>1
  <2>2. s[x] = s[y]
    BY <1>4
  <2>3. x = y
    <3> HIDE DEF x, y
    <3> QED BY <1>1, <2>1, <2>2 DEF IsInjective
  <2> QED BY <1>1, <2>3
<1>7. ToSet(r) \subseteq ToSet(s) \ {s[p]}
  <2> SUFFICES ASSUME NEW a \in 1 .. N - 1 PROVE r[a] \in ToSet(s) \ {s[p]}
    BY <1>5 DEF ToSet
  <2> DEFINE x == IF a < p THEN a ELSE a + 1
  <2>1. x \in 1 .. N /\ x # p /\ p \in 1 .. N
    BY <1>1 DEF N
  <2>2. r[a] = s[x]
    BY <1>4
  <2> HIDE DEF x
  <2> QED BY <1>1, <2>1, <2>2 DEF IsInjective, ToSet
<1>8. ToSet(s) \ {s[p]} \subseteq ToSet(r)
  <2> SUFFICES ASSUME NEW x \in 1 .. N, x # p PROVE s[x] \in ToSet(r)
    BY <1>1 DEF ToSet
  <2> DEFINE a == IF x < p THEN x ELSE x - 1
  <2>1. a \in 1 .. N - 1 /\ x = IF a < p THEN a ELSE a + 1
    BY <1>1 DEF N
  <2> HIDE DEF a
  <2> QED BY <1>4, <1>5, <2>1 DEF ToSet
<1> QED BY <1>4, <1>6, <1>7, <1>8 DEF r

LEMMA AppendHeld ==
  ASSUME NEW s \in Seq(Items), IsInjective(s), NEW i \in Items, i \notin ToSet(s)
  PROVE  /\ Append(s, i) \in Seq(Items) /\ IsInjective(Append(s, i))
         /\ ToSet(Append(s, i)) = ToSet(s) \cup {i}
<1> DEFINE r == Append(s, i)
<1>1. /\ r \in Seq(Items) /\ Len(r) = Len(s) + 1
      /\ \A p \in 1 .. Len(s) : r[p] = s[p]
      /\ r[Len(s) + 1] = i
  BY AppendProperties
<1> HIDE DEF r
<1>2. Len(s) \in Nat /\ DOMAIN s = 1 .. Len(s) /\ DOMAIN r = 1 .. Len(s) + 1
  BY <1>1, LenProperties
<1>3. \A p \in 1 .. Len(s) + 1 : p \in 1 .. Len(s) \/ p = Len(s) + 1
  BY <1>2
<1>4. \A p \in 1 .. Len(s) : s[p] # i /\ p \in 1 .. Len(s) + 1
  BY <1>2 DEF ToSet
<1>5. IsInjective(r)
  <2> SUFFICES ASSUME NEW a \in 1 .. Len(s) + 1, NEW b \in 1 .. Len(s) + 1, r[a] = r[b] PROVE a = b
    BY <1>2 DEF IsInjective
  <2>1. CASE a \in 1 .. Len(s) /\ b \in 1 .. Len(s)
    BY <1>1, <1>2, <2>1 DEF IsInjective
  <2>2. CASE a = Len(s) + 1 \/ b = Len(s) + 1
    BY <1>1, <1>3, <1>4, <2>2
  <2> QED BY <1>3, <2>1, <2>2
<1>6. ToSet(r) = ToSet(s) \cup {i}
  <2>1. Len(s) + 1 \in 1 .. Len(s) + 1
    BY <1>2
  <2> QED BY <1>1, <1>2, <1>3, <1>4, <2>1 DEF ToSet
<1> QED BY <1>1, <1>5, <1>6 DEF r

Typed == TypeOK /\ count.failures <= count.ends

LEMMA TypedInit == Init => Typed
<1> SUFFICES ASSUME Init PROVE Typed
  OBVIOUS
<1>1. Ttl \in Nat /\ MaxOpens \in Nat /\ MaxEnds \in Nat
  BY ClusterAssumption
<1>2. \A n \in Nodes : held[n] = <<>> /\ sent[n] = <<>> /\ replies[n] = <<>>
  BY DEF Init
<1>3. held \in [Nodes -> Seq(Items)] /\ \A n \in Nodes : IsInjective(held[n])
  BY <1>2 DEF Init, IsInjective
<1>4. sent \in [Nodes -> Seq(Requested)] /\ replies \in [Nodes -> Seq({q \in Requested : Answered(q)})]
  BY DEF Init
<1> QED BY <1>1, <1>3, <1>4 DEF Init, Typed, TypeOK

LEMMA HostingTyped ==
  ASSUME Typed, NEW n \in Nodes, Hosting(n)
  PROVE  Typed'
<1>0. TypeOK /\ count.failures <= count.ends /\ Ttl \in Nat /\ MaxOpens \in Nat /\ MaxEnds \in Nat
  BY ClusterAssumption DEF Typed
<1>c. /\ count \in [opens : 0 .. MaxOpens, ends : 0 .. MaxEnds, failures : 0 .. MaxEnds]
      /\ count.opens \in 0 .. MaxOpens /\ count.ends \in 0 .. MaxEnds /\ count.failures \in 0 .. MaxEnds
  BY <1>0 DEF TypeOK
<1>1. ASSUME NEW i \in Items, Open(n, i) PROVE Typed'
  <2>1. Append(held[n], i) \in Seq(Items) /\ IsInjective(Append(held[n], i))
    BY <1>0, <1>1, AppendHeld, HeldTyped DEF Open
  <2>2. held' \in [Nodes -> Seq(Items)] /\ \A m \in Nodes : IsInjective(held'[m])
    BY <1>0, <1>1, <2>1 DEF Open, TypeOK
  <2>3. Request("set", {i}, "own") \in Requested
    BY RequestTyped
  <2>4. sent' \in [Nodes -> Seq(Requested)]
    BY <1>0, <1>1, <2>3, SendOneTyped DEF Open
  <2>5. cache' \in [Nodes -> SUBSET (Items \X Nodes)]
    BY <1>0, <1>1 DEF Open, TypeOK, Record
  <2>6. opener' \in [Items -> Nodes \cup {Nobody, Lost}]
    BY <1>0, <1>1 DEF Open, TypeOK
  <2>7. /\ count' \in [opens : 0 .. MaxOpens, ends : 0 .. MaxEnds, failures : 0 .. MaxEnds]
        /\ count'.failures <= count'.ends
    <3>1. count' = [count EXCEPT !.opens = count.opens + 1] /\ count.opens + 1 \in 0 .. MaxOpens
      BY <1>0, <1>1, <1>c DEF Open
    <3> QED BY <1>0, <1>c, <3>1
  <2>8. UNCHANGED <<up, beat, heard, replies, store>>
    BY <1>1 DEF Open
  <2> QED BY <1>0, <2>2, <2>4, <2>5, <2>6, <2>7, <2>8 DEF Typed, TypeOK
<1>2. ASSUME NEW i \in Items, Forget(n, i) PROVE Typed'
  <2>1. PICK p \in 1 .. Len(held[n]) : held' = [held EXCEPT ![n] = RemoveAt(@, p)]
    BY <1>2 DEF Forget
  <2>2. RemoveAt(held[n], p) \in Seq(Items) /\ IsInjective(RemoveAt(held[n], p))
    BY <1>0, RemoveHeld, HeldTyped
  <2>3. held' \in [Nodes -> Seq(Items)] /\ \A m \in Nodes : IsInjective(held'[m])
    BY <1>0, <2>1, <2>2 DEF TypeOK
  <2>4. Request("del", {i}, "own") \in Requested
    BY RequestTyped
  <2>5. sent' \in [Nodes -> Seq(Requested)]
    BY <1>0, <1>2, <2>4, SendOneTyped DEF Forget
  <2>6. cache' \in [Nodes -> SUBSET (Items \X Nodes)]
    BY <1>0, <1>2 DEF Forget, TypeOK
  <2>7. beat' \in [Nodes -> [visited : SUBSET Items, age : 0 .. Ttl]]
    <3>1. beat[n] \in [visited : SUBSET Items, age : 0 .. Ttl] /\ beat \in [Nodes -> [visited : SUBSET Items, age : 0 .. Ttl]]
      BY <1>0 DEF TypeOK
    <3>2. [beat[n] EXCEPT !.visited = @ \ {i}] \in [visited : SUBSET Items, age : 0 .. Ttl]
      BY <3>1
    <3> QED BY <1>2, <3>1, <3>2 DEF Forget
  <2>8. UNCHANGED <<up, heard, replies, store, opener, count>>
    BY <1>2 DEF Forget
  <2> QED BY <1>0, <2>3, <2>5, <2>6, <2>7, <2>8 DEF Typed, TypeOK
<1>3. ASSUME count.ends < MaxEnds, \/ count' = [count EXCEPT !.ends = @ + 1]
                                   \/ count' = [count EXCEPT !.ends = @ + 1, !.failures = @ + 1]
      PROVE  /\ count' \in [opens : 0 .. MaxOpens, ends : 0 .. MaxEnds, failures : 0 .. MaxEnds]
             /\ count'.failures <= count'.ends
  <2>1. count.ends + 1 \in 0 .. MaxEnds /\ count.failures + 1 \in 0 .. MaxEnds
    BY <1>0, <1>3, <1>c
  <2>2. CASE count' = [count EXCEPT !.ends = count.ends + 1]
    BY <1>0, <1>c, <2>1, <2>2
  <2>3. CASE count' = [count EXCEPT !.ends = count.ends + 1, !.failures = count.failures + 1]
    <3>1. count' \in [opens : 0 .. MaxOpens, ends : 0 .. MaxEnds, failures : 0 .. MaxEnds]
      BY <1>c, <2>1, <2>3
    <3>2. count'.failures = count.failures + 1 /\ count'.ends = count.ends + 1
      BY <1>c, <2>3
    <3> QED BY <1>0, <1>c, <3>1, <3>2
  <2> QED BY <1>3, <2>2, <2>3
<1>4. CASE Stop(n)
  <2> DEFINE dels == [j \in 1 .. Len(held[n]) |-> Request("del", {held[n][j]}, "own")]
             t == dels \o <<Request("unnode", {}, "stop")>>
  <2>1. dels \in Seq(Requested)
    <3>1. \A j \in 1 .. Len(held[n]) : {held[n][j]} \in SUBSET Items
      BY <1>0, HeldTyped
    <3>2. \A j \in 1 .. Len(held[n]) : Request("del", {held[n][j]}, "own") \in Requested
      BY <3>1, RequestTyped
    <3> QED BY <1>0, <3>2, HeldTyped
  <2>2. <<Request("unnode", {}, "stop")>> \in Seq(Requested)
    BY RequestTyped, OneRequest
  <2> HIDE DEF dels
  <2>3. sent[n] \o dels \in Seq(Requested)
    BY <1>0, <2>1, WireTyped, JoinedAt
  <2>4. sent[n] \o dels \o <<Request("unnode", {}, "stop")>> \in Seq(Requested)
    BY <2>2, <2>3, JoinedAt
  <2>5. sent' \in [Nodes -> Seq(Requested)]
    BY <1>0, <1>4, <2>4 DEF Stop, TypeOK, dels
  <2>6. held' \in [Nodes -> Seq(Items)] /\ \A m \in Nodes : IsInjective(held'[m])
    BY <1>0, <1>4 DEF Stop, TypeOK, IsInjective
  <2>7. cache' \in [Nodes -> SUBSET (Items \X Nodes)]
    BY <1>0, <1>4 DEF Stop, TypeOK
  <2>8. up' \in [Nodes -> {"starting", "up", "stopping", "stopped", "crashed"}]
    BY <1>0, <1>4 DEF Stop, TypeOK
  <2>9. UNCHANGED <<beat, heard, replies, store, opener>>
    BY <1>4 DEF Stop
  <2> QED BY <1>0, <1>3, <1>4, <2>5, <2>6, <2>7, <2>8, <2>9 DEF Typed, TypeOK, Stop
<1>5. ASSUME Ended(n)
      PROVE  /\ up' \in [Nodes -> {"starting", "up", "stopping", "stopped", "crashed"}]
             /\ held' \in [Nodes -> Seq(Items)] /\ \A m \in Nodes : IsInjective(held'[m])
             /\ cache' \in [Nodes -> SUBSET (Items \X Nodes)]
             /\ heard' \in [Nodes -> 0 .. Ttl]
             /\ replies' \in [Nodes -> Seq({q \in Requested : Answered(q)})]
             /\ opener' \in [Items -> Nodes \cup {Nobody, Lost}]
  <2>1. /\ up' \in [Nodes -> {"starting", "up", "stopping", "stopped", "crashed"}]
        /\ cache' \in [Nodes -> SUBSET (Items \X Nodes)]
        /\ heard' \in [Nodes -> 0 .. Ttl]
        /\ opener' \in [Items -> Nodes \cup {Nobody, Lost}]
    BY <1>0, <1>5 DEF Ended, TypeOK
  <2>2. held' \in [Nodes -> Seq(Items)] /\ \A m \in Nodes : IsInjective(held'[m])
    BY <1>0, <1>5 DEF Ended, TypeOK, IsInjective
  <2>3. replies' \in [Nodes -> Seq({q \in Requested : Answered(q)})]
    BY <1>0, <1>5 DEF Ended, TypeOK
  <2> QED BY <2>1, <2>2, <2>3
<1>6. CASE Crash(n)
  <2>1. PICK k \in 0 .. Len(sent[n]) : sent' = [sent EXCEPT ![n] = SubSeq(@, 1, k)]
    BY <1>6 DEF Crash
  <2>2. SubSeq(sent[n], 1, k) \in Seq(Requested)
    BY <1>0, WireTyped, FirstAt
  <2>3. sent' \in [Nodes -> Seq(Requested)]
    BY <1>0, <2>1, <2>2 DEF TypeOK
  <2> QED BY <1>0, <1>3, <1>5, <1>6, <2>3 DEF Typed, TypeOK, Crash
<1>7. CASE Restart(n)
  <2>1. /\ up' \in [Nodes -> {"starting", "up", "stopping", "stopped", "crashed"}]
        /\ cache' \in [Nodes -> SUBSET (Items \X Nodes)]
        /\ beat' \in [Nodes -> [visited : SUBSET Items, age : 0 .. Ttl]]
        /\ UNCHANGED <<held, heard, sent, replies, store, opener, count>>
    BY <1>0, <1>7 DEF Restart, TypeOK
  <2> QED BY <1>0, <2>1 DEF Typed, TypeOK
<1>8. CASE ConnectionFails(n)
  <2>1. sent' \in [Nodes -> Seq(Requested)] /\ UNCHANGED <<beat, store>>
    BY <1>0, <1>8 DEF ConnectionFails, TypeOK
  <2>2. CASE Ended(n)
    BY <1>0, <1>3, <1>5, <1>8, <2>1, <2>2 DEF Typed, TypeOK, ConnectionFails
  <2>3. CASE replies' = [replies EXCEPT ![n] = <<>>] /\ UNCHANGED <<up, held, cache, heard, opener>>
    <3>1. replies' \in [Nodes -> Seq({q \in Requested : Answered(q)})]
      BY <1>0, <2>3 DEF TypeOK
    <3> QED BY <1>0, <1>3, <1>8, <2>1, <2>3, <3>1 DEF Typed, TypeOK, ConnectionFails
  <2> QED BY <1>8, <2>2, <2>3 DEF ConnectionFails
<1>9. CASE Exit(n)
  <2>1. /\ up' \in [Nodes -> {"starting", "up", "stopping", "stopped", "crashed"}]
        /\ heard' \in [Nodes -> 0 .. Ttl]
    BY <1>0, <1>9 DEF Exit, TypeOK
  <2>2. held' \in [Nodes -> Seq(Items)] /\ \A m \in Nodes : IsInjective(held'[m])
    BY <1>0, <1>9 DEF Exit, TypeOK, IsInjective
  <2>3. replies' \in [Nodes -> Seq({q \in Requested : Answered(q)})]
    BY <1>0, <1>9 DEF Exit, TypeOK
  <2>4. UNCHANGED <<cache, beat, sent, store, opener, count>>
    BY <1>9 DEF Exit
  <2> QED BY <1>0, <2>1, <2>2, <2>3, <2>4 DEF Typed, TypeOK
<1> QED BY <1>1, <1>2, <1>4, <1>6, <1>7, <1>8, <1>9 DEF Hosting

LEMMA ReplyTyped ==
  ASSUME TypeOK, NEW q \in Requested
  PROVE  LET r == [q EXCEPT !.got = Got(store, q)] IN
         r \in Requested /\ Answered(r) /\ r.op = q.op /\ r.of = q.of /\ r.by = q.by
<1> DEFINE r == [q EXCEPT !.got = Got(store, q)]
<1>1. store.index \subseteq Items /\ store.items \in [Items -> Nodes \cup {Nobody}] /\ q.of \subseteq Items
  BY DEF TypeOK, Requested
<1>2. CASE q.op = "ids"
  <2>1. Got(store, q) = store.index
    BY <1>2 DEF Got
  <2> QED BY <1>1, <1>2, <2>1 DEF Requested, Answered
<1>3. CASE q.op = "values"
  <2> DEFINE there == {j \in q.of : store.items[j] # Nobody}
  <2>1. Got(store, q) = {<<i, store.items[i]>> : i \in there}
    BY <1>3 DEF Got
  <2>2. \A i \in there : <<i, store.items[i]>> \in Items \X Nodes
    BY <1>1
  <2> HIDE DEF there
  <2>3. Got(store, q) \subseteq Items \X Nodes
    BY <2>1, <2>2
  <2> HIDE DEF Got
  <2> QED BY <1>3, <2>3 DEF Requested, Answered
<1>4. CASE q.op \notin {"ids", "values"}
  <2>1. Got(store, q) = {}
    BY <1>4 DEF Got
  <2> QED BY <1>4, <2>1 DEF Requested, Answered
<1> QED BY <1>2, <1>3, <1>4

LEMMA AppliedTyped ==
  ASSUME TypeOK, NEW n \in Nodes, NEW q \in Requested
  PROVE  Applied(store, n, q) \in
           [items : [Items -> Nodes \cup {Nobody}], index : SUBSET Items, age : [Nodes -> 0 .. Ttl]]
<1>1. /\ store \in [items : [Items -> Nodes \cup {Nobody}], index : SUBSET Items, age : [Nodes -> 0 .. Ttl]]
      /\ Ttl \in Nat /\ q.of \subseteq Items
  BY ClusterAssumption DEF TypeOK, Requested
<1> QED BY <1>1 DEF Applied

LEMMA RedisTyped ==
  ASSUME Typed, NEW n \in Nodes, Redis(n)
  PROVE  Typed'
<1> DEFINE q == Head(sent[n])
           r == [q EXCEPT !.got = Got(store, q)]
           Replied == {x \in Requested : Answered(x)}
<1>0. TypeOK
  BY DEF Typed
<1>1. q \in Requested /\ Tail(sent[n]) \in Seq(Requested)
  BY <1>0, WireTyped, TailAt DEF Redis
<1>2. r \in Replied /\ store' \in [items : [Items -> Nodes \cup {Nobody}], index : SUBSET Items, age : [Nodes -> 0 .. Ttl]]
  BY <1>0, <1>1, ReplyTyped, AppliedTyped DEF Redis
<1>3. sent' \in [Nodes -> Seq(Requested)]
  BY <1>0, <1>1 DEF Redis, TypeOK
<1>4. replies' \in [Nodes -> Seq(Replied)]
  <2>1. replies' = [replies EXCEPT ![n] = IF up[n] \in {"stopped", "crashed"} THEN <<>> ELSE Append(@, r)]
    BY DEF Redis
  <2>2. replies \in [Nodes -> Seq(Replied)]
    BY <1>0 DEF TypeOK
  <2> HIDE DEF r, Replied
  <2>3. Append(replies[n], r) \in Seq(Replied)
    BY <1>2, <2>2, AppendProperties
  <2> QED BY <2>1, <2>2, <2>3
<1>5. UNCHANGED <<up, held, cache, beat, heard, opener, count>>
  BY DEF Redis
<1> QED BY <1>2, <1>3, <1>4, <1>5 DEF Typed, TypeOK

LEMMA ReceiveTyped ==
  ASSUME Typed, NEW n \in Nodes, NEW k \in 1 .. Len(replies[n]), NEW at \in Orders(n, k),
         Receive(n, k, Requests(n, at))
  PROVE  Typed'
<1> DEFINE next == Requests(n, at)
           Replied == {x \in Requested : Answered(x)}
<1>0. TypeOK /\ k \in 0 .. Len(replies[n]) /\ Ttl \in Nat
  BY WireTyped, ClusterAssumption DEF Typed
<1>1. next \in Seq(Requested)
  BY <1>0, RequestsFollow
<1>2. sent' \in [Nodes -> Seq(Requested)]
  BY <1>0, <1>1, SendTyped DEF Receive
<1>3. replies' \in [Nodes -> Seq(Replied)]
  <2>1. replies \in [Nodes -> Seq(Replied)]
    BY <1>0 DEF TypeOK
  <2> HIDE DEF Replied
  <2>2. SubSeq(replies[n], k + 1, Len(replies[n])) \in Seq(Replied)
    BY <1>0, <2>1, RestAt
  <2> QED BY <2>1, <2>2 DEF Receive
<1>4. cache' \in [Nodes -> SUBSET (Items \X Nodes)]
  BY <1>0, CacheTyped DEF Receive, TypeOK
<1>5. up' \in [Nodes -> {"starting", "up", "stopping", "stopped", "crashed"}]
  BY <1>0 DEF Receive, TypeOK
<1>6. heard' \in [Nodes -> 0 .. Ttl]
  <2>1. HeardAfter(n, k) \in 0 .. Ttl
    BY <1>0 DEF HeardAfter, TypeOK
  <2> QED BY <1>0, <2>1 DEF Receive, TypeOK
<1>7. beat' \in [Nodes -> [visited : SUBSET Items, age : 0 .. Ttl]]
  <2> DEFINE started == UNION {q.of : q \in {r \in ToSet(next) : r.op = "set"}}
  <2>1. started \subseteq Items
    <3>1. ToSet(next) \subseteq Requested
      <4>1. DOMAIN next = 1 .. Len(next) /\ \A p \in 1 .. Len(next) : next[p] \in Requested
        BY <1>1, LenProperties, ElementOfSeq
      <4> QED BY <4>1 DEF ToSet
    <3> HIDE DEF next
    <3> QED BY <3>1 DEF Requested
  <2>2. beat' = [beat EXCEPT ![n].visited = @ \cup started]
    BY DEF Receive
  <2> HIDE DEF started
  <2>3. beat \in [Nodes -> [visited : SUBSET Items, age : 0 .. Ttl]]
    BY <1>0 DEF TypeOK
  <2>4. [beat[n] EXCEPT !.visited = @ \cup started] \in [visited : SUBSET Items, age : 0 .. Ttl]
    BY <2>1, <2>3
  <2> QED BY <2>2, <2>3, <2>4
<1>8. UNCHANGED <<held, store, opener, count>>
  BY DEF Receive
<1> QED BY <1>0, <1>2, <1>3, <1>4, <1>5, <1>6, <1>7, <1>8 DEF Typed, TypeOK

LEMMA TickTyped ==
  ASSUME Typed, Tick
  PROVE  Typed'
<1>0. TypeOK /\ Ttl \in Nat
  BY ClusterAssumption DEF Typed
<1>1. \A a \in 0 .. Ttl : Min2(a + 1, Ttl) \in 0 .. Ttl
  BY <1>0 DEF Min2
<1>2. heard' \in [Nodes -> 0 .. Ttl]
  BY <1>0, <1>1 DEF Tick, TypeOK
<1>3. beat' \in [Nodes -> [visited : SUBSET Items, age : 0 .. Ttl]]
  <2>1. \A n \in Nodes : beat[n] \in [visited : SUBSET Items, age : 0 .. Ttl]
    BY <1>0 DEF TypeOK
  <2>2. \A n \in Nodes : [beat[n] EXCEPT !.age = Min2(@ + 1, Ttl)] \in [visited : SUBSET Items, age : 0 .. Ttl]
    BY <1>1, <2>1
  <2> QED BY <2>1, <2>2 DEF Tick
<1>4. store' \in [items : [Items -> Nodes \cup {Nobody}], index : SUBSET Items, age : [Nodes -> 0 .. Ttl]]
  BY <1>0, <1>1 DEF Tick, TypeOK
<1>5. UNCHANGED <<up, held, cache, sent, replies, opener, count>>
  BY DEF Tick
<1> QED BY <1>0, <1>2, <1>3, <1>4, <1>5 DEF Typed, TypeOK

LEMMA TypedStep == Typed /\ [Next]_vars => Typed'
<1> SUFFICES ASSUME Typed, [Next]_vars PROVE Typed'
  OBVIOUS
<1>0. TypeOK /\ Hosts \subseteq Nodes
  BY ClusterAssumption DEF Typed
<1>1. ASSUME NEW n \in Hosts, Hosting(n) PROVE Typed'
  BY <1>0, <1>1, HostingTyped
<1>2. ASSUME NEW n \in Nodes, Heartbeat(n) PROVE Typed'
  <2>1. Request("node", {}, "beat") \in Requested
    BY RequestTyped
  <2>2. sent' \in [Nodes -> Seq(Requested)]
    BY <1>0, <1>2, <2>1, SendOneTyped DEF Heartbeat
  <2>3. beat' \in [Nodes -> [visited : SUBSET Items, age : 0 .. Ttl]]
    BY <1>0, <1>2, ClusterAssumption DEF Heartbeat, TypeOK
  <2> QED BY <1>2, <2>2, <2>3 DEF Typed, TypeOK, Heartbeat
<1>3. ASSUME NEW n \in Nodes, Read(n) PROVE Typed'
  <2>1. Request("ids", {}, "read") \in Requested
    BY RequestTyped
  <2>2. sent' \in [Nodes -> Seq(Requested)]
    BY <1>0, <1>3, <2>1, SendOneTyped DEF Read
  <2> QED BY <1>3, <2>2 DEF Typed, TypeOK, Read
<1>4. ASSUME NEW n \in Nodes, SomeReceive(n) PROVE Typed'
  BY <1>4, ReceiveTyped DEF SomeReceive
<1>5. CASE UNCHANGED vars
  BY <1>5 DEF vars, Typed, TypeOK
<1> QED BY <1>1, <1>2, <1>3, <1>4, <1>5, RedisTyped, TickTyped DEF Next

LEMMA TypedAlways == Spec => []Typed
  BY TypedInit, TypedStep, PTL DEF Spec

(* The variables hold what their declarations say, and no item is held     *)
(* twice by a node: the replies hold items and owners, and what the        *)
(* heartbeat caches are records of items.                                  *)
THEOREM ClusterTyped == Spec => []TypeOK
<1>1. Typed => TypeOK
  BY DEF Typed
<1> QED BY <1>1, TypedAlways, PTL

-----------------------------------------------------------------------------
(* What is under way after a step                                          *)

LEMMA SendsOne ==
  ASSUME TypeOK, NEW n \in Nodes, NEW e \in Requested, sent' = [sent EXCEPT ![n] = Append(@, e)]
  PROVE  /\ ToSet(sent'[n]) = ToSet(sent[n]) \cup {e}
         /\ sent'[n] = sent[n] \o <<e>>
         /\ \A m \in Nodes \ {n} : sent'[m] = sent[m]
<1>1. sent[n] \in Seq(Requested) /\ <<e>> \in Seq(Requested) /\ ToSet(<<e>>) = {e}
  BY WireTyped, OneRequest
<1>2. sent' = [sent EXCEPT ![n] = @ \o <<e>>]
  BY SendOneTyped
<1>3. sent'[n] = sent[n] \o <<e>> /\ \A m \in Nodes \ {n} : sent'[m] = sent[m]
  BY <1>1, <1>2, SendTyped
<1>4. ToSet(sent[n] \o <<e>>) = ToSet(sent[n]) \cup ToSet(<<e>>)
  <2> DEFINE a == sent[n]
             b == <<e>>
  <2>1. a \in Seq(Requested) /\ b \in Seq(Requested)
    BY <1>1
  <2> HIDE DEF a, b
  <2>2. ToSet(a \o b) = ToSet(a) \cup ToSet(b)
    BY <2>1, JoinedSet
  <2> QED BY <2>2 DEF a, b
<1> QED BY <1>1, <1>3, <1>4

LEMMA CarriedOut ==
  ASSUME TypeOK, NEW n \in Nodes, Redis(n)
  PROVE  LET q == Head(sent[n])
             r == [q EXCEPT !.got = Got(store, q)]
         IN /\ q \in Requested /\ q \in ToSet(sent[n]) /\ store' = Applied(store, n, q)
            /\ r \in Requested /\ r.op = q.op /\ r.of = q.of /\ r.by = q.by
            /\ sent'[n] = Tail(sent[n])
            /\ ToSet(sent[n]) = {q} \cup ToSet(sent'[n])
            /\ replies'[n] = IF up[n] \in {"stopped", "crashed"} THEN <<>> ELSE replies[n] \o <<r>>
            /\ ToSet(replies'[n]) \subseteq ToSet(replies[n]) \cup {r}
            /\ \A m \in Nodes \ {n} : sent'[m] = sent[m] /\ replies'[m] = replies[m]
<1> DEFINE q == Head(sent[n])
           r == [q EXCEPT !.got = Got(store, q)]
<1>1. sent[n] \in Seq(Requested) /\ sent[n] # <<>> /\ replies[n] \in Seq(Requested)
  BY WireTyped DEF Redis
<1>2. q \in Requested /\ ToSet(sent[n]) = {q} \cup ToSet(Tail(sent[n]))
  BY <1>1, TailAt
<1>3. r \in Requested /\ r.op = q.op /\ r.of = q.of /\ r.by = q.by
  BY <1>2, ReplyTyped
<1>4. store' = Applied(store, n, q)
  BY DEF Redis
<1>5. sent'[n] = Tail(sent[n]) /\ \A m \in Nodes \ {n} : sent'[m] = sent[m]
  BY DEF Redis, TypeOK
<1>6. /\ replies'[n] = IF up[n] \in {"stopped", "crashed"} THEN <<>> ELSE Append(replies[n], r)
      /\ \A m \in Nodes \ {n} : replies'[m] = replies[m]
  BY DEF Redis, TypeOK
<1> HIDE DEF q, r
<1>7. /\ Append(replies[n], r) = replies[n] \o <<r>> /\ <<r>> \in Seq(Requested)
      /\ ToSet(replies[n] \o <<r>>) = ToSet(replies[n]) \cup {r}
  <2>1. <<r>> \in Seq(Requested) /\ ToSet(<<r>>) = {r} /\ Append(replies[n], r) = replies[n] \o <<r>>
    BY <1>1, <1>3, OneRequest
  <2>2. ToSet(replies[n] \o <<r>>) = ToSet(replies[n]) \cup ToSet(<<r>>)
    <3> DEFINE a == replies[n]
               b == <<r>>
    <3>1. a \in Seq(Requested) /\ b \in Seq(Requested)
      BY <1>1, <2>1
    <3> HIDE DEF a, b
    <3>2. ToSet(a \o b) = ToSet(a) \cup ToSet(b)
      BY <3>1, JoinedSet
    <3> QED BY <3>2 DEF a, b
  <2> QED BY <2>1, <2>2
<1>8. ToSet(<<>>) = {}
  BY DEF ToSet
<1>9. ToSet(replies'[n]) \subseteq ToSet(replies[n]) \cup {r}
  BY <1>6, <1>7, <1>8
<1> QED BY <1>2, <1>3, <1>4, <1>5, <1>6, <1>7, <1>9 DEF q, r

LEMMA Received ==
  ASSUME TypeOK, NEW n \in Nodes, NEW k \in 1 .. Len(replies[n]), NEW at \in Orders(n, k),
         Receive(n, k, Requests(n, at))
  PROVE  /\ sent'[n] = sent[n] \o Requests(n, at)
         /\ \A e \in ToSet(sent'[n]) :
              \/ e \in ToSet(sent[n])
              \/ \E q \in ToSet(replies[n]) :
                   q \in Requested /\ Answered(q) /\ e = Following(n, q) /\ e # NoRequest
         /\ ToSet(replies'[n]) \subseteq ToSet(replies[n])
         /\ \A m \in Nodes \ {n} : sent'[m] = sent[m] /\ replies'[m] = replies[m]
<1> DEFINE next == Requests(n, at)
<1>1. /\ sent[n] \in Seq(Requested) /\ replies[n] \in Seq(Requested) /\ next \in Seq(Requested)
      /\ Len(replies[n]) \in Nat /\ k \in 0 .. Len(replies[n])
      /\ DOMAIN replies[n] = 1 .. Len(replies[n])
  BY WireTyped, RequestsFollow, LenProperties
<1>2. sent'[n] = sent[n] \o next /\ \A m \in Nodes \ {n} : sent'[m] = sent[m]
  BY <1>1, SendTyped DEF Receive
<1>3. ToSet(sent'[n]) = ToSet(sent[n]) \cup ToSet(next)
  BY <1>1, <1>2, JoinedAt
<1>4. ASSUME NEW e \in ToSet(next)
      PROVE  \E q \in ToSet(replies[n]) :
               q \in Requested /\ Answered(q) /\ e = Following(n, q) /\ e # NoRequest
  <2>1. PICK p \in 1 .. Len(next) : e = next[p]
    <3>1. DOMAIN next = 1 .. Len(next)
      BY <1>1, LenProperties
    <3> QED BY <1>4, <3>1 DEF ToSet
  <2>2. at[p] \in 1 .. k /\ e = Following(n, replies[n][at[p]]) /\ e # NoRequest
    BY <2>1, RequestsFollow
  <2>3. at[p] \in 1 .. Len(replies[n])
    BY <1>1, <2>2
  <2>4. replies[n][at[p]] \in ToSet(replies[n]) /\ replies[n][at[p]] \in Requested /\ Answered(replies[n][at[p]])
    BY <1>1, <2>3, WireTyped DEF ToSet
  <2> QED BY <2>2, <2>4
<1>5. ToSet(SubSeq(replies[n], k + 1, Len(replies[n]))) \subseteq ToSet(replies[n])
  BY <1>1, RestAt
<1>6. /\ replies'[n] = SubSeq(replies[n], k + 1, Len(replies[n]))
      /\ \A m \in Nodes \ {n} : replies'[m] = replies[m]
  BY DEF Receive, TypeOK
<1> QED BY <1>2, <1>3, <1>4, <1>5, <1>6

LEMMA Stopped ==
  ASSUME TypeOK, NEW n \in Nodes, Stop(n)
  PROVE  \E dels \in Seq(Requested) :
           /\ sent'[n] = (sent[n] \o dels) \o <<Request("unnode", {}, "stop")>>
           /\ \A p \in 1 .. Len(dels) : dels[p] = Request("del", {held[n][p]}, "own")
           /\ Len(dels) = Len(held[n])
           /\ \A e \in ToSet(sent'[n]) : e \in ToSet(sent[n]) \/ e = Request("unnode", {}, "stop")
                                         \/ \E i \in Held(n) : e = Request("del", {i}, "own")
           /\ \A m \in Nodes \ {n} : sent'[m] = sent[m]
<1> DEFINE dels == [j \in 1 .. Len(held[n]) |-> Request("del", {held[n][j]}, "own")]
           u == Request("unnode", {}, "stop")
<1>1. sent[n] \in Seq(Requested) /\ u \in Requested /\ <<u>> \in Seq(Requested) /\ ToSet(<<u>>) = {u}
  BY WireTyped, RequestTyped, OneRequest
<1>2. dels \in Seq(Requested) /\ Len(dels) = Len(held[n])
  <2>1. \A j \in 1 .. Len(held[n]) : {held[n][j]} \in SUBSET Items
    BY HeldTyped
  <2>2. \A j \in 1 .. Len(held[n]) : Request("del", {held[n][j]}, "own") \in Requested
    BY <2>1, RequestTyped
  <2> QED BY <2>2, HeldTyped
<1>3. \A p \in 1 .. Len(dels) : dels[p] = Request("del", {held[n][p]}, "own")
  BY <1>2
<1>4. sent'[n] = (sent[n] \o dels) \o <<u>> /\ \A m \in Nodes \ {n} : sent'[m] = sent[m]
  BY DEF Stop, TypeOK
<1> HIDE DEF dels, u
<1>5. ToSet(sent'[n]) = ToSet(sent[n]) \cup ToSet(dels) \cup {u}
  <2> DEFINE x == sent[n] \o dels
             y == <<u>>
  <2>1. x \in Seq(Requested) /\ ToSet(x) = ToSet(sent[n]) \cup ToSet(dels) /\ sent'[n] = x \o y
    BY <1>1, <1>2, <1>4, JoinedSet
  <2>2. y \in Seq(Requested) /\ ToSet(y) = {u}
    BY <1>1
  <2> HIDE DEF x, y
  <2>3. ToSet(x \o y) = ToSet(x) \cup ToSet(y)
    BY <2>1, <2>2, JoinedSet
  <2> QED BY <2>1, <2>2, <2>3
<1>6. \A e \in ToSet(dels) : \E i \in Held(n) : e = Request("del", {i}, "own")
  <2>1. DOMAIN dels = 1 .. Len(dels)
    BY <1>2, LenProperties
  <2> QED BY <1>2, <1>3, <2>1, HeldTyped DEF ToSet
<1> QED BY <1>2, <1>3, <1>4, <1>5, <1>6 DEF u

LEMMA Dropped ==
  ASSUME TypeOK, NEW n \in Nodes, Crash(n) \/ ConnectionFails(n)
  PROVE  /\ ToSet(sent'[n]) \subseteq ToSet(sent[n]) /\ replies'[n] = <<>>
         /\ \A m \in Nodes \ {n} : sent'[m] = sent[m] /\ replies'[m] = replies[m]
<1>1. replies'[n] = <<>> /\ \A m \in Nodes \ {n} : replies'[m] = replies[m]
  BY DEF Crash, ConnectionFails, Ended, TypeOK
<1>2. CASE Crash(n)
  <2>1. PICK k \in 0 .. Len(sent[n]) : sent' = [sent EXCEPT ![n] = SubSeq(@, 1, k)]
    BY <1>2 DEF Crash
  <2>2. sent'[n] = SubSeq(sent[n], 1, k) /\ \A m \in Nodes \ {n} : sent'[m] = sent[m]
    BY <2>1 DEF TypeOK
  <2>3. ToSet(SubSeq(sent[n], 1, k)) \subseteq ToSet(sent[n])
    BY WireTyped, FirstAt
  <2> QED BY <1>1, <2>2, <2>3
<1>3. CASE ConnectionFails(n)
  <2>1. sent'[n] = <<>> /\ \A m \in Nodes \ {n} : sent'[m] = sent[m]
    BY <1>3 DEF ConnectionFails, TypeOK
  <2> QED BY <1>1, <2>1 DEF ToSet
<1> QED BY <1>2, <1>3

-----------------------------------------------------------------------------
(* The life of a node                                                      *)

(* The record of a node is removed when it stops, nothing is received when *)
(* it has ended, and only a node that is up or stopping holds anything.    *)
Stands(n) ==
  /\ \A q \in ToSet(sent[n]) \cup ToSet(replies[n]) : q.op = "unnode" => up[n] \notin {"starting", "up"}
  /\ up[n] \in {"stopped", "crashed"} => replies[n] = <<>>
  /\ held[n] # <<>> => Running(n)

LEMMA StandsInit == Init => \A n \in Nodes : Stands(n)
  BY DEF Init, Stands, ToSet

LEMMA HostingStands ==
  ASSUME TypeOK, NEW n \in Nodes, Stands(n), Hosting(n)
  PROVE  Stands(n)'
<1>a. /\ up[n] \in {"starting", "up", "stopping", "stopped", "crashed"}
      /\ up \in [Nodes -> {"starting", "up", "stopping", "stopped", "crashed"}]
      /\ held \in [Nodes -> Seq(Items)]
  BY DEF TypeOK
<1>1. ASSUME NEW i \in Items, Open(n, i) \/ Forget(n, i) PROVE Stands(n)'
  <2>1. PICK e \in {Request("set", {i}, "own"), Request("del", {i}, "own")} :
          sent' = [sent EXCEPT ![n] = Append(@, e)]
    BY <1>1 DEF Open, Forget
  <2>2. e \in Requested /\ e.op # "unnode"
    BY <2>1, RequestTyped
  <2>3. ToSet(sent'[n]) = ToSet(sent[n]) \cup {e}
    BY <2>1, <2>2, SendsOne
  <2>4. Running(n) /\ UNCHANGED <<up, replies>>
    BY <1>1 DEF Open, Forget
  <2> QED BY <2>2, <2>3, <2>4 DEF Stands, Running
<1>2. CASE Stop(n)
  <2>1. up'[n] = "stopping" /\ held'[n] = <<>>
    BY <1>2, <1>a DEF Stop
  <2> QED BY <2>1 DEF Stands
<1>3. CASE Crash(n) \/ ConnectionFails(n)
  <2>1. ToSet(sent'[n]) \subseteq ToSet(sent[n]) /\ replies'[n] = <<>> /\ ToSet(<<>>) = {}
    BY <1>3, Dropped DEF ToSet
  <2>2. CASE Ended(n)
    <3>1. up'[n] = "crashed" /\ held'[n] = <<>>
      BY <1>a, <2>2 DEF Ended
    <3> QED BY <2>1, <3>1 DEF Stands
  <2>3. CASE UNCHANGED <<up, held>>
    BY <2>1, <2>3 DEF Stands, Running
  <2> QED BY <1>3, <2>2, <2>3 DEF Crash, ConnectionFails
<1>4. CASE Restart(n)
  <2>1. sent'[n] = <<>> /\ replies'[n] = <<>> /\ held'[n] = <<>> /\ ToSet(<<>>) = {}
    BY <1>4 DEF Restart, Stands, Running, ToSet
  <2>2. up'[n] = "starting"
    BY <1>4, <1>a DEF Restart
  <2> QED BY <2>1, <2>2 DEF Stands
<1>5. CASE Exit(n)
  <2>1. up'[n] = "stopped" /\ held'[n] = <<>> /\ replies'[n] = <<>>
    BY <1>5, <1>a DEF Exit, TypeOK
  <2> QED BY <2>1 DEF Stands
<1> QED BY <1>1, <1>2, <1>3, <1>4, <1>5 DEF Hosting

LEMMA ReceiveStands ==
  ASSUME TypeOK, NEW n \in Nodes, Stands(n),
         NEW k \in 1 .. Len(replies[n]), NEW at \in Orders(n, k), Receive(n, k, Requests(n, at))
  PROVE  Stands(n)'
<1> DEFINE begun == up[n] = "starting" /\ \E j \in 1 .. k : replies[n][j].op = "values"
<1>1. up'[n] = (IF begun THEN "up" ELSE up[n]) /\ UNCHANGED held
  BY DEF Receive, TypeOK
<1>3. up[n] \notin {"stopped", "crashed"}
  <2>1. replies[n] # <<>>
    BY WireTyped, EmptySeq
  <2> QED BY <2>1 DEF Stands
<1>4. \A q \in ToSet(sent'[n]) \cup ToSet(replies'[n]) : q.op = "unnode" =>
        q \in ToSet(sent[n]) \cup ToSet(replies[n])
  <2>1. \A q \in Requested : Answered(q) => Following(n, q).op # "unnode"
    BY FollowingTyped
  <2>2. /\ \A e \in ToSet(sent'[n]) :
             \/ e \in ToSet(sent[n])
             \/ \E q \in ToSet(replies[n]) : q \in Requested /\ Answered(q) /\ e = Following(n, q)
        /\ ToSet(replies'[n]) \subseteq ToSet(replies[n])
    BY Received
  <2> QED BY <2>1, <2>2
<1>6. up[n] \in {"starting", "up", "stopping", "stopped", "crashed"}
  BY DEF TypeOK
<1>7. \A q \in ToSet(sent'[n]) \cup ToSet(replies'[n]) : q.op = "unnode" => up[n] = "stopping"
  BY <1>3, <1>4, <1>6 DEF Stands
<1>8. up[n] = "stopping" => up'[n] = "stopping"
  BY <1>1 DEF begun
<1>9. up'[n] \notin {"stopped", "crashed"}
  BY <1>1, <1>3
<1>10. held[n] # <<>> => up[n] \in {"up", "stopping"} /\ up'[n] = up[n]
  BY <1>1 DEF Stands, Running, begun
<1> QED BY <1>1, <1>7, <1>8, <1>9, <1>10 DEF Stands, Running

LEMMA RedisStands ==
  ASSUME TypeOK, NEW n \in Nodes, Stands(n), Redis(n)
  PROVE  Stands(n)'
<1>1. UNCHANGED <<up, held>>
  BY DEF Redis
<1>2. \A q \in ToSet(sent'[n]) \cup ToSet(replies'[n]) :
        \E o \in ToSet(sent[n]) \cup ToSet(replies[n]) : q.op = o.op
  <2> DEFINE o == Head(sent[n])
             r == [o EXCEPT !.got = Got(store, o)]
  <2>1. /\ o \in ToSet(sent[n]) /\ r.op = o.op /\ ToSet(sent[n]) = {o} \cup ToSet(sent'[n])
        /\ ToSet(replies'[n]) \subseteq ToSet(replies[n]) \cup {r}
    BY CarriedOut
  <2> HIDE DEF o, r
  <2> QED BY <2>1
<1>3. up[n] \in {"stopped", "crashed"} => replies'[n] = <<>>
  BY CarriedOut
<1> QED BY <1>1, <1>2, <1>3 DEF Stands, Running

LEMMA Elsewhere ==
  ASSUME TypeOK, NEW n \in Nodes, NEW m \in Nodes \ {n},
         Hosting(n) \/ Heartbeat(n) \/ Read(n) \/ SomeReceive(n) \/ Redis(n)
  PROVE  /\ up'[m] = up[m] /\ held'[m] = held[m] /\ heard'[m] = heard[m] /\ beat'[m] = beat[m]
         /\ sent'[m] = sent[m] /\ replies'[m] = replies[m]
<1>1. CASE Hosting(n)
  <2>1. CASE \E i \in Items : Open(n, i) \/ Forget(n, i)
    BY <2>1 DEF Open, Forget, TypeOK
  <2>2. CASE Stop(n)
    BY <2>2 DEF Stop, TypeOK
  <2>3. CASE Crash(n) \/ ConnectionFails(n)
    BY <2>3 DEF Crash, ConnectionFails, Ended, TypeOK
  <2>4. CASE Restart(n) \/ Exit(n)
    BY <2>4 DEF Restart, Exit, TypeOK
  <2> QED BY <1>1, <2>1, <2>2, <2>3, <2>4 DEF Hosting
<1>2. CASE Heartbeat(n) \/ Read(n)
  BY <1>2 DEF Heartbeat, Read, TypeOK
<1>3. CASE SomeReceive(n) \/ Redis(n)
  BY <1>3 DEF SomeReceive, Receive, Redis, TypeOK
<1> QED BY <1>1, <1>2, <1>3

LEMMA StandsStep ==
  ASSUME TypeOK, \A n \in Nodes : Stands(n), [Next]_vars, NEW m \in Nodes
  PROVE  Stands(m)'
<1>0. Stands(m) /\ Hosts \subseteq Nodes
  BY ClusterAssumption
<1>1. ASSUME NEW n \in Nodes, Hosting(n) \/ Heartbeat(n) \/ Read(n) \/ SomeReceive(n) \/ Redis(n), m # n
      PROVE  Stands(m)'
  <2>1. up'[m] = up[m] /\ held'[m] = held[m] /\ sent'[m] = sent[m] /\ replies'[m] = replies[m]
    BY <1>1, Elsewhere
  <2> QED BY <1>0, <2>1 DEF Stands, Running
<1>2. CASE Heartbeat(m) \/ Read(m)
  <2>1. PICK e \in {Request("node", {}, "beat"), Request("ids", {}, "read")} :
          sent' = [sent EXCEPT ![m] = Append(@, e)]
    BY <1>2 DEF Heartbeat, Read
  <2>2. e \in Requested /\ e.op # "unnode"
    BY <2>1, RequestTyped
  <2>3. ToSet(sent'[m]) = ToSet(sent[m]) \cup {e}
    BY <2>1, <2>2, SendsOne
  <2>4. UNCHANGED <<up, replies, held>>
    BY <1>2 DEF Heartbeat, Read
  <2> QED BY <1>0, <2>2, <2>3, <2>4 DEF Stands, Running
<1>3. CASE SomeReceive(m)
  BY <1>0, <1>3, ReceiveStands DEF SomeReceive
<1>4. CASE Tick \/ UNCHANGED vars
  BY <1>0, <1>4 DEF Tick, vars, Stands, Running
<1> QED BY <1>0, <1>1, <1>2, <1>3, <1>4, HostingStands, RedisStands DEF Next

-----------------------------------------------------------------------------
(* Readiness                                                               *)

(* The record of a node is as young as the heartbeat it heard last says,   *)
(* and once the heartbeat under way has renewed it, as young as that one.  *)
Renewed(n, Q) == (\E q \in Q : q.by = "beat") => store.age[n] <= beat[n].age

Clock(n) ==
  /\ up[n] \in {"starting", "stopped", "crashed"} => heard[n] = Ttl
  /\ up[n] \in {"starting", "up"} =>
       /\ heard[n] < Ttl => store.age[n] <= heard[n]
       /\ Renewed(n, {q \in ToSet(sent[n]) : q.op # "node"})
       /\ Renewed(n, ToSet(replies[n]))

LEMMA ClockInit == Init => \A n \in Nodes : Clock(n)
<1> SUFFICES ASSUME Init, NEW n \in Nodes PROVE Clock(n)
  OBVIOUS
<1>1. heard[n] = Ttl /\ Ttl \in Nat /\ ToSet(sent[n]) = {} /\ ToSet(replies[n]) = {}
  BY ClusterAssumption DEF Init, ToSet
<1> QED BY <1>1 DEF Clock, Renewed

LEMMA HostingClock ==
  ASSUME TypeOK, NEW n \in Nodes, Stands(n), Clock(n), Hosting(n)
  PROVE  Clock(n)'
<1>a. /\ up[n] \in {"starting", "up", "stopping", "stopped", "crashed"}
      /\ up \in [Nodes -> {"starting", "up", "stopping", "stopped", "crashed"}]
      /\ heard \in [Nodes -> 0 .. Ttl] /\ Ttl \in Nat
  BY ClusterAssumption DEF TypeOK
<1>1. ASSUME NEW i \in Items, Open(n, i) \/ Forget(n, i) PROVE Clock(n)'
  <2>1. PICK e \in {Request("set", {i}, "own"), Request("del", {i}, "own")} :
          sent' = [sent EXCEPT ![n] = Append(@, e)]
    BY <1>1 DEF Open, Forget
  <2>2. e \in Requested /\ e.by = "own"
    BY <2>1, RequestTyped
  <2>3. ToSet(sent'[n]) = ToSet(sent[n]) \cup {e}
    BY <2>1, <2>2, SendsOne
  <2>4. UNCHANGED <<up, replies, heard, store>> /\ beat'[n].age = beat[n].age
    BY <1>1 DEF Open, Forget, TypeOK
  <2> QED BY <2>2, <2>3, <2>4 DEF Clock, Renewed
<1>2. CASE Stop(n)
  <2>1. up'[n] = "stopping"
    BY <1>2, <1>a DEF Stop
  <2> QED BY <2>1 DEF Clock
<1>3. CASE Crash(n) \/ ConnectionFails(n)
  <2>1. CASE Ended(n)
    <3>1. up'[n] = "crashed" /\ heard'[n] = Ttl
      BY <1>a, <2>1 DEF Ended
    <3> QED BY <3>1 DEF Clock
  <2>2. CASE UNCHANGED <<up, heard>>
    <3>1. ToSet(sent'[n]) \subseteq ToSet(sent[n]) /\ ToSet(replies'[n]) = {}
      BY <1>3, Dropped DEF ToSet
    <3>2. UNCHANGED <<beat, store>>
      BY <1>3 DEF Crash, ConnectionFails
    <3> QED BY <2>2, <3>1, <3>2 DEF Clock, Renewed
  <2> QED BY <1>3, <2>1, <2>2 DEF Crash, ConnectionFails
<1>4. CASE Restart(n)
  <2>1. /\ ToSet(sent'[n]) = {} /\ ToSet(replies'[n]) = {}
        /\ heard'[n] = Ttl /\ ~(heard'[n] < Ttl)
    BY <1>4, <1>a DEF Restart, Stands, Clock, ToSet
  <2> QED BY <2>1 DEF Clock, Renewed
<1>5. CASE Exit(n)
  <2>1. up'[n] = "stopped" /\ heard'[n] = Ttl
    BY <1>5, <1>a DEF Exit
  <2> QED BY <2>1 DEF Clock
<1> QED BY <1>1, <1>2, <1>3, <1>4, <1>5 DEF Hosting

LEMMA ReceiveClock ==
  ASSUME TypeOK, NEW n \in Nodes, Stands(n), Clock(n),
         NEW k \in 1 .. Len(replies[n]), NEW at \in Orders(n, k), Receive(n, k, Requests(n, at))
  PROVE  Clock(n)'
<1> DEFINE listed == \E j \in 1 .. k : replies[n][j].op = "values"
           ended == \E j \in 1 .. k : replies[n][j].op = "values" /\ replies[n][j].by = "beat"
<1>1. /\ up'[n] = IF up[n] = "starting" /\ listed THEN "up" ELSE up[n]
      /\ heard'[n] = IF ended THEN beat[n].age ELSE heard[n]
      /\ UNCHANGED store
  BY DEF Receive, HeardAfter, TypeOK
<1>a. beat'[n].age = beat[n].age
  BY DEF Receive, TypeOK
<1>2. \A j \in 1 .. k : replies[n][j] \in ToSet(replies[n])
  <2>1. \A j \in 1 .. k : j \in 1 .. Len(replies[n])
    BY WireTyped
  <2>2. DOMAIN replies[n] = 1 .. Len(replies[n])
    BY WireTyped, LenProperties
  <2> QED BY <2>1, <2>2 DEF ToSet
<1>3. up[n] \notin {"stopped", "crashed"} /\ up[n] \in {"starting", "up", "stopping", "stopped", "crashed"}
  <2>1. replies[n] # <<>>
    BY WireTyped, EmptySeq
  <2> QED BY <2>1 DEF Stands, TypeOK
<1>4. ended => \E q \in ToSet(replies[n]) : q.by = "beat"
  BY <1>2
<1>5. ended => listed
  OBVIOUS
<1>6. ASSUME NEW e \in ToSet(sent'[n]), e.by = "beat"
      PROVE  \/ e \in ToSet(sent[n])
             \/ \E q \in ToSet(replies[n]) : q.by = "beat"
  <2>1. \/ e \in ToSet(sent[n])
        \/ \E q \in ToSet(replies[n]) :
             q \in Requested /\ Answered(q) /\ e = Following(n, q) /\ e # NoRequest
    BY Received
  <2>2. \A q \in Requested : Answered(q) /\ Following(n, q) # NoRequest => Following(n, q).by = q.by
    BY FollowingTyped
  <2> QED BY <1>6, <2>1, <2>2
<1>7. ToSet(replies'[n]) \subseteq ToSet(replies[n])
  BY Received
<1> HIDE DEF listed, ended
<1>8. up'[n] = up[n] \/ (up[n] = "starting" /\ up'[n] = "up")
  BY <1>1
<1>9. up'[n] \in {"starting", "stopped", "crashed"} => heard'[n] = Ttl
  BY <1>1, <1>3, <1>5 DEF Clock
<1>10. ASSUME up'[n] \in {"starting", "up"} PROVE up[n] \in {"starting", "up"}
  BY <1>8, <1>10
<1>11. ASSUME up[n] \in {"starting", "up"}
       PROVE  Renewed(n, {q \in ToSet(sent[n]) : q.op # "node"}) /\ Renewed(n, ToSet(replies[n]))
              /\ (heard[n] < Ttl => store.age[n] <= heard[n])
  BY <1>11 DEF Clock
<1>12. ASSUME up[n] \in {"starting", "up"}, heard'[n] < Ttl PROVE store'.age[n] <= heard'[n]
  BY <1>1, <1>4, <1>11, <1>12 DEF Renewed
<1>13. ASSUME up[n] \in {"starting", "up"} PROVE Renewed(n, {q \in ToSet(sent[n]) : q.op # "node"})'
  <2> SUFFICES ASSUME NEW e \in ToSet(sent'[n]), e.op # "node", e.by = "beat" PROVE store.age[n] <= beat[n].age
    BY <1>1, <1>a DEF Renewed
  <2> QED BY <1>6, <1>11, <1>13 DEF Renewed
<1>14. ASSUME up[n] \in {"starting", "up"} PROVE Renewed(n, ToSet(replies[n]))'
  BY <1>1, <1>a, <1>7, <1>11, <1>14 DEF Renewed
<1> QED BY <1>9, <1>10, <1>12, <1>13, <1>14 DEF Clock

LEMMA RedisClock ==
  ASSUME TypeOK, NEW n \in Nodes, Stands(n), Clock(n), Redis(n)
  PROVE  Clock(n)'
<1> DEFINE q == Head(sent[n])
           r == [q EXCEPT !.got = Got(store, q)]
<1>1. /\ q \in Requested /\ q \in ToSet(sent[n]) /\ store' = Applied(store, n, q)
      /\ r.op = q.op /\ r.by = q.by
      /\ ToSet(sent'[n]) \subseteq ToSet(sent[n])
      /\ ToSet(replies'[n]) \subseteq ToSet(replies[n]) \cup {r}
  BY CarriedOut
<1>2. UNCHANGED <<up, heard, beat>>
  BY DEF Redis
<1>3. /\ Ttl \in Nat /\ heard[n] \in 0 .. Ttl /\ beat[n].age \in 0 .. Ttl /\ store.age[n] \in 0 .. Ttl
      /\ store.age \in [Nodes -> 0 .. Ttl]
      /\ store \in [items : [Items -> Nodes \cup {Nobody}], index : SUBSET Items, age : [Nodes -> 0 .. Ttl]]
  BY ClusterAssumption DEF TypeOK
<1> HIDE DEF q, r
<1>4. CASE q.op = "node"
  <2>1. store'.age[n] = 0
    BY <1>1, <1>3, <1>4 DEF Applied
  <2> QED BY <1>2, <1>3, <2>1 DEF Clock, Renewed
<1>5. CASE q.op = "unnode"
  <2>1. up[n] \notin {"starting", "up"}
    BY <1>1, <1>5 DEF Stands
  <2> QED BY <1>2, <2>1 DEF Clock
<1>6. CASE q.op \notin {"node", "unnode"}
  <2>1. store'.age = store.age
    BY <1>1, <1>3, <1>6 DEF Applied
  <2>2. ASSUME up[n] \in {"starting", "up"} PROVE Renewed(n, ToSet(replies[n]))'
    BY <1>1, <1>2, <1>6, <2>1, <2>2 DEF Clock, Renewed
  <2>3. ASSUME up[n] \in {"starting", "up"} PROVE Renewed(n, {o \in ToSet(sent[n]) : o.op # "node"})'
    BY <1>1, <1>2, <2>1, <2>3 DEF Clock, Renewed
  <2> QED BY <1>2, <2>1, <2>2, <2>3 DEF Clock
<1> QED BY <1>4, <1>5, <1>6

LEMMA TickClock ==
  ASSUME TypeOK, NEW n \in Nodes, Clock(n), Tick
  PROVE  Clock(n)'
<1>1. /\ Ttl \in Nat /\ heard[n] \in 0 .. Ttl /\ beat[n].age \in 0 .. Ttl /\ store.age[n] \in 0 .. Ttl
  BY ClusterAssumption DEF TypeOK
<1>2. UNCHANGED <<up, sent, replies>>
  BY DEF Tick
<1>3. \/ /\ store'.age[n] = Min2(store.age[n] + 1, Ttl) /\ heard'[n] = Min2(heard[n] + 1, Ttl)
         /\ beat'[n].age = Min2(beat[n].age + 1, Ttl)
      \/ store'.age[n] = store.age[n] /\ heard'[n] = heard[n] /\ beat'[n].age = beat[n].age
  BY DEF Tick, TypeOK
<1>4. \A a, b \in 0 .. Ttl : a <= b => Min2(a + 1, Ttl) <= Min2(b + 1, Ttl)
  BY <1>1 DEF Min2
<1>5. store.age[n] <= beat[n].age => store'.age[n] <= beat'[n].age
  BY <1>1, <1>3, <1>4
<1>6. heard'[n] < Ttl => heard[n] < Ttl
  BY <1>1, <1>3 DEF Min2
<1>7. store.age[n] <= heard[n] => store'.age[n] <= heard'[n]
  BY <1>1, <1>3, <1>4
<1>8. heard[n] = Ttl => heard'[n] = Ttl
  BY <1>1, <1>3 DEF Min2
<1> QED BY <1>2, <1>5, <1>6, <1>7, <1>8 DEF Clock, Renewed

LEMMA ClockStep ==
  ASSUME TypeOK, \A n \in Nodes : Stands(n) /\ Clock(n), [Next]_vars, NEW m \in Nodes
  PROVE  Clock(m)'
<1>0. Stands(m) /\ Clock(m) /\ Hosts \subseteq Nodes
  BY ClusterAssumption
<1>1. ASSUME NEW n \in Nodes, Hosting(n) \/ Heartbeat(n) \/ Read(n) \/ SomeReceive(n) \/ Redis(n), m # n
      PROVE  Clock(m)'
  <2>1. /\ up'[m] = up[m] /\ heard'[m] = heard[m] /\ beat'[m] = beat[m]
        /\ sent'[m] = sent[m] /\ replies'[m] = replies[m]
    BY <1>1, Elsewhere
  <2>2. store'.age[m] = store.age[m]
    <3>1. CASE Hosting(n) \/ Heartbeat(n) \/ Read(n) \/ SomeReceive(n)
      BY <3>1 DEF Hosting, Open, Forget, Stop, Exit, Crash, Restart, ConnectionFails, Heartbeat, Read, SomeReceive, Receive
    <3>2. CASE Redis(n)
      <4>1. store' = Applied(store, n, Head(sent[n]))
        BY <3>2 DEF Redis
      <4>2. store \in [items : [Items -> Nodes \cup {Nobody}], index : SUBSET Items, age : [Nodes -> 0 .. Ttl]]
        BY DEF TypeOK
      <4> QED BY <1>1, <4>1, <4>2 DEF Applied
    <3> QED BY <1>1, <3>1, <3>2
  <2> QED BY <1>0, <2>1, <2>2 DEF Clock, Renewed
<1>2. CASE Heartbeat(m)
  <2> DEFINE e == Request("node", {}, "beat")
  <2>1. e \in Requested /\ e.op = "node" /\ sent' = [sent EXCEPT ![m] = Append(@, e)]
    BY <1>2, RequestTyped DEF Heartbeat
  <2> HIDE DEF e
  <2>2. ToSet(sent'[m]) = ToSet(sent[m]) \cup {e}
    BY <2>1, SendsOne
  <2>3. UNCHANGED <<up, heard, replies, store>>
    BY <1>2 DEF Heartbeat
  <2>4. \A q \in ToSet(sent[m]) \cup ToSet(replies[m]) : q.by # "beat"
    BY <1>2 DEF Heartbeat, Busy, Wire
  <2> QED BY <1>0, <2>1, <2>2, <2>3, <2>4 DEF Clock, Renewed
<1>3. CASE Read(m)
  <2> DEFINE e == Request("ids", {}, "read")
  <2>1. e \in Requested /\ e.by = "read" /\ sent' = [sent EXCEPT ![m] = Append(@, e)]
    BY <1>3, RequestTyped DEF Read
  <2> HIDE DEF e
  <2>2. ToSet(sent'[m]) = ToSet(sent[m]) \cup {e}
    BY <2>1, SendsOne
  <2>3. UNCHANGED <<up, beat, heard, replies, store>>
    BY <1>3 DEF Read
  <2> QED BY <1>0, <2>1, <2>2, <2>3 DEF Clock, Renewed
<1>4. CASE SomeReceive(m)
  BY <1>0, <1>4, ReceiveClock DEF SomeReceive
<1>5. CASE UNCHANGED vars
  BY <1>0, <1>5 DEF vars, Clock, Renewed
<1> QED BY <1>0, <1>1, <1>2, <1>3, <1>4, <1>5, HostingClock, RedisClock, TickClock DEF Next

Living == \A n \in Nodes : Stands(n) /\ Clock(n)

LEMMA LivingAlways == Spec => []Living
<1>1. Init => Living
  BY StandsInit, ClockInit DEF Living
<1>2. TypeOK /\ Living /\ [Next]_vars => Living'
  BY StandsStep, ClockStep DEF Living
<1> QED BY <1>1, <1>2, ClusterTyped, PTL DEF Spec

(* While a node reports itself ready its record has not expired, whenever  *)
(* its heartbeats began and however long Redis took to answer them.        *)
THEOREM ReadyAlwaysKnown == Spec => []ReadyMeansKnown
<1>1. TypeOK /\ Living => ReadyMeansKnown
  <2> SUFFICES ASSUME TypeOK, Living, NEW n \in Nodes, Fresh(n) PROVE store.age[n] < Ttl
    BY DEF ReadyMeansKnown
  <2>1. up[n] = "up" /\ heard[n] < Ttl /\ store.age[n] <= heard[n]
    BY DEF Fresh, Living, Clock
  <2>2. Ttl \in Nat /\ heard[n] \in 0 .. Ttl /\ store.age[n] \in 0 .. Ttl
    BY ClusterAssumption DEF TypeOK
  <2> QED BY <2>1, <2>2
<1> QED BY <1>1, LivingAlways, ClusterTyped, PTL

-----------------------------------------------------------------------------
(* Who writes what                                                         *)

(* An item that only one node may hold is written by the node that opened  *)
(* it last, and by nobody else when that node ended; only removals are     *)
(* never the heartbeat's.  What a node that stops still holds was opened   *)
(* too late.                                                               *)
Owns(n) ==
  /\ \A q \in ToSet(sent[n]) \cup ToSet(replies[n]) :
       /\ q.op \in {"set", "del", "add", "rem"} => \A i \in q.of \ Shared : opener[i] \in {n, Lost}
       /\ q.op = "del" => q.by = "own"
  /\ \A i \in Held(n) \ Shared : opener[i] = IF up[n] = "up" THEN n ELSE Lost

Recorded == \A i \in Items \ Shared : store.items[i] # Nobody => opener[i] \in {store.items[i], Lost}

LEMMA OwnsInit == Init => Recorded /\ \A n \in Nodes : Owns(n)
  BY DEF Init, Owns, Recorded, Held, ToSet

(* An item changes hands only when it is opened for the first time and     *)
(* when the process that opened it ends, or is about to.                   *)
LEMMA OpenerStep ==
  ASSUME TypeOK, NEW n \in Nodes, NEW i \in Items \ Shared,
         Hosting(n) \/ Heartbeat(n) \/ Read(n) \/ SomeReceive(n) \/ Redis(n)
  PROVE  /\ opener[i] = n => opener'[i] \in {n, Lost}
         /\ opener[i] \notin {n, Nobody} => opener'[i] = opener[i]
         /\ opener[i] = Nobody => opener'[i] \in {n, Nobody, Lost}
<1>0. n # Nobody /\ n # Lost /\ Nobody # Lost /\ opener \in [Items -> Nodes \cup {Nobody, Lost}]
  BY ClusterAssumption DEF TypeOK
<1>1. ASSUME NEW j \in Items, Open(n, j)
      PROVE  opener'[i] = opener[i] \/ (opener[i] \in {Nobody, n} /\ opener'[i] \in {n, Lost})
  BY <1>0, <1>1 DEF Open
<1>2. CASE Ended(n)
  BY <1>0, <1>2 DEF Ended
<1>3. ASSUME UNCHANGED opener
      PROVE  opener'[i] = opener[i]
  BY <1>3
<1>4. \/ \E j \in Items : Open(n, j)
      \/ Ended(n)
      \/ UNCHANGED opener
  BY DEF Hosting, Forget, Stop, Exit, Crash, Restart, ConnectionFails, Heartbeat, Read, SomeReceive, Receive, Redis
<1> QED BY <1>0, <1>1, <1>2, <1>3, <1>4

LEMMA OwnsElsewhere ==
  ASSUME TypeOK, NEW n \in Nodes, NEW m \in Nodes \ {n}, Owns(m),
         Hosting(n) \/ Heartbeat(n) \/ Read(n) \/ SomeReceive(n) \/ Redis(n)
  PROVE  Owns(m)'
<1>1. sent'[m] = sent[m] /\ replies'[m] = replies[m] /\ Held(m)' = Held(m) /\ up'[m] = up[m]
  BY Elsewhere DEF Held
<1>2. ASSUME NEW i \in Items \ Shared PROVE /\ opener[i] \in {m, Lost} => opener'[i] \in {m, Lost}
                                            /\ opener[i] = m => opener'[i] = m
                                            /\ opener[i] = Lost => opener'[i] = Lost
  BY <1>2, OpenerStep, ClusterAssumption
<1>3. Held(m) \subseteq Items /\ \A q \in ToSet(sent[m]) \cup ToSet(replies[m]) : q.of \subseteq Items
  BY HeldTyped, WireTyped DEF Wire, Requested
<1> QED BY <1>1, <1>2, <1>3 DEF Owns

(* What a node sends on is about what it holds or has written before.      *)
LEMMA OwnsHere ==
  ASSUME TypeOK, NEW n \in Nodes, Stands(n), Owns(n),
         Hosting(n) \/ Heartbeat(n) \/ Read(n) \/ SomeReceive(n) \/ Redis(n)
  PROVE  Owns(n)'
<1> DEFINE Fine(q) ==
             /\ q.op \in {"set", "del", "add", "rem"} => \A i \in q.of \ Shared : opener[i] \in {n, Lost}
             /\ q.op = "del" => q.by = "own"
<1>0. \A i \in Items \ Shared : opener[i] \in {n, Lost} => opener'[i] \in {n, Lost}
  BY OpenerStep, ClusterAssumption
<1>a. \A q \in ToSet(sent[n]) \cup ToSet(replies[n]) : Fine(q) /\ q \in Requested
  BY WireTyped DEF Owns, Wire
<1>b. \A q \in Requested : q.of \subseteq Items
  BY DEF Requested
<1>c. Held(n) \subseteq Items
  BY HeldTyped
<1>d. ASSUME \A q \in ToSet(sent'[n]) \cup ToSet(replies'[n]) : Fine(q) /\ q.of \subseteq Items,
             Held(n)' \subseteq Held(n), \A i \in Held(n)' \ Shared : opener'[i] = opener[i],
             Held(n)' = {} \/ (up'[n] = "up" <=> up[n] = "up")
      PROVE  Owns(n)'
  BY <1>0, <1>d DEF Owns
<1>1. ASSUME NEW i \in Items, Open(n, i) PROVE Owns(n)'
  <2> DEFINE e == Request("set", {i}, "own")
  <2>1. e \in Requested /\ e.op = "set" /\ e.of = {i} /\ sent' = [sent EXCEPT ![n] = Append(@, e)]
    BY <1>1, RequestTyped DEF Open
  <2> HIDE DEF e
  <2>2. ToSet(sent'[n]) = ToSet(sent[n]) \cup {e} /\ replies' = replies
    BY <1>1, <2>1, SendsOne DEF Open
  <2>3. Held(n)' = Held(n) \cup {i}
    <3>1. held'[n] = Append(held[n], i) /\ i \notin Held(n)
      BY <1>1 DEF Open, TypeOK, Held
    <3> QED BY <3>1, AppendHeld, HeldTyped DEF Held
  <2>4. /\ opener'[i] = (IF up[n] = "up" THEN n ELSE Lost) /\ up' = up
        /\ \A j \in Items \ {i} : opener'[j] = opener[j]
    BY <1>1 DEF Open, TypeOK
  <2>5. \A q \in ToSet(sent[n]) \cup ToSet(replies[n]) :
          q.op \in {"set", "del", "add", "rem"} => \A j \in q.of \ Shared : opener'[j] \in {n, Lost}
    BY <1>0, <1>a, <1>b
  <2> QED BY <1>a, <1>c, <2>1, <2>2, <2>3, <2>4, <2>5 DEF Owns
<1>2. ASSUME NEW i \in Items, Forget(n, i) PROVE Owns(n)'
  <2> DEFINE e == Request("del", {i}, "own")
  <2>1. /\ e \in Requested /\ e.op = "del" /\ e.of = {i} /\ e.by = "own"
        /\ sent' = [sent EXCEPT ![n] = Append(@, e)]
    BY <1>2, RequestTyped DEF Forget
  <2> HIDE DEF e
  <2>2. ToSet(sent'[n]) = ToSet(sent[n]) \cup {e} /\ UNCHANGED <<up, replies, opener>>
    BY <1>2, <2>1, SendsOne DEF Forget
  <2>3. PICK p \in 1 .. Len(held[n]) : held[n][p] = i /\ held' = [held EXCEPT ![n] = RemoveAt(@, p)]
    BY <1>2 DEF Forget
  <2>4. Held(n)' \subseteq Held(n) /\ i \in Held(n)
    <3>1. held'[n] = RemoveAt(held[n], p)
      BY <2>3 DEF TypeOK
    <3> QED BY <2>3, <3>1, RemoveHeld, HeldTyped DEF Held
  <2>5. Fine(e)
    BY <2>1, <2>4 DEF Owns
  <2> HIDE DEF Fine
  <2> QED BY <1>a, <1>b, <1>d, <2>1, <2>2, <2>4, <2>5
<1>3. CASE Stop(n)
  <2>1. Held(n)' = {} /\ UNCHANGED <<replies, opener>>
    BY <1>3 DEF Stop, TypeOK, Held, ToSet
  <2>2. \A e \in ToSet(sent'[n]) : e \in ToSet(sent[n]) \/ e = Request("unnode", {}, "stop")
                                   \/ \E i \in Held(n) : e = Request("del", {i}, "own")
    BY <1>3, Stopped
  <2>3. Fine(Request("unnode", {}, "stop")) /\ Request("unnode", {}, "stop") \in Requested
    BY RequestTyped
  <2>4. ASSUME NEW i \in Held(n)
        PROVE  Fine(Request("del", {i}, "own")) /\ Request("del", {i}, "own") \in Requested
    <3> DEFINE e == Request("del", {i}, "own")
    <3>1. e \in Requested /\ e.op = "del" /\ e.of = {i} /\ e.by = "own"
      BY <1>c, RequestTyped
    <3> HIDE DEF e
    <3>2. Fine(e)
      BY <3>1 DEF Owns
    <3> QED BY <3>1, <3>2 DEF e
  <2> HIDE DEF Fine
  <2> QED BY <1>a, <1>b, <1>d, <2>1, <2>2, <2>3, <2>4
<1>4. CASE Crash(n) \/ ConnectionFails(n)
  <2>1. ToSet(sent'[n]) \subseteq ToSet(sent[n]) /\ ToSet(replies'[n]) = {}
    BY <1>4, Dropped DEF ToSet
  <2>2. Held(n)' = {} \/ (Held(n)' = Held(n) /\ UNCHANGED <<up, opener>>)
    BY <1>4 DEF Crash, ConnectionFails, Ended, TypeOK, Held, ToSet
  <2> HIDE DEF Fine
  <2> QED BY <1>a, <1>b, <1>d, <2>1, <2>2
<1>5. CASE Restart(n) \/ Exit(n)
  <2>1. Held(n)' = {}
    <3>1. held'[n] = <<>>
      BY <1>5 DEF Restart, Exit, Stands, Running, TypeOK
    <3> QED BY <3>1 DEF Held, ToSet
  <2>2. sent' = sent /\ ToSet(replies'[n]) \subseteq ToSet(replies[n])
    BY <1>5 DEF Restart, Exit, TypeOK, ToSet
  <2> HIDE DEF Fine
  <2> QED BY <1>a, <1>b, <1>d, <2>1, <2>2
<1>6. CASE Heartbeat(n) \/ Read(n)
  <2>1. PICK e \in {Request("node", {}, "beat"), Request("ids", {}, "read")} :
          sent' = [sent EXCEPT ![n] = Append(@, e)]
    BY <1>6 DEF Heartbeat, Read
  <2>2. e \in Requested /\ e.op \in {"node", "ids"}
    BY <2>1, RequestTyped
  <2>3. ToSet(sent'[n]) = ToSet(sent[n]) \cup {e}
    BY <2>1, <2>2, SendsOne
  <2>4. UNCHANGED <<up, replies, held, opener>>
    BY <1>6 DEF Heartbeat, Read
  <2>5. Fine(e) /\ Held(n)' = Held(n)
    BY <2>2, <2>4 DEF Held
  <2> HIDE DEF Fine
  <2> QED BY <1>a, <1>b, <1>d, <2>2, <2>3, <2>4, <2>5
<1>7. CASE SomeReceive(n)
  <2>1. PICK k \in 1 .. Len(replies[n]) : \E at \in Orders(n, k) : Receive(n, k, Requests(n, at))
    BY <1>7 DEF SomeReceive
  <2>2. PICK at \in Orders(n, k) : Receive(n, k, Requests(n, at))
    BY <2>1
  <2>3. /\ \A e \in ToSet(sent'[n]) :
             \/ e \in ToSet(sent[n])
             \/ \E q \in ToSet(replies[n]) :
                  q \in Requested /\ Answered(q) /\ e = Following(n, q) /\ e # NoRequest
        /\ ToSet(replies'[n]) \subseteq ToSet(replies[n])
    BY <2>2, Received
  <2>4. ASSUME NEW q \in ToSet(replies[n]), Answered(q), Following(n, q) # NoRequest
        PROVE  Fine(Following(n, q)) /\ Following(n, q) \in Requested
    <3> DEFINE f == Following(n, q)
    <3>1. q \in Requested /\ Fine(q)
      BY <1>a
    <3>2. /\ f \in Requested /\ f.op \notin {"del", "node", "unnode"}
          /\ f.op = "add" => q.op = "set" /\ f.of = q.of
          /\ f.op = "rem" => q.op = "del" /\ f.of = q.of
          /\ f.op = "set" => \E i \in Held(n) : f.of = {i}
      BY <2>4, <3>1, FollowingTyped
    <3> HIDE DEF f
    <3>3. f.op = "set" => \A i \in f.of \ Shared : opener[i] \in {n, Lost}
      BY <3>2 DEF Owns
    <3> QED BY <3>1, <3>2, <3>3 DEF f
  <2>5. Held(n)' = Held(n) /\ UNCHANGED opener
    BY <2>2 DEF Receive, Held
  <2>6. Held(n)' = {} \/ (up'[n] = "up" <=> up[n] = "up")
    <3>1. up[n] # "starting" => up'[n] = up[n]
      BY <2>2 DEF Receive, TypeOK
    <3>2. up[n] = "starting" => Held(n) = {}
      BY DEF Stands, Running, Held, ToSet
    <3> QED BY <2>5, <3>1, <3>2
  <2> HIDE DEF Fine
  <2> QED BY <1>a, <1>b, <1>d, <2>3, <2>4, <2>5, <2>6
<1>8. CASE Redis(n)
  <2> DEFINE q == Head(sent[n])
             r == [q EXCEPT !.got = Got(store, q)]
  <2>1. /\ q \in ToSet(sent[n]) /\ r \in Requested /\ r.op = q.op /\ r.of = q.of /\ r.by = q.by
        /\ ToSet(sent[n]) = {q} \cup ToSet(sent'[n])
        /\ ToSet(replies'[n]) \subseteq ToSet(replies[n]) \cup {r}
    BY <1>8, CarriedOut
  <2> HIDE DEF q, r
  <2>2. Fine(r)
    BY <1>a, <2>1
  <2>3. Held(n)' = Held(n) /\ UNCHANGED <<up, opener>>
    BY <1>8 DEF Redis, Held
  <2> HIDE DEF Fine
  <2> QED BY <1>a, <1>b, <1>d, <2>1, <2>2, <2>3
<1> QED BY <1>1, <1>2, <1>3, <1>4, <1>5, <1>6, <1>7, <1>8 DEF Hosting

LEMMA RecordedStep ==
  ASSUME TypeOK, Recorded, \A n \in Nodes : Owns(n), [Next]_vars
  PROVE  Recorded'
<1>0. Hosts \subseteq Nodes /\ Nobody \notin Nodes /\ Lost \notin Nodes /\ Nobody # Lost
  BY ClusterAssumption
<1>1. ASSUME NEW n \in Nodes, Hosting(n) \/ Heartbeat(n) \/ Read(n) \/ SomeReceive(n) PROVE Recorded'
  <2>1. UNCHANGED store
    BY <1>1 DEF Hosting, Open, Forget, Stop, Exit, Crash, Restart, ConnectionFails, Heartbeat, Read, SomeReceive, Receive
  <2>2. \A i \in Items : store.items[i] \in Nodes \cup {Nobody}
    BY DEF TypeOK
  <2>3. \A i \in Items \ Shared : \A m \in Nodes :
          opener[i] \in {m, Lost} => opener'[i] \in {m, Lost}
    BY <1>0, <1>1, OpenerStep
  <2> QED BY <2>1, <2>2, <2>3 DEF Recorded
<1>2. ASSUME NEW n \in Nodes, Redis(n) PROVE Recorded'
  <2> DEFINE q == Head(sent[n])
  <2>1. q \in ToSet(sent[n]) /\ store' = Applied(store, n, q) /\ UNCHANGED opener
    BY <1>2, CarriedOut DEF Redis
  <2> HIDE DEF q
  <2>2. store \in [items : [Items -> Nodes \cup {Nobody}], index : SUBSET Items, age : [Nodes -> 0 .. Ttl]]
    BY DEF TypeOK
  <2>3. CASE q.op = "set"
    <3>1. store'.items = [i \in Items |-> IF i \in q.of THEN n ELSE store.items[i]]
      BY <2>1, <2>2, <2>3 DEF Applied
    <3>2. \A i \in q.of \ Shared : opener[i] \in {n, Lost}
      BY <2>1, <2>3 DEF Owns
    <3> QED BY <2>1, <3>1, <3>2 DEF Recorded
  <2>4. CASE q.op = "del"
    <3>1. store'.items = [i \in Items |-> IF i \in q.of THEN Nobody ELSE store.items[i]]
      BY <2>1, <2>2, <2>4 DEF Applied
    <3> QED BY <2>1, <3>1 DEF Recorded
  <2>5. CASE q.op \notin {"set", "del"}
    <3>1. store'.items = store.items
      BY <2>1, <2>2, <2>5 DEF Applied
    <3> QED BY <2>1, <3>1 DEF Recorded
  <2> QED BY <2>3, <2>4, <2>5
<1>3. CASE Tick \/ UNCHANGED vars
  <2>1. store'.items = store.items /\ UNCHANGED opener
    BY <1>3 DEF Tick, vars, TypeOK
  <2> QED BY <2>1 DEF Recorded
<1> QED BY <1>0, <1>1, <1>2, <1>3 DEF Next

-----------------------------------------------------------------------------
(* What is on its way to the store: for an item that is held the last word *)
(* is a save, for one that was left it is a removal.                       *)

At(s, p, op, i) == s[p].op = op /\ i \in s[p].of
OwnAt(s, p, op, i) == At(s, p, op, i) /\ s[p].by = "own"
Own(s, op, i) == \E p \in 1 .. Len(s) : OwnAt(s, p, op, i)
OwnAfter(s, p, op, i) == \E l \in 1 .. Len(s) : p < l /\ OwnAt(s, l, op, i)

(* s: requests Redis has not carried out; r: those whose reply is awaited. *)
AsHeld(s, r, S, n, i) ==
  /\ \A p \in 1 .. Len(s) : At(s, p, "del", i) => OwnAfter(s, p, "set", i)
  /\ ~Own(s, "set", i) => S.items[i] = n
  /\ \A p \in 1 .. Len(r) : At(r, p, "del", i) => Own(s, "set", i) \/ OwnAfter(r, p, "set", i)
  /\ \A p \in 1 .. Len(s) : At(s, p, "rem", i) =>
       Own(s, "set", i) \/ Own(r, "set", i) \/ OwnAfter(s, p, "add", i)
  /\ i \in S.index \/ Own(s, "set", i) \/ Own(r, "set", i) \/ Own(s, "add", i)

AsLeft(s, S, i) ==
  /\ \A p \in 1 .. Len(s) : At(s, p, "set", i) => OwnAfter(s, p, "del", i)
  /\ ~Own(s, "del", i) => S.items[i] = Nobody

(* Own requests stay under way when others are added behind them.          *)
LEMMA JoinedOwn ==
  ASSUME NEW s \in Seq(Requested), NEW t \in Seq(Requested), NEW op, NEW i
  PROVE  /\ Own(s \o t, op, i) <=> Own(s, op, i) \/ Own(t, op, i)
         /\ \A p \in 1 .. Len(s) : OwnAfter(s, p, op, i) => OwnAfter(s \o t, p, op, i)
         /\ \A p \in 1 .. Len(s) : Own(t, op, i) => OwnAfter(s \o t, p, op, i)
         /\ \A p \in 1 .. Len(t) : OwnAfter(t, p, op, i) => OwnAfter(s \o t, Len(s) + p, op, i)
<1> DEFINE u == s \o t
<1>1. /\ \A p \in 1 .. Len(s) : p \in 1 .. Len(u) /\ u[p] = s[p]
      /\ \A p \in 1 .. Len(t) : Len(s) + p \in 1 .. Len(u) /\ u[Len(s) + p] = t[p]
      /\ \A p \in 1 .. Len(u) : p \in 1 .. Len(s) \/ p - Len(s) \in 1 .. Len(t)
  BY JoinedAt
<1>2. Len(s) \in Nat /\ Len(t) \in Nat /\ Len(u) \in Nat
  BY LenProperties, JoinedAt
<1> HIDE DEF u
<1>3. \A p \in 1 .. Len(s) : OwnAt(u, p, op, i) <=> OwnAt(s, p, op, i)
  BY <1>1 DEF OwnAt, At
<1>4. \A p \in 1 .. Len(t) : OwnAt(u, Len(s) + p, op, i) <=> OwnAt(t, p, op, i)
  BY <1>1 DEF OwnAt, At
<1>5. Own(u, op, i) => Own(s, op, i) \/ Own(t, op, i)
  <2> SUFFICES ASSUME NEW p \in 1 .. Len(u), OwnAt(u, p, op, i) PROVE Own(s, op, i) \/ Own(t, op, i)
    BY DEF Own
  <2>1. CASE p \in 1 .. Len(s)
    BY <1>3, <2>1 DEF Own
  <2>2. CASE p - Len(s) \in 1 .. Len(t)
    <3>1. Len(s) + (p - Len(s)) = p
      BY <1>2
    <3> QED BY <1>4, <2>2, <3>1 DEF Own
  <2> QED BY <1>1, <2>1, <2>2
<1>6. Own(s, op, i) \/ Own(t, op, i) => Own(u, op, i)
  BY <1>1, <1>3, <1>4 DEF Own
<1>7. \A p \in 1 .. Len(s) : OwnAfter(s, p, op, i) => OwnAfter(u, p, op, i)
  BY <1>1, <1>3 DEF OwnAfter
<1>8. ASSUME NEW p \in 1 .. Len(s), Own(t, op, i) PROVE OwnAfter(u, p, op, i)
  <2>1. PICK l \in 1 .. Len(t) : OwnAt(t, l, op, i)
    BY <1>8 DEF Own
  <2>2. p < Len(s) + l
    BY <1>2
  <2> QED BY <1>1, <1>4, <2>1, <2>2 DEF OwnAfter
<1>9. ASSUME NEW p \in 1 .. Len(t), OwnAfter(t, p, op, i) PROVE OwnAfter(u, Len(s) + p, op, i)
  <2>1. PICK l \in 1 .. Len(t) : p < l /\ OwnAt(t, l, op, i)
    BY <1>9 DEF OwnAfter
  <2>2. Len(s) + p < Len(s) + l
    BY <1>2, <2>1
  <2> QED BY <1>1, <1>4, <2>1, <2>2 DEF OwnAfter
<1> QED BY <1>5, <1>6, <1>7, <1>8, <1>9 DEF u

LEMMA RestOwn ==
  ASSUME NEW r \in Seq(Requested), NEW k \in 0 .. Len(r), NEW op, NEW i
  PROVE  LET w == SubSeq(r, k + 1, Len(r)) IN
         /\ Own(w, op, i) <=> \E l \in k + 1 .. Len(r) : OwnAt(r, l, op, i)
         /\ \A p \in 1 .. Len(w) : OwnAfter(r, p + k, op, i) => OwnAfter(w, p, op, i)
<1> DEFINE w == SubSeq(r, k + 1, Len(r))
<1>1. /\ \A p \in 1 .. Len(w) : p + k \in k + 1 .. Len(r) /\ w[p] = r[p + k]
      /\ \A p \in k + 1 .. Len(r) : p - k \in 1 .. Len(w) /\ w[p - k] = r[p]
  BY RestAt
<1>2. Len(r) \in Nat /\ Len(w) \in Nat
  BY LenProperties, RestAt
<1> HIDE DEF w
<1>3. \A p \in k + 1 .. Len(r) : OwnAt(w, p - k, op, i) <=> OwnAt(r, p, op, i)
  BY <1>1 DEF OwnAt, At
<1>4. \A p \in 1 .. Len(w) : OwnAt(w, p, op, i) <=> OwnAt(r, p + k, op, i)
  BY <1>1 DEF OwnAt, At
<1>5. Own(w, op, i) => \E l \in k + 1 .. Len(r) : OwnAt(r, l, op, i)
  BY <1>1, <1>4 DEF Own
<1>6. (\E l \in k + 1 .. Len(r) : OwnAt(r, l, op, i)) => Own(w, op, i)
  BY <1>1, <1>3 DEF Own
<1>7. ASSUME NEW p \in 1 .. Len(w), OwnAfter(r, p + k, op, i) PROVE OwnAfter(w, p, op, i)
  <2>1. PICK l \in 1 .. Len(r) : p + k < l /\ OwnAt(r, l, op, i)
    BY <1>7 DEF OwnAfter
  <2>2. l \in k + 1 .. Len(r) /\ p < l - k
    BY <1>2, <2>1
  <2> QED BY <1>1, <1>3, <2>1, <2>2 DEF OwnAfter
<1> QED BY <1>5, <1>6, <1>7 DEF w

LEMMA TailOwn ==
  ASSUME NEW s \in Seq(Requested), s # <<>>, NEW op, NEW i
  PROVE  /\ Own(s, op, i) <=> OwnAt(s, 1, op, i) \/ Own(Tail(s), op, i)
         /\ \A p \in 1 .. Len(Tail(s)) : OwnAfter(s, p + 1, op, i) => OwnAfter(Tail(s), p, op, i)
         /\ OwnAfter(s, 1, op, i) => Own(Tail(s), op, i)
<1> DEFINE w == Tail(s)
<1>1. /\ 1 \in 1 .. Len(s)
      /\ \A p \in 1 .. Len(w) : p + 1 \in 2 .. Len(s) /\ w[p] = s[p + 1]
      /\ \A p \in 2 .. Len(s) : p - 1 \in 1 .. Len(w) /\ w[p - 1] = s[p]
  BY TailAt
<1>2. Len(s) \in Nat /\ Len(w) \in Nat
  BY LenProperties, TailAt
<1> HIDE DEF w
<1>3. \A p \in 2 .. Len(s) : OwnAt(w, p - 1, op, i) <=> OwnAt(s, p, op, i)
  BY <1>1 DEF OwnAt, At
<1>4. \A p \in 1 .. Len(w) : OwnAt(w, p, op, i) <=> OwnAt(s, p + 1, op, i)
  BY <1>1 DEF OwnAt, At
<1>5. \A p \in 1 .. Len(s) : p = 1 \/ p \in 2 .. Len(s)
  BY <1>2
<1>6. Own(s, op, i) => OwnAt(s, 1, op, i) \/ Own(w, op, i)
  BY <1>1, <1>3, <1>5 DEF Own
<1>7. OwnAt(s, 1, op, i) \/ Own(w, op, i) => Own(s, op, i)
  <2>1. \A p \in 1 .. Len(w) : p + 1 \in 1 .. Len(s)
    BY <1>1, <1>2
  <2> QED BY <1>1, <1>4, <2>1 DEF Own
<1>8. ASSUME NEW p \in 1 .. Len(w), OwnAfter(s, p + 1, op, i) PROVE OwnAfter(w, p, op, i)
  <2>1. PICK l \in 1 .. Len(s) : p + 1 < l /\ OwnAt(s, l, op, i)
    BY <1>8 DEF OwnAfter
  <2>2. l \in 2 .. Len(s) /\ p < l - 1
    BY <1>2, <2>1
  <2> QED BY <1>1, <1>3, <2>1, <2>2 DEF OwnAfter
<1>9. ASSUME OwnAfter(s, 1, op, i) PROVE Own(w, op, i)
  <2>1. PICK l \in 1 .. Len(s) : 1 < l /\ OwnAt(s, l, op, i)
    BY <1>9 DEF OwnAfter
  <2>2. l \in 2 .. Len(s)
    BY <1>2, <2>1
  <2> QED BY <1>1, <1>3, <2>1, <2>2 DEF Own
<1> QED BY <1>6, <1>7, <1>8, <1>9 DEF w

(* A request is at a position of two joined parts in one of them.          *)
LEMMA JoinedAtOp ==
  ASSUME NEW s \in Seq(Requested), NEW t \in Seq(Requested), NEW op, NEW i,
         NEW p \in 1 .. Len(s \o t), At(s \o t, p, op, i)
  PROVE  \/ p \in 1 .. Len(s) /\ At(s, p, op, i)
         \/ \E l \in 1 .. Len(t) : p = Len(s) + l /\ At(t, l, op, i)
<1> DEFINE u == s \o t
<1>1. /\ \A l \in 1 .. Len(s) : u[l] = s[l]
      /\ \A l \in 1 .. Len(t) : u[Len(s) + l] = t[l]
      /\ p \in 1 .. Len(s) \/ p - Len(s) \in 1 .. Len(t)
  BY JoinedAt
<1>2. Len(s) \in Nat /\ p \in Int
  BY LenProperties
<1> HIDE DEF u
<1>3. CASE p \in 1 .. Len(s)
  BY <1>1, <1>3 DEF At, u
<1>4. CASE p - Len(s) \in 1 .. Len(t)
  <2>1. p = Len(s) + (p - Len(s))
    BY <1>2
  <2>2. At(t, p - Len(s), op, i)
    BY <1>1, <1>4, <2>1 DEF At, u
  <2> QED BY <1>4, <2>1, <2>2
<1> QED BY <1>1, <1>3, <1>4

LEMMA HeldGrows ==
  ASSUME NEW s \in Seq(Requested), NEW t \in Seq(Requested), NEW r \in Seq(Requested),
         NEW k \in 0 .. Len(r), NEW S, NEW n, NEW i, AsHeld(s, r, S, n, i),
         \A p \in 1 .. Len(t) : ~At(t, p, "del", i),
         \A l \in 1 .. k : OwnAt(r, l, "set", i) => Own(t, "add", i),
         \A p \in 1 .. Len(t) : At(t, p, "rem", i) =>
           Own(s, "set", i) \/ (\E l \in k + 1 .. Len(r) : OwnAt(r, l, "set", i)) \/ OwnAfter(t, p, "add", i)
  PROVE  AsHeld(s \o t, SubSeq(r, k + 1, Len(r)), S, n, i)
<1> DEFINE u == s \o t
           w == SubSeq(r, k + 1, Len(r))
<1>0. Len(r) \in Nat /\ Len(s) \in Nat
  BY LenProperties
<1>1. \A op : /\ Own(u, op, i) <=> Own(s, op, i) \/ Own(t, op, i)
              /\ \A p \in 1 .. Len(s) : OwnAfter(s, p, op, i) => OwnAfter(u, p, op, i)
              /\ \A p \in 1 .. Len(s) : Own(t, op, i) => OwnAfter(u, p, op, i)
              /\ \A p \in 1 .. Len(t) : OwnAfter(t, p, op, i) => OwnAfter(u, Len(s) + p, op, i)
  BY JoinedOwn
<1>2. \A op : /\ Own(w, op, i) <=> \E l \in k + 1 .. Len(r) : OwnAt(r, l, op, i)
              /\ \A p \in 1 .. Len(w) : OwnAfter(r, p + k, op, i) => OwnAfter(w, p, op, i)
  BY RestOwn
<1>3. Own(r, "set", i) => Own(w, "set", i) \/ Own(t, "add", i)
  <2> SUFFICES ASSUME NEW l \in 1 .. Len(r), OwnAt(r, l, "set", i), ~Own(t, "add", i) PROVE Own(w, "set", i)
    BY DEF Own
  <2>1. l \in 1 .. k \/ l \in k + 1 .. Len(r)
    BY <1>0
  <2> QED BY <1>2, <2>1
<1>4. \A op, p : p \in 1 .. Len(u) /\ At(u, p, op, i) =>
        \/ p \in 1 .. Len(s) /\ At(s, p, op, i)
        \/ \E l \in 1 .. Len(t) : p = Len(s) + l /\ At(t, l, op, i)
  BY JoinedAtOp
<1>5. \A p \in 1 .. Len(w) : p + k \in 1 .. Len(r) /\ w[p] = r[p + k]
  <2>1. \A p \in 1 .. Len(w) : p + k \in k + 1 .. Len(r) /\ w[p] = r[p + k]
    BY RestAt
  <2> QED BY <1>0, <2>1
<1> HIDE DEF u, w
<1>6. ASSUME NEW p \in 1 .. Len(u), At(u, p, "del", i) PROVE OwnAfter(u, p, "set", i)
  BY <1>1, <1>4, <1>6 DEF AsHeld
<1>7. ~Own(u, "set", i) => S.items[i] = n
  BY <1>1 DEF AsHeld
<1>8. ASSUME NEW p \in 1 .. Len(w), At(w, p, "del", i) PROVE Own(u, "set", i) \/ OwnAfter(w, p, "set", i)
  <2>1. At(r, p + k, "del", i) /\ p + k \in 1 .. Len(r)
    BY <1>5, <1>8 DEF At
  <2>2. Own(s, "set", i) \/ OwnAfter(r, p + k, "set", i)
    BY <2>1 DEF AsHeld
  <2> QED BY <1>1, <1>2, <2>2
<1>9. ASSUME NEW p \in 1 .. Len(u), At(u, p, "rem", i)
      PROVE  Own(u, "set", i) \/ Own(w, "set", i) \/ OwnAfter(u, p, "add", i)
  <2>1. CASE p \in 1 .. Len(s) /\ At(s, p, "rem", i)
    <3>1. Own(s, "set", i) \/ Own(r, "set", i) \/ OwnAfter(s, p, "add", i)
      BY <2>1 DEF AsHeld
    <3> QED BY <1>1, <1>3, <2>1, <3>1
  <2>2. ASSUME NEW l \in 1 .. Len(t), p = Len(s) + l, At(t, l, "rem", i)
        PROVE  Own(u, "set", i) \/ Own(w, "set", i) \/ OwnAfter(u, p, "add", i)
    BY <1>1, <1>2, <2>2
  <2> QED BY <1>4, <1>9, <2>1, <2>2
<1>10. i \in S.index \/ Own(u, "set", i) \/ Own(w, "set", i) \/ Own(u, "add", i)
  BY <1>1, <1>3 DEF AsHeld
<1> QED BY <1>6, <1>7, <1>8, <1>9, <1>10 DEF AsHeld, u, w

LEMMA LeftGrows ==
  ASSUME NEW s \in Seq(Requested), NEW t \in Seq(Requested), NEW S, NEW i, AsLeft(s, S, i),
         \A p \in 1 .. Len(t) : ~At(t, p, "set", i)
  PROVE  AsLeft(s \o t, S, i)
<1>1. ASSUME NEW p \in 1 .. Len(s \o t), At(s \o t, p, "set", i) PROVE OwnAfter(s \o t, p, "del", i)
  BY <1>1, JoinedAtOp, JoinedOwn DEF AsLeft
<1>2. ~Own(s \o t, "del", i) => S.items[i] = Nobody
  BY JoinedOwn DEF AsLeft
<1> QED BY <1>1, <1>2 DEF AsLeft

(* The first save and the first removal behind what is under way settle    *)
(* the matter, whatever that is.                                           *)
LEMMA HeldAnew ==
  ASSUME NEW s \in Seq(Requested), NEW t \in Seq(Requested), NEW r, NEW S, NEW n, NEW i,
         Own(t, "set", i), \A p \in 1 .. Len(t) : ~At(t, p, "del", i)
  PROVE  AsHeld(s \o t, r, S, n, i)
<1>1. Own(s \o t, "set", i)
  BY JoinedOwn
<1>2. ASSUME NEW p \in 1 .. Len(s \o t), At(s \o t, p, "del", i) PROVE OwnAfter(s \o t, p, "set", i)
  BY <1>2, JoinedAtOp, JoinedOwn
<1> QED BY <1>1, <1>2 DEF AsHeld

LEMMA LeftAnew ==
  ASSUME NEW s \in Seq(Requested), NEW t \in Seq(Requested), NEW S, NEW i,
         Own(t, "del", i), \A p \in 1 .. Len(t) : ~At(t, p, "set", i)
  PROVE  AsLeft(s \o t, S, i)
<1>1. Own(s \o t, "del", i)
  BY JoinedOwn
<1>2. ASSUME NEW p \in 1 .. Len(s \o t), At(s \o t, p, "set", i) PROVE OwnAfter(s \o t, p, "del", i)
  BY <1>2, JoinedAtOp, JoinedOwn
<1> QED BY <1>1, <1>2 DEF AsLeft

(* What a request changes of an item in the store S, which becomes T.      *)
Carried(S, T, q, n, i) ==
  /\ T.items[i] = IF q.op = "set" /\ i \in q.of THEN n
                  ELSE IF q.op = "del" /\ i \in q.of THEN Nobody ELSE S.items[i]
  /\ i \in T.index <=> \/ q.op = "add" /\ i \in q.of
                       \/ i \in S.index /\ ~(q.op = "rem" /\ i \in q.of)

LEMMA HeldCarried ==
  ASSUME NEW s \in Seq(Requested), s # <<>>, NEW r \in Seq(Requested), NEW e \in Requested,
         e.op = Head(s).op, e.of = Head(s).of, e.by = Head(s).by,
         NEW S, NEW T, NEW n, NEW i, Carried(S, T, e, n, i), AsHeld(s, r, S, n, i)
  PROVE  AsHeld(Tail(s), r \o <<e>>, T, n, i)
<1> DEFINE u == Tail(s)
           y == <<e>>
           w == r \o y
<1>a. y \in Seq(Requested) /\ Len(y) = 1 /\ y[1] = e
  BY OneRequest
<1>b. /\ Head(s) = s[1] /\ 1 \in 1 .. Len(s) /\ Len(s) \in Nat
      /\ \A p \in 1 .. Len(u) : p + 1 \in 1 .. Len(s) /\ u[p] = s[p + 1]
  <2>1. /\ Head(s) = s[1] /\ 1 \in 1 .. Len(s)
        /\ \A p \in 1 .. Len(u) : p + 1 \in 2 .. Len(s) /\ u[p] = s[p + 1]
    BY TailAt
  <2>2. Len(s) \in Nat /\ \A p \in 2 .. Len(s) : p \in 1 .. Len(s)
    BY LenProperties
  <2> QED BY <2>1, <2>2
<1>c. \A op : /\ Own(s, op, i) <=> OwnAt(s, 1, op, i) \/ Own(u, op, i)
              /\ \A p \in 1 .. Len(u) : OwnAfter(s, p + 1, op, i) => OwnAfter(u, p, op, i)
              /\ OwnAfter(s, 1, op, i) => Own(u, op, i)
  BY TailOwn
<1> HIDE DEF u, y
<1>d. \A op : /\ Own(w, op, i) <=> Own(r, op, i) \/ Own(y, op, i)
              /\ \A p \in 1 .. Len(r) : OwnAfter(r, p, op, i) => OwnAfter(w, p, op, i)
              /\ \A p \in 1 .. Len(r) : Own(y, op, i) => OwnAfter(w, p, op, i)
  BY <1>a, JoinedOwn
<1>e. \A op, p : p \in 1 .. Len(w) /\ At(w, p, op, i) =>
        \/ p \in 1 .. Len(r) /\ At(r, p, op, i)
        \/ \E l \in 1 .. Len(y) : p = Len(r) + l /\ At(y, l, op, i)
  BY <1>a, JoinedAtOp
<1> HIDE DEF w
<1>f. \A op : /\ At(s, 1, op, i) <=> e.op = op /\ i \in e.of
              /\ OwnAt(s, 1, op, i) <=> Own(y, op, i)
              /\ \A l \in 1 .. Len(y) : At(y, l, op, i) <=> At(s, 1, op, i)
  <2>1. \A l : l \in 1 .. Len(y) <=> l = 1
    BY <1>a
  <2> QED BY <1>a, <1>b, <2>1 DEF At, OwnAt, Own
<1>g. ASSUME At(s, 1, "del", i) PROVE Own(u, "set", i)
  BY <1>b, <1>c, <1>g DEF AsHeld
<1>1. ASSUME NEW p \in 1 .. Len(u), At(u, p, "del", i) PROVE OwnAfter(u, p, "set", i)
  <2>1. At(s, p + 1, "del", i) /\ p + 1 \in 1 .. Len(s)
    BY <1>b, <1>1 DEF At
  <2> QED BY <1>c, <2>1 DEF AsHeld
<1>2. ~Own(u, "set", i) => T.items[i] = n
  <2> SUFFICES ASSUME ~Own(u, "set", i) PROVE T.items[i] = n
    OBVIOUS
  <2>1. ~(e.op = "del" /\ i \in e.of)
    BY <1>f, <1>g
  <2>2. CASE e.op = "set" /\ i \in e.of
    BY <2>2 DEF Carried
  <2>3. CASE ~(e.op = "set" /\ i \in e.of)
    <3>1. ~Own(s, "set", i)
      BY <1>c, <1>f, <2>3 DEF OwnAt
    <3> QED BY <2>1, <2>3, <3>1 DEF Carried, AsHeld
  <2> QED BY <2>2, <2>3
<1>3. ASSUME NEW p \in 1 .. Len(w), At(w, p, "del", i) PROVE Own(u, "set", i) \/ OwnAfter(w, p, "set", i)
  <2>1. CASE p \in 1 .. Len(r) /\ At(r, p, "del", i)
    <3>1. Own(s, "set", i) \/ OwnAfter(r, p, "set", i)
      BY <2>1 DEF AsHeld
    <3> QED BY <1>c, <1>d, <1>f, <2>1, <3>1
  <2>2. CASE At(s, 1, "del", i)
    BY <1>g, <2>2
  <2> QED BY <1>3, <1>e, <1>f, <2>1, <2>2
<1>4. ASSUME NEW p \in 1 .. Len(u), At(u, p, "rem", i)
      PROVE  Own(u, "set", i) \/ Own(w, "set", i) \/ OwnAfter(u, p, "add", i)
  <2>1. At(s, p + 1, "rem", i) /\ p + 1 \in 1 .. Len(s)
    BY <1>b, <1>4 DEF At
  <2>2. Own(s, "set", i) \/ Own(r, "set", i) \/ OwnAfter(s, p + 1, "add", i)
    BY <2>1 DEF AsHeld
  <2> QED BY <1>c, <1>d, <1>f, <2>2
<1>5. i \in T.index \/ Own(u, "set", i) \/ Own(w, "set", i) \/ Own(u, "add", i)
  <2>1. CASE e.op = "add" /\ i \in e.of
    BY <2>1 DEF Carried
  <2>2. CASE e.op = "rem" /\ i \in e.of
    <3>1. Own(s, "set", i) \/ Own(r, "set", i) \/ OwnAfter(s, 1, "add", i)
      BY <1>b, <1>f, <2>2 DEF AsHeld
    <3> QED BY <1>c, <1>d, <1>f, <3>1
  <2>3. CASE ~(e.op \in {"add", "rem"} /\ i \in e.of)
    <3>1. i \in T.index <=> i \in S.index
      BY <2>3 DEF Carried
    <3>2. ~OwnAt(s, 1, "add", i)
      BY <1>f, <2>3 DEF OwnAt
    <3> QED BY <1>c, <1>d, <1>f, <3>1, <3>2 DEF AsHeld
  <2> QED BY <2>1, <2>2, <2>3
<1> QED BY <1>1, <1>2, <1>3, <1>4, <1>5 DEF AsHeld, u, w, y

LEMMA LeftCarried ==
  ASSUME NEW s \in Seq(Requested), s # <<>>, NEW S, NEW T, NEW n, NEW i,
         Carried(S, T, Head(s), n, i), AsLeft(s, S, i)
  PROVE  AsLeft(Tail(s), T, i)
<1> DEFINE u == Tail(s)
           e == Head(s)
<1>b. /\ e = s[1] /\ 1 \in 1 .. Len(s) /\ Len(s) \in Nat
      /\ \A p \in 1 .. Len(u) : p + 1 \in 1 .. Len(s) /\ u[p] = s[p + 1]
  <2>1. /\ Head(s) = s[1] /\ 1 \in 1 .. Len(s)
        /\ \A p \in 1 .. Len(u) : p + 1 \in 2 .. Len(s) /\ u[p] = s[p + 1]
    BY TailAt
  <2>2. Len(s) \in Nat /\ \A p \in 2 .. Len(s) : p \in 1 .. Len(s)
    BY LenProperties
  <2> QED BY <2>1, <2>2
<1>c. \A op : /\ Own(s, op, i) <=> OwnAt(s, 1, op, i) \/ Own(u, op, i)
              /\ \A p \in 1 .. Len(u) : OwnAfter(s, p + 1, op, i) => OwnAfter(u, p, op, i)
              /\ OwnAfter(s, 1, op, i) => Own(u, op, i)
  BY TailOwn
<1> HIDE DEF u, e
<1>f. \A op : At(s, 1, op, i) <=> e.op = op /\ i \in e.of
  BY <1>b DEF At
<1>1. ASSUME NEW p \in 1 .. Len(u), At(u, p, "set", i) PROVE OwnAfter(u, p, "del", i)
  <2>1. At(s, p + 1, "set", i) /\ p + 1 \in 1 .. Len(s)
    BY <1>b, <1>1 DEF At
  <2> QED BY <1>c, <2>1 DEF AsLeft
<1>2. ASSUME ~Own(u, "del", i) PROVE T.items[i] = Nobody
  <2>1. ~(e.op = "set" /\ i \in e.of)
    BY <1>2, <1>b, <1>c, <1>f DEF AsLeft
  <2>2. CASE e.op = "del" /\ i \in e.of
    BY <2>1, <2>2 DEF Carried, e
  <2>3. CASE ~(e.op = "del" /\ i \in e.of)
    <3>1. ~Own(s, "del", i)
      BY <1>2, <1>c, <1>f, <2>3 DEF OwnAt
    <3> QED BY <2>1, <2>3, <3>1 DEF Carried, AsLeft, e
  <2> QED BY <2>2, <2>3
<1> QED BY <1>1, <1>2 DEF AsLeft, u

LEMMA HeldMore ==
  ASSUME NEW s \in Seq(Requested), NEW t \in Seq(Requested), NEW r \in Seq(Requested),
         NEW S, NEW n, NEW i, AsHeld(s, r, S, n, i),
         \A p \in 1 .. Len(t) : ~At(t, p, "del", i) /\ ~At(t, p, "rem", i)
  PROVE  AsHeld(s \o t, r, S, n, i)
<1>1. Len(r) \in Nat /\ 0 \in 0 .. Len(r)
  BY LenProperties
<1>2. AsHeld(s \o t, SubSeq(r, 0 + 1, Len(r)), S, n, i)
  BY <1>1, HeldGrows
<1>3. SubSeq(r, 0 + 1, Len(r)) = r
  BY SubSeqFull
<1> QED BY <1>2, <1>3

LEMMA AppliedCarried ==
  ASSUME TypeOK, NEW n \in Nodes, NEW q \in Requested, NEW i \in Items
  PROVE  Carried(store, Applied(store, n, q), q, n, i)
<1>1. /\ store \in [items : [Items -> Nodes \cup {Nobody}], index : SUBSET Items, age : [Nodes -> 0 .. Ttl]]
      /\ q.op \in {"set", "del", "add", "rem", "node", "unnode", "ids", "values"}
  BY DEF TypeOK, Requested
<1> DEFINE T == Applied(store, n, q)
<1>2. CASE q.op = "set"
  <2>1. T = [store EXCEPT !.items = [j \in Items |-> IF j \in q.of THEN n ELSE @[j]]]
    BY <1>2 DEF Applied
  <2> QED BY <1>1, <1>2, <2>1 DEF Carried
<1>3. CASE q.op = "del"
  <2>1. T = [store EXCEPT !.items = [j \in Items |-> IF j \in q.of THEN Nobody ELSE @[j]]]
    BY <1>3 DEF Applied
  <2> QED BY <1>1, <1>3, <2>1 DEF Carried
<1>4. CASE q.op = "add"
  <2>1. T = [store EXCEPT !.index = @ \cup q.of]
    BY <1>4 DEF Applied
  <2> QED BY <1>1, <1>4, <2>1 DEF Carried
<1>5. CASE q.op = "rem"
  <2>1. T = [store EXCEPT !.index = @ \ q.of]
    BY <1>5 DEF Applied
  <2> QED BY <1>1, <1>5, <2>1 DEF Carried
<1>6. CASE q.op \in {"node", "unnode", "ids", "values"}
  <2>1. T.items = store.items /\ T.index = store.index
    BY <1>1, <1>6 DEF Applied
  <2> QED BY <1>6, <2>1 DEF Carried
<1> QED BY <1>1, <1>2, <1>3, <1>4, <1>5, <1>6

(* The store as far as a node's own requests go, for what it opened.       *)
Keeps(n, i) ==
  opener[i] = n => IF i \in Held(n) THEN AsHeld(sent[n], replies[n], store, n, i)
                   ELSE AsLeft(sent[n], store, i)

LEMMA KeepsInit == Init => \A n \in Nodes, i \in Items \ Shared : Keeps(n, i)
  BY ClusterAssumption DEF Init, Keeps

LEMMA KeepsElsewhere ==
  ASSUME TypeOK, NEW n \in Nodes, NEW m \in Nodes \ {n}, NEW i \in Items \ Shared, Owns(n), Keeps(m, i),
         Hosting(n) \/ Heartbeat(n) \/ Read(n) \/ SomeReceive(n) \/ Redis(n)
  PROVE  Keeps(m, i)'
<1> SUFFICES ASSUME opener'[i] = m
             PROVE  IF i \in Held(m)' THEN AsHeld(sent[m], replies[m], store, m, i)' ELSE AsLeft(sent[m], store, i)'
  BY DEF Keeps
<1>1. opener[i] = m
  BY OpenerStep, ClusterAssumption
<1>2. sent'[m] = sent[m] /\ replies'[m] = replies[m] /\ Held(m)' = Held(m)
  BY Elsewhere DEF Held
<1>3. store'.items[i] = store.items[i] /\ (i \in store'.index <=> i \in store.index)
  <2>1. CASE Redis(n)
    <3> DEFINE q == Head(sent[n])
    <3>1. q \in Requested /\ q \in ToSet(sent[n]) /\ store' = Applied(store, n, q)
      BY <2>1, CarriedOut
    <3> HIDE DEF q
    <3>2. Carried(store, store', q, n, i)
      BY <3>1, AppliedCarried
    <3>3. q.op \in {"set", "del", "add", "rem"} => i \notin q.of
      BY <1>1, <3>1, ClusterAssumption DEF Owns
    <3> QED BY <3>2, <3>3 DEF Carried
  <2>2. CASE Hosting(n) \/ Heartbeat(n) \/ Read(n) \/ SomeReceive(n)
    <3>1. UNCHANGED store
      BY <2>2 DEF Hosting, Open, Forget, Stop, Exit, Crash, Restart, ConnectionFails, Heartbeat, Read, SomeReceive, Receive
    <3> QED BY <3>1
  <2> QED BY <2>1, <2>2
<1>4. IF i \in Held(m) THEN AsHeld(sent[m], replies[m], store, m, i) ELSE AsLeft(sent[m], store, i)
  BY <1>1 DEF Keeps
<1> QED BY <1>2, <1>3, <1>4 DEF AsHeld, AsLeft

(* A request about something else changes nothing.                         *)
LEMMA KeepsSending ==
  ASSUME TypeOK, NEW n \in Nodes, NEW i \in Items \ Shared, Keeps(n, i),
         NEW e \in Requested, sent' = [sent EXCEPT ![n] = Append(@, e)], i \notin e.of,
         UNCHANGED <<replies, store>>, opener'[i] = opener[i], i \in Held(n)' <=> i \in Held(n)
  PROVE  Keeps(n, i)'
<1> DEFINE t == <<e>>
<1>1. t \in Seq(Requested) /\ sent[n] \in Seq(Requested) /\ replies[n] \in Seq(Requested)
  BY OneRequest, WireTyped
<1>2. sent'[n] = sent[n] \o t
  BY SendsOne
<1>3. \A p \in 1 .. Len(t) : ~At(t, p, "set", i) /\ ~At(t, p, "del", i) /\ ~At(t, p, "rem", i)
  <2>1. Len(t) = 1 /\ t[1] = e
    BY OneRequest
  <2>2. \A p \in 1 .. Len(t) : p = 1
    BY <2>1
  <2> QED BY <2>1, <2>2 DEF At
<1> HIDE DEF t
<1>4. CASE i \in Held(n)
  <2>1. ASSUME AsHeld(sent[n], replies[n], store, n, i) PROVE AsHeld(sent'[n], replies[n], store, n, i)
    <3>1. \A p \in 1 .. Len(t) : ~At(t, p, "del", i) /\ ~At(t, p, "rem", i)
      BY <1>3
    <3>2. AsHeld(sent[n] \o t, replies[n], store, n, i)
      BY <1>1, <2>1, <3>1, HeldMore
    <3> QED BY <1>2, <3>2
  <2> QED BY <1>4, <2>1 DEF Keeps
<1>5. CASE i \notin Held(n)
  <2>1. ASSUME AsLeft(sent[n], store, i) PROVE AsLeft(sent'[n], store, i)
    <3>1. AsLeft(sent[n] \o t, store, i)
      BY <1>1, <1>3, <2>1, LeftGrows
    <3> QED BY <1>2, <3>1
  <2> QED BY <1>5, <2>1 DEF Keeps
<1> QED BY <1>4, <1>5

LEMMA OpenKeeps ==
  ASSUME TypeOK, NEW n \in Nodes, NEW i \in Items \ Shared, Keeps(n, i), NEW j \in Items, Open(n, j)
  PROVE  Keeps(n, i)'
<1> DEFINE e == Request("set", {j}, "own")
<1>1. e \in Requested /\ e.op = "set" /\ e.of = {j} /\ e.by = "own" /\ sent' = [sent EXCEPT ![n] = Append(@, e)]
  BY RequestTyped DEF Open
<1> HIDE DEF e
<1>2. UNCHANGED <<replies, store>> /\ opener' = [opener EXCEPT ![j] = IF up[n] = "up" THEN n ELSE Lost]
  BY DEF Open
<1>3. Held(n)' = Held(n) \cup {j}
  <2>1. held'[n] = Append(held[n], j) /\ j \notin Held(n)
    BY DEF Open, TypeOK, Held
  <2> QED BY <2>1, AppendHeld, HeldTyped DEF Held
<1>4. CASE i = j
  <2> DEFINE t == <<e>>
  <2>1. t \in Seq(Requested) /\ Len(t) = 1 /\ t[1] = e /\ sent[n] \in Seq(Requested) /\ sent'[n] = sent[n] \o t
    BY <1>1, OneRequest, WireTyped, SendsOne
  <2>2. \A p : p \in 1 .. Len(t) <=> p = 1
    BY <2>1
  <2> HIDE DEF t
  <2>3. Own(t, "set", i) /\ \A p \in 1 .. Len(t) : ~At(t, p, "del", i)
    BY <1>1, <1>4, <2>1, <2>2 DEF Own, OwnAt, At
  <2>4. AsHeld(sent'[n], replies'[n], store', n, i)
    BY <2>1, <2>3, HeldAnew
  <2> QED BY <1>3, <1>4, <2>4 DEF Keeps
<1>5. CASE i # j
  <2>1. opener'[i] = opener[i] /\ (i \in Held(n)' <=> i \in Held(n)) /\ i \notin e.of
    BY <1>1, <1>2, <1>3, <1>5
  <2> QED BY <1>1, <1>2, <2>1, KeepsSending
<1> QED BY <1>4, <1>5

LEMMA ForgetKeeps ==
  ASSUME TypeOK, NEW n \in Nodes, NEW i \in Items \ Shared, Keeps(n, i), NEW j \in Items, Forget(n, j)
  PROVE  Keeps(n, i)'
<1> DEFINE e == Request("del", {j}, "own")
<1>1. e \in Requested /\ e.op = "del" /\ e.of = {j} /\ e.by = "own" /\ sent' = [sent EXCEPT ![n] = Append(@, e)]
  BY RequestTyped DEF Forget
<1> HIDE DEF e
<1>2. UNCHANGED <<replies, store, opener>>
  BY DEF Forget
<1>3. Held(n)' = Held(n) \ {j}
  <2>1. PICK p \in 1 .. Len(held[n]) : held[n][p] = j /\ held' = [held EXCEPT ![n] = RemoveAt(@, p)]
    BY DEF Forget
  <2>2. held'[n] = RemoveAt(held[n], p)
    BY <2>1 DEF TypeOK
  <2> QED BY <2>1, <2>2, RemoveHeld, HeldTyped DEF Held
<1>4. CASE i = j
  <2> DEFINE t == <<e>>
  <2>1. t \in Seq(Requested) /\ Len(t) = 1 /\ t[1] = e /\ sent[n] \in Seq(Requested) /\ sent'[n] = sent[n] \o t
    BY <1>1, OneRequest, WireTyped, SendsOne
  <2>2. \A p : p \in 1 .. Len(t) <=> p = 1
    BY <2>1
  <2> HIDE DEF t
  <2>3. Own(t, "del", i) /\ \A p \in 1 .. Len(t) : ~At(t, p, "set", i)
    BY <1>1, <1>4, <2>1, <2>2 DEF Own, OwnAt, At
  <2>4. AsLeft(sent'[n], store', i)
    BY <2>1, <2>3, LeftAnew
  <2> QED BY <1>3, <1>4, <2>4 DEF Keeps
<1>5. CASE i # j
  <2>1. opener'[i] = opener[i] /\ (i \in Held(n)' <=> i \in Held(n)) /\ i \notin e.of
    BY <1>1, <1>2, <1>3, <1>5
  <2> QED BY <1>1, <1>2, <2>1, KeepsSending
<1> QED BY <1>4, <1>5

LEMMA StopKeeps ==
  ASSUME TypeOK, NEW n \in Nodes, NEW i \in Items \ Shared, Keeps(n, i), Stop(n)
  PROVE  Keeps(n, i)'
<1> DEFINE u == Request("unnode", {}, "stop")
           y == <<u>>
<1>1. PICK dels \in Seq(Requested) :
        /\ sent'[n] = (sent[n] \o dels) \o y
        /\ \A p \in 1 .. Len(dels) : dels[p] = Request("del", {held[n][p]}, "own")
        /\ Len(dels) = Len(held[n])
  BY Stopped
<1>2. sent[n] \in Seq(Requested) /\ y \in Seq(Requested) /\ \A p \in 1 .. Len(y) : ~At(y, p, "set", i)
  <2>1. u \in Requested /\ u.op = "unnode"
    BY RequestTyped
  <2> HIDE DEF u
  <2>2. y \in Seq(Requested) /\ Len(y) = 1 /\ y[1] = u
    BY <2>1, OneRequest
  <2>3. \A p \in 1 .. Len(y) : p = 1
    BY <2>2
  <2> QED BY <2>1, <2>2, <2>3, WireTyped DEF At
<1>3. \A p \in 1 .. Len(dels) : dels[p].op = "del" /\ dels[p].of = {held[n][p]} /\ dels[p].by = "own"
  <2> SUFFICES ASSUME NEW p \in 1 .. Len(dels)
               PROVE  dels[p].op = "del" /\ dels[p].of = {held[n][p]} /\ dels[p].by = "own"
    OBVIOUS
  <2>1. dels[p] = Request("del", {held[n][p]}, "own")
    BY <1>1
  <2> QED BY <2>1 DEF Request
<1>4. \A p \in 1 .. Len(dels) : ~At(dels, p, "set", i)
  BY <1>3 DEF At
<1>5. UNCHANGED <<store, opener>> /\ Held(n)' = {}
  BY DEF Stop, TypeOK, Held, ToSet
<1>6. ASSUME opener[i] = n PROVE AsLeft(sent[n] \o dels, store, i)
  <2>1. CASE i \in Held(n)
    <3>1. PICK p \in 1 .. Len(dels) : i = held[n][p]
      BY <1>1, <2>1, HeldTyped DEF Held, ToSet
    <3>2. OwnAt(dels, p, "del", i)
      BY <1>3, <3>1 DEF OwnAt, At
    <3>3. Own(dels, "del", i)
      BY <3>2 DEF Own
    <3> QED BY <1>2, <1>4, <3>3, LeftAnew
  <2>2. CASE i \notin Held(n)
    <3>1. AsLeft(sent[n], store, i)
      BY <1>6, <2>2 DEF Keeps
    <3> QED BY <1>2, <1>4, <3>1, LeftGrows
  <2> QED BY <2>1, <2>2
<1>7. ASSUME opener[i] = n PROVE AsLeft(sent'[n], store, i)
  <2> DEFINE x == sent[n] \o dels
  <2>1. x \in Seq(Requested) /\ AsLeft(x, store, i) /\ sent'[n] = x \o y
    BY <1>1, <1>2, <1>6, <1>7, JoinedSet
  <2> HIDE DEF x, y
  <2>2. AsLeft(x \o y, store, i)
    BY <1>2, <2>1, LeftGrows
  <2> QED BY <2>1, <2>2
<1> QED BY <1>5, <1>7 DEF Keeps

(* A node that exits drops only what was opened too late. *)
LEMMA ExitKeeps ==
  ASSUME TypeOK, NEW n \in Nodes, NEW i \in Items \ Shared, Owns(n), Keeps(n, i), Exit(n)
  PROVE  Keeps(n, i)'
<1>1. UNCHANGED <<sent, store, opener>> /\ Held(n)' = {} /\ up[n] = "stopping"
  BY DEF Exit, TypeOK, Held, ToSet
<1>2. opener[i] = n => i \notin Held(n)
  BY <1>1, ClusterAssumption DEF Owns
<1> QED BY <1>1, <1>2 DEF Keeps

(* When nothing of its own was under way, a node keeps what it had saved.  *)
LEMMA DropKeeps ==
  ASSUME TypeOK, NEW n \in Nodes, NEW i \in Items \ Shared, Keeps(n, i), Crash(n) \/ ConnectionFails(n)
  PROVE  Keeps(n, i)'
<1>1. CASE Ended(n)
  <2>1. opener'[i] # n
    BY <1>1, ClusterAssumption DEF Ended
  <2> QED BY <2>1 DEF Keeps
<1>2. CASE ~Ended(n)
  <2>1. /\ ~Busy(n, "own") /\ UNCHANGED <<held, opener, store>>
        /\ sent'[n] = <<>> /\ replies'[n] = <<>>
    BY <1>2 DEF Crash, ConnectionFails, TypeOK
  <2>2. \A op : ~Own(sent[n], op, i) /\ ~Own(replies[n], op, i)
    BY <2>1, WireTyped DEF Busy, Own, OwnAt
  <2>3. ASSUME AsHeld(sent[n], replies[n], store, n, i) PROVE AsHeld(<<>>, <<>>, store, n, i)
    BY <2>2, <2>3 DEF AsHeld
  <2>4. ASSUME AsLeft(sent[n], store, i) PROVE AsLeft(<<>>, store, i)
    BY <2>2, <2>4 DEF AsLeft
  <2> QED BY <2>1, <2>3, <2>4 DEF Keeps, Held
<1> QED BY <1>1, <1>2

LEMMA ReceiveKeeps ==
  ASSUME TypeOK, NEW n \in Nodes, NEW i \in Items \ Shared, Stands(n), Keeps(n, i),
         NEW k \in 1 .. Len(replies[n]), NEW at \in Orders(n, k), Receive(n, k, Requests(n, at))
  PROVE  Keeps(n, i)'
<1> DEFINE t == Requests(n, at)
           r == replies[n]
           s == sent[n]
<1>1. /\ t \in Seq(Requested) /\ r \in Seq(Requested) /\ s \in Seq(Requested)
      /\ Len(r) \in Nat /\ k \in 0 .. Len(r) /\ \A l \in 1 .. k : l \in 1 .. Len(r)
  BY WireTyped, RequestsFollow
<1>2. sent'[n] = s \o t
  BY Received
<1>3. UNCHANGED <<held, store, opener>>
  BY DEF Receive
<1>4. /\ \A p \in 1 .. Len(t) : at[p] \in 1 .. k /\ t[p] = Following(n, r[at[p]])
      /\ \A j \in 1 .. k : Following(n, r[j]) # NoRequest => \E p \in 1 .. Len(t) : at[p] = j
      /\ \A p, q \in 1 .. Len(t) : p < q => Sooner(n, at[p], at[q])
  <2>1. \A p \in 1 .. Len(t) : at[p] \in 1 .. k /\ t[p] = Following(n, r[at[p]])
    BY RequestsFollow
  <2>2. \A j \in 1 .. k : Following(n, r[j]) # NoRequest => \E p \in 1 .. Len(t) : at[p] = j
    BY RequestsFollow
  <2>3. \A p, q \in 1 .. Len(t) : p < q => Sooner(n, at[p], at[q])
    BY RequestsFollow
  <2> QED BY <2>1, <2>2, <2>3
<1>5. ASSUME NEW l \in 1 .. k
      PROVE  /\ Following(n, r[l]).op \notin {"del", "node", "unnode"}
             /\ Following(n, r[l]).op = "rem" => r[l].op = "del" /\ Following(n, r[l]).of = r[l].of
             /\ Following(n, r[l]).op = "set" => \E j \in Held(n) : Following(n, r[l]).of = {j}
             /\ r[l].op = "set" => /\ Following(n, r[l]) # NoRequest /\ Following(n, r[l]).op = "add"
                                   /\ Following(n, r[l]).of = r[l].of /\ Following(n, r[l]).by = r[l].by
  <2>1. r[l] \in Requested /\ Answered(r[l])
    BY <1>1, WireTyped
  <2>2. r[l].op = "set" => Following(n, r[l]) = Request("add", r[l].of, r[l].by)
    BY <2>1, FollowingTyped
  <2>3. /\ Request("add", r[l].of, r[l].by).op = "add"
        /\ Request("add", r[l].of, r[l].by).of = r[l].of
        /\ Request("add", r[l].of, r[l].by).by = r[l].by
        /\ NoRequest.op = "none"
    BY DEF Request, NoRequest
  <2> HIDE DEF r
  <2> QED BY <2>1, <2>2, <2>3, FollowingTyped
<1> HIDE DEF t
<1>6. \A p \in 1 .. Len(t) : ~At(t, p, "del", i)
  BY <1>4, <1>5 DEF At
<1>7. ASSUME NEW l \in 1 .. k, OwnAt(r, l, "set", i)
      PROVE  \E p \in 1 .. Len(t) : at[p] = l /\ OwnAt(t, p, "add", i)
  <2>1. r[l].op = "set" /\ i \in r[l].of /\ r[l].by = "own"
    BY <1>7 DEF OwnAt, At
  <2>2. PICK p \in 1 .. Len(t) : at[p] = l
    BY <1>4, <1>5, <2>1
  <2>3. t[p].op = "add" /\ i \in t[p].of /\ t[p].by = "own"
    BY <1>4, <1>5, <2>1, <2>2
  <2> QED BY <2>2, <2>3 DEF OwnAt, At
<1>8. ASSUME AsHeld(s, r, store, n, i), NEW p \in 1 .. Len(t), At(t, p, "rem", i)
      PROVE  Own(s, "set", i) \/ (\E l \in k + 1 .. Len(r) : OwnAt(r, l, "set", i)) \/ OwnAfter(t, p, "add", i)
  <2>1. at[p] \in 1 .. k /\ At(r, at[p], "del", i)
    BY <1>4, <1>5, <1>8 DEF At
  <2>2. Own(s, "set", i) \/ OwnAfter(r, at[p], "set", i)
    BY <1>1, <1>8, <2>1 DEF AsHeld
  <2>3. ASSUME NEW l \in 1 .. k, OwnAt(r, l, "set", i) PROVE OwnAfter(t, p, "add", i)
    <3>1. PICK q \in 1 .. Len(t) : at[q] = l /\ OwnAt(t, q, "add", i)
      BY <1>7, <2>3
    <3>2. q # p
      BY <1>8, <3>1 DEF OwnAt, At
    <3>3. ~Sooner(n, at[q], at[p])
      BY <2>1, <2>3, <3>1 DEF Sooner, OwnAt, At
    <3>4. ~(q < p)
      BY <1>4, <3>3
    <3>5. Len(t) \in Nat
      BY <1>1, LenProperties
    <3>6. p < q
      BY <3>2, <3>4, <3>5
    <3> QED BY <3>1, <3>6 DEF OwnAfter
  <2>4. \A l \in 1 .. Len(r) : l \in 1 .. k \/ l \in k + 1 .. Len(r)
    BY <1>1
  <2> QED BY <2>2, <2>3, <2>4 DEF OwnAfter
<1>9. CASE i \in Held(n)
  <2>1. replies'[n] = SubSeq(r, k + 1, Len(r))
    BY DEF Receive, TypeOK
  <2>2. ASSUME AsHeld(s, r, store, n, i) PROVE AsHeld(s \o t, SubSeq(r, k + 1, Len(r)), store, n, i)
    <3>1. \A l \in 1 .. k : OwnAt(r, l, "set", i) => Own(t, "add", i)
      BY <1>7 DEF Own
    <3>2. \A p \in 1 .. Len(t) : At(t, p, "rem", i) =>
            Own(s, "set", i) \/ (\E l \in k + 1 .. Len(r) : OwnAt(r, l, "set", i)) \/ OwnAfter(t, p, "add", i)
      BY <1>8, <2>2
    <3> HIDE DEF s, r
    <3> QED BY <1>1, <1>6, <2>2, <3>1, <3>2, HeldGrows
  <2> QED BY <1>2, <1>3, <1>9, <2>1, <2>2 DEF Keeps, Held
<1>10. CASE i \notin Held(n)
  <2>1. \A p \in 1 .. Len(t) : ~At(t, p, "set", i)
    <3>1. SUFFICES ASSUME NEW p \in 1 .. Len(t), At(t, p, "set", i) PROVE FALSE
      OBVIOUS
    <3>2. at[p] \in 1 .. k /\ t[p] = Following(n, r[at[p]]) /\ t[p].op = "set" /\ i \in t[p].of
      BY <1>4, <3>1 DEF At
    <3>3. PICK j \in Held(n) : Following(n, r[at[p]]).of = {j}
      BY <1>5, <3>2
    <3> QED BY <1>10, <3>2, <3>3
  <2>2. ASSUME AsLeft(s, store, i) PROVE AsLeft(s \o t, store, i)
    <3> HIDE DEF s
    <3> QED BY <1>1, <2>1, <2>2, LeftGrows
  <2> QED BY <1>2, <1>3, <1>10, <2>2 DEF Keeps, Held
<1> QED BY <1>9, <1>10

LEMMA RedisKeeps ==
  ASSUME TypeOK, NEW n \in Nodes, NEW i \in Items \ Shared, Stands(n), Keeps(n, i), Redis(n)
  PROVE  Keeps(n, i)'
<1> DEFINE q == Head(sent[n])
           e == [q EXCEPT !.got = Got(store, q)]
           y == <<e>>
<1>1. /\ q \in Requested /\ store' = Applied(store, n, q)
      /\ e \in Requested /\ e.op = q.op /\ e.of = q.of /\ e.by = q.by
      /\ sent'[n] = Tail(sent[n])
      /\ replies'[n] = IF up[n] \in {"stopped", "crashed"} THEN <<>> ELSE replies[n] \o y
  BY CarriedOut
<1>2. /\ sent[n] \in Seq(Requested) /\ sent[n] # <<>> /\ replies[n] \in Seq(Requested)
      /\ UNCHANGED <<up, held, opener>>
  BY WireTyped DEF Redis
<1>3. Carried(store, store', q, n, i)
  BY <1>1, AppliedCarried
<1> HIDE DEF e
<1>4. Carried(store, store', e, n, i)
  BY <1>1, <1>3 DEF Carried
<1>5. CASE i \in Held(n)
  <2>1. up[n] \notin {"stopped", "crashed"}
    <3>1. held[n] # <<>>
      BY <1>5 DEF Held, ToSet
    <3> QED BY <3>1 DEF Stands, Running
  <2>2. ASSUME AsHeld(sent[n], replies[n], store, n, i)
        PROVE  AsHeld(Tail(sent[n]), replies[n] \o <<e>>, store', n, i)
    BY <1>1, <1>2, <1>4, <2>2, HeldCarried
  <2> QED BY <1>1, <1>2, <1>5, <2>1, <2>2 DEF Keeps, Held
<1>6. CASE i \notin Held(n)
  <2>1. ASSUME AsLeft(sent[n], store, i) PROVE AsLeft(Tail(sent[n]), store', i)
    BY <1>2, <1>3, <2>1, LeftCarried
  <2> QED BY <1>1, <1>2, <1>6, <2>1 DEF Keeps, Held
<1> QED BY <1>5, <1>6

LEMMA KeepsStep ==
  ASSUME TypeOK, \A n \in Nodes : Stands(n) /\ Owns(n), [Next]_vars,
         NEW m \in Nodes, NEW i \in Items \ Shared, Keeps(m, i)
  PROVE  Keeps(m, i)'
<1>0. Stands(m) /\ Hosts \subseteq Nodes
  BY ClusterAssumption
<1>1. ASSUME NEW n \in Nodes, Hosting(n) \/ Heartbeat(n) \/ Read(n) \/ SomeReceive(n) \/ Redis(n), m # n
      PROVE  Keeps(m, i)'
  BY <1>1, KeepsElsewhere
<1>2. CASE Hosting(m)
  <2>1. ASSUME NEW j \in Items, Open(m, j) PROVE Keeps(m, i)'
    BY <2>1, OpenKeeps
  <2>2. ASSUME NEW j \in Items, Forget(m, j) PROVE Keeps(m, i)'
    BY <2>2, ForgetKeeps
  <2>3. CASE Restart(m)
    <3>1. UNCHANGED <<held, sent, replies, store, opener>>
      BY <2>3 DEF Restart
    <3> QED BY <3>1 DEF Keeps, Held
  <2>4. CASE Exit(m)
    BY <2>4, ExitKeeps
  <2> QED BY <1>2, <2>1, <2>2, <2>3, <2>4, StopKeeps, DropKeeps DEF Hosting
<1>3. CASE Heartbeat(m) \/ Read(m)
  <2>1. PICK e \in {Request("node", {}, "beat"), Request("ids", {}, "read")} :
          sent' = [sent EXCEPT ![m] = Append(@, e)]
    BY <1>3 DEF Heartbeat, Read
  <2>2. e \in Requested /\ i \notin e.of
    BY <2>1, RequestTyped
  <2>3. UNCHANGED <<replies, store>> /\ opener'[i] = opener[i] /\ (i \in Held(m)' <=> i \in Held(m))
    BY <1>3 DEF Heartbeat, Read, Held
  <2> QED BY <2>1, <2>2, <2>3, KeepsSending
<1>4. CASE SomeReceive(m)
  BY <1>0, <1>4, ReceiveKeeps DEF SomeReceive
<1>5. CASE Redis(m)
  BY <1>0, <1>5, RedisKeeps
<1>6. CASE Tick \/ UNCHANGED vars
  <2>1. UNCHANGED <<held, sent, replies, opener>>
    BY <1>6 DEF Tick, vars
  <2>2. store'.items = store.items /\ store'.index = store.index
    <3>1. CASE Tick
      BY <3>1 DEF Tick, TypeOK
    <3>2. CASE UNCHANGED vars
      BY <3>2 DEF vars
    <3> QED BY <1>6, <3>1, <3>2
  <2> QED BY <2>1, <2>2 DEF Keeps, Held, AsHeld, AsLeft
<1> QED BY <1>0, <1>1, <1>2, <1>3, <1>4, <1>5, <1>6 DEF Next

Owning ==
  /\ Recorded /\ \A n \in Nodes : Owns(n)
  /\ \A n \in Nodes, i \in Items \ Shared : Keeps(n, i)

LEMMA OwningAlways == Spec => []Owning
<1>1. Init => Owning
  BY OwnsInit, KeepsInit DEF Owning
<1>2. TypeOK /\ Living /\ Owning /\ [Next]_vars => Owning'
  <2> SUFFICES ASSUME TypeOK, Living, Owning, [Next]_vars PROVE Owning'
    OBVIOUS
  <2>1. \A n \in Nodes : Stands(n) /\ Owns(n)
    BY DEF Living, Owning
  <2>2. Recorded'
    BY <2>1, RecordedStep DEF Owning
  <2>3. \A n \in Nodes : Owns(n)'
    <3> SUFFICES ASSUME NEW m \in Nodes PROVE Owns(m)'
      OBVIOUS
    <3>1. ASSUME NEW n \in Nodes, Hosting(n) \/ Heartbeat(n) \/ Read(n) \/ SomeReceive(n) \/ Redis(n)
          PROVE  Owns(m)'
      BY <2>1, <3>1, OwnsElsewhere, OwnsHere
    <3>2. CASE Tick \/ UNCHANGED vars
      <4>1. UNCHANGED <<up, held, sent, replies, opener>>
        BY <3>2 DEF Tick, vars
      <4> QED BY <2>1, <4>1 DEF Owns, Held
    <3> QED BY <3>1, <3>2, ClusterAssumption DEF Next
  <2>4. \A n \in Nodes, i \in Items \ Shared : Keeps(n, i)'
    BY <2>1, KeepsStep DEF Owning
  <2> QED BY <2>2, <2>3, <2>4 DEF Owning
<1> QED BY <1>1, <1>2, LivingAlways, ClusterTyped, PTL DEF Spec

(* When none of its saves and removals is under way any more, the store    *)
(* has what a node holds, and nothing of what it forgot or left when it    *)
(* stopped, whatever the heartbeat wrote meanwhile and wherever the        *)
(* connection failed (rememberSession, forgetSession,                      *)
(* heartbeatDistributedNode).  It does not speak of what the node opened   *)
(* when it was already stopping: that record stays.                        *)
THEOREM StoreAlwaysExact == Spec => []StoreExact
<1>1. TypeOK /\ Owning => StoreExact
  <2> SUFFICES ASSUME TypeOK, Owning, NEW n \in Nodes, NEW i \in Items \ Shared,
                      opener[i] = n, ~Busy(n, "own")
               PROVE  IF i \in ToSet(held[n]) THEN store.items[i] = n /\ i \in store.index
                      ELSE store.items[i] = Nobody
    BY DEF StoreExact
  <2>1. \A op : ~Own(sent[n], op, i) /\ ~Own(replies[n], op, i)
    BY WireTyped DEF Busy, Own, OwnAt
  <2>2. Keeps(n, i)
    BY DEF Owning
  <2> QED BY <2>1, <2>2 DEF Keeps, Held, AsHeld, AsLeft
<1> QED BY <1>1, OwningAlways, ClusterTyped, PTL

----------------------------------------------------------------------------
(* RedisClient.  The lemmas say of each part of the class, as a function   *)
(* on clients, what it keeps and what it changes.                          *)

(* The client's own connection is open, no queue is left without one, and  *)
(* nothing was sent on a connection that is not open yet.                  *)
OwnConnection(R) ==
  /\ R.socket # None => R.state[R.socket] = "open"
  /\ R.socket = None => R.pending = <<>>
  /\ \A k \in Sockets : R.state[k] \in {"unused", "connecting"} => R.wire[k] = <<>>

(* The client is in step: there is no open connection but its own, what    *)
(* was received is answered, the requests in the queue are those whose     *)
(* replies the connection still owes, and SELECT went out on it if it is   *)
(* among them.                                                             *)
InStep(R) ==
  /\ \A k \in Sockets : R.state[k] = "open" => k = R.socket
  /\ R.buffer = <<>>
  /\ R.socket # None => R.pending = R.wire[R.socket]

Selecting(R) == \A i \in 1 .. Len(R.pending) : R.pending[i].kind = "select" => R.socket \in R.selected

ClientInv(R) == R \in Clients /\ OwnConnection(R) /\ (R.mixed \/ (InStep(R) /\ Selecting(R)))

(* S has the connection of R as it is; commands may differ.                *)
SameConnection(R, S) ==
  /\ S.socket = R.socket /\ S.buffer = R.buffer /\ S.pending = R.pending /\ S.state = R.state
  /\ S.wire = R.wire /\ S.selected = R.selected /\ S.mixed = R.mixed

(* From R to S no command was answered, and none was sent.                 *)
NoneAnswered(R, S) ==
  S.reply = R.reply /\ \A c \in Commands : S.at[c] = "resolved" => R.at[c] = "resolved"
NoneSent(R, S) == \A c \in Commands : S.at[c] = "sent" => R.at[c] = "sent" /\ S.on[c] = R.on[c]

(* S is R after the request q was sent, but for how commands stand.        *)
AfterSending(R, S, q) ==
  /\ S.pending = Append(R.pending, q) /\ S.wire = [R.wire EXCEPT ![R.socket] = Append(@, q)]
  /\ S.socket = R.socket /\ S.buffer = R.buffer /\ S.state = R.state /\ S.mixed = R.mixed

LEMMA RequestKinds ==
  /\ \A c \in Commands : Command(c) \in ClientRequests
  /\ \A k \in Sockets : Auth(k) \in ClientRequests /\ Select(k) \in ClientRequests
  /\ \A q \in ClientRequests : \/ q.kind = "command" /\ q.of \in Commands /\ q = Command(q.of)
                               \/ q.kind \in {"auth", "select"} /\ q.of \in Sockets
<1>1. \A c \in Commands : Command(c) \in ClientRequests
  BY DEF ClientRequests
<1>2. \A k \in Sockets : Auth(k) \in ClientRequests /\ Select(k) \in ClientRequests
  BY DEF ClientRequests
<1>3. ASSUME NEW q \in ClientRequests
      PROVE  \/ q.kind = "command" /\ q.of \in Commands /\ q = Command(q.of)
             \/ q.kind \in {"auth", "select"} /\ q.of \in Sockets
  <2>1. CASE \E c \in Commands : q = Command(c)
    BY <2>1 DEF Command
  <2>2. CASE \E k \in Sockets : q = Auth(k)
    BY <2>2 DEF Auth
  <2>3. CASE \E k \in Sockets : q = Select(k)
    BY <2>3 DEF Select
  <2> QED BY <2>1, <2>2, <2>3 DEF ClientRequests
<1> QED BY <1>1, <1>2, <1>3

LEMMA NoneNoSocket == None \notin Sockets /\ Sockets \subseteq Nat \ {0} /\ Commands \subseteq Nat \ {0}
BY ConstantsAssumption DEF None, Sockets, Commands

(* Rejecting those that wait changes nothing but how commands stand.       *)
LEMMA RejectWaitersIs ==
  ASSUME NEW R \in Clients, NEW K
  PROVE  /\ RejectWaiters(R, K) \in Clients
         /\ SameConnection(R, RejectWaiters(R, K))
         /\ NoneAnswered(R, RejectWaiters(R, K)) /\ NoneSent(R, RejectWaiters(R, K))
<1> DEFINE a == [c \in Commands |-> IF c \in Waiting(R, K) THEN "rejected" ELSE R.at[c]]
           S == [R EXCEPT !.at = a]
<1>1. RejectWaiters(R, K) = S
  BY DEF RejectWaiters
<1>2. a \in [Commands -> {"uncalled", "waiting", "sent", "resolved", "rejected"}]
  BY DEF Clients
<1>3. \A c \in Commands : a[c] \in {R.at[c], "rejected"}
  OBVIOUS
<1> HIDE DEF a
<1>4. S \in Clients
  BY <1>2 DEF Clients
<1>5. SameConnection(R, S) /\ S.reply = R.reply /\ S.on = R.on /\ S.at = a
  BY DEF SameConnection, Clients
<1> QED BY <1>1, <1>3, <1>4, <1>5 DEF NoneAnswered, NoneSent

LEMMA SameConnectionInv ==
  ASSUME NEW R, NEW S \in Clients, SameConnection(R, S), ClientInv(R)
  PROVE  ClientInv(S)
BY DEF ClientInv, SameConnection, OwnConnection, InStep, Selecting

(* A reset leaves no connection, no queue and nothing of what was          *)
(* received.                                                               *)
LEMMA ResetIs ==
  ASSUME NEW R \in Clients
  PROVE  /\ Reset(R) \in Clients
         /\ Reset(R).socket = None /\ Reset(R).buffer = <<>> /\ Reset(R).pending = <<>>
         /\ Reset(R).state = [k \in Sockets |-> IF k = R.socket /\ Live(R) THEN "destroyed" ELSE R.state[k]]
         /\ Reset(R).wire = [k \in Sockets |-> IF k = R.socket THEN <<>> ELSE R.wire[k]]
         /\ Reset(R).mixed = (OpenBut(R, R.socket) # {}) /\ Reset(R).selected = R.selected
         /\ NoneAnswered(R, Reset(R)) /\ NoneSent(R, Reset(R))
<1> DEFINE lost == {q \in ToSet(R.pending) : q.kind = "command"}
           failed == {q.of : q \in ToSet(R.pending) \ lost}
           st == [k \in Sockets |-> IF k = R.socket /\ Live(R) THEN "destroyed" ELSE R.state[k]]
           wr == [k \in Sockets |-> IF k = R.socket THEN <<>> ELSE R.wire[k]]
           a == [c \in Commands |-> IF Command(c) \in lost THEN "rejected" ELSE R.at[c]]
           mx == OpenBut(R, R.socket) # {}
           r == [R EXCEPT !.state = st, !.wire = wr, !.socket = None, !.connecting = None,
                          !.buffer = <<>>, !.pending = <<>>, !.at = a, !.mixed = mx]
<1>1. Reset(R) = RejectWaiters(r, failed)
  BY DEF Reset
<1>2. st \in [Sockets -> {"unused", "connecting", "open", "destroyed", "closed"}]
  BY DEF Clients
<1>3. wr \in [Sockets -> Seq(ClientRequests \cup {Torn})]
  BY DEF Clients
<1>4. a \in [Commands -> {"uncalled", "waiting", "sent", "resolved", "rejected"}]
  BY DEF Clients
<1>5. \A c \in Commands : a[c] \in {R.at[c], "rejected"}
  OBVIOUS
<1>6. mx \in BOOLEAN
  OBVIOUS
<1> HIDE DEF lost, failed, st, wr, a, mx
<1>7. r \in Clients
  <2>1. None \in Sockets \cup {None} /\ <<>> \in Seq(Replies) /\ <<>> \in Seq(ClientRequests)
    OBVIOUS
  <2> HIDE DEF None
  <2> QED BY <1>2, <1>3, <1>4, <1>6, <2>1 DEF Clients
<1>8. /\ r.socket = None /\ r.buffer = <<>> /\ r.pending = <<>> /\ r.state = st /\ r.wire = wr
      /\ r.mixed = mx /\ r.selected = R.selected /\ r.reply = R.reply /\ r.on = R.on /\ r.at = a
  BY DEF Clients
<1> HIDE DEF r
<1> DEFINE S == RejectWaiters(r, failed)
<1>9. S \in Clients /\ SameConnection(r, S) /\ NoneAnswered(r, S) /\ NoneSent(r, S)
  BY <1>7, RejectWaitersIs
<1> HIDE DEF S
<1>10. /\ S.socket = None /\ S.buffer = <<>> /\ S.pending = <<>> /\ S.state = st /\ S.wire = wr /\ S.mixed = mx
      /\ S.selected = R.selected
  BY <1>8, <1>9 DEF SameConnection
<1>11. NoneAnswered(R, S)
  BY <1>5, <1>8, <1>9 DEF NoneAnswered
<1>12. NoneSent(R, S)
  BY <1>5, <1>8, <1>9 DEF NoneSent
<1>13. Reset(R) = S
  BY <1>1 DEF S
<1> HIDE DEF S
<1> QED BY <1>9, <1>10, <1>11, <1>12, <1>13 DEF st, wr, mx

(* After a reset the client is in step, unless another connection is open. *)
LEMMA ResetInv ==
  ASSUME NEW R \in Clients,
         \A k \in Sockets : R.state[k] \in {"unused", "connecting"} => R.wire[k] = <<>>,
         R.socket # None => R.state[R.socket] # "connecting" /\ R.state[R.socket] # "unused"
  PROVE  ClientInv(Reset(R))
<1> DEFINE S == Reset(R)
<1>1. /\ S \in Clients /\ S.socket = None /\ S.buffer = <<>> /\ S.pending = <<>>
      /\ S.state = [k \in Sockets |-> IF k = R.socket /\ Live(R) THEN "destroyed" ELSE R.state[k]]
      /\ S.wire = [k \in Sockets |-> IF k = R.socket THEN <<>> ELSE R.wire[k]]
      /\ S.mixed = (OpenBut(R, R.socket) # {})
  BY ResetIs
<1> HIDE DEF S
<1>2. \A k \in Sockets : S.state[k] \in {"unused", "connecting"} => S.wire[k] = <<>>
  BY <1>1
<1>3. ~S.mixed => \A k \in Sockets : S.state[k] # "open"
  <2>1. \A k \in Sockets : S.state[k] = "open" => R.state[k] = "open" /\ k # R.socket
    BY <1>1, NoneNoSocket DEF Live
  <2> QED BY <1>1, <2>1 DEF OpenBut
<1>4. Len(S.pending) = 0
  BY <1>1
<1> QED BY <1>1, <1>2, <1>3, <1>4 DEF ClientInv, OwnConnection, InStep, Selecting, S

LEMMA SetupFailedIs ==
  ASSUME NEW R \in Clients, OwnConnection(R), NEW k
  PROVE  /\ ClientInv(SetupFailed(R, k)) /\ SetupFailed(R, k).selected = R.selected
         /\ NoneAnswered(R, SetupFailed(R, k)) /\ NoneSent(R, SetupFailed(R, k))
<1>1. ClientInv(Reset(R))
  BY ResetInv DEF OwnConnection
<1>2. Reset(R) \in Clients /\ Reset(R).selected = R.selected /\ NoneAnswered(R, Reset(R)) /\ NoneSent(R, Reset(R))
  BY ResetIs
<1> DEFINE Q == Reset(R)
           S == RejectWaiters(Q, {k})
<1> HIDE DEF Q
<1>3. S \in Clients /\ SameConnection(Q, S) /\ NoneAnswered(Q, S) /\ NoneSent(Q, S)
  BY <1>2, RejectWaitersIs DEF Q
<1> HIDE DEF S
<1>4. ClientInv(S)
  BY <1>1, <1>3, SameConnectionInv DEF Q
<1>5. NoneAnswered(R, S) /\ NoneSent(R, S) /\ S.selected = R.selected
  BY <1>2, <1>3 DEF NoneAnswered, NoneSent, Q, SameConnection
<1>6. S = SetupFailed(R, k)
  BY DEF S, Q, SetupFailed
<1> HIDE DEF S
<1> QED BY <1>4, <1>5, <1>6

(* What holds at 0, and of a number when it holds of the one before, holds *)
(* up to n.                                                                *)
LEMMA UpTo ==
  ASSUME NEW n \in Nat, NEW T, 0 \in T, \A i \in 1 .. n : i - 1 \in T => i \in T
  PROVE  \A i \in 0 .. n : i \in T
<1> DEFINE Bad == {i \in 0 .. n : i \notin T}
<1> SUFFICES ASSUME Bad # {} PROVE FALSE
  OBVIOUS
<1>1. Bad \in SUBSET Nat
  OBVIOUS
<1> HIDE DEF Bad
<1>2. PICK i \in Bad : \A j \in Bad : i <= j
  BY <1>1, LeastNumber
<1> USE DEF Bad
<1>3. i \in 1 .. n /\ i - 1 \in 0 .. n /\ i - 1 \notin Bad
  BY <1>2
<1> QED BY <1>2, <1>3

(* A sequence of values may be computed one after the other.               *)
OneAfterOther(s, F, x, n) ==
  s[0] = x /\ \A i \in 1 .. n : s[i] = F[<<i, s[i - 1]>>]

LEMMA FoldExists ==
  ASSUME NEW Y, NEW n \in Nat, NEW F \in [(1 .. n) \X Y -> Y], NEW x \in Y
  PROVE  \E s \in [0 .. n -> Y] : OneAfterOther(s, F, x, n)
<1> DEFINE T == {m \in 0 .. n : \E s \in [0 .. m -> Y] : OneAfterOther(s, F, x, m)}
<1>1. 0 \in T
  <2> DEFINE s == [i \in 0 .. 0 |-> x]
  <2>1. s \in [0 .. 0 -> Y] /\ OneAfterOther(s, F, x, 0)
    BY DEF OneAfterOther
  <2> QED BY <2>1
<1>2. ASSUME NEW m \in 1 .. n, m - 1 \in T PROVE m \in T
  <2>1. PICK s \in [0 .. m - 1 -> Y] : OneAfterOther(s, F, x, m - 1)
    BY <1>2
  <2> DEFINE y == F[<<m, s[m - 1]>>]
             t == [i \in 0 .. m |-> IF i = m THEN y ELSE s[i]]
  <2>2. y \in Y
    BY <2>1
  <2>3. t \in [0 .. m -> Y]
    BY <2>1, <2>2
  <2>4. t[0] = x
    BY <2>1 DEF OneAfterOther
  <2>5. ASSUME NEW i \in 1 .. m PROVE t[i] = F[<<i, t[i - 1]>>]
    <3>1. t[i - 1] = s[i - 1]
      OBVIOUS
    <3>2. i # m => i \in 1 .. m - 1 /\ t[i] = s[i]
      OBVIOUS
    <3>3. i = m => t[i] = F[<<m, s[m - 1]>>]
      OBVIOUS
    <3> HIDE DEF t
    <3>4. CASE i = m
      BY <3>1, <3>3, <3>4
    <3>5. CASE i # m
      BY <2>1, <3>1, <3>2, <3>5 DEF OneAfterOther
    <3> QED BY <3>4, <3>5
  <2> HIDE DEF t
  <2> QED BY <2>3, <2>4, <2>5 DEF OneAfterOther
<1> HIDE DEF T
<1>3. \A i \in 0 .. n : i \in T
  BY <1>1, <1>2, UpTo
<1> QED BY <1>3 DEF T

(* Sending a request on the live connection. *)
LEMMA SentIs ==
  ASSUME NEW R \in Clients, Live(R), NEW q \in ClientRequests
  PROVE  /\ Sent(R, q) \in Clients /\ R.socket \in Sockets
         /\ AfterSending(R, Sent(R, q), q) /\ Sent(R, q).selected = R.selected
         /\ Sent(R, q).at = R.at /\ Sent(R, q).on = R.on /\ Sent(R, q).reply = R.reply
<1>0. R.socket \in Sockets
  BY DEF Live, Clients
<1> DEFINE p == Append(R.pending, q)
           w == [R.wire EXCEPT ![R.socket] = Append(@, q)]
           S == [R EXCEPT !.pending = p, !.wire = w]
<1>1. Sent(R, q) = S
  BY DEF Sent, Clients
<1>2. p \in Seq(ClientRequests)
  BY DEF Clients
<1>3. w \in [Sockets -> Seq(ClientRequests \cup {Torn})]
  <2>1. q \in ClientRequests \cup {Torn}
    OBVIOUS
  <2> HIDE DEF ClientRequests, Torn
  <2>2. R.wire \in [Sockets -> Seq(ClientRequests \cup {Torn})]
    BY DEF Clients
  <2>3. Append(R.wire[R.socket], q) \in Seq(ClientRequests \cup {Torn})
    BY <1>0, <2>1, <2>2
  <2> QED BY <2>2, <2>3
<1> HIDE DEF p, w
<1>4. S \in Clients
  BY <1>2, <1>3 DEF Clients
<1>5. /\ S.pending = p /\ S.wire = w /\ S.socket = R.socket /\ S.buffer = R.buffer /\ S.state = R.state
      /\ S.selected = R.selected /\ S.mixed = R.mixed /\ S.at = R.at /\ S.on = R.on /\ S.reply = R.reply
  BY DEF Clients
<1> HIDE DEF S
<1> QED BY <1>0, <1>1, <1>4, <1>5 DEF p, w, AfterSending

(* A request that is not SELECT leaves the client in step. *)
LEMMA AppendedAt ==
  ASSUME NEW A, NEW s \in Seq(A), NEW q
  PROVE  /\ Len(Append(s, q)) = Len(s) + 1 /\ Len(s) \in Nat
         /\ \A i \in 1 .. Len(Append(s, q)) : (Append(s, q)[i] = s[i] /\ i \in 1 .. Len(s)) \/ Append(s, q)[i] = q
OBVIOUS

LEMMA SentInv ==
  ASSUME NEW R, ClientInv(R), Live(R), NEW q \in ClientRequests, NEW S \in Clients,
         AfterSending(R, S, q), R.selected \subseteq S.selected, q.kind = "select" => R.socket \in S.selected
  PROVE  ClientInv(S)
<1>0. R \in Clients /\ R.socket \in Sockets /\ R.state[R.socket] = "open"
  BY DEF ClientInv, Live, Clients
<1>1. R.wire \in [Sockets -> Seq(ClientRequests \cup {Torn})] /\ R.pending \in Seq(ClientRequests)
  BY <1>0 DEF Clients
<1>2. S.wire[R.socket] = Append(R.wire[R.socket], q)
  BY <1>0, <1>1 DEF AfterSending
<1>3. \A k \in Sockets : k # R.socket => S.wire[k] = R.wire[k]
  BY <1>0, <1>1 DEF AfterSending
<1>4. OwnConnection(S)
  BY <1>0, <1>3, NoneNoSocket DEF OwnConnection, ClientInv, AfterSending
<1>5. InStep(R) => InStep(S)
  BY <1>0, <1>2 DEF InStep, AfterSending
<1>6. Selecting(R) => Selecting(S)
  <2> SUFFICES ASSUME Selecting(R), NEW i \in 1 .. Len(S.pending), S.pending[i].kind = "select"
               PROVE  S.socket \in S.selected
    BY DEF Selecting
  <2>1. (S.pending[i] = R.pending[i] /\ i \in 1 .. Len(R.pending)) \/ S.pending[i] = q
    BY <1>1, AppendedAt DEF AfterSending
  <2> QED BY <2>1 DEF Selecting, AfterSending
<1> QED BY <1>4, <1>5, <1>6 DEF ClientInv, AfterSending

(* Of the commands, c is sent on the client's connection or rejected. *)
OneSent(R, S, c) ==
  \A d \in Commands : S.at[d] = "sent" => \/ R.at[d] = "sent" /\ S.on[d] = R.on[d]
                                          \/ d = c /\ S.on[d] = R.socket

LEMMA SendCommandIs ==
  ASSUME NEW R \in Clients, NEW c \in Commands
  PROVE  /\ SendCommand(R, c) \in Clients
         /\ ClientInv(R) => ClientInv(SendCommand(R, c))
         /\ NoneAnswered(R, SendCommand(R, c)) /\ OneSent(R, SendCommand(R, c), c)
         /\ SendCommand(R, c).socket = R.socket /\ SendCommand(R, c).state = R.state
         /\ SendCommand(R, c).selected = R.selected /\ SendCommand(R, c).buffer = R.buffer
         /\ SendCommand(R, c).mixed = R.mixed
<1> DEFINE S == SendCommand(R, c)
<1>1. CASE Live(R)
  <2> DEFINE Q == Sent(R, Command(c))
             P == [Q EXCEPT !.at[c] = "sent", !.on[c] = R.socket]
  <2>1. S = P
    BY <1>1 DEF SendCommand
  <2>2. Command(c) \in ClientRequests /\ Command(c).kind = "command"
    BY RequestKinds DEF Command
  <2> DEFINE q == Command(c)
  <2> HIDE DEF q
  <2>3. /\ Q \in Clients /\ R.socket \in Sockets /\ AfterSending(R, Q, q)
        /\ Q.selected = R.selected /\ Q.at = R.at /\ Q.on = R.on /\ Q.reply = R.reply
    BY <1>1, <2>2, SentIs DEF q
  <2> HIDE DEF Q
  <2>4. P \in Clients
    BY <2>3 DEF Clients
  <2>5. /\ P.pending = Q.pending /\ P.wire = Q.wire /\ P.socket = Q.socket /\ P.buffer = Q.buffer
        /\ P.state = Q.state /\ P.selected = Q.selected /\ P.mixed = Q.mixed /\ P.reply = Q.reply
        /\ \A d \in Commands : d # c => P.at[d] = Q.at[d] /\ P.on[d] = Q.on[d]
        /\ P.at[c] = "sent" /\ P.on[c] = R.socket
    BY <2>3 DEF Clients
  <2> HIDE DEF P
  <2>s. AfterSending(R, P, q)
    BY <2>3, <2>5 DEF AfterSending
  <2>6. ClientInv(R) => ClientInv(P)
    <3>1. q \in ClientRequests /\ q.kind # "select" /\ R.selected \subseteq P.selected
      BY <2>2, <2>3, <2>5 DEF q
    <3> QED BY <1>1, <2>4, <2>s, <3>1, SentInv
  <2>7. NoneAnswered(R, P)
    BY <2>3, <2>5 DEF NoneAnswered
  <2>8. OneSent(R, P, c)
    BY <2>3, <2>5 DEF OneSent
  <2> HIDE DEF S
  <2> QED BY <2>1, <2>3, <2>4, <2>5, <2>s, <2>6, <2>7, <2>8 DEF S, AfterSending
<1>2. CASE ~Live(R)
  <2> DEFINE P == [R EXCEPT !.at[c] = "rejected"]
  <2>1. S = P
    BY <1>2 DEF SendCommand
  <2>2. P \in Clients
    BY DEF Clients
  <2>3. /\ SameConnection(R, P) /\ P.reply = R.reply /\ P.on = R.on /\ P.at[c] = "rejected"
        /\ \A d \in Commands : d # c => P.at[d] = R.at[d]
    BY DEF SameConnection, Clients
  <2> HIDE DEF P
  <2>4. ClientInv(R) => ClientInv(P)
    BY <2>2, <2>3, SameConnectionInv
  <2>5. NoneAnswered(R, P) /\ OneSent(R, P, c)
    BY <2>3 DEF NoneAnswered, OneSent
  <2> HIDE DEF S
  <2> QED BY <2>1, <2>2, <2>3, <2>4, <2>5 DEF S, SameConnection
<1> QED BY <1>1, <1>2

(* The connection stays, and SELECT is not forgotten. *)
KeepsOpen(R, S) == S.socket = R.socket /\ S.state = R.state /\ R.selected \subseteq S.selected

(* Commands that were not sent in R go out on its connection. *)
SentOn(R, S) ==
  \A d \in Commands : S.at[d] = "sent" => (R.at[d] = "sent" /\ S.on[d] = R.on[d]) \/ S.on[d] = R.socket

LEMMA SettledIs ==
  ASSUME NEW R, ClientInv(R), NEW k
  PROVE  /\ ClientInv(Settled(R, k)) /\ NoneAnswered(R, Settled(R, k))
         /\ SentOn(R, Settled(R, k)) /\ KeepsOpen(R, Settled(R, k))
<1> DEFINE n == NCommands
           W == Waiting(R, {k})
           x == [R EXCEPT !.connecting = None]
           Sends(f) == f = [c \in 0 .. n |-> IF c = 0 THEN x ELSE
                                             IF c \in W THEN SendCommand(f[c - 1], c) ELSE f[c - 1]]
           f == CHOOSE f : Sends(f)
<1>1. Settled(R, k) = f[n]
  BY Zenon DEF Settled
<1>2. x \in Clients /\ SameConnection(R, x) /\ x.at = R.at /\ x.on = R.on /\ x.reply = R.reply
  BY DEF ClientInv, Clients, SameConnection
<1>3. ClientInv(x)
  BY <1>2, SameConnectionInv
<1>n. n \in Nat /\ 1 .. n = Commands
  BY ConstantsAssumption DEF Commands
<1> HIDE DEF x, W, n
<1> DEFINE F == [p \in (1 .. n) \X Clients |-> IF p[1] \in W THEN SendCommand(p[2], p[1]) ELSE p[2]]
<1>4. F \in [(1 .. n) \X Clients -> Clients]
  <2> SUFFICES ASSUME NEW p \in (1 .. n) \X Clients PROVE F[p] \in Clients
    OBVIOUS
  <2>1. SendCommand(p[2], p[1]) \in Clients
    BY <1>n, SendCommandIs
  <2> QED BY <2>1
<1> HIDE DEF F
<1>5. PICK s \in [0 .. n -> Clients] : OneAfterOther(s, F, x, n)
  BY <1>2, <1>4, <1>n, FoldExists
<1>6. \A c \in 1 .. n : s[c] = IF c \in W THEN SendCommand(s[c - 1], c) ELSE s[c - 1]
  <2> SUFFICES ASSUME NEW c \in 1 .. n
               PROVE  s[c] = IF c \in W THEN SendCommand(s[c - 1], c) ELSE s[c - 1]
    OBVIOUS
  <2> DEFINE y == s[c - 1]
  <2>1. y \in Clients
    BY <1>5, <1>n
  <2>2. s[c] = F[<<c, y>>]
    BY <1>5 DEF OneAfterOther
  <2> HIDE DEF y
  <2>3. F[<<c, y>>] = IF c \in W THEN SendCommand(y, c) ELSE y
    BY <2>1 DEF F
  <2> QED BY <2>2, <2>3 DEF y
<1>7. Sends(s)
  <2>1. s[0] = x
    BY <1>5 DEF OneAfterOther
  <2>2. \A c \in 0 .. n : c # 0 => c \in 1 .. n
    BY <1>n
  <2> QED BY <1>5, <1>6, <2>1, <2>2
<1>8. Sends(f)
  BY <1>7
<1> HIDE DEF f
<1>9. f[0] = x /\ \A c \in 1 .. n : c # 0 /\ f[c] = IF c \in W THEN SendCommand(f[c - 1], c) ELSE f[c - 1]
  BY <1>8, <1>n
<1> HIDE DEF Sends
<1> DEFINE Good(S) == ClientInv(S) /\ NoneAnswered(R, S) /\ SentOn(R, S) /\ KeepsOpen(R, S)
           T == {c \in 0 .. n : Good(f[c])}
<1>10. 0 \in T
  <2>1. Good(x)
    BY <1>2, <1>3 DEF NoneAnswered, SentOn, KeepsOpen, SameConnection
  <2> QED BY <1>9, <1>n, <2>1
<1>11. ASSUME NEW c \in 1 .. n, c - 1 \in T PROVE c \in T
  <2> DEFINE P == f[c - 1]
  <2>1. Good(P)
    BY <1>11
  <2>2. f[c] = IF c \in W THEN SendCommand(P, c) ELSE P
    BY <1>9
  <2> HIDE DEF P
  <2>3. Good(SendCommand(P, c))
    <3> DEFINE S == SendCommand(P, c)
    <3>1. P \in Clients /\ c \in Commands
      BY <1>n, <2>1 DEF ClientInv
    <3>2. /\ ClientInv(P) => ClientInv(S)
          /\ NoneAnswered(P, S) /\ OneSent(P, S, c) /\ KeepsOpen(P, S)
      BY <3>1, SendCommandIs DEF KeepsOpen
    <3> HIDE DEF S
    <3>3. NoneAnswered(R, S)
      BY <2>1, <3>2 DEF NoneAnswered
    <3>4. SentOn(R, S)
      BY <2>1, <3>2 DEF SentOn, OneSent, KeepsOpen
    <3>5. KeepsOpen(R, S)
      BY <2>1, <3>2 DEF KeepsOpen
    <3> HIDE DEF Good
    <3>6. Good(S)
      BY <2>1, <3>2, <3>3, <3>4, <3>5 DEF Good
    <3> QED BY <3>6 DEF S
  <2> HIDE DEF Good
  <2>4. Good(f[c])
    BY <2>1, <2>2, <2>3
  <2>5. c \in 0 .. n
    BY <1>n
  <2> QED BY <2>4, <2>5
<1>12. n \in T
  <2> HIDE DEF T
  <2>1. \A c \in 0 .. n : c \in T
    BY <1>10, <1>11, <1>n, UpTo
  <2> QED BY <1>n, <2>1
<1> QED BY <1>1, <1>12

(* What the answer to a request sets off: at most its command is answered, *)
(* with this reply; commands that wait are sent after SELECT only, if      *)
(* there is a database; and the connection stays unless there was an       *)
(* error.                                                                  *)
Answers(R, S, q, reply) ==
  \A c \in Commands : S.at[c] = "resolved" =>
    (R.at[c] = "resolved" /\ S.reply[c] = R.reply[c]) \/ (q = Command(c) /\ S.reply[c] = reply.of)

SendsAfter(R, S, q) ==
  \A d \in Commands : S.at[d] = "sent" =>
    \/ R.at[d] = "sent" /\ S.on[d] = R.on[d]
    \/ (~Database \/ q.kind = "select") /\ S.on[d] = R.socket

Goes(R, S, q, reply) ==
  /\ ClientInv(S) /\ Answers(R, S, q, reply) /\ SendsAfter(R, S, q)
  /\ R.selected \subseteq S.selected
  /\ reply.ok /\ Live(R) => KeepsOpen(R, S)

LEMMA AfterAuthIs ==
  ASSUME NEW R, ClientInv(R), NEW k \in Sockets, NEW q, NEW reply
  PROVE  Goes(R, AfterAuth(R, k), q, reply) /\ NoneAnswered(R, AfterAuth(R, k))
<1> DEFINE S == AfterAuth(R, k)
<1>0. R \in Clients /\ OwnConnection(R)
  BY DEF ClientInv
<1>1. CASE ~Database
  <2>1. S = Settled(R, k)
    BY <1>1 DEF AfterAuth
  <2>2. ClientInv(S) /\ NoneAnswered(R, S) /\ SentOn(R, S) /\ KeepsOpen(R, S)
    BY <2>1, SettledIs
  <2> HIDE DEF S
  <2>3. Answers(R, S, q, reply)
    BY <2>2 DEF NoneAnswered, Answers
  <2>4. SendsAfter(R, S, q)
    BY <1>1, <2>2 DEF SentOn, SendsAfter
  <2>5. Goes(R, S, q, reply) /\ NoneAnswered(R, S)
    BY <2>2, <2>3, <2>4 DEF Goes, KeepsOpen
  <2> QED BY <2>5 DEF S
<1>2. CASE Database /\ ~Live(R)
  <2>1. S = SetupFailed(R, k)
    BY <1>2 DEF AfterAuth
  <2>2. ClientInv(S) /\ NoneAnswered(R, S) /\ NoneSent(R, S) /\ S.selected = R.selected
    BY <1>0, <2>1, SetupFailedIs
  <2> HIDE DEF S
  <2>3. Goes(R, S, q, reply) /\ NoneAnswered(R, S)
    BY <1>2, <2>2 DEF NoneAnswered, NoneSent, Answers, SendsAfter, Goes
  <2> QED BY <2>3 DEF S
<1>3. CASE Database /\ Live(R)
  <2> DEFINE Q == Sent(R, Select(k))
             sel == R.selected \cup {R.socket}
             P == [Q EXCEPT !.selected = sel]
             s == Select(k)
  <2>0. s \in ClientRequests
    BY RequestKinds
  <2> HIDE DEF s
  <2>1. /\ Q \in Clients /\ R.socket \in Sockets /\ AfterSending(R, Q, s)
        /\ Q.selected = R.selected /\ Q.at = R.at /\ Q.on = R.on /\ Q.reply = R.reply
    BY <1>0, <1>3, <2>0, SentIs DEF s
  <2>2. S = P
    BY <1>3, <2>1 DEF AfterAuth
  <2> HIDE DEF Q
  <2>3. sel \in SUBSET Sockets /\ R.selected \subseteq sel /\ R.socket \in sel
    BY <1>0, <2>1 DEF Clients
  <2> HIDE DEF sel
  <2>4. P \in Clients
    BY <2>1, <2>3 DEF Clients
  <2>5. /\ P.pending = Q.pending /\ P.wire = Q.wire /\ P.socket = Q.socket /\ P.buffer = Q.buffer
        /\ P.state = Q.state /\ P.selected = sel /\ P.mixed = Q.mixed /\ P.reply = Q.reply
        /\ P.at = Q.at /\ P.on = Q.on
    BY <2>1 DEF Clients
  <2> HIDE DEF P
  <2>6. AfterSending(R, P, s)
    BY <2>1, <2>5 DEF AfterSending
  <2>7. ClientInv(P)
    BY <1>3, <2>0, <2>3, <2>4, <2>5, <2>6, SentInv
  <2>8. Goes(R, P, q, reply) /\ NoneAnswered(R, P)
    BY <2>1, <2>3, <2>5, <2>6, <2>7 DEF NoneAnswered, Answers, SendsAfter, Goes, KeepsOpen, AfterSending
  <2> QED BY <2>2, <2>8
<1> QED BY <1>1, <1>2, <1>3

LEMMA ContinuedGoes ==
  ASSUME NEW R, ClientInv(R), NEW q \in ClientRequests, NEW reply \in Replies
  PROVE  Goes(R, Continued(R, q, reply), q, reply)
<1> DEFINE S == Continued(R, q, reply)
<1>0. R \in Clients /\ OwnConnection(R)
  BY DEF ClientInv
<1>1. CASE q.kind = "command"
  <2> DEFINE c == q.of
             P == [R EXCEPT !.at[c] = IF reply.ok THEN "resolved" ELSE "rejected", !.reply[c] = reply.of]
  <2>1. S = P
    BY <1>1 DEF Continued
  <2>2. c \in Commands /\ q = Command(c)
    BY <1>1, RequestKinds
  <2>3. reply.of \in ClientRequests \cup {Torn} /\ reply.ok \in BOOLEAN
    BY DEF Replies
  <2> HIDE DEF c
  <2>4. P \in Clients
    BY <1>0, <2>2, <2>3 DEF Clients
  <2>5. /\ SameConnection(R, P) /\ P.on = R.on /\ P.at[c] \in {"resolved", "rejected"} /\ P.reply[c] = reply.of
        /\ \A d \in Commands : d # c => P.at[d] = R.at[d] /\ P.reply[d] = R.reply[d]
    BY <1>0, <2>2 DEF SameConnection, Clients
  <2> HIDE DEF P
  <2>6. ClientInv(P)
    BY <2>4, <2>5, SameConnectionInv
  <2>7. Answers(R, P, q, reply)
    BY <2>2, <2>5 DEF Answers
  <2>8. SendsAfter(R, P, q)
    BY <2>5 DEF SendsAfter
  <2>9. Goes(R, P, q, reply)
    BY <2>5, <2>6, <2>7, <2>8 DEF Goes, KeepsOpen, SameConnection
  <2> QED BY <2>1, <2>9
<1>2. CASE q.kind # "command" /\ ~reply.ok
  <2>1. S = SetupFailed(R, q.of)
    BY <1>2 DEF Continued
  <2>2. ClientInv(S) /\ NoneAnswered(R, S) /\ NoneSent(R, S) /\ S.selected = R.selected
    BY <1>0, <2>1, SetupFailedIs
  <2> HIDE DEF S
  <2>3. Goes(R, S, q, reply)
    BY <1>2, <2>2 DEF NoneAnswered, NoneSent, Answers, SendsAfter, Goes
  <2> QED BY <2>3 DEF S
<1>3. CASE q.kind = "auth" /\ reply.ok
  <2>1. S = AfterAuth(R, q.of)
    BY <1>3 DEF Continued
  <2>2. q.of \in Sockets
    BY <1>3, RequestKinds
  <2> QED BY <2>1, <2>2, AfterAuthIs
<1>4. CASE q.kind = "select" /\ reply.ok
  <2>1. S = Settled(R, q.of)
    BY <1>4 DEF Continued
  <2>2. ClientInv(S) /\ NoneAnswered(R, S) /\ SentOn(R, S) /\ KeepsOpen(R, S)
    BY <2>1, SettledIs
  <2> HIDE DEF S
  <2>3. Goes(R, S, q, reply)
    BY <1>4, <2>2 DEF NoneAnswered, Answers, SentOn, SendsAfter, Goes, KeepsOpen
  <2> QED BY <2>3 DEF S
<1>5. q.kind \in {"command", "auth", "select"}
  BY RequestKinds
<1> QED BY <1>1, <1>2, <1>3, <1>4, <1>5

(* As many replies as there are requests are looked at, up to the first    *)
(* error; what is left then is the client before the continuations run.    *)
Matched(R) == Min({Len(R.buffer), Len(R.pending)})
Errors(R) == {i \in 1 .. Matched(R) : ~R.buffer[i].ok}
Taken(R) == Min(Errors(R) \cup {Matched(R)})
Left(R, cut) ==
  [R EXCEPT !.pending = SubSeq(@, Taken(R) + 1, Len(@)),
            !.buffer = IF Errors(R) = {} THEN SubSeq(@, Taken(R) + 1, Len(@)) ELSE <<>>,
            !.mixed = @ \/ (Errors(R) # {} /\ (cut \/ Taken(R) < Len(R.buffer)))]

LEMMA MinIs ==
  ASSUME NEW A \in SUBSET Nat, A # {}
  PROVE  Min(A) \in A /\ \A a \in A : Min(A) <= a
<1>1. \E x \in A : \A y \in A : x <= y
  BY LeastNumber
<1> QED BY Zenon, <1>1 DEF Min

LEMMA TakenIs ==
  ASSUME NEW R \in Clients
  PROVE  /\ Len(R.buffer) \in Nat /\ Len(R.pending) \in Nat /\ Taken(R) \in Nat
         /\ Matched(R) \in {Len(R.buffer), Len(R.pending)}
         /\ Matched(R) <= Len(R.buffer) /\ Matched(R) <= Len(R.pending)
         /\ Taken(R) <= Matched(R) /\ (Errors(R) = {} => Taken(R) = Matched(R))
         /\ \A i \in 1 .. Taken(R) : i # Taken(R) => R.buffer[i].ok
<1>1. Len(R.buffer) \in Nat /\ Len(R.pending) \in Nat
  BY DEF Clients
<1> DEFINE b == Len(R.buffer)
           p == Len(R.pending)
           n == Matched(R)
<1>2. n = Min({b, p})
  BY DEF Matched
<1> HIDE DEF b, p, n
<1>3. b \in Nat /\ p \in Nat
  BY <1>1 DEF b, p
<1>4. n \in {b, p} /\ n <= b /\ n <= p
  BY <1>2, <1>3, MinIs
<1> DEFINE E == Errors(R)
           m == Taken(R)
<1>5. E \subseteq 1 .. n /\ E = {i \in 1 .. n : ~R.buffer[i].ok}
  BY DEF Errors, n
<1>6. m = Min(E \cup {n})
  BY DEF Taken, n
<1> HIDE DEF E, m
<1>7. n \in Nat /\ E \cup {n} \in SUBSET Nat
  BY <1>3, <1>4, <1>5
<1>8. m \in E \cup {n} /\ \A a \in E \cup {n} : m <= a
  BY <1>6, <1>7, MinIs
<1>9. m \in Nat /\ m <= n /\ (E = {} => m = n)
  BY <1>7, <1>8
<1>10. \A i \in 1 .. m : i # m => R.buffer[i].ok
  <2> SUFFICES ASSUME NEW i \in 1 .. m, i # m, ~R.buffer[i].ok PROVE FALSE
    OBVIOUS
  <2>1. i \in 1 .. n
    BY <1>7, <1>9
  <2>2. i \in E
    BY <1>5, <2>1
  <2> QED BY <1>8, <1>9, <2>2
<1> QED BY <1>3, <1>4, <1>9, <1>10 DEF b, p, n, m, E

LEMMA LeftIs ==
  ASSUME NEW R \in Clients, NEW cut \in BOOLEAN
  PROVE  /\ Left(R, cut) \in Clients
         /\ Left(R, cut).pending = SubSeq(R.pending, Taken(R) + 1, Len(R.pending))
         /\ Left(R, cut).buffer = IF Errors(R) = {} THEN SubSeq(R.buffer, Taken(R) + 1, Len(R.buffer)) ELSE <<>>
         /\ Left(R, cut).mixed = (R.mixed \/ (Errors(R) # {} /\ (cut \/ Taken(R) < Len(R.buffer))))
         /\ Left(R, cut).socket = R.socket /\ Left(R, cut).state = R.state /\ Left(R, cut).wire = R.wire
         /\ Left(R, cut).selected = R.selected /\ Left(R, cut).at = R.at /\ Left(R, cut).on = R.on
         /\ Left(R, cut).reply = R.reply
<1> DEFINE p == SubSeq(R.pending, Taken(R) + 1, Len(R.pending))
           b == IF Errors(R) = {} THEN SubSeq(R.buffer, Taken(R) + 1, Len(R.buffer)) ELSE <<>>
           mx == R.mixed \/ (Errors(R) # {} /\ (cut \/ Taken(R) < Len(R.buffer)))
           S == [R EXCEPT !.pending = p, !.buffer = b, !.mixed = mx]
<1>1. Left(R, cut) = S
  BY DEF Left, Clients
<1>2. Taken(R) \in Nat
  BY TakenIs
<1>3. R.pending \in Seq(ClientRequests) /\ R.buffer \in Seq(Replies) /\ R.mixed \in BOOLEAN
  BY DEF Clients
<1> HIDE DEF Clients, ClientRequests, Replies
<1>4. p \in Seq(ClientRequests)
  BY <1>2, <1>3
<1>5. b \in Seq(Replies)
  BY <1>2, <1>3
<1>6. mx \in BOOLEAN
  OBVIOUS
<1> HIDE DEF p, b, mx
<1>7. S \in Clients
  BY <1>4, <1>5, <1>6 DEF Clients
<1>8. /\ S.pending = p /\ S.buffer = b /\ S.mixed = mx /\ S.socket = R.socket /\ S.state = R.state
      /\ S.wire = R.wire /\ S.selected = R.selected /\ S.at = R.at /\ S.on = R.on /\ S.reply = R.reply
  BY DEF Clients
<1> HIDE DEF S
<1> QED BY <1>1, <1>7, <1>8 DEF p, b, mx

(* With replies that answer the requests they meet, commands get their own *)
(* reply; and when SELECT is ahead of those that wait, they are sent after *)
(* it.                                                                     *)
OwnReplies(R, S) == \A c \in Commands : S.at[c] = "resolved" => R.at[c] = "resolved" \/ S.reply[c] = Command(c)
Chosen(R, S) ==
  \A c \in Commands : S.at[c] = "sent" => R.at[c] = "sent" \/ ~Database \/ S.on[c] \in S.selected
Meeting(R) == \A i \in 1 .. Taken(R) : R.buffer[i].of = R.pending[i]

LEMMA FlushPendingIs ==
  ASSUME NEW R \in Clients, OwnConnection(R), NEW cut \in BOOLEAN, ClientInv(Left(R, cut))
  PROVE  /\ ClientInv(FlushPending(R, cut))
         /\ Meeting(R) => OwnReplies(R, FlushPending(R, cut))
         /\ Selecting(R) => Chosen(R, FlushPending(R, cut))
<1> DEFINE n == Taken(R)
           x == Left(R, cut)
           Step(i, S) == Continued(S, R.pending[i], R.buffer[i])
           Does(f) == f = [i \in 0 .. n |-> IF i = 0 THEN x ELSE Step(i, f[i - 1])]
           f == CHOOSE f : Does(f)
<1>1. FlushPending(R, cut) = f[n]
  BY Zenon DEF FlushPending, Taken, Left, Errors, Matched
<1>2. /\ n \in Nat /\ n <= Len(R.pending) /\ n <= Len(R.buffer)
      /\ \A i \in 1 .. n : i # n => R.buffer[i].ok
  <2>1. Matched(R) \in Nat /\ Matched(R) <= Len(R.pending) /\ Matched(R) <= Len(R.buffer) /\ n <= Matched(R)
    BY TakenIs
  <2>2. n \in Nat /\ Len(R.pending) \in Nat /\ Len(R.buffer) \in Nat
    BY TakenIs
  <2>3. \A i \in 1 .. n : i # n => R.buffer[i].ok
    BY TakenIs
  <2> HIDE DEF n
  <2> QED BY <2>1, <2>2, <2>3
<1>3. \A i \in 1 .. n : R.pending[i] \in ClientRequests /\ R.buffer[i] \in Replies
  <2>1. R.pending \in Seq(ClientRequests) /\ R.buffer \in Seq(Replies)
    BY DEF Clients
  <2> HIDE DEF n
  <2>2. \A i \in 1 .. n : i \in 1 .. Len(R.pending) /\ i \in 1 .. Len(R.buffer)
    BY <1>2, <2>1
  <2> QED BY <2>1, <2>2
<1>4. /\ ClientInv(x) /\ x \in Clients /\ x.socket = R.socket /\ x.state = R.state
      /\ x.selected = R.selected /\ x.at = R.at /\ x.on = R.on /\ x.reply = R.reply
  BY LeftIs
<1>5. n > 0 => Live(R)
  <2>1. Len(R.pending) \in Nat /\ R.socket = None => Len(R.pending) = 0
    BY DEF OwnConnection
  <2> HIDE DEF n
  <2> QED BY <1>2, <2>1, TakenIs DEF OwnConnection, Live
<1> HIDE DEF x, n
<1> DEFINE Y == {S \in Clients : ClientInv(S)}
           F == [p \in (1 .. n) \X Y |-> Step(p[1], p[2])]
<1>6. \A i \in 1 .. n, S \in Y : Goes(S, Step(i, S), R.pending[i], R.buffer[i])
  BY <1>3, ContinuedGoes
<1>7. F \in [(1 .. n) \X Y -> Y]
  <2>1. \A i \in 1 .. n, S \in Y : Step(i, S) \in Y
    BY <1>6 DEF Goes, ClientInv
  <2> HIDE DEF Y, Step
  <2> QED BY <2>1
<1>8. x \in Y
  BY <1>4
<1> HIDE DEF Y, F
<1>9. PICK s \in [0 .. n -> Y] : OneAfterOther(s, F, x, n)
  BY <1>2, <1>7, <1>8, FoldExists
<1>10. \A i \in 1 .. n : s[i] = Step(i, s[i - 1])
  <2> SUFFICES ASSUME NEW i \in 1 .. n PROVE s[i] = Step(i, s[i - 1])
    OBVIOUS
  <2> DEFINE y == s[i - 1]
  <2>1. y \in Y
    BY <1>2, <1>9
  <2>2. s[i] = F[<<i, y>>]
    BY <1>9 DEF OneAfterOther
  <2> HIDE DEF y, Step
  <2>3. F[<<i, y>>] = Step(i, y)
    BY <2>1 DEF F
  <2> QED BY <2>2, <2>3 DEF y
<1>11. Does(s)
  <2> HIDE DEF Step
  <2>1. s[0] = x
    BY <1>9 DEF OneAfterOther
  <2>2. \A i \in 0 .. n : i # 0 => i \in 1 .. n
    BY <1>2
  <2> QED BY <1>9, <1>10, <2>1, <2>2
<1>12. Does(f)
  BY <1>11
<1> HIDE DEF f
<1>13. f[0] = x /\ \A i \in 1 .. n : f[i] = Step(i, f[i - 1])
  <2> HIDE DEF Step
  <2> QED BY <1>12, <1>2
<1> HIDE DEF Does
<1> DEFINE Good(i, S) ==
             /\ S \in Y /\ (i # n => KeepsOpen(R, S))
             /\ Meeting(R) => OwnReplies(R, S)
             /\ Selecting(R) => Chosen(R, S)
           T == {i \in 0 .. n : Good(i, f[i])}
<1>14. 0 \in T
  <2>1. Good(0, x)
    BY <1>4, <1>8 DEF KeepsOpen, OwnReplies, Chosen
  <2> QED BY <1>2, <1>13, <2>1
<1>15. ASSUME NEW i \in 1 .. n, i - 1 \in T PROVE i \in T
  <2> DEFINE P == f[i - 1]
             q == R.pending[i]
             reply == R.buffer[i]
             S == f[i]
  <2>1. P \in Y /\ KeepsOpen(R, P) /\ (Meeting(R) => OwnReplies(R, P)) /\ (Selecting(R) => Chosen(R, P))
    BY <1>2, <1>15
  <2>2. Goes(P, S, q, reply)
    BY <1>6, <1>13, <2>1
  <2>3. i # n => reply.ok
    BY <1>2
  <2>4. Live(P)
    BY <1>2, <1>5, <2>1 DEF KeepsOpen, Live
  <2>5. Meeting(R) => reply.of = q
    BY DEF Meeting, n
  <2>6. Selecting(R) /\ q.kind = "select" => R.socket \in R.selected
    <3>1. i \in 1 .. Len(R.pending)
      BY <1>2, TakenIs
    <3> QED BY <3>1 DEF Selecting
  <2> HIDE DEF P, q, reply, S
  <2>7. S \in Y
    BY <2>2 DEF Goes, Y, ClientInv
  <2>8. i # n => KeepsOpen(R, S)
    BY <2>1, <2>2, <2>3, <2>4 DEF Goes, KeepsOpen
  <2>9. Meeting(R) => OwnReplies(R, S)
    <3> SUFFICES ASSUME Meeting(R), NEW c \in Commands, S.at[c] = "resolved"
                 PROVE  R.at[c] = "resolved" \/ S.reply[c] = Command(c)
      BY DEF OwnReplies
    <3> QED BY <2>1, <2>2, <2>5 DEF Goes, Answers, OwnReplies
  <2>10. Selecting(R) => Chosen(R, S)
    <3> SUFFICES ASSUME Selecting(R), NEW c \in Commands, S.at[c] = "sent"
                 PROVE  R.at[c] = "sent" \/ ~Database \/ S.on[c] \in S.selected
      BY DEF Chosen
    <3>1. \/ P.at[c] = "sent" /\ S.on[c] = P.on[c]
          \/ (~Database \/ q.kind = "select") /\ S.on[c] = P.socket
      BY <2>2 DEF Goes, SendsAfter
    <3>2. P.socket = R.socket /\ R.selected \subseteq P.selected /\ P.selected \subseteq S.selected
      BY <2>1, <2>2 DEF KeepsOpen, Goes
    <3>3. CASE P.at[c] = "sent" /\ S.on[c] = P.on[c]
      BY <2>1, <3>2, <3>3 DEF Chosen
    <3>4. CASE (~Database \/ q.kind = "select") /\ S.on[c] = P.socket
      BY <2>6, <3>2, <3>4
    <3> QED BY <3>1, <3>3, <3>4
  <2>11. Good(i, S)
    BY <2>7, <2>8, <2>9, <2>10
  <2>12. i \in 0 .. n
    BY <1>2
  <2> HIDE DEF Good
  <2> QED BY <2>11, <2>12 DEF S
<1>16. n \in T
  <2> HIDE DEF T
  <2>1. \A i \in 0 .. n : i \in T
    BY <1>2, <1>14, <1>15, UpTo
  <2> QED BY <1>2, <2>1
<1>17. f[n] \in Y /\ (Meeting(R) => OwnReplies(R, f[n])) /\ (Selecting(R) => Chosen(R, f[n]))
  BY <1>16
<1> HIDE DEF T
<1> QED BY <1>1, <1>17 DEF Y

(* What the client has when a chunk came, before flushPending. *)
Chunk(R, k, n, e) == [i \in 1 .. n |-> [of |-> R.wire[k][i], ok |-> i # e]]
Behind(R, k, n) == SubSeq(R.wire[k], n + 1, Len(R.wire[k]))
DroppedRest(R, e, cut) == cut /\ e # 0 /\ Len(R.buffer) + e <= Len(R.pending)
AfterChunk(R, k, n, e, cut) ==
  [R EXCEPT !.buffer = @ \o Chunk(R, k, n, e),
            !.wire[k] = IF DroppedRest(R, e, cut) THEN <<Torn>> \o Tail(Behind(R, k, n)) ELSE Behind(R, k, n)]

Arriving(R, k, n, e, cut) ==
  /\ k \in Sockets /\ n \in 1 .. Len(R.wire[k]) /\ e \in 0 .. n /\ cut \in BOOLEAN
  /\ R.state[k] = "open" /\ (cut => n < Len(R.wire[k]))

LEMMA TailTyped ==
  ASSUME NEW A, NEW s \in Seq(A), s # <<>>
  PROVE  Tail(s) \in Seq(A)
OBVIOUS

LEMMA ChunkIs ==
  ASSUME NEW R \in Clients, NEW k, NEW n, NEW e, NEW cut, Arriving(R, k, n, e, cut)
  PROVE  /\ Chunk(R, k, n, e) \in Seq(Replies) /\ Len(Chunk(R, k, n, e)) = n
         /\ \A i \in 1 .. n : /\ Chunk(R, k, n, e)[i].of = R.wire[k][i]
                             /\ Chunk(R, k, n, e)[i].ok = (i # e)
<1>1. n \in Nat /\ \A i \in 1 .. n : R.wire[k][i] \in ClientRequests \cup {Torn}
  <2>1. R.wire[k] \in Seq(ClientRequests \cup {Torn}) /\ n \in 1 .. Len(R.wire[k])
    BY DEF Clients, Arriving
  <2> HIDE DEF ClientRequests, Torn
  <2> QED BY <2>1
<1>2. \A i \in 1 .. n : [of |-> R.wire[k][i], ok |-> i # e] \in Replies
  BY <1>1 DEF Replies
<1> QED BY <1>1, <1>2 DEF Chunk

LEMMA AfterChunkIs ==
  ASSUME NEW R \in Clients, NEW k, NEW n, NEW e, NEW cut, Arriving(R, k, n, e, cut)
  PROVE  /\ AfterChunk(R, k, n, e, cut) \in Clients
         /\ AfterChunk(R, k, n, e, cut).buffer = R.buffer \o Chunk(R, k, n, e)
         /\ ~DroppedRest(R, e, cut) => AfterChunk(R, k, n, e, cut).wire[k] = Behind(R, k, n)
         /\ \A j \in Sockets : j # k => AfterChunk(R, k, n, e, cut).wire[j] = R.wire[j]
         /\ AfterChunk(R, k, n, e, cut).pending = R.pending /\ AfterChunk(R, k, n, e, cut).socket = R.socket
         /\ AfterChunk(R, k, n, e, cut).state = R.state /\ AfterChunk(R, k, n, e, cut).selected = R.selected
         /\ AfterChunk(R, k, n, e, cut).mixed = R.mixed /\ AfterChunk(R, k, n, e, cut).at = R.at
         /\ AfterChunk(R, k, n, e, cut).on = R.on /\ AfterChunk(R, k, n, e, cut).reply = R.reply
<1> DEFINE b == R.buffer \o Chunk(R, k, n, e)
           v == IF DroppedRest(R, e, cut) THEN <<Torn>> \o Tail(Behind(R, k, n)) ELSE Behind(R, k, n)
           S == [R EXCEPT !.buffer = b, !.wire[k] = v]
           A == ClientRequests \cup {Torn}
<1>1. AfterChunk(R, k, n, e, cut) = S
  BY DEF AfterChunk, Clients, Arriving
<1>2. k \in Sockets /\ R.wire \in [Sockets -> Seq(A)] /\ R.wire[k] \in Seq(A) /\ R.buffer \in Seq(Replies)
  BY DEF Clients, Arriving
<1>3. n \in 1 .. Len(R.wire[k]) /\ Len(R.wire[k]) \in Nat /\ n \in Nat /\ (cut => n < Len(R.wire[k]))
  BY <1>2 DEF Arriving
<1>4. Torn \in A
  OBVIOUS
<1> HIDE DEF A, Clients
<1>5. Chunk(R, k, n, e) \in Seq(Replies)
  BY ChunkIs
<1>6. b \in Seq(Replies)
  BY <1>2, <1>5
<1>7. v \in Seq(A)
  <2>1. Behind(R, k, n) \in Seq(A)
    BY <1>2, <1>3 DEF Behind
  <2>2. Len(Behind(R, k, n)) = Len(R.wire[k]) - n
    BY <1>2, <1>3 DEF Behind
  <2>3. ASSUME DroppedRest(R, e, cut) PROVE <<Torn>> \o Tail(Behind(R, k, n)) \in Seq(A)
    <3>1. Behind(R, k, n) # <<>>
      BY <1>3, <2>2, <2>3 DEF DroppedRest
    <3>2. Tail(Behind(R, k, n)) \in Seq(A)
      BY <2>1, <3>1, TailTyped
    <3>3. <<Torn>> \in Seq(A)
      BY <1>4
    <3> QED BY <3>2, <3>3
  <2> QED BY <2>1, <2>3
<1> HIDE DEF b, v
<1>8. S \in Clients
  BY <1>2, <1>6, <1>7 DEF Clients, A
<1>9. /\ S.buffer = b /\ S.wire[k] = v /\ (\A j \in Sockets : j # k => S.wire[j] = R.wire[j])
      /\ S.pending = R.pending /\ S.socket = R.socket /\ S.state = R.state /\ S.selected = R.selected
      /\ S.mixed = R.mixed /\ S.at = R.at /\ S.on = R.on /\ S.reply = R.reply
  BY <1>2 DEF Clients
<1> HIDE DEF S
<1> QED BY <1>1, <1>8, <1>9 DEF b, v

(* While the client is in step, the chunk is the answer to the first       *)
(* requests of the queue.                                                  *)
LEMMA AfterChunkMeets ==
  ASSUME NEW R, ClientInv(R), ~R.mixed, NEW k, NEW n, NEW e, NEW cut, Arriving(R, k, n, e, cut)
  PROVE  /\ k = R.socket /\ R.pending = R.wire[k] /\ R.buffer = <<>>
         /\ Matched(AfterChunk(R, k, n, e, cut)) = n /\ Len(AfterChunk(R, k, n, e, cut).buffer) = n
         /\ AfterChunk(R, k, n, e, cut).buffer = Chunk(R, k, n, e)
         /\ Errors(AfterChunk(R, k, n, e, cut)) = {i \in 1 .. n : i = e}
         /\ Meeting(AfterChunk(R, k, n, e, cut)) /\ Selecting(AfterChunk(R, k, n, e, cut))
<1> DEFINE r == AfterChunk(R, k, n, e, cut)
<1>1. R \in Clients /\ InStep(R) /\ Selecting(R) /\ k \in Sockets /\ R.state[k] = "open"
  BY DEF ClientInv, Arriving
<1>2. k = R.socket /\ R.buffer = <<>> /\ R.pending = R.wire[k]
  BY <1>1, NoneNoSocket DEF InStep
<1>3. r \in Clients /\ r.buffer = R.buffer \o Chunk(R, k, n, e) /\ r.pending = R.pending
      /\ r.socket = R.socket /\ r.selected = R.selected
  BY <1>1, AfterChunkIs
<1>4. /\ R.wire[k] \in Seq(ClientRequests \cup {Torn}) /\ Len(R.wire[k]) \in Nat
      /\ n \in 1 .. Len(R.wire[k]) /\ n \in Nat /\ e \in 0 .. n
  BY <1>1 DEF Clients, Arriving
<1> DEFINE ch == Chunk(R, k, n, e)
<1>5. /\ ch \in Seq(Replies) /\ Len(ch) = n
      /\ \A i \in 1 .. n : ch[i].of = R.wire[k][i] /\ ch[i].ok = (i # e)
  BY <1>1, ChunkIs
<1> HIDE DEF r, ch
<1>6. r.buffer = ch /\ Len(r.buffer) = n
  BY <1>2, <1>3, <1>5 DEF ch
<1>7. Matched(r) = n
  <2>1. Matched(r) \in {n, Len(R.wire[k])} /\ Matched(r) <= n
    BY <1>2, <1>3, <1>6, TakenIs
  <2> QED BY <1>4, <2>1
<1>8. Errors(r) = {i \in 1 .. n : i = e}
  BY <1>5, <1>6, <1>7 DEF Errors
<1>9. Meeting(r)
  <2>1. Taken(r) \in Nat /\ Taken(r) <= n
    BY <1>3, <1>7, TakenIs
  <2>2. \A i \in 1 .. Taken(r) : i \in 1 .. n
    BY <1>4, <2>1
  <2> QED BY <1>2, <1>3, <1>5, <1>6, <2>2 DEF Meeting
<1>10. Selecting(r)
  BY <1>1, <1>3 DEF Selecting
<1> QED BY <1>2, <1>6, <1>7, <1>8, <1>9, <1>10 DEF r, ch

LEMMA RestOf ==
  ASSUME NEW A, NEW s \in Seq(A), NEW m \in 0 .. Len(s)
  PROVE  /\ Len(SubSeq(s, m + 1, Len(s))) = Len(s) - m
         /\ \A i \in 1 .. Len(SubSeq(s, m + 1, Len(s))) :
              SubSeq(s, m + 1, Len(s))[i] = s[m + i] /\ m + i \in 1 .. Len(s)
<1>1. Len(s) \in Nat /\ m \in Nat /\ m <= Len(s)
  OBVIOUS
<1>2. \A i \in 1 .. Len(s) - m : m + i \in 1 .. Len(s)
  BY <1>1
<1> QED BY <1>1, <1>2

LEMMA AfterChunkInv ==
  ASSUME NEW R, ClientInv(R), NEW k, NEW n, NEW e, NEW cut, Arriving(R, k, n, e, cut)
  PROVE  /\ OwnConnection(AfterChunk(R, k, n, e, cut))
         /\ ClientInv(Left(AfterChunk(R, k, n, e, cut), cut))
<1> DEFINE r == AfterChunk(R, k, n, e, cut)
           S == Left(r, cut)
           m == Taken(r)
<1>1. R \in Clients /\ OwnConnection(R) /\ k \in Sockets /\ R.state[k] = "open" /\ cut \in BOOLEAN
  BY DEF ClientInv, Arriving
<1>2. /\ r \in Clients /\ (~DroppedRest(R, e, cut) => r.wire[k] = Behind(R, k, n))
      /\ (\A j \in Sockets : j # k => r.wire[j] = R.wire[j])
      /\ r.pending = R.pending /\ r.socket = R.socket /\ r.state = R.state
      /\ r.selected = R.selected /\ r.mixed = R.mixed
  BY <1>1, AfterChunkIs
<1>r. /\ ~R.mixed => /\ k = R.socket /\ R.pending = R.wire[k] /\ Matched(r) = n /\ Len(r.buffer) = n
                     /\ Errors(r) = {i \in 1 .. n : i = e} /\ Selecting(r)
  BY AfterChunkMeets
<1> HIDE DEF r
<1>3. OwnConnection(r)
  BY <1>1, <1>2 DEF OwnConnection
<1>4. /\ S \in Clients
      /\ S.pending = SubSeq(r.pending, m + 1, Len(r.pending))
      /\ S.buffer = IF Errors(r) = {} THEN SubSeq(r.buffer, m + 1, Len(r.buffer)) ELSE <<>>
      /\ S.mixed = (r.mixed \/ (Errors(r) # {} /\ (cut \/ m < Len(r.buffer))))
      /\ S.socket = r.socket /\ S.state = r.state /\ S.wire = r.wire /\ S.selected = r.selected
  BY <1>1, <1>2, LeftIs
<1>5. /\ Len(r.buffer) \in Nat /\ Len(r.pending) \in Nat /\ m \in Nat /\ m <= Matched(r)
      /\ m <= Len(r.buffer) /\ m <= Len(r.pending) /\ (Errors(r) = {} => m = Matched(r))
  <2>1. /\ Len(r.buffer) \in Nat /\ Len(r.pending) \in Nat /\ m \in Nat /\ m <= Matched(r)
        /\ Matched(r) \in {Len(r.buffer), Len(r.pending)}
        /\ Matched(r) <= Len(r.buffer) /\ Matched(r) <= Len(r.pending)
        /\ (Errors(r) = {} => m = Matched(r))
    BY <1>2, TakenIs
  <2> HIDE DEF m
  <2> QED BY <2>1
<1>6. r.pending \in Seq(ClientRequests) /\ r.buffer \in Seq(Replies)
  BY <1>2 DEF Clients
<1> HIDE DEF S, m
<1>7. /\ Len(S.pending) = Len(r.pending) - m
      /\ \A i \in 1 .. Len(S.pending) : S.pending[i] = r.pending[m + i] /\ m + i \in 1 .. Len(r.pending)
  BY <1>4, <1>5, <1>6, RestOf
<1>8. OwnConnection(S)
  <2>1. S.socket # None => S.state[S.socket] = "open"
    BY <1>3, <1>4 DEF OwnConnection
  <2>2. S.socket = None => S.pending = <<>>
    <3> SUFFICES ASSUME S.socket = None PROVE S.pending = <<>>
      OBVIOUS
    <3>1. r.pending = <<>>
      BY <1>3, <1>4 DEF OwnConnection
    <3>2. m = 0
      BY <1>5, <3>1
    <3> QED BY <1>4, <3>1, <3>2
  <2>3. \A j \in Sockets : S.state[j] \in {"unused", "connecting"} => S.wire[j] = <<>>
    BY <1>3, <1>4 DEF OwnConnection
  <2> QED BY <2>1, <2>2, <2>3 DEF OwnConnection
<1>9. ASSUME ~S.mixed PROVE InStep(S) /\ Selecting(S)
  <2>1. ~R.mixed /\ (Errors(r) # {} => ~cut /\ m = Len(r.buffer))
    <3>1. ~r.mixed /\ ~(Errors(r) # {} /\ (cut \/ m < Len(r.buffer)))
      BY <1>4, <1>9
    <3> DEFINE l == Len(r.buffer)
    <3> HIDE DEF l
    <3>2. m \in Nat /\ l \in Nat /\ m <= l
      BY <1>5 DEF l
    <3>3. ~(m < l) => m = l
      BY <3>2
    <3> QED BY <1>2, <3>1, <3>3 DEF l
  <2>2. /\ k = R.socket /\ R.pending = R.wire[k] /\ Matched(r) = n /\ Len(r.buffer) = n
        /\ Errors(r) = {i \in 1 .. n : i = e} /\ Selecting(r)
    BY <1>r, <2>1
  <2>3. m = n
    BY <1>5, <2>1, <2>2
  <2>4. ~DroppedRest(R, e, cut)
    <3>1. Errors(r) = {} => e = 0
      <4> SUFFICES ASSUME e # 0 PROVE e \in Errors(r)
        OBVIOUS
      <4>1. e \in 0 .. n /\ n \in 1 .. Len(R.wire[k])
        BY DEF Arriving
      <4> QED BY <2>2, <4>1
    <3> QED BY <2>1, <3>1 DEF DroppedRest
  <2>5. S.buffer = <<>>
    BY <1>4, <1>5, <1>6, <2>2, <2>3
  <2>6. S.pending = S.wire[S.socket]
    BY <1>2, <1>4, <2>2, <2>3, <2>4 DEF Behind
  <2>7. \A j \in Sockets : S.state[j] = "open" => j = S.socket
    <3>1. InStep(R)
      BY <2>1 DEF ClientInv
    <3> QED BY <1>2, <1>4, <3>1 DEF InStep
  <2>8. Selecting(S)
    BY <1>4, <1>7, <2>2 DEF Selecting
  <2> QED BY <2>5, <2>6, <2>7, <2>8 DEF InStep
<1>10. ClientInv(S)
  BY <1>4, <1>8, <1>9 DEF ClientInv
<1> QED BY <1>3, <1>10 DEF S, r

(* What every step keeps, and the two action properties of the client. *)
Waits(R, S) ==
  \A c \in Commands : R.at[c] = "waiting" /\ S.at[c] = "sent" => ~Database \/ S.on[c] \in S.selected
Sound(R, S) == ClientInv(S) /\ (R.mixed \/ (OwnReplies(R, S) /\ Waits(R, S)))

LEMMA DataSound ==
  ASSUME ClientInv(client), NEW k \in Sockets, SomeData(k)
  PROVE  Sound(client, client')
<1>1. PICK n \in 1 .. Len(client.wire[k]), e \in 0 .. Len(client.wire[k]), cut \in BOOLEAN :
        e \in 0 .. n /\ Data(k, n, e, cut)
  <2>1. PICK n \in 1 .. Len(client.wire[k]) : \E e \in 0 .. n, cut \in BOOLEAN : Data(k, n, e, cut)
    BY DEF SomeData
  <2>2. PICK e \in 0 .. n, cut \in BOOLEAN : Data(k, n, e, cut)
    BY <2>1
  <2>3. Len(client.wire[k]) \in Nat
    BY DEF ClientInv, Clients
  <2> QED BY <2>2, <2>3
<1>2. Arriving(client, k, n, e, cut)
  BY <1>1 DEF Data, Arriving
<1> DEFINE r == AfterChunk(client, k, n, e, cut)
           S == FlushPending(r, cut)
<1>3. client' = S
  BY <1>1 DEF Data, AfterChunk, Chunk, Behind, DroppedRest
<1>4. OwnConnection(r) /\ ClientInv(Left(r, cut))
  BY <1>2, AfterChunkInv
<1>5. r \in Clients /\ r.at = client.at
  BY <1>2, AfterChunkIs DEF ClientInv
<1>6. ~client.mixed => Meeting(r) /\ Selecting(r)
  BY <1>2, AfterChunkMeets
<1> HIDE DEF r
<1>7. ClientInv(S) /\ (Meeting(r) => OwnReplies(r, S)) /\ (Selecting(r) => Chosen(r, S))
  BY <1>1, <1>4, <1>5, FlushPendingIs
<1> HIDE DEF S
<1>8. OwnReplies(r, S) => OwnReplies(client, S)
  BY <1>5 DEF OwnReplies
<1>9. Chosen(r, S) => Waits(client, S)
  BY <1>5 DEF Chosen, Waits
<1> HIDE DEF ClientInv
<1>10. Sound(client, S)
  BY <1>6, <1>7, <1>8, <1>9 DEF Sound
<1> QED BY <1>3, <1>10

LEMMA QuietSound ==
  ASSUME NEW R, NEW S, ClientInv(S), NoneAnswered(R, S), NoneSent(R, S)
  PROVE  Sound(R, S)
BY DEF NoneAnswered, NoneSent, Sound, OwnReplies, Waits

LEMMA ConnectedSound ==
  ASSUME ClientInv(client), NEW k \in Sockets, Connected(k)
  PROVE  Sound(client, client')
<1> DEFINE mx == client.mixed \/ OpenBut(client, k) # {}
           r == [client EXCEPT !.state[k] = "open", !.socket = k, !.mixed = mx]
<1>0. /\ client \in Clients /\ OwnConnection(client) /\ client.state[k] = "connecting"
      /\ (client.mixed \/ InStep(client))
  BY DEF ClientInv, Connected
<1>1. client' = IF Password THEN Sent(r, Auth(k)) ELSE AfterAuth(r, k)
  BY <1>0 DEF Connected, Clients
<1>2. mx \in BOOLEAN
  BY <1>0 DEF Clients
<1>m. ~mx => ~client.mixed /\ \A j \in Sockets : client.state[j] = "open" => j = k
  BY DEF OpenBut
<1> HIDE DEF mx
<1>3. r \in Clients
  BY <1>0, <1>2 DEF Clients
<1>4. /\ r.state[k] = "open" /\ (\A j \in Sockets : j # k => r.state[j] = client.state[j])
      /\ r.socket = k /\ r.mixed = mx /\ r.pending = client.pending /\ r.buffer = client.buffer
      /\ r.wire = client.wire /\ r.at = client.at /\ r.on = client.on /\ r.reply = client.reply
  BY <1>0 DEF Clients
<1> HIDE DEF r
<1>5. Live(r)
  BY <1>4, NoneNoSocket DEF Live
<1>6. ClientInv(r)
  <2>1. OwnConnection(r)
    BY <1>0, <1>4, NoneNoSocket DEF OwnConnection
  <2>2. ASSUME ~mx PROVE InStep(r) /\ Selecting(r)
    <3>1. client.socket = None
      <4>1. client.socket # None => client.socket \in Sockets /\ client.state[client.socket] = "open"
        BY <1>0 DEF OwnConnection, Clients
      <4> QED BY <1>0, <1>m, <2>2, <4>1
    <3>2. client.pending = <<>> /\ client.wire[k] = <<>>
      BY <1>0, <3>1 DEF OwnConnection
    <3>3. Len(r.pending) = 0
      BY <1>4, <3>2
    <3>4. \A j \in Sockets : r.state[j] = "open" => j = k
      BY <1>4, <1>m, <2>2
    <3>5. client.buffer = <<>>
      BY <1>0, <1>m, <2>2 DEF InStep
    <3> QED BY <1>4, <3>2, <3>3, <3>4, <3>5 DEF InStep, Selecting
  <2> QED BY <1>3, <1>4, <2>1, <2>2 DEF ClientInv
<1>7. CASE Password
  <2> DEFINE q == Auth(k)
             S == Sent(r, q)
  <2>1. q \in ClientRequests /\ q.kind # "select"
    BY RequestKinds DEF Auth
  <2> HIDE DEF q
  <2>2. S \in Clients /\ AfterSending(r, S, q) /\ S.selected = r.selected /\ S.at = r.at /\ S.on = r.on
        /\ S.reply = r.reply
    BY <1>3, <1>5, <2>1, SentIs
  <2>s. client' = S
    BY <1>1, <1>7 DEF q
  <2> HIDE DEF S
  <2>3. ClientInv(S)
    BY <1>5, <1>6, <2>1, <2>2, SentInv
  <2>4. NoneAnswered(client, S) /\ NoneSent(client, S)
    BY <1>4, <2>2 DEF NoneAnswered, NoneSent
  <2>5. Sound(client, S)
    BY <2>3, <2>4, QuietSound
  <2> QED BY <2>s, <2>5
<1>8. CASE ~Password
  <2> DEFINE S == AfterAuth(r, k)
             q == Auth(k)
  <2>1. Goes(r, S, q, [ok |-> TRUE]) /\ NoneAnswered(r, S)
    BY <1>6, AfterAuthIs
  <2>2. q.kind # "select"
    BY DEF Auth
  <2>s. client' = S
    BY <1>1, <1>8
  <2> HIDE DEF S, q
  <2>3. ClientInv(S) /\ SendsAfter(r, S, q)
    BY <2>1 DEF Goes
  <2>4. OwnReplies(client, S)
    BY <1>4, <2>1 DEF NoneAnswered, OwnReplies
  <2>5. Waits(client, S)
    BY <1>4, <2>2, <2>3 DEF SendsAfter, Waits
  <2>6. Sound(client, S)
    BY <2>3, <2>4, <2>5 DEF Sound
  <2> QED BY <2>s, <2>6
<1> QED BY <1>7, <1>8

LEMMA CallSound ==
  ASSUME ClientInv(client), NEW c \in Commands, Call(c)
  PROVE  Sound(client, client')
<1>0. client \in Clients /\ client.at[c] = "uncalled"
  BY DEF ClientInv, Call
<1>1. CASE Live(client)
  <2> DEFINE S == SendCommand(client, c)
  <2>1. client' = S
    BY <1>1 DEF Call
  <2>2. ClientInv(S) /\ NoneAnswered(client, S) /\ OneSent(client, S, c)
    BY <1>0, SendCommandIs
  <2> HIDE DEF S
  <2>3. OwnReplies(client, S)
    BY <2>2 DEF OwnReplies, NoneAnswered
  <2>4. Waits(client, S)
    BY <1>0, <2>2 DEF Waits, OneSent
  <2>5. Sound(client, S)
    BY <2>2, <2>3, <2>4 DEF Sound
  <2> QED BY <2>1, <2>5
<1>2. CASE ~Live(client)
  <2> DEFINE S(k, st) == [client EXCEPT !.at[c] = "waiting", !.on[c] = k, !.connecting = k, !.state[k] = st]
  <2>1. PICK k \in Sockets :
          client' = S(k, IF client.state[k] = "unused" THEN "connecting" ELSE client.state[k])
    BY <1>0, <1>2 DEF Call, Clients
  <2> DEFINE st == IF client.state[k] = "unused" THEN "connecting" ELSE client.state[k]
             P == S(k, st)
  <2>2. /\ st \in {"connecting", "open", "destroyed", "closed"}
        /\ (st = client.state[k] \/ (client.state[k] = "unused" /\ st = "connecting"))
    BY <1>0 DEF Clients
  <2>3. client' = P
    BY <2>1
  <2> HIDE DEF st
  <2>4. P \in Clients
    BY <1>0, <2>2 DEF Clients
  <2>5. /\ P.socket = client.socket /\ P.buffer = client.buffer /\ P.pending = client.pending
        /\ P.wire = client.wire /\ P.selected = client.selected /\ P.mixed = client.mixed
        /\ P.reply = client.reply /\ P.state[k] = st /\ P.at[c] = "waiting"
        /\ \A j \in Sockets : j # k => P.state[j] = client.state[j]
        /\ \A d \in Commands : d # c => P.at[d] = client.at[d] /\ P.on[d] = client.on[d]
    BY <1>0 DEF Clients
  <2> HIDE DEF P
  <2>6. OwnConnection(P)
    <3>1. client.socket \in Sockets \cup {None} /\ OwnConnection(client)
      BY <1>0 DEF Clients, ClientInv
    <3>2. P.socket # None => P.state[P.socket] = "open"
      BY <2>2, <2>5, <3>1 DEF OwnConnection
    <3>3. \A j \in Sockets : P.state[j] \in {"unused", "connecting"} => P.wire[j] = <<>>
      BY <2>2, <2>5, <3>1 DEF OwnConnection
    <3> QED BY <2>5, <3>1, <3>2, <3>3 DEF OwnConnection
  <2>7. InStep(client) => InStep(P)
    BY <2>2, <2>5 DEF InStep
  <2>8. Selecting(client) => Selecting(P)
    BY <2>5 DEF Selecting
  <2>9. ClientInv(P)
    BY <2>4, <2>5, <2>6, <2>7, <2>8 DEF ClientInv
  <2>10. NoneAnswered(client, P) /\ NoneSent(client, P)
    BY <2>5 DEF NoneAnswered, NoneSent
  <2>11. Sound(client, P)
    BY <2>9, <2>10, QuietSound
  <2> QED BY <2>3, <2>11
<1> QED BY <1>1, <1>2

(* The end of a connection, its own or an older one, resets the client. *)
LEMMA EndSound ==
  ASSUME ClientInv(client), NEW k \in Sockets, NEW st \in {"destroyed", "closed"},
         client' = SetupFailed([client EXCEPT !.state[k] = st, !.wire[k] = <<>>], k)
  PROVE  Sound(client, client')
<1> DEFINE R == [client EXCEPT !.state[k] = st, !.wire[k] = <<>>]
           Q == Reset(R)
           S == RejectWaiters(Q, {k})
<1>0. client \in Clients /\ OwnConnection(client)
  BY DEF ClientInv
<1>s. client' = S
  BY DEF SetupFailed
<1>1. R \in Clients
  <2>1. <<>> \in Seq(ClientRequests \cup {Torn})
    OBVIOUS
  <2> QED BY <1>0, <2>1 DEF Clients
<1>2. /\ R.socket = client.socket /\ R.reply = client.reply /\ R.at = client.at /\ R.on = client.on
      /\ R.state[k] = st /\ R.wire[k] = <<>>
      /\ \A j \in Sockets : j # k => R.state[j] = client.state[j] /\ R.wire[j] = client.wire[j]
  BY <1>0 DEF Clients
<1> HIDE DEF R
<1>3. \A j \in Sockets : R.state[j] \in {"unused", "connecting"} => R.wire[j] = <<>>
  BY <1>0, <1>2 DEF OwnConnection
<1>4. R.socket # None => R.state[R.socket] # "connecting" /\ R.state[R.socket] # "unused"
  <2>1. CASE R.socket = k
    BY <1>2, <2>1
  <2>2. CASE R.socket # k
    <3>1. R.socket # None => R.socket \in Sockets /\ R.state[R.socket] = client.state[R.socket]
      BY <1>1, <1>2, <2>2 DEF Clients
    <3>2. R.socket # None => client.state[R.socket] = "open"
      BY <1>0, <1>2 DEF OwnConnection
    <3> QED BY <3>1, <3>2
  <2> QED BY <2>1, <2>2
<1>5. ClientInv(Q)
  BY <1>1, <1>3, <1>4, ResetInv
<1>6. Q \in Clients /\ NoneAnswered(R, Q) /\ NoneSent(R, Q)
  BY <1>1, ResetIs
<1> HIDE DEF Q
<1>7. S \in Clients /\ SameConnection(Q, S) /\ NoneAnswered(Q, S) /\ NoneSent(Q, S)
  BY <1>6, RejectWaitersIs
<1> HIDE DEF S
<1>8. ClientInv(S)
  BY <1>5, <1>7, SameConnectionInv
<1>9. NoneAnswered(client, S) /\ NoneSent(client, S)
  BY <1>2, <1>6, <1>7 DEF NoneAnswered, NoneSent
<1>10. Sound(client, S)
  BY <1>8, <1>9, QuietSound
<1> QED BY <1>s, <1>10

LEMMA CloseStoreSound ==
  ASSUME ClientInv(client), CloseStore
  PROVE  Sound(client, client')
<1> DEFINE S == Reset(client)
<1>1. client' = S /\ client \in Clients /\ OwnConnection(client)
  BY DEF CloseStore, ClientInv
<1>2. ClientInv(S)
  BY <1>1, ResetInv DEF OwnConnection
<1>3. NoneAnswered(client, S) /\ NoneSent(client, S)
  BY <1>1, ResetIs
<1> HIDE DEF S
<1>4. Sound(client, S)
  BY <1>2, <1>3, QuietSound
<1> QED BY <1>1, <1>4

LEMMA ClientInvInit == RedisInit => ClientInv(client)
<1> SUFFICES ASSUME RedisInit PROVE ClientInv(client)
  OBVIOUS
<1>1. client \in Clients
  <2>1. <<>> \in Seq(Replies) /\ <<>> \in Seq(ClientRequests) /\ <<>> \in Seq(ClientRequests \cup {Torn})
    OBVIOUS
  <2> HIDE DEF ClientRequests, Replies, Torn
  <2> QED BY <2>1 DEF RedisInit, Clients
<1>2. client.pending = <<>> /\ Len(client.pending) = 0
  BY DEF RedisInit
<1> QED BY <1>1, <1>2 DEF RedisInit, ClientInv, OwnConnection, InStep, Selecting

LEMMA ClientStep == ClientInv(client) /\ RedisNext => Sound(client, client')
<1> SUFFICES ASSUME ClientInv(client), RedisNext PROVE Sound(client, client')
  OBVIOUS
<1>1. ASSUME NEW c \in Commands, Call(c) PROVE Sound(client, client')
  BY <1>1, CallSound
<1>2. ASSUME NEW k \in Sockets, Connected(k) PROVE Sound(client, client')
  BY <1>2, ConnectedSound
<1>3. ASSUME NEW k \in Sockets, SomeData(k) PROVE Sound(client, client')
  BY <1>3, DataSound
<1>4. ASSUME NEW k \in Sockets, Error(k) PROVE Sound(client, client')
  <2>1. client' = SetupFailed([client EXCEPT !.state[k] = "destroyed", !.wire[k] = <<>>], k)
    BY <1>4 DEF Error, SetupFailed
  <2> QED BY <2>1, EndSound
<1>5. ASSUME NEW k \in Sockets, Close(k) PROVE Sound(client, client')
  <2>1. client' = SetupFailed([client EXCEPT !.state[k] = "closed", !.wire[k] = <<>>], k)
    BY <1>5 DEF Close, SetupFailed
  <2> QED BY <2>1, EndSound
<1>6. ASSUME CloseStore PROVE Sound(client, client')
  BY <1>6, CloseStoreSound
<1> QED BY <1>1, <1>2, <1>3, <1>4, <1>5, <1>6 DEF RedisNext, SocketEvent

LEMMA ClientInvAlways == RedisSpec => []ClientInv(client)
<1>1. ClientInv(client) /\ [RedisNext]_client => ClientInv(client)'
  <2>1. ASSUME ClientInv(client), RedisNext PROVE ClientInv(client')
    BY <2>1, ClientStep DEF Sound
  <2>2. ASSUME ClientInv(client), UNCHANGED client PROVE ClientInv(client')
    BY <2>2
  <2>3. ClientInv(client)' <=> ClientInv(client')
    BY DEF ClientInv, OwnConnection, InStep, Selecting
  <2> QED BY <2>1, <2>2, <2>3
<1> QED BY <1>1, ClientInvInit, PTL DEF RedisSpec

(* The client, its sockets and the commands keep their types: the queue    *)
(* holds requests, the buffer replies, whatever breaks and when.           *)
THEOREM RedisClientTyped == RedisSpec => []ClientOK
<1>1. ClientInv(client) => ClientOK
  BY DEF ClientInv, ClientOK
<1> QED BY <1>1, ClientInvAlways, PTL

(* A command that is answered got its own reply, however many connections  *)
(* failed before, unless replies were mixed up.                            *)
THEOREM RepliesAlwaysMatch == RedisSpec => RepliesMatch
<1> DEFINE A == \A c \in Commands :
                  client.at[c] # "resolved" /\ client'.at[c] = "resolved"
                  => client'.reply[c] = Command(c) \/ client.mixed
<1>1. ClientInv(client) /\ [RedisNext]_client => [A]_client
  <2>1. ASSUME ClientInv(client), RedisNext PROVE A
    BY <2>1, ClientStep DEF Sound, OwnReplies
  <2> HIDE DEF A
  <2> QED BY <2>1
<1>2. RedisSpec => [][A]_client
  <2> HIDE DEF A
  <2> QED BY <1>1, ClientInvAlways, PTL DEF RedisSpec
<1> QED BY <1>2 DEF RepliesMatch

(* A command that waited for the connection runs in the chosen database:   *)
(* SELECT was sent on its connection before it.                            *)
THEOREM WaitersAlwaysInDatabase == RedisSpec => WaitersInDatabase
<1> DEFINE A == \A c \in Commands :
                  client.at[c] = "waiting" /\ client'.at[c] = "sent"
                  => ~Database \/ client'.on[c] \in client'.selected \/ client.mixed
<1>1. ClientInv(client) /\ [RedisNext]_client => [A]_client
  <2>1. ASSUME ClientInv(client), RedisNext PROVE A
    BY <2>1, ClientStep DEF Sound, Waits
  <2> HIDE DEF A
  <2> QED BY <2>1
<1>2. RedisSpec => [][A]_client
  <2> HIDE DEF A
  <2> QED BY <1>1, ClientInvAlways, PTL DEF RedisSpec
<1> QED BY <1>2 DEF WaitersInDatabase

----------------------------------------------------------------------------
(* RespParser                                                              *)

(* Min of the community modules is that one.                               *)
LEMMA LeastOfMin ==
  ASSUME NEW A \in SUBSET Nat, A # {}
  PROVE  Min(A) \in A /\ \A a \in A : Min(A) <= a
<1>1. \E x \in A : \A y \in A : x <= y
  BY LeastNumber
<1> QED BY Zenon, <1>1 DEF Min

(* The parts stand in the text one after the other, part i behind at[i-1]. *)
PlacedAt(text, parts, at) ==
  /\ at \in [0 .. Len(parts) -> Nat] /\ at[0] = 0
  /\ \A i \in 1 .. Len(parts) : at[i] = at[i - 1] + Len(parts[i])
  /\ text \in Seq(Nat) /\ Len(text) = at[Len(parts)]
  /\ \A i \in 1 .. Len(parts) : \A j \in 1 .. Len(parts[i]) : text[at[i - 1] + j] = parts[i][j]

LEMMA JoinIs ==
  ASSUME NEW s \in Seq(Nat), NEW t \in Seq(Nat)
  PROVE  /\ s \o t \in Seq(Nat) /\ Len(s \o t) = Len(s) + Len(t)
         /\ \A i \in 1 .. Len(s) : (s \o t)[i] = s[i]
         /\ \A i \in 1 .. Len(t) : (s \o t)[Len(s) + i] = t[i]
<1>1. s \o t \in Seq(Nat) /\ Len(s \o t) = Len(s) + Len(t)
  BY ConcatProperties
<1>2. \A i \in 1 .. Len(s) + Len(t) : (s \o t)[i] = IF i <= Len(s) THEN s[i] ELSE t[i - Len(s)]
  BY ConcatProperties
<1>3. Len(s) \in Nat /\ Len(t) \in Nat
  OBVIOUS
<1> DEFINE u == s \o t
           m == Len(s)
           n == Len(t)
<1> HIDE DEF u, m, n
<1>4. \A i \in 1 .. m + n : u[i] = IF i <= m THEN s[i] ELSE t[i - m]
  BY <1>2 DEF u, m, n
<1>5. m \in Nat /\ n \in Nat
  BY <1>3 DEF m, n
<1>6. \A i \in 1 .. m : u[i] = s[i]
  BY <1>4, <1>5
<1>7. ASSUME NEW i \in 1 .. n PROVE u[m + i] = t[i]
  <2> DEFINE k == m + i
  <2>1. k \in 1 .. m + n /\ ~ k <= m /\ k - m = i
    BY <1>5
  <2> HIDE DEF k
  <2>2. u[k] = t[i]
    BY <1>4, <2>1
  <2> QED BY <2>2 DEF k
<1> QED BY <1>1, <1>6, <1>7 DEF u, m, n

LEMMA FlattenPlaced ==
  ASSUME NEW parts \in Seq(Seq(Nat))
  PROVE  \E at : PlacedAt(FlattenSeq(parts), parts, at)
<1> DEFINE n == Len(parts)
<1>0. n \in Nat /\ \A i \in 1 .. n : parts[i] \in Seq(Nat) /\ Len(parts[i]) \in Nat
  OBVIOUS
<1>1. CASE n = 0
  <2> DEFINE at == [i \in 0 .. 0 |-> 0]
  <2>1. FlattenSeq(parts) = parts /\ parts = <<>>
    BY <1>1 DEF FlattenSeq
  <2>2. PlacedAt(<<>>, <<>>, at)
    BY DEF PlacedAt
  <2> QED BY <2>1, <2>2
<1>2. CASE n # 0
  <2> DEFINE Does(f) == f = [i \in 1 .. n |-> IF i = 1 THEN parts[i] ELSE f[i - 1] \o parts[i]]
             f == CHOOSE f : Does(f)
  <2>1. FlattenSeq(parts) = f[n]
    BY <1>2, Zenon DEF FlattenSeq
  <2> DEFINE F == [p \in (1 .. n) \X Seq(Nat) |-> p[2] \o parts[p[1]]]
  <2>2. F \in [(1 .. n) \X Seq(Nat) -> Seq(Nat)]
    BY <1>0, JoinIs
  <2>3. \A i \in 1 .. n : \A y \in Seq(Nat) : F[<<i, y>>] = y \o parts[i]
    OBVIOUS
  <2>4. <<>> \in Seq(Nat)
    OBVIOUS
  <2> HIDE DEF F
  <2>5. PICK s \in [0 .. n -> Seq(Nat)] : OneAfterOther(s, F, <<>>, n)
    BY <1>0, <2>2, <2>4, FoldExists
  <2>6. s[0] = <<>> /\ \A i \in 1 .. n : s[i] = s[i - 1] \o parts[i]
    <3> SUFFICES ASSUME NEW i \in 1 .. n PROVE s[i] = s[i - 1] \o parts[i]
      BY <2>5 DEF OneAfterOther
    <3>1. i - 1 \in 0 .. n
      BY <1>0
    <3>2. s[i - 1] \in Seq(Nat) /\ s[i] = F[<<i, s[i - 1]>>]
      BY <2>5, <3>1 DEF OneAfterOther
    <3> QED BY <2>3, <3>2
  <2>7. s[1] = parts[1]
    <3>1. 1 \in 1 .. n /\ 1 - 1 = 0
      BY <1>0, <1>2
    <3>2. s[1] = <<>> \o parts[1] /\ parts[1] \in Seq(Nat)
      BY <1>0, <2>6, <3>1
    <3> QED BY <3>2, ConcatEmptySeq
  <2> HIDE DEF n
  <2> DEFINE g == [i \in 1 .. n |-> s[i]]
  <2>8. Does(g)
    <3>1. ASSUME NEW i \in 1 .. n, i # 1 PROVE g[i] = g[i - 1] \o parts[i]
      <4>1. i - 1 \in 1 .. n
        BY <1>0, <3>1
      <4> QED BY <2>6, <4>1
    <3>2. ASSUME NEW i \in 1 .. n PROVE g[i] = IF i = 1 THEN parts[i] ELSE g[i - 1] \o parts[i]
      BY <2>7, <3>1
    <3>3. g = [i \in 1 .. n |-> g[i]]
      OBVIOUS
    <3> HIDE DEF g
    <3> QED BY <3>2, <3>3
  <2>9. Does(f)
    BY <2>8
  <2> HIDE DEF f, g
  <2>10. \A i \in 1 .. n : f[i] = IF i = 1 THEN parts[i] ELSE f[i - 1] \o parts[i]
    BY <2>9
  <2> HIDE DEF Does
  <2> DEFINE h == [i \in 0 .. n |-> IF i = 0 THEN <<>> ELSE f[i]]
  <2>11. h[0] = <<>> /\ \A i \in 1 .. n : h[i] = f[i]
    BY <1>0
  <2> HIDE DEF h
  <2> DEFINE T == {i \in 0 .. n : h[i] \in Seq(Nat) /\ (i # 0 => h[i] = h[i - 1] \o parts[i])}
  <2>12. 0 \in T
    <3>1. h[0] \in Seq(Nat) /\ 0 \in 0 .. n
      BY <1>0, <2>4, <2>11
    <3> QED BY <3>1
  <2>13. ASSUME NEW i \in 1 .. n, i - 1 \in T PROVE i \in T
    <3>1. h[i] = h[i - 1] \o parts[i]
      <4>1. CASE i = 1
        <5>1. h[i] = parts[i] /\ h[i - 1] = <<>> /\ parts[i] \in Seq(Nat)
          BY <1>0, <2>10, <2>11, <4>1
        <5> QED BY <5>1, ConcatEmptySeq
      <4>2. CASE i # 1
        <5>1. i - 1 \in 1 .. n
          BY <1>0, <4>2
        <5> QED BY <2>10, <2>11, <4>2, <5>1
      <4> QED BY <4>1, <4>2
    <3>2. h[i - 1] \in Seq(Nat) /\ parts[i] \in Seq(Nat)
      BY <1>0, <2>13
    <3>3. h[i] \in Seq(Nat)
      BY <3>1, <3>2, JoinIs
    <3>4. i \in 0 .. n
      BY <1>0
    <3> QED BY <3>1, <3>3, <3>4
  <2> HIDE DEF T
  <2>14. \A i \in 0 .. n : i \in T
    BY <1>0, <2>12, <2>13, UpTo
  <2>15. \A i \in 0 .. n : h[i] \in Seq(Nat)
    BY <2>14 DEF T
  <2>16. \A i \in 1 .. n : h[i] = h[i - 1] \o parts[i]
    <3> SUFFICES ASSUME NEW i \in 1 .. n PROVE h[i] = h[i - 1] \o parts[i]
      OBVIOUS
    <3>1. i \in 0 .. n /\ i # 0
      BY <1>0
    <3> QED BY <2>14, <3>1 DEF T
  <2> DEFINE at == [i \in 0 .. n |-> Len(h[i])]
  <2>17. at \in [0 .. n -> Nat] /\ at[0] = 0
    BY <1>0, <2>11, <2>15
  <2>18. ASSUME NEW i \in 1 .. n
         PROVE  /\ at[i] = at[i - 1] + Len(parts[i])
                /\ \A j \in 1 .. at[i - 1] : h[i][j] = h[i - 1][j]
                /\ \A j \in 1 .. Len(parts[i]) : h[i][at[i - 1] + j] = parts[i][j]
    <3>1. i \in 0 .. n /\ i - 1 \in 0 .. n
      BY <1>0
    <3>2. h[i] = h[i - 1] \o parts[i] /\ h[i - 1] \in Seq(Nat) /\ parts[i] \in Seq(Nat)
      BY <1>0, <2>15, <2>16, <3>1
    <3>3. at[i] = Len(h[i]) /\ at[i - 1] = Len(h[i - 1])
      BY <3>1
    <3> DEFINE y == h[i - 1]
               z == parts[i]
               w == h[i]
    <3> HIDE DEF at, y, z, w
    <3>4. w = y \o z /\ y \in Seq(Nat) /\ z \in Seq(Nat)
      BY <3>2 DEF w, y, z
    <3>5. /\ Len(w) = Len(y) + Len(z)
          /\ \A j \in 1 .. Len(y) : w[j] = y[j]
          /\ \A j \in 1 .. Len(z) : w[Len(y) + j] = z[j]
      BY <3>4, JoinIs
    <3>6. at[i] = Len(w) /\ at[i - 1] = Len(y)
      BY <3>3 DEF w, y
    <3> QED BY <3>5, <3>6 DEF w, y, z
  <2>19. \A i \in 0 .. n : at[i] \in Nat /\ at[i] = Len(h[i])
    BY <2>15
  <2> HIDE DEF at
  <2>20. ASSUME NEW i \in 1 .. n, NEW j \in 1 .. Len(parts[i]) PROVE h[n][at[i - 1] + j] = parts[i][j]
    <3> DEFINE m == n - i
               x == at[i - 1] + j
               U == {k \in 0 .. m : x <= at[i + k] /\ h[i + k][x] = parts[i][j]}
    <3>1. m \in Nat /\ i \in Nat /\ n = i + m /\ i \in 0 .. n /\ i - 1 \in 0 .. n
      BY <1>0
    <3>2. x \in Nat /\ x >= 1 /\ x <= at[i]
      <4> DEFINE b == at[i - 1]
                 c == at[i]
                 l == Len(parts[i])
      <4>1. b \in Nat /\ c = b + l /\ l \in Nat /\ j \in 1 .. l /\ x = b + j
        BY <1>0, <2>18, <2>19, <3>1
      <4> HIDE DEF b, c, l, x
      <4>2. x \in Nat /\ x >= 1 /\ x <= c
        BY <4>1
      <4> QED BY <4>2 DEF c
    <3>3. h[i][x] = parts[i][j]
      BY <2>18
    <3>4. 0 \in U
      BY <3>1, <3>2, <3>3
    <3> HIDE DEF x, m
    <3>5. ASSUME NEW k \in 1 .. m, k - 1 \in U PROVE k \in U
      <4> DEFINE q == i + k
      <4>1. q \in 1 .. n /\ q - 1 = i + (k - 1) /\ q \in 0 .. n /\ q - 1 \in 0 .. n /\ k \in 0 .. m
        BY <1>0, <3>1
      <4>2. x <= at[q - 1] /\ h[q - 1][x] = parts[i][j]
        BY <3>5, <4>1
      <4> HIDE DEF q
      <4>3. at[q] = at[q - 1] + Len(parts[q]) /\ \A l \in 1 .. at[q - 1] : h[q][l] = h[q - 1][l]
        BY <2>18, <4>1
      <4>4. Len(parts[q]) \in Nat /\ at[q - 1] \in Nat
        BY <1>0, <2>19, <4>1
      <4>5. x \in 1 .. at[q - 1] /\ x <= at[q]
        BY <3>2, <4>2, <4>3, <4>4
      <4>6. h[q][x] = parts[i][j]
        BY <4>2, <4>3, <4>5
      <4> QED BY <4>1, <4>5, <4>6 DEF q
    <3> HIDE DEF U
    <3>6. \A k \in 0 .. m : k \in U
      BY <3>1, <3>4, <3>5, UpTo
    <3>7. m \in U
      BY <3>1, <3>6
    <3>8. h[n][x] = parts[i][j]
      BY <3>1, <3>7 DEF U
    <3> QED BY <3>8 DEF x
  <2>21. FlattenSeq(parts) = h[n] /\ n \in 0 .. n /\ n \in 1 .. n
    BY <1>0, <1>2, <2>1, <2>11
  <2>22. PlacedAt(h[n], parts, at)
    BY <2>15, <2>17, <2>18, <2>19, <2>20, <2>21 DEF PlacedAt, n
  <2> QED BY <2>21, <2>22
<1> QED BY <1>1, <1>2

(* What p has from s on is e, as far as it goes.                           *)
Agrees(p, s, e) == \A i \in 1 .. Len(e) : s + i - 1 <= Len(p) => p[s + i - 1] = e[i]

LEMMA LineIs ==
  ASSUME NEW type \in Nat, NEW rest \in Seq(Nat)
  PROVE  /\ Line(type, rest) \in Seq(Nat) /\ Len(Line(type, rest)) = Len(rest) + 3
         /\ Line(type, rest)[1] = type
         /\ \A i \in 1 .. Len(rest) : Line(type, rest)[i + 1] = rest[i]
         /\ Line(type, rest)[Len(rest) + 2] = CR /\ Line(type, rest)[Len(rest) + 3] = LF
<1> DEFINE h == <<type>>
           m == h \o rest
           e == <<CR, LF>>
           l == Line(type, rest)
           n == Len(rest)
<1>1. h \in Seq(Nat) /\ Len(h) = 1 /\ h[1] = type
  OBVIOUS
<1>2. e \in Seq(Nat) /\ Len(e) = 2 /\ e[1] = CR /\ e[2] = LF
  BY DEF CR, LF
<1>6. l = m \o e
  BY DEF Line
<1>4. n \in Nat
  OBVIOUS
<1> HIDE DEF h, e, l, m
<1>5. /\ m \in Seq(Nat) /\ Len(m) = Len(h) + n
      /\ \A i \in 1 .. Len(h) : m[i] = h[i]
      /\ \A i \in 1 .. n : m[Len(h) + i] = rest[i]
  BY <1>1, JoinIs DEF m
<1> HIDE DEF n
<1>7. m \in Seq(Nat) /\ Len(m) = n + 1 /\ m[1] = type /\ \A i \in 1 .. n : m[1 + i] = rest[i]
  BY <1>1, <1>4, <1>5
<1>8. /\ l \in Seq(Nat) /\ Len(l) = Len(m) + Len(e)
      /\ \A i \in 1 .. Len(m) : l[i] = m[i]
      /\ \A i \in 1 .. Len(e) : l[Len(m) + i] = e[i]
  BY <1>2, <1>6, <1>7, JoinIs
<1>9. l \in Seq(Nat) /\ Len(l) = n + 3 /\ l[n + 2] = CR /\ l[n + 3] = LF
  <2>1. \A i \in 1 .. 2 : l[n + 1 + i] = e[i]
    BY <1>2, <1>7, <1>8
  <2>2. 1 \in 1 .. 2 /\ 2 \in 1 .. 2 /\ n + 1 + 1 = n + 2 /\ n + 1 + 2 = n + 3
    BY <1>4
  <2>3. l[n + 2] = e[1] /\ l[n + 3] = e[2]
    BY <2>1, <2>2
  <2>4. Len(l) = n + 3
    BY <1>2, <1>4, <1>7, <1>8
  <2> QED BY <1>2, <1>8, <2>3, <2>4
<1>10. l[1] = type /\ \A i \in 1 .. n : l[1 + i] = rest[i]
  <2>1. 1 \in 1 .. n + 1 /\ \A i \in 1 .. n : 1 + i \in 1 .. n + 1
    BY <1>4
  <2> QED BY <1>7, <1>8, <2>1
<1>11. \A i \in 1 .. n : l[i + 1] = rest[i]
  <2> SUFFICES ASSUME NEW i \in 1 .. n PROVE l[i + 1] = rest[i]
    OBVIOUS
  <2>1. i + 1 = 1 + i
    BY <1>4
  <2> QED BY <1>10, <2>1
<1> QED BY <1>9, <1>10, <1>11 DEF l, n

LEMMA AgreesFirst ==
  ASSUME NEW p \in Seq(Nat), NEW s \in Nat, NEW e \in Seq(Nat), NEW f \in Seq(Nat), Agrees(p, s, e \o f)
  PROVE  Agrees(p, s, e)
<1> DEFINE g == e \o f
<1>1. Len(g) = Len(e) + Len(f) /\ \A i \in 1 .. Len(e) : g[i] = e[i]
  BY JoinIs
<1> HIDE DEF g
<1>2. Len(e) \in Nat /\ Len(f) \in Nat
  OBVIOUS
<1> SUFFICES ASSUME NEW i \in 1 .. Len(e), s + i - 1 <= Len(p) PROVE p[s + i - 1] = e[i]
  BY DEF Agrees
<1>3. i \in 1 .. Len(g)
  BY <1>1, <1>2
<1> QED BY <1>1, <1>3 DEF Agrees, g

LEMMA AgreesRest ==
  ASSUME NEW p \in Seq(Nat), NEW s \in Nat, NEW e \in Seq(Nat), NEW f \in Seq(Nat), Agrees(p, s, e \o f)
  PROVE  Agrees(p, s + Len(e), f)
<1> DEFINE g == e \o f
           n == Len(e)
<1>1. Len(g) = n + Len(f) /\ \A i \in 1 .. Len(f) : g[n + i] = f[i]
  BY JoinIs
<1>2. n \in Nat /\ Len(f) \in Nat
  OBVIOUS
<1>3. Agrees(p, s, g)
  OBVIOUS
<1> HIDE DEF g, n
<1> SUFFICES ASSUME NEW i \in 1 .. Len(f), s + n + i - 1 <= Len(p) PROVE p[s + n + i - 1] = f[i]
  BY DEF Agrees, n
<1> DEFINE k == n + i
<1>4. k \in 1 .. Len(g) /\ s + k - 1 = s + n + i - 1
  BY <1>1, <1>2
<1>5. g[k] = f[i]
  BY <1>1
<1> HIDE DEF k
<1>6. p[s + k - 1] = g[k]
  BY <1>3, <1>4 DEF Agrees
<1> QED BY <1>4, <1>5, <1>6

(* What is there as a whole is what was sent.                              *)
LEMMA AgreesWhole ==
  ASSUME NEW p \in Seq(Nat), NEW s \in Nat \ {0}, NEW e \in Seq(Nat), Agrees(p, s, e), s + Len(e) - 1 <= Len(p)
  PROVE  SubSeq(p, s, s + Len(e) - 1) = e
<1> DEFINE n == Len(e)
           t == s + n - 1
           q == SubSeq(p, s, t)
<1>0. n \in Nat /\ Len(p) \in Nat /\ t \in Int
  OBVIOUS
<1>1. CASE n = 0
  <2>1. t < s
    BY <1>0, <1>1
  <2> HIDE DEF t
  <2>2. q = <<>>
    BY <1>0, <2>1, SubSeqEmpty
  <2>3. e = <<>>
    BY <1>1
  <2> QED BY <2>2, <2>3 DEF t
<1>2. CASE n # 0
  <2>1. s \in 1 .. Len(p) + 1 /\ t \in s - 1 .. Len(p) /\ t - s + 1 = n /\ s <= t
    BY <1>0, <1>2
  <2> HIDE DEF t, n
  <2>2. q \in Seq(Nat) /\ Len(q) = n /\ \A i \in 1 .. n : q[i] = p[s + i - 1]
    BY <1>0, <2>1, SubSeqProperties
  <2>3. \A i \in 1 .. n : p[s + i - 1] = e[i]
    <3> SUFFICES ASSUME NEW i \in 1 .. n PROVE p[s + i - 1] = e[i]
      OBVIOUS
    <3>1. s + i - 1 <= Len(p)
      BY <1>0, <2>1
    <3> QED BY <3>1 DEF Agrees, n
  <2> HIDE DEF q
  <2>4. Len(e) = Len(q) /\ \A i \in 1 .. Len(e) : e[i] = q[i]
    BY <2>2, <2>3 DEF n
  <2>5. e = q
    BY <2>2, <2>4, SeqEqual
  <2> QED BY <2>5 DEF q, t, n
<1> QED BY <1>1, <1>2

LEMMA LineEndIs ==
  ASSUME NEW p \in Seq(Nat), NEW s \in 1 .. Len(p), NEW type \in Nat, NEW rest \in Seq(Nat),
         \A i \in 1 .. Len(rest) : rest[i] # CR, Agrees(p, s, Line(type, rest))
  PROVE  LineEnd(p, s + 1) = IF s + Len(rest) + 2 <= Len(p) THEN s + Len(rest) + 1 ELSE 0
<1> DEFINE n == Len(rest)
           l == Line(type, rest)
           ends == {i \in s + 1 .. Len(p) - 1 : p[i] = CR /\ p[i + 1] = LF}
           c == s + n + 1
<1>0. n \in Nat /\ Len(p) \in Nat /\ s \in Nat /\ s >= 1
  OBVIOUS
<1>1. Len(l) = n + 3 /\ (\A i \in 1 .. n : l[i + 1] = rest[i]) /\ l[n + 2] = CR /\ l[n + 3] = LF
  BY LineIs
<1>2. \A i \in 1 .. n + 3 : s + i - 1 <= Len(p) => p[s + i - 1] = l[i]
  BY <1>1 DEF Agrees
<1>r. \A i \in 1 .. n : rest[i] # CR
  OBVIOUS
<1>e. LineEnd(p, s + 1) = IF ends = {} THEN 0 ELSE Min(ends)
  BY DEF LineEnd
<1> HIDE DEF l, n
<1>3. \A i \in ends : i \in Nat /\ i >= c /\ i <= Len(p) - 1
  <2> SUFFICES ASSUME NEW i \in ends PROVE i \in Nat /\ i >= c /\ i <= Len(p) - 1
    OBVIOUS
  <2>0. i \in Int /\ i >= s + 1 /\ i <= Len(p) - 1 /\ p[i] = CR
    BY <1>0
  <2> HIDE DEF ends
  <2> SUFFICES ASSUME i < c PROVE FALSE
    BY <1>0, <2>0
  <2> DEFINE k == i - s
  <2>1. k \in 1 .. n /\ k + 1 \in 1 .. n + 3 /\ s + (k + 1) - 1 = i /\ i <= Len(p) /\ p[i] = CR
    BY <1>0, <2>0
  <2> HIDE DEF k
  <2>2. p[i] = l[k + 1]
    BY <1>2, <2>1
  <2> QED BY <1>1, <1>r, <2>1, <2>2
<1>4. CASE c + 1 <= Len(p)
  <2>1. p[c] = CR /\ p[c + 1] = LF
    <3>1. n + 2 \in 1 .. n + 3 /\ s + (n + 2) - 1 = c /\ n + 3 \in 1 .. n + 3 /\ s + (n + 3) - 1 = c + 1 /\ c <= Len(p)
      BY <1>0, <1>4
    <3> HIDE DEF c
    <3>2. p[c] = l[n + 2] /\ p[c + 1] = l[n + 3]
      BY <1>2, <1>4, <3>1
    <3> QED BY <1>1, <3>2
  <2>2. c \in ends
    BY <1>0, <1>4, <2>1
  <2> HIDE DEF c, ends
  <2>3. ends \in SUBSET Nat
    BY <1>3
  <2>4. Min(ends) \in ends /\ Min(ends) <= c
    BY <2>2, <2>3, LeastOfMin
  <2>5. Min(ends) = c
    <3> DEFINE m == Min(ends)
    <3>1. m \in Nat /\ m >= c /\ m <= c
      BY <1>3, <2>4
    <3>2. c \in Nat
      BY <2>2, <2>3
    <3> HIDE DEF m
    <3>3. m = c
      BY <3>1, <3>2
    <3> QED BY <3>3 DEF m
  <2>6. LineEnd(p, s + 1) = c
    BY <1>e, <2>2, <2>5
  <2> QED BY <1>0, <1>4, <2>6 DEF c, n
<1>5. CASE ~ c + 1 <= Len(p)
  <2>1. ends = {}
    <3> SUFFICES ASSUME NEW i \in ends PROVE FALSE
      OBVIOUS
    <3>1. i >= c /\ i <= Len(p) - 1 /\ i \in Nat
      BY <1>3
    <3> HIDE DEF ends
    <3> QED BY <1>0, <1>5, <3>1
  <2>2. LineEnd(p, s + 1) = 0
    BY <1>e, <2>1
  <2> QED BY <1>0, <1>5, <2>2 DEF n
<1> QED BY <1>4, <1>5

LEMMA EncodedScalarIs ==
  /\ EncodedScalar(Value("nil", <<>>)) = Line(BulkType, <<Numeral(-1)>>)
  /\ \A t : EncodedScalar(Value("integer", t)) = Line(IntegerType, t)
  /\ \A t : EncodedScalar(Value("simple", t)) = Line(SimpleType, t)
  /\ \A t : EncodedScalar(Value("error", t)) = Line(ErrorType, t)
  /\ \A t : EncodedScalar(Value("bulk", t)) = Line(BulkType, <<Numeral(Bytes(t))>>) \o t \o <<CR, LF>>
<1>1. EncodedScalar(Value("nil", <<>>)) = Line(BulkType, <<Numeral(-1)>>)
  BY DEF EncodedScalar, Value
<1>2. \A t : EncodedScalar(Value("integer", t)) = Line(IntegerType, t)
  BY DEF EncodedScalar, Value
<1>3. \A t : EncodedScalar(Value("simple", t)) = Line(SimpleType, t)
  BY DEF EncodedScalar, Value
<1>4. \A t : EncodedScalar(Value("error", t)) = Line(ErrorType, t)
  BY DEF EncodedScalar, Value
<1>5. \A t : EncodedScalar(Value("bulk", t)) = Line(BulkType, <<Numeral(Bytes(t))>>) \o t \o <<CR, LF>>
  BY DEF EncodedScalar, Value
<1> QED BY <1>1, <1>2, <1>3, <1>4, <1>5

LEMMA EncodedIs ==
  /\ Encoded(Value("nilArray", <<>>)) = Line(ArrayType, <<Numeral(-1)>>)
  /\ \A a : Encoded(Value("array", a)) = Line(ArrayType, <<Numeral(Len(a))>>) \o FlattenSeq([i \in DOMAIN a |-> EncodedScalar(a[i])])
  /\ \A v \in Scalars \cup {ErrorReply} : Encoded(v) = EncodedScalar(v)
<1>1. Encoded(Value("nilArray", <<>>)) = Line(ArrayType, <<Numeral(-1)>>)
  BY DEF Encoded, Value
<1>2. \A a : Encoded(Value("array", a)) = Line(ArrayType, <<Numeral(Len(a))>>) \o FlattenSeq([i \in DOMAIN a |-> EncodedScalar(a[i])])
  BY DEF Encoded, Value
<1>3. \A v \in Scalars \cup {ErrorReply} : Encoded(v) = EncodedScalar(v)
  BY DEF Encoded, Value, Scalars, ErrorReply
<1> QED BY <1>1, <1>2, <1>3

LEMMA ScalarIs ==
  ASSUME NEW p, NEW s
  PROVE  /\ s > Len(p) => ParseRedisScalar(p, s) = Undefined
         /\ ~ s > Len(p) /\ p[s] = SimpleType => ParseRedisScalar(p, s) = ParseRedisSimple(p, s)
         /\ ~ s > Len(p) /\ p[s] = IntegerType => ParseRedisScalar(p, s) = ParseRedisInteger(p, s)
         /\ ~ s > Len(p) /\ p[s] = BulkType => ParseRedisScalar(p, s) = ParseRedisBulk(p, s)
         /\ ~ s > Len(p) /\ p[s] = ErrorType => ParseRedisScalar(p, s) = IF ParseRedisSimple(p, s) = Undefined THEN Undefined ELSE Thrown
BY DEF ParseRedisScalar, SimpleType, IntegerType, BulkType, ErrorType

LEMMA FlushedIs ==
  ASSUME NEW state
  PROVE  LET parsed == ParseRedisResponse(state.rest, 1) IN
         /\ parsed = Undefined => Flushed(state) = state
         /\ parsed = Thrown => Flushed(state) = [rest |-> <<>>, answers |-> Append(state.answers, ErrorReply)]
         /\ parsed # Undefined /\ parsed # Thrown =>
              Flushed(state) = [rest |-> SubSeq(state.rest, parsed.next, Len(state.rest)), answers |-> Append(state.answers, parsed.value)]
BY DEF Flushed, Undefined, Thrown

LEMMA LineReads ==
  ASSUME NEW p \in Seq(Nat), NEW s \in 1 .. Len(p), NEW type \in Nat, NEW rest \in Seq(Nat),
         \A i \in 1 .. Len(rest) : rest[i] # CR, Agrees(p, s, Line(type, rest))
  PROVE  /\ ParseRedisSimple(p, s) = IF s + Len(rest) + 2 <= Len(p) THEN Parsed(s + Len(rest) + 3, Value("simple", rest)) ELSE Undefined
         /\ ParseRedisInteger(p, s) = IF s + Len(rest) + 2 <= Len(p) THEN Parsed(s + Len(rest) + 3, Value("integer", rest)) ELSE Undefined
<1> DEFINE n == Len(rest)
           end == LineEnd(p, s + 1)
           l == Line(type, rest)
           of == SubSeq(p, s + 1, end - 1)
<1>0. n \in Nat /\ Len(p) \in Nat /\ s \in Nat /\ s >= 1
  OBVIOUS
<1>1. end = IF s + n + 2 <= Len(p) THEN s + n + 1 ELSE 0
  BY LineEndIs
<1>2. /\ ParseRedisSimple(p, s) = IF end = 0 THEN Undefined ELSE Parsed(end + 2, Value("simple", of))
      /\ ParseRedisInteger(p, s) = IF end = 0 THEN Undefined ELSE Parsed(end + 2, Value("integer", of))
  BY DEF ParseRedisSimple, ParseRedisInteger
<1>3. Agrees(p, s + 1, rest)
  <2>1. Len(l) = n + 3 /\ \A i \in 1 .. n : l[i + 1] = rest[i]
    BY LineIs
  <2>2. Agrees(p, s, l)
    OBVIOUS
  <2> HIDE DEF l, n
  <2> SUFFICES ASSUME NEW i \in 1 .. n, s + 1 + i - 1 <= Len(p) PROVE p[s + 1 + i - 1] = rest[i]
    BY DEF Agrees, n
  <2> DEFINE k == i + 1
  <2>3. k \in 1 .. n + 3 /\ s + k - 1 = s + 1 + i - 1
    BY <1>0
  <2>4. l[k] = rest[i]
    BY <2>1
  <2> HIDE DEF k
  <2>5. p[s + k - 1] = l[k]
    BY <2>1, <2>2, <2>3 DEF Agrees
  <2> QED BY <2>3, <2>4, <2>5
<1>4. CASE s + n + 2 <= Len(p)
  <2>1. end = s + n + 1
    BY <1>1, <1>4
  <2>2. s + 1 \in Nat \ {0} /\ s + 1 + n - 1 <= Len(p) /\ end - 1 = s + 1 + n - 1 /\ end # 0 /\ end + 2 = s + n + 3
    BY <1>0, <1>4, <2>1
  <2> HIDE DEF end
  <2>3. of = rest
    BY <1>3, <2>2, AgreesWhole
  <2> HIDE DEF of, n
  <2> QED BY <1>2, <1>4, <2>2, <2>3 DEF n
<1>5. CASE ~ s + n + 2 <= Len(p)
  <2>1. end = 0
    BY <1>1, <1>5
  <2> QED BY <1>2, <1>5, <2>1
<1> QED BY <1>4, <1>5

(* A reply that is there as a whole is read as v, and nothing is read      *)
(* before it is.                                                           *)
Reads(parsed, p, s, e, v) ==
  parsed = IF s + Len(e) - 1 <= Len(p) THEN (IF v = ErrorReply THEN Thrown ELSE Parsed(s + Len(e), v)) ELSE Undefined

LEMMA NumeralIs ==
  ASSUME NEW m \in Nat \cup {-1}
  PROVE  /\ Numeral(m) \in Nat /\ Number(Numeral(m)) = m /\ Numeral(m) # Wide
         /\ <<Numeral(m)>> \in Seq(Nat) /\ Len(<<Numeral(m)>>) = 1
         /\ \A i \in 1 .. Len(<<Numeral(m)>>) : <<Numeral(m)>>[i] # CR
<1>1. Numeral(m) \in Nat /\ Number(Numeral(m)) = m /\ Numeral(m) # CR /\ Numeral(m) # Wide
  BY DEF Numeral, Number, Digits, CR, Wide
<1> DEFINE c == Numeral(m)
<1> HIDE DEF c
<1>2. c \in Nat /\ c # CR => <<c>> \in Seq(Nat) /\ Len(<<c>>) = 1 /\ \A i \in 1 .. Len(<<c>>) : <<c>>[i] # CR
  OBVIOUS
<1> QED BY <1>1, <1>2 DEF c

(* The line in front of a value or of elements has their number.           *)
LEMMA HeaderReads ==
  ASSUME NEW p \in Seq(Nat), NEW s \in 1 .. Len(p), NEW type \in Nat, NEW m \in Nat \cup {-1},
         Agrees(p, s, Line(type, <<Numeral(m)>>))
  PROVE  /\ LineEnd(p, s + 1) = IF s + 3 <= Len(p) THEN s + 2 ELSE 0
         /\ s + 3 <= Len(p) => Number(p[s + 1]) = m
<1> DEFINE r == <<Numeral(m)>>
           l == Line(type, r)
<1>1. r \in Seq(Nat) /\ Len(r) = 1 /\ \A i \in 1 .. Len(r) : r[i] # CR
  BY NumeralIs
<1>2. r[1] = Numeral(m)
  OBVIOUS
<1>3. Agrees(p, s, l)
  OBVIOUS
<1> HIDE DEF r, l
<1>4. LineEnd(p, s + 1) = IF s + Len(r) + 2 <= Len(p) THEN s + Len(r) + 1 ELSE 0
  BY <1>1, <1>3, LineEndIs DEF l
<1>5. s \in Nat /\ Len(p) \in Nat
  OBVIOUS
<1>6. LineEnd(p, s + 1) = IF s + 3 <= Len(p) THEN s + 2 ELSE 0
  <2>1. s + Len(r) + 2 = s + 3 /\ s + Len(r) + 1 = s + 2
    BY <1>1, <1>5
  <2> QED BY <1>4, <2>1
<1>7. ASSUME s + 3 <= Len(p) PROVE Number(p[s + 1]) = m
  <2>1. Len(l) = 4 /\ l[2] = r[1]
    <3>1. Len(l) = Len(r) + 3 /\ \A i \in 1 .. Len(r) : l[i + 1] = r[i]
      BY <1>1, LineIs DEF l
    <3>2. 1 \in 1 .. Len(r) /\ 1 + 1 = 2
      BY <1>1
    <3> QED BY <1>1, <3>1, <3>2
  <2>2. 2 \in 1 .. Len(l) /\ s + 2 - 1 <= Len(p) /\ s + 2 - 1 = s + 1
    BY <1>5, <1>7, <2>1
  <2>3. p[s + 1] = l[2]
    BY <1>3, <2>2 DEF Agrees
  <2> QED BY <1>2, <2>1, <2>3, NumeralIs
<1> QED BY <1>6, <1>7

LEMMA NilReads ==
  ASSUME NEW p \in Seq(Nat), NEW s \in 1 .. Len(p), Agrees(p, s, Line(BulkType, <<Numeral(-1)>>))
  PROVE  ParseRedisBulk(p, s) = IF s + 3 <= Len(p) THEN Parsed(s + 4, Value("nil", <<>>)) ELSE Undefined
<1>1. BulkType \in Nat /\ -1 \in Nat \cup {-1} /\ s \in Nat /\ Len(p) \in Nat
  BY DEF BulkType
<1>2. /\ LineEnd(p, s + 1) = IF s + 3 <= Len(p) THEN s + 2 ELSE 0
      /\ s + 3 <= Len(p) => Number(p[s + 1]) = -1
  BY <1>1, HeaderReads
<1> DEFINE end == LineEnd(p, s + 1)
           size == Number(p[s + 1])
<1>3. CASE s + 3 <= Len(p)
  <2>1. end = s + 2 /\ end # 0 /\ end + 2 = s + 4 /\ size = -1
    BY <1>1, <1>2, <1>3
  <2>2. end # 0 /\ size = -1 => ParseRedisBulk(p, s) = Parsed(end + 2, Value("nil", <<>>))
    BY DEF ParseRedisBulk
  <2> HIDE DEF end, size
  <2> QED BY <1>3, <2>1, <2>2
<1>4. CASE ~ s + 3 <= Len(p)
  <2>1. end = 0
    BY <1>2, <1>4
  <2>2. end = 0 => ParseRedisBulk(p, s) = Undefined
    BY DEF ParseRedisBulk
  <2> QED BY <1>4, <2>1, <2>2
<1> QED BY <1>3, <1>4

LEMMA BulkReads ==
  ASSUME NEW p \in Seq(Nat), NEW s \in 1 .. Len(p), NEW t \in Seq(Nat),
         Agrees(p, s, Line(BulkType, <<Numeral(Len(t))>>) \o t \o <<CR, LF>>)
  PROVE  ParseRedisBulk(p, s) = IF s + Len(t) + 5 <= Len(p) THEN Parsed(s + Len(t) + 6, Value("bulk", t)) ELSE Undefined
<1> DEFINE n == Len(t)
           l == Line(BulkType, <<Numeral(n)>>)
           e == <<CR, LF>>
           end == LineEnd(p, s + 1)
           size == Number(p[s + 1])
           valueEnd == end + 2 + size
           of == SubSeq(p, end + 2, valueEnd - 1)
<1>0. n \in Nat /\ s \in Nat /\ s >= 1 /\ Len(p) \in Nat /\ BulkType \in Nat /\ e \in Seq(Nat)
  BY DEF BulkType, CR, LF
<1>1. l \in Seq(Nat) /\ Len(l) = 4
  <2>1. <<Numeral(n)>> \in Seq(Nat) /\ Len(<<Numeral(n)>>) = 1
    BY <1>0, NumeralIs
  <2> DEFINE r == <<Numeral(n)>>
  <2> HIDE DEF r, n
  <2>2. Line(BulkType, r) \in Seq(Nat) /\ Len(Line(BulkType, r)) = 1 + 3
    BY <1>0, <2>1, LineIs DEF r
  <2> QED BY <2>2 DEF r
<1>2. Agrees(p, s, l) /\ Agrees(p, s + 4, t)
  <2>1. Agrees(p, s, (l \o t) \o e)
    OBVIOUS
  <2> HIDE DEF l, e
  <2>2. l \o t \in Seq(Nat)
    BY <1>1, JoinIs
  <2>3. Agrees(p, s, l \o t)
    BY <1>0, <2>1, <2>2, AgreesFirst
  <2>4. Agrees(p, s + Len(l), t)
    BY <1>0, <1>1, <2>3, AgreesRest
  <2> QED BY <1>0, <1>1, <2>3, <2>4, AgreesFirst
<1>3. end = (IF s + 3 <= Len(p) THEN s + 2 ELSE 0) /\ (s + 3 <= Len(p) => size = n)
  BY <1>0, <1>2, HeaderReads
<1>4. /\ end = 0 => ParseRedisBulk(p, s) = Undefined
      /\ end # 0 /\ size # -1 /\ Len(p) + 1 < valueEnd + 2 => ParseRedisBulk(p, s) = Undefined
      /\ end # 0 /\ size # -1 /\ ~ Len(p) + 1 < valueEnd + 2 => ParseRedisBulk(p, s) = Parsed(valueEnd + 2, Value("bulk", of))
  BY DEF ParseRedisBulk
<1>5. CASE ~ s + 3 <= Len(p)
  <2>1. end = 0 /\ ~ s + n + 5 <= Len(p)
    BY <1>0, <1>3, <1>5
  <2> QED BY <1>4, <2>1
<1>6. CASE s + 3 <= Len(p)
  <2>1. end = s + 2 /\ size = n /\ end # 0 /\ size # -1
    BY <1>0, <1>3, <1>6
  <2> HIDE DEF end, size
  <2>2. valueEnd + 2 = s + n + 6 /\ end + 2 = s + 4 /\ valueEnd - 1 = s + 4 + n - 1
    BY <1>0, <2>1
  <2>3. CASE s + n + 5 <= Len(p)
    <3>1. ~ Len(p) + 1 < valueEnd + 2 /\ s + 4 \in Nat \ {0} /\ s + 4 + n - 1 <= Len(p)
      BY <1>0, <2>2, <2>3
    <3> HIDE DEF valueEnd
    <3>2. of = t
      BY <1>2, <2>2, <3>1, AgreesWhole
    <3> HIDE DEF of
    <3> QED BY <1>4, <2>1, <2>2, <2>3, <3>1, <3>2
  <2>4. CASE ~ s + n + 5 <= Len(p)
    <3>1. Len(p) + 1 < valueEnd + 2
      BY <1>0, <2>2, <2>4
    <3> HIDE DEF valueEnd
    <3> QED BY <1>4, <2>1, <2>4, <3>1
  <2> QED BY <2>3, <2>4
<1> QED BY <1>5, <1>6

LEMMA BytesAre ==
  ASSUME NEW t \in Seq(Nat), \A i \in 1 .. Len(t) : t[i] # Wide
  PROVE  Bytes(t) = Len(t)
<1>1. {i \in DOMAIN t : t[i] = Wide} = {}
  OBVIOUS
<1>2. Cardinality({}) = 0
  BY FS_EmptySet
<1> DEFINE W == {i \in DOMAIN t : t[i] = Wide}
<1>3. Bytes(t) = Len(t) + Cardinality(W)
  BY DEF Bytes
<1>4. Cardinality(W) = 0
  BY <1>1, <1>2
<1> HIDE DEF W
<1> QED BY <1>3, <1>4

LEMMA BulkIs ==
  ASSUME NEW t \in Seq(Nat), NEW m \in Nat \cup {-1}
  PROVE  LET e == Line(BulkType, <<Numeral(m)>>) \o t \o <<CR, LF>> IN
         /\ e \in Seq(Nat) /\ Len(e) = Len(t) + 6 /\ e[1] = BulkType
         /\ \A i \in 1 .. Len(t) : e[i + 4] = t[i]
<1> DEFINE l == Line(BulkType, <<Numeral(m)>>)
           f == <<CR, LF>>
           g == l \o t
           e == g \o f
           n == Len(t)
<1>0. n \in Nat /\ f \in Seq(Nat) /\ Len(f) = 2 /\ BulkType \in Nat
  BY DEF BulkType, CR, LF
<1>1. l \in Seq(Nat) /\ Len(l) = 4 /\ l[1] = BulkType
  <2> DEFINE r == <<Numeral(m)>>
  <2>1. r \in Seq(Nat) /\ Len(r) = 1
    BY NumeralIs
  <2> HIDE DEF r
  <2> HIDE DEF f, g, e, n
  <2>2. l = Line(BulkType, r)
    BY DEF r
  <2> HIDE DEF l
  <2>3. l \in Seq(Nat) /\ Len(l) = Len(r) + 3 /\ l[1] = BulkType
    BY <1>0, <2>1, <2>2, LineIs
  <2> QED BY <2>1, <2>3
<1> HIDE DEF l, f
<1>2. /\ g \in Seq(Nat) /\ Len(g) = Len(l) + n
      /\ \A i \in 1 .. Len(l) : g[i] = l[i]
      /\ \A i \in 1 .. n : g[Len(l) + i] = t[i]
  BY <1>1, JoinIs
<1> HIDE DEF g
<1>3. /\ e \in Seq(Nat) /\ Len(e) = Len(g) + Len(f) /\ \A i \in 1 .. Len(g) : e[i] = g[i]
  BY <1>0, <1>2, JoinIs
<1> HIDE DEF e, n
<1>4. Len(g) = n + 4 /\ g[1] = l[1] /\ \A i \in 1 .. n : g[4 + i] = t[i]
  <2>1. 1 \in 1 .. 4
    OBVIOUS
  <2> QED BY <1>0, <1>1, <1>2, <2>1
<1>5. e[1] = BulkType /\ \A i \in 1 .. n : e[i + 4] = t[i]
  <2>1. 1 \in 1 .. n + 4 /\ \A i \in 1 .. n : i + 4 \in 1 .. n + 4 /\ 4 + i = i + 4
    BY <1>0
  <2>2. e[1] = g[1]
    BY <1>3, <1>4, <2>1
  <2>3. ASSUME NEW i \in 1 .. n PROVE e[i + 4] = t[i]
    <3>1. g[i + 4] = t[i] /\ i + 4 \in 1 .. n + 4
      BY <1>4, <2>1
    <3> HIDE DEF n
    <3> QED BY <1>3, <1>4, <3>1
  <2> QED BY <1>1, <1>4, <2>2, <2>3
<1>6. Len(e) = n + 6
  BY <1>0, <1>3, <1>4
<1> QED BY <1>3, <1>5, <1>6 DEF e, g, l, f, n

Plain(e) == \A i \in 1 .. Len(e) : e[i] # Wide

LEMMA WordIs ==
  /\ Word \in Seq(Nat) /\ Len(Word) = 2 /\ \A i \in 1 .. Len(Word) : Word[i] # CR
  /\ <<Numeral(7)>> \in Seq(Nat) /\ Len(<<Numeral(7)>>) = 1 /\ \A i \in 1 .. Len(<<Numeral(7)>>) : <<Numeral(7)>>[i] # CR
<1>1. 7 \in Nat \cup {-1}
  OBVIOUS
<1>2. Word \in Seq(Nat) /\ Len(Word) = 2 /\ \A i \in 1 .. Len(Word) : Word[i] # CR
  BY DEF Word, CR
<1> QED BY <1>1, <1>2, NumeralIs

(* The kinds of scalars, as what Redis sends of them.                      *)
LEMMA ScalarKinds ==
  ASSUME NEW v \in Scalars \cup {ErrorReply}
  PROVE  \/ v = Value("nil", <<>>) /\ EncodedScalar(v) = Line(BulkType, <<Numeral(-1)>>)
         \/ v = Value("integer", <<Numeral(7)>>) /\ EncodedScalar(v) = Line(IntegerType, <<Numeral(7)>>)
         \/ v = Value("simple", Word) /\ EncodedScalar(v) = Line(SimpleType, Word)
         \/ v = ErrorReply /\ EncodedScalar(v) = Line(ErrorType, Word)
         \/ \E t \in Seq(Nat), m \in Nat :
               /\ v = Value("bulk", t) /\ EncodedScalar(v) = Line(BulkType, <<Numeral(m)>>) \o t \o <<CR, LF>>
               /\ Plain(EncodedScalar(v)) => m = Len(t)
<1>1. CASE v = Value("nil", <<>>)
  BY <1>1, EncodedScalarIs
<1>2. CASE v = Value("integer", <<Numeral(7)>>)
  BY <1>2, EncodedScalarIs
<1>3. CASE v = Value("simple", Word)
  BY <1>3, EncodedScalarIs
<1>4. CASE v = ErrorReply
  BY <1>4, EncodedScalarIs DEF ErrorReply
<1>5. ASSUME NEW t \in Texts, v = Value("bulk", t)
      PROVE  \E u \in Seq(Nat), n \in Nat :
               /\ v = Value("bulk", u) /\ EncodedScalar(v) = Line(BulkType, <<Numeral(n)>>) \o u \o <<CR, LF>>
               /\ Plain(EncodedScalar(v)) => n = Len(u)
  <2> DEFINE m == Bytes(t)
             e == Line(BulkType, <<Numeral(m)>>) \o t \o <<CR, LF>>
  <2>1. t \in Seq(Nat) /\ Len(t) \in Nat
    BY RespAssumption
  <2>2. EncodedScalar(v) = e
    BY <1>5, EncodedScalarIs
  <2>3. m \in Nat
    <3> DEFINE W == {i \in DOMAIN t : t[i] = Wide}
    <3>0. 1 \in Int /\ Len(t) \in Int
      BY <2>1
    <3>1. W \subseteq 1 .. Len(t)
      BY <2>1
    <3>3. IsFiniteSet(1 .. Len(t))
      BY <3>0, FS_Interval
    <3>2. Cardinality(W) \in Nat
      BY <3>1, <3>3, FS_Subset, FS_CardinalityType
    <3> HIDE DEF W
    <3>4. Len(t) + Cardinality(W) \in Nat
      BY <2>1, <3>2
    <3> QED BY <3>4 DEF W, Bytes
  <2>4. Len(e) = Len(t) + 6 /\ \A i \in 1 .. Len(t) : e[i + 4] = t[i]
    <3> HIDE DEF m
    <3> QED BY <2>1, <2>3, BulkIs
  <2> HIDE DEF e
  <2>5. ASSUME Plain(EncodedScalar(v)) PROVE \A i \in 1 .. Len(t) : t[i] # Wide
    <3> SUFFICES ASSUME NEW i \in 1 .. Len(t) PROVE t[i] # Wide
      OBVIOUS
    <3>1. i + 4 \in 1 .. Len(e)
      BY <2>1, <2>4
    <3>2. e[i + 4] # Wide
      BY <2>2, <2>5, <3>1 DEF Plain
    <3> QED BY <2>4, <3>2
  <2>6. Plain(EncodedScalar(v)) => m = Len(t)
    BY <2>1, <2>5, BytesAre
  <2> HIDE DEF m
  <2> QED BY <1>5, <2>1, <2>2, <2>3, <2>6 DEF e
<1> QED BY <1>1, <1>2, <1>3, <1>4, <1>5 DEF Scalars

(* What Redis sends of a scalar begins with a type that is not an array's, *)
(* and is read as that scalar.                                             *)
LEMMA ScalarSent ==
  ASSUME NEW v \in Scalars \cup {ErrorReply}
  PROVE  EncodedScalar(v) \in Seq(Nat) /\ Len(EncodedScalar(v)) >= 1 /\ EncodedScalar(v)[1] # ArrayType
<1>0. -1 \in Nat \cup {-1} /\ BulkType \in Nat /\ IntegerType \in Nat /\ SimpleType \in Nat /\ ErrorType \in Nat
  BY DEF BulkType, IntegerType, SimpleType, ErrorType
<1>1. ASSUME NEW type \in Nat, NEW rest \in Seq(Nat), type # ArrayType, EncodedScalar(v) = Line(type, rest)
      PROVE  EncodedScalar(v) \in Seq(Nat) /\ Len(EncodedScalar(v)) >= 1 /\ EncodedScalar(v)[1] # ArrayType
  <2>1. Line(type, rest) \in Seq(Nat) /\ Len(Line(type, rest)) = Len(rest) + 3 /\ Line(type, rest)[1] = type
    BY LineIs
  <2>2. Len(rest) + 3 >= 1
    OBVIOUS
  <2> QED BY <1>1, <2>1, <2>2
<1>2. ASSUME NEW t \in Seq(Nat), NEW m \in Nat, EncodedScalar(v) = Line(BulkType, <<Numeral(m)>>) \o t \o <<CR, LF>>
      PROVE  EncodedScalar(v) \in Seq(Nat) /\ Len(EncodedScalar(v)) >= 1 /\ EncodedScalar(v)[1] # ArrayType
  <2>1. Len(t) \in Nat
    OBVIOUS
  <2> DEFINE e == EncodedScalar(v)
             n == Len(t)
  <2>0. e = Line(BulkType, <<Numeral(m)>>) \o t \o <<CR, LF>> /\ n = Len(t) /\ m \in Nat \cup {-1}
    BY <1>2
  <2> HIDE DEF e, n
  <2>2. e \in Seq(Nat) /\ Len(e) = n + 6 /\ e[1] = BulkType
    BY <2>0, <2>1, BulkIs
  <2>3. Len(e) >= 1 /\ e[1] # ArrayType
    BY <2>1, <2>2 DEF n, BulkType, ArrayType
  <2> QED BY <2>2, <2>3 DEF e
<1>3. <<Numeral(-1)>> \in Seq(Nat)
  BY <1>0, NumeralIs
<1>4. BulkType # ArrayType /\ IntegerType # ArrayType /\ SimpleType # ArrayType /\ ErrorType # ArrayType
  BY DEF BulkType, IntegerType, SimpleType, ErrorType, ArrayType
<1> QED BY <1>0, <1>1, <1>2, <1>3, <1>4, ScalarKinds, WordIs

LEMMA ScalarReads ==
  ASSUME NEW v \in Scalars \cup {ErrorReply}, Plain(EncodedScalar(v)),
         NEW p \in Seq(Nat), NEW s \in Nat \ {0}, Agrees(p, s, EncodedScalar(v))
  PROVE  Reads(ParseRedisScalar(p, s), p, s, EncodedScalar(v), v)
<1> DEFINE e == EncodedScalar(v)
           r == ParseRedisScalar(p, s)
<1>0. e \in Seq(Nat) /\ Len(e) \in Nat /\ Len(e) >= 1 /\ s \in Nat /\ Len(p) \in Nat
  BY ScalarSent
<1>t. -1 \in Nat \cup {-1} /\ BulkType \in Nat /\ IntegerType \in Nat /\ SimpleType \in Nat /\ ErrorType \in Nat
  BY DEF BulkType, IntegerType, SimpleType, ErrorType
<1>1. CASE s > Len(p)
  <2>1. r = Undefined
    BY <1>1, ScalarIs
  <2> HIDE DEF r, e
  <2>2. ~ s + Len(e) - 1 <= Len(p)
    BY <1>0, <1>1
  <2> QED BY <2>1, <2>2 DEF Reads, r, e
<1>2. CASE ~ s > Len(p)
  <2>1. s \in 1 .. Len(p)
    BY <1>0, <1>2
  <2>2. p[s] = e[1]
    <3>1. 1 \in 1 .. Len(e) /\ s + 1 - 1 = s /\ s <= Len(p)
      BY <1>0, <2>1
    <3> HIDE DEF e
    <3>2. p[s + 1 - 1] = e[1]
      BY <3>1 DEF Agrees, e
    <3> QED BY <3>1, <3>2
  <2>a. Agrees(p, s, e)
    OBVIOUS
  <2> HIDE DEF e, r
  <2>3. ASSUME NEW type \in Nat, NEW rest \in Seq(Nat), \A i \in 1 .. Len(rest) : rest[i] # CR, e = Line(type, rest)
        PROVE  /\ ParseRedisSimple(p, s) = IF s + Len(e) - 1 <= Len(p) THEN Parsed(s + Len(e), Value("simple", rest)) ELSE Undefined
               /\ ParseRedisInteger(p, s) = IF s + Len(e) - 1 <= Len(p) THEN Parsed(s + Len(e), Value("integer", rest)) ELSE Undefined
               /\ p[s] = type
    <3> DEFINE n == Len(rest)
    <3>1. Len(e) = n + 3 /\ e[1] = type
      BY <2>3, LineIs
    <3>2. n \in Nat
      OBVIOUS
    <3>3. /\ ParseRedisSimple(p, s) = IF s + n + 2 <= Len(p) THEN Parsed(s + n + 3, Value("simple", rest)) ELSE Undefined
          /\ ParseRedisInteger(p, s) = IF s + n + 2 <= Len(p) THEN Parsed(s + n + 3, Value("integer", rest)) ELSE Undefined
      BY <2>1, <2>a, <2>3, LineReads
    <3>4. s + Len(e) - 1 = s + n + 2 /\ s + Len(e) = s + n + 3
      BY <1>0, <3>1, <3>2
    <3> HIDE DEF n
    <3> QED BY <2>2, <3>1, <3>3, <3>4
  <2>4. CASE v = Value("nil", <<>>) /\ e = Line(BulkType, <<Numeral(-1)>>)
    <3>1. <<Numeral(-1)>> \in Seq(Nat) /\ Len(<<Numeral(-1)>>) = 1
      BY <1>t, NumeralIs
    <3>2. Len(e) = 1 + 3 /\ e[1] = BulkType
      BY <1>t, <2>4, <3>1, LineIs
    <3>3. ParseRedisBulk(p, s) = IF s + 3 <= Len(p) THEN Parsed(s + 4, v) ELSE Undefined
      BY <2>1, <2>a, <2>4, NilReads
    <3>4. r = ParseRedisBulk(p, s)
      BY <1>2, <2>2, <3>2, ScalarIs DEF r
    <3>5. s + Len(e) - 1 = s + 3 /\ s + Len(e) = s + 4
      BY <1>0, <3>2
    <3>6. v # ErrorReply
      BY <2>4 DEF Value, ErrorReply
    <3> QED BY <3>3, <3>4, <3>5, <3>6 DEF Reads, e, r
  <2>5. CASE v = Value("integer", <<Numeral(7)>>) /\ e = Line(IntegerType, <<Numeral(7)>>)
    <3>1. p[s] = IntegerType /\ ParseRedisInteger(p, s) = IF s + Len(e) - 1 <= Len(p) THEN Parsed(s + Len(e), v) ELSE Undefined
      BY <1>t, <2>3, <2>5, WordIs
    <3>2. r = ParseRedisInteger(p, s)
      BY <1>2, <3>1, ScalarIs DEF r
    <3>3. v # ErrorReply
      BY <2>5 DEF Value, ErrorReply
    <3> QED BY <3>1, <3>2, <3>3 DEF Reads, e, r
  <2>6. CASE v = Value("simple", Word) /\ e = Line(SimpleType, Word)
    <3>1. p[s] = SimpleType /\ ParseRedisSimple(p, s) = IF s + Len(e) - 1 <= Len(p) THEN Parsed(s + Len(e), v) ELSE Undefined
      BY <1>t, <2>3, <2>6, WordIs
    <3>2. r = ParseRedisSimple(p, s)
      BY <1>2, <3>1, ScalarIs DEF r
    <3>3. v # ErrorReply
      BY <2>6 DEF Value, ErrorReply
    <3> QED BY <3>1, <3>2, <3>3 DEF Reads, e, r
  <2>7. CASE v = ErrorReply /\ e = Line(ErrorType, Word)
    <3>1. p[s] = ErrorType /\ ParseRedisSimple(p, s) = IF s + Len(e) - 1 <= Len(p) THEN Parsed(s + Len(e), Value("simple", Word)) ELSE Undefined
      BY <1>t, <2>3, <2>7, WordIs
    <3>2. r = IF ParseRedisSimple(p, s) = Undefined THEN Undefined ELSE Thrown
      BY <1>2, <3>1, ScalarIs DEF r
    <3>3. Parsed(s + Len(e), Value("simple", Word)) # Undefined
      <4> DEFINE m == s + Len(e)
      <4>1. m # 0
        BY <1>0
      <4> HIDE DEF m
      <4>2. Parsed(m, Value("simple", Word)) # Undefined
        BY <4>1 DEF Parsed, Undefined
      <4> QED BY <4>2 DEF m
    <3> QED BY <2>7, <3>1, <3>2, <3>3 DEF Reads, e, r
  <2>8. ASSUME NEW t \in Seq(Nat), v = Value("bulk", t), e = Line(BulkType, <<Numeral(Len(t))>>) \o t \o <<CR, LF>>
        PROVE  Reads(r, p, s, e, v)
    <3> DEFINE n == Len(t)
    <3>1. n \in Nat
      OBVIOUS
    <3>2. Len(e) = n + 6 /\ e[1] = BulkType
      BY <2>8, <3>1, BulkIs
    <3>3. ParseRedisBulk(p, s) = IF s + n + 5 <= Len(p) THEN Parsed(s + n + 6, v) ELSE Undefined
      BY <2>1, <2>a, <2>8, BulkReads
    <3> HIDE DEF n
    <3>4. r = ParseRedisBulk(p, s)
      BY <1>2, <2>2, <3>2, ScalarIs DEF r
    <3>5. s + Len(e) - 1 = s + n + 5 /\ s + Len(e) = s + n + 6
      BY <1>0, <3>1, <3>2
    <3>6. v # ErrorReply
      BY <2>8 DEF Value, ErrorReply
    <3> QED BY <3>3, <3>4, <3>5, <3>6 DEF Reads
  <2> QED BY <2>4, <2>5, <2>6, <2>7, <2>8, ScalarKinds DEF e, r
<1> QED BY <1>1, <1>2

LEMMA SubSeqOneMore ==
  ASSUME NEW S, NEW a \in Seq(S), NEW i \in 1 .. Len(a)
  PROVE  SubSeq(a, 1, i) = Append(SubSeq(a, 1, i - 1), a[i])
<1> DEFINE b == SubSeq(a, 1, i - 1)
           c == SubSeq(a, 1, i)
           d == Append(b, a[i])
<1>0. i \in Nat /\ i >= 1 /\ Len(a) \in Nat /\ a[i] \in S
  OBVIOUS
<1>1. /\ c \in Seq(S) /\ Len(c) = i /\ \A k \in 1 .. i : c[k] = a[k]
  <2>1. 1 \in 1 .. Len(a) + 1 /\ i \in 1 - 1 .. Len(a) /\ 1 <= i /\ i - 1 + 1 = i /\ \A k \in 1 .. i : 1 + k - 1 = k
    BY <1>0
  <2>2. c \in Seq(S) /\ Len(c) = i - 1 + 1 /\ \A k \in 1 .. i - 1 + 1 : c[k] = a[1 + k - 1]
    BY <2>1, SubSeqProperties
  <2> HIDE DEF c
  <2> QED BY <2>1, <2>2
<1>2. /\ b \in Seq(S) /\ Len(b) = i - 1 /\ \A k \in 1 .. i - 1 : b[k] = a[k]
  <2> DEFINE j == i - 1
  <2>1. 1 \in 1 .. Len(a) + 1 /\ j \in 1 - 1 .. Len(a) /\ j - 1 + 1 = j /\ (~ 1 <= j => j = 0) /\ \A k \in 1 .. j : 1 + k - 1 = k
    BY <1>0
  <2> HIDE DEF j
  <2>2. /\ SubSeq(a, 1, j) \in Seq(S) /\ Len(SubSeq(a, 1, j)) = IF 1 <= j THEN j - 1 + 1 ELSE 0
        /\ \A k \in 1 .. j - 1 + 1 : SubSeq(a, 1, j)[k] = a[1 + k - 1]
    BY <2>1, SubSeqProperties
  <2>3. b = SubSeq(a, 1, j)
    BY DEF j
  <2> HIDE DEF b
  <2>4. b \in Seq(S) /\ Len(b) = j /\ \A k \in 1 .. j : b[k] = a[k]
    BY <2>1, <2>2, <2>3
  <2> QED BY <2>4 DEF j
<1> HIDE DEF b, c
<1>3. d \in Seq(S) /\ Len(d) = Len(b) + 1 /\ (\A k \in 1 .. Len(b) : d[k] = b[k]) /\ d[Len(b) + 1] = a[i]
  BY <1>0, <1>2, AppendProperties
<1> HIDE DEF d
<1>4. Len(d) = i
  BY <1>0, <1>2, <1>3
<1>5. ASSUME NEW k \in 1 .. i PROVE c[k] = d[k]
  <2>1. CASE k = i
    <3>1. Len(b) + 1 = i
      BY <1>0, <1>2
    <3> QED BY <1>1, <1>3, <2>1, <3>1
  <2>2. CASE k # i
    <3>1. k \in 1 .. i - 1
      BY <1>0, <2>2
    <3> QED BY <1>1, <1>2, <1>3, <3>1
  <2> QED BY <2>1, <2>2
<1> QED BY <1>1, <1>3, <1>4, <1>5, SeqEqual DEF b, c, d

(* Positions are in order. *)
LEMMA PlacedOnward ==
  ASSUME NEW parts \in Seq(Seq(Nat)), NEW text, NEW at, PlacedAt(text, parts, at), NEW i \in 1 .. Len(parts)
  PROVE  /\ i - 1 \in 0 .. Len(parts) /\ i \in 0 .. Len(parts) /\ Len(parts) \in Nat
         /\ at[i - 1] \in Nat /\ at[i] \in Nat /\ Len(parts[i]) \in Nat
         /\ at[i] = at[i - 1] + Len(parts[i]) /\ parts[i] \in Seq(Nat)
<1>1. i - 1 \in 0 .. Len(parts) /\ i \in 0 .. Len(parts) /\ Len(parts) \in Nat /\ parts[i] \in Seq(Nat)
  OBVIOUS
<1>2. Len(parts[i]) \in Nat
  BY <1>1
<1> QED BY <1>1, <1>2 DEF PlacedAt

LEMMA PlacedWithin ==
  ASSUME NEW parts \in Seq(Seq(Nat)), NEW text, NEW at, PlacedAt(text, parts, at), NEW i \in 0 .. Len(parts)
  PROVE  at[i] <= Len(text) /\ at[i] \in Nat /\ at[Len(parts)] = Len(text)
<1> DEFINE n == Len(parts)
           m == n - i
           U == {k \in 0 .. m : at[i] <= at[i + k]}
<1>0. n \in Nat /\ i \in Nat /\ m \in Nat /\ i + m = n /\ n \in 0 .. n
  OBVIOUS
<1>1. at[i] \in Nat /\ Len(text) = at[n]
  BY DEF PlacedAt
<1> HIDE DEF n, m
<1>2. 0 \in U
  BY <1>0, <1>1
<1>3. ASSUME NEW k \in 1 .. m, k - 1 \in U PROVE k \in U
  <2> DEFINE q == i + k
  <2>1. q \in 1 .. n /\ q - 1 = i + (k - 1) /\ k \in 0 .. m
    BY <1>0
  <2>2. at[i] <= at[q - 1]
    BY <1>3, <2>1
  <2> HIDE DEF q
  <2>3. at[q - 1] \in Nat /\ at[q] = at[q - 1] + Len(parts[q]) /\ Len(parts[q]) \in Nat
    BY <2>1, PlacedOnward DEF n
  <2>4. at[i] <= at[q]
    BY <1>1, <2>2, <2>3
  <2> QED BY <2>1, <2>4 DEF q
<1> HIDE DEF U
<1>4. \A k \in 0 .. m : k \in U
  BY <1>0, <1>2, <1>3, UpTo
<1>5. m \in U
  BY <1>0, <1>4
<1>6. at[i] <= at[n]
  BY <1>0, <1>5 DEF U
<1> QED BY <1>1, <1>6 DEF n

(* Where the text agrees, its parts do. *)
LEMMA PlacedAgrees ==
  ASSUME NEW parts \in Seq(Seq(Nat)), NEW text, NEW at, PlacedAt(text, parts, at), NEW i \in 1 .. Len(parts),
         NEW p \in Seq(Nat), NEW s \in Nat, Agrees(p, s, text)
  PROVE  Agrees(p, s + at[i - 1], parts[i])
<1> DEFINE b == at[i - 1]
           c == at[i]
           e == parts[i]
           n == Len(parts)
<1>1. b \in Nat /\ c \in Nat /\ Len(e) \in Nat /\ c = b + Len(e)
  BY PlacedOnward
<1>2. c <= Len(text) /\ Len(text) \in Nat
  <2>1. i \in 0 .. Len(parts)
    BY PlacedOnward
  <2>2. text \in Seq(Nat)
    BY DEF PlacedAt
  <2>3. c <= Len(text)
    BY <2>1, PlacedWithin
  <2> QED BY <2>2, <2>3
<1>3. \A j \in 1 .. Len(e) : text[b + j] = e[j]
  BY DEF PlacedAt
<1> HIDE DEF b, c, e
<1> SUFFICES ASSUME NEW j \in 1 .. Len(e), s + b + j - 1 <= Len(p) PROVE p[s + b + j - 1] = e[j]
  BY DEF Agrees, b, e
<1> DEFINE k == b + j
<1>4. k \in 1 .. Len(text) /\ s + k - 1 = s + b + j - 1
  BY <1>1, <1>2
<1>5. text[k] = e[j]
  BY <1>3
<1> HIDE DEF k
<1>6. p[s + k - 1] = text[k]
  BY <1>4 DEF Agrees
<1> QED BY <1>4, <1>5, <1>6

LEMMA PlacedPlain ==
  ASSUME NEW parts \in Seq(Seq(Nat)), NEW text, NEW at, PlacedAt(text, parts, at), NEW i \in 1 .. Len(parts), Plain(text)
  PROVE  Plain(parts[i])
<1> DEFINE b == at[i - 1]
           c == at[i]
           e == parts[i]
<1>1. b \in Nat /\ c \in Nat /\ Len(e) \in Nat /\ c = b + Len(e)
  BY PlacedOnward
<1>2. c <= Len(text) /\ Len(text) \in Nat
  <2>1. i \in 0 .. Len(parts)
    BY PlacedOnward
  <2>2. text \in Seq(Nat)
    BY DEF PlacedAt
  <2>3. c <= Len(text)
    BY <2>1, PlacedWithin
  <2> QED BY <2>2, <2>3
<1>3. \A j \in 1 .. Len(e) : text[b + j] = e[j]
  BY DEF PlacedAt
<1> HIDE DEF b, c, e
<1> SUFFICES ASSUME NEW j \in 1 .. Len(e) PROVE e[j] # Wide
  BY DEF Plain, e
<1>4. b + j \in 1 .. Len(text)
  BY <1>1, <1>2
<1> QED BY <1>3, <1>4 DEF Plain

(* The elements that have come after one another, as ParseRedisArray reads *)
(* them from the position q on.                                            *)
TakenElement(p, sofar) ==
  IF sofar \in {Undefined, Thrown} THEN sofar
  ELSE LET parsed == ParseRedisScalar(p, sofar.next) IN
       IF parsed \in {Undefined, Thrown} THEN parsed ELSE Parsed(parsed.next, Append(sofar.value, parsed.value))

ElementsRead(p, q, m, g) == g = [i \in 0 .. m |-> IF i = 0 THEN Parsed(q, <<>>) ELSE TakenElement(p, g[i - 1])]

LEMMA ParsedIs ==
  ASSUME NEW k \in Nat \ {0}, NEW value
  PROVE  /\ Parsed(k, value).next = k /\ Parsed(k, value).value = value
         /\ Parsed(k, value) \notin {Undefined, Thrown} /\ Parsed(k, value) # Undefined /\ Parsed(k, value) # Thrown
         /\ Undefined # Thrown /\ Undefined \in {Undefined, Thrown}
BY DEF Parsed, Undefined, Thrown

LEMMA ArrayIs ==
  ASSUME NEW p, NEW s, NEW m \in Nat, Number(p[s + 1]) = m
  PROVE  LET end == LineEnd(p, s + 1)
             g == CHOOSE f : ElementsRead(p, end + 2, m, f) IN
         /\ end = 0 => ParseRedisArray(p, s) = Undefined
         /\ end # 0 /\ g[m] \in {Undefined, Thrown} => ParseRedisArray(p, s) = g[m]
         /\ end # 0 /\ g[m] \notin {Undefined, Thrown} =>
              ParseRedisArray(p, s) = Parsed(g[m].next, Value("array", g[m].value))
<1> DEFINE end == LineEnd(p, s + 1)
           size == Number(p[s + 1])
           g == CHOOSE f : f = [i \in 0 .. size |-> IF i = 0 THEN Parsed(end + 2, <<>>) ELSE TakenElement(p, f[i - 1])]
<1>1. ParseRedisArray(p, s) =
        IF end = 0 THEN Undefined
        ELSE IF size = -1 THEN Parsed(end + 2, Value("nilArray", <<>>))
        ELSE IF g[size] \in {Undefined, Thrown} THEN g[size]
        ELSE Parsed(g[size].next, Value("array", g[size].value))
  BY Zenon DEF ParseRedisArray, TakenElement
<1>2. size = m /\ m # -1
  OBVIOUS
<1>3. g = CHOOSE f : ElementsRead(p, end + 2, m, f)
  BY <1>2, Zenon DEF ElementsRead
<1> HIDE DEF g, size, end
<1> QED BY <1>1, <1>2, <1>3 DEF end

(* Sequences placed in p behind one another are read up to the first that  *)
(* has not come.                                                           *)
LEMMA ElementsAre ==
  ASSUME NEW m \in Nat, NEW a \in [1 .. m -> Scalars], NEW text, NEW at,
         PlacedAt(text, [i \in 1 .. m |-> EncodedScalar(a[i])], at), Plain(text),
         NEW p \in Seq(Nat), NEW q \in 1 .. Len(p) + 1, Agrees(p, q, text)
  PROVE  LET g == CHOOSE f : ElementsRead(p, q, m, f) IN
         g[m] = IF q + Len(text) - 1 <= Len(p) THEN Parsed(q + Len(text), a) ELSE Undefined
<1> DEFINE parts == [i \in 1 .. m |-> EncodedScalar(a[i])]
           X == [i \in 0 .. m |-> IF q + at[i] - 1 <= Len(p) THEN Parsed(q + at[i], SubSeq(a, 1, i)) ELSE Undefined]
           g == CHOOSE f : ElementsRead(p, q, m, f)
<1>1. parts \in Seq(Seq(Nat)) /\ Len(parts) = m /\ \A i \in 1 .. m : parts[i] = EncodedScalar(a[i])
  <2>1. \A i \in 1 .. m : a[i] \in Scalars /\ EncodedScalar(a[i]) \in Seq(Nat)
    BY ScalarSent
  <2> QED BY <2>1
<1>2. a \in Seq(Scalars) /\ Len(a) = m /\ Len(p) \in Nat /\ q \in Nat /\ q >= 1
  OBVIOUS
<1>p. PlacedAt(text, parts, at)
  OBVIOUS
<1>x. \A i \in 0 .. m : X[i] = IF q + at[i] - 1 <= Len(p) THEN Parsed(q + at[i], SubSeq(a, 1, i)) ELSE Undefined
  OBVIOUS
<1> HIDE DEF parts, X, g
<1>3. X[0] = Parsed(q, <<>>)
  <2>1. at[0] = 0 /\ 0 \in 0 .. m
    BY <1>p DEF PlacedAt
  <2>2. q + at[0] - 1 <= Len(p) /\ q + at[0] = q
    BY <1>2, <2>1
  <2>3. SubSeq(a, 1, 0) = <<>>
    BY SubSeqEmpty
  <2> QED BY <1>x, <2>1, <2>2, <2>3
<1>4. ASSUME NEW i \in 1 .. m PROVE X[i] = TakenElement(p, X[i - 1])
  <2> DEFINE b == at[i - 1]
             c == at[i]
             e == parts[i]
             v == a[i]
             u == SubSeq(a, 1, i - 1)
             w == SubSeq(a, 1, i)
             parsed == ParseRedisScalar(p, q + b)
  <2>1. /\ i - 1 \in 0 .. m /\ i \in 0 .. m /\ b \in Nat /\ c \in Nat /\ Len(e) \in Nat
        /\ c = b + Len(e) /\ e \in Seq(Nat)
    BY <1>1, <1>p, PlacedOnward
  <2>2. Agrees(p, q + b, e) /\ Plain(e)
    BY <1>1, <1>2, <1>p, PlacedAgrees, PlacedPlain
  <2>3. v \in Scalars /\ e = EncodedScalar(v)
    BY <1>1
  <2>4. w = Append(u, v)
    BY <1>2, SubSeqOneMore
  <2>5. X[i - 1] = (IF q + b - 1 <= Len(p) THEN Parsed(q + b, u) ELSE Undefined)
    BY <1>x, <2>1
  <2>6. X[i] = (IF q + c - 1 <= Len(p) THEN Parsed(q + c, w) ELSE Undefined)
    BY <1>x, <2>1
  <2>7. v # ErrorReply
    BY <2>3 DEF Scalars, ErrorReply, Value
  <2>8. q + b \in Nat \ {0} /\ q + b + Len(e) - 1 = q + c - 1 /\ q + b + Len(e) = q + c
    <3> HIDE DEF b, c, e
    <3> QED BY <1>2, <2>1
  <2>9. Reads(parsed, p, q + b, e, v)
    <3> HIDE DEF b, e, v
    <3> QED BY <2>2, <2>3, <2>8, ScalarReads
  <2>10. parsed = IF q + c - 1 <= Len(p) THEN Parsed(q + c, v) ELSE Undefined
    <3> HIDE DEF b, c, e, v, parsed
    <3> QED BY <2>7, <2>8, <2>9 DEF Reads
  <2>11. q + b - 1 <= Len(p) \/ ~ q + c - 1 <= Len(p)
    <3> HIDE DEF b, c, e
    <3> QED BY <1>2, <2>1
  <2>12. q + c \in Nat \ {0}
    BY <1>2, <2>1
  <2> DEFINE j == q + b
             k == q + c
             x == X[i - 1]
             y == X[i]
  <2>13. j \in Nat \ {0} /\ k \in Nat \ {0} /\ parsed = ParseRedisScalar(p, j)
    BY <2>8, <2>12
  <2>14. CASE q + c - 1 <= Len(p)
    <3>1. x = Parsed(j, u) /\ y = Parsed(k, w) /\ parsed = Parsed(k, v)
      BY <2>5, <2>6, <2>10, <2>11, <2>14
    <3> HIDE DEF b, c, e, v, u, w, j, k, x, y, parsed
    <3>2. x \notin {Undefined, Thrown} /\ x.next = j /\ x.value = u
      BY <2>13, <3>1, ParsedIs
    <3>3. parsed \notin {Undefined, Thrown} /\ parsed.next = k /\ parsed.value = v
      BY <2>13, <3>1, ParsedIs
    <3>4. TakenElement(p, x) = Parsed(k, Append(u, v))
      BY <2>13, <3>2, <3>3 DEF TakenElement
    <3> QED BY <2>4, <3>1, <3>4 DEF x, y
  <2>15. CASE ~ q + c - 1 <= Len(p)
    <3>1. y = Undefined /\ parsed = Undefined
      BY <2>6, <2>10, <2>15
    <3>2. x = Undefined \/ x = Parsed(j, u)
      BY <2>5
    <3>3. CASE x = Undefined
      <4> HIDE DEF x, y
      <4>1. TakenElement(p, x) = x
        BY <3>3, ParsedIs DEF TakenElement
      <4> QED BY <3>1, <3>3, <4>1 DEF x, y
    <3>4. CASE x = Parsed(j, u)
      <4> HIDE DEF b, c, e, v, u, w, j, k, x, y, parsed
      <4>1. x \notin {Undefined, Thrown} /\ x.next = j
        BY <2>13, <3>4, ParsedIs
      <4>2. parsed \in {Undefined, Thrown}
        BY <3>1
      <4>3. TakenElement(p, x) = parsed
        BY <2>13, <4>1, <4>2 DEF TakenElement
      <4> QED BY <3>1, <4>3 DEF x, y
    <3> QED BY <3>2, <3>3, <3>4
  <2> QED BY <2>14, <2>15
<1>5. ElementsRead(p, q, m, X)
  <2>1. \A i \in 0 .. m : X[i] = IF i = 0 THEN Parsed(q, <<>>) ELSE TakenElement(p, X[i - 1])
    <3> SUFFICES ASSUME NEW i \in 0 .. m, i # 0 PROVE X[i] = TakenElement(p, X[i - 1])
      BY <1>3
    <3>1. i \in 1 .. m
      OBVIOUS
    <3> QED BY <1>4, <3>1
  <2>2. X = [i \in 0 .. m |-> X[i]]
    BY DEF X
  <2> QED BY <2>1, <2>2 DEF ElementsRead
<1>6. ElementsRead(p, q, m, g)
  BY <1>5 DEF g
<1>7. g[0] = Parsed(q, <<>>) /\ \A i \in 1 .. m : g[i] = TakenElement(p, g[i - 1])
  <2>1. \A i \in 0 .. m : g[i] = IF i = 0 THEN Parsed(q, <<>>) ELSE TakenElement(p, g[i - 1])
    BY <1>6 DEF ElementsRead
  <2>2. 0 \in 0 .. m /\ \A i \in 1 .. m : i \in 0 .. m /\ i # 0
    OBVIOUS
  <2> QED BY <2>1, <2>2
<1> DEFINE T == {i \in 0 .. m : g[i] = X[i]}
<1>8. 0 \in T
  BY <1>3, <1>7
<1>9. ASSUME NEW i \in 1 .. m, i - 1 \in T PROVE i \in T
  <2>1. g[i - 1] = X[i - 1] /\ i \in 0 .. m
    BY <1>9
  <2> QED BY <1>4, <1>7, <2>1
<1> HIDE DEF T
<1>10. \A i \in 0 .. m : i \in T
  BY <1>8, <1>9, UpTo
<1>11. g[m] = X[m]
  BY <1>10 DEF T
<1>12. at[m] = Len(text) /\ SubSeq(a, 1, m) = a /\ m \in 0 .. m
  <2>1. at[m] = Len(text)
    BY <1>1, <1>p DEF PlacedAt
  <2>2. SubSeq(a, 1, m) = a
    BY <1>2, SubSeqFull
  <2> QED BY <2>1, <2>2
<1>13. X[m] = IF q + Len(text) - 1 <= Len(p) THEN Parsed(q + Len(text), a) ELSE Undefined
  BY <1>x, <1>12
<1> QED BY <1>11, <1>13 DEF g

LEMMA ArrayReads ==
  ASSUME NEW m \in Nat, NEW a \in [1 .. m -> Scalars], Plain(Encoded(Value("array", a))),
         NEW p \in Seq(Nat), NEW s \in 1 .. Len(p), Agrees(p, s, Encoded(Value("array", a)))
  PROVE  ParseRedisArray(p, s) =
           IF s + Len(Encoded(Value("array", a))) - 1 <= Len(p)
           THEN Parsed(s + Len(Encoded(Value("array", a))), Value("array", a)) ELSE Undefined
<1> DEFINE parts == [i \in 1 .. m |-> EncodedScalar(a[i])]
           text == FlattenSeq(parts)
           l == Line(ArrayType, <<Numeral(m)>>)
           e == Encoded(Value("array", a))
           end == LineEnd(p, s + 1)
           q == end + 2
           g == CHOOSE f : ElementsRead(p, q, m, f)
<1>1. Len(a) = m /\ DOMAIN a = 1 .. m
  OBVIOUS
<1>2. e = l \o text
  BY <1>1, EncodedIs
<1>3. parts \in Seq(Seq(Nat))
  <2>1. \A i \in 1 .. m : EncodedScalar(a[i]) \in Seq(Nat)
    BY ScalarSent
  <2> QED BY <2>1
<1>4. PICK at : PlacedAt(text, parts, at)
  <2> HIDE DEF parts
  <2> QED BY <1>3, FlattenPlaced
<1>5. text \in Seq(Nat) /\ Len(text) \in Nat
  <2> HIDE DEF text, parts
  <2>1. text \in Seq(Nat)
    BY <1>4 DEF PlacedAt
  <2> QED BY <2>1
<1>6. m \in Nat \cup {-1} /\ ArrayType \in Nat /\ s \in Nat /\ s >= 1 /\ Len(p) \in Nat
  BY DEF ArrayType
<1>7. l \in Seq(Nat) /\ Len(l) = 4
  <2> DEFINE r == <<Numeral(m)>>
  <2>1. r \in Seq(Nat) /\ Len(r) = 1
    BY <1>6, NumeralIs
  <2> HIDE DEF parts, text, e
  <2>2. l = Line(ArrayType, r)
    BY DEF r
  <2> HIDE DEF l, r
  <2>3. l \in Seq(Nat) /\ Len(l) = Len(r) + 3
    BY <1>6, <2>1, <2>2, LineIs
  <2> QED BY <2>1, <2>3
<1>8. Agrees(p, s, l) /\ Agrees(p, s + 4, text)
  <2>1. Agrees(p, s, l \o text)
    BY <1>2
  <2> HIDE DEF l, text, e
  <2>2. Agrees(p, s + Len(l), text)
    BY <1>5, <1>6, <1>7, <2>1, AgreesRest
  <2> QED BY <1>5, <1>6, <1>7, <2>1, <2>2, AgreesFirst
<1>9. Plain(text) /\ Len(e) = 4 + Len(text)
  <2>1. Plain(e)
    OBVIOUS
  <2> HIDE DEF l, text, e
  <2>2. /\ Len(e) = Len(l) + Len(text) /\ \A i \in 1 .. Len(text) : e[Len(l) + i] = text[i]
    BY <1>2, <1>5, <1>7, JoinIs
  <2> SUFFICES ASSUME NEW i \in 1 .. Len(text) PROVE text[i] # Wide
    BY <1>7, <2>2 DEF Plain
  <2>3. Len(l) + i \in 1 .. Len(e)
    BY <1>5, <1>7, <2>2
  <2> QED BY <2>1, <2>2, <2>3 DEF Plain
<1>10. end = (IF s + 3 <= Len(p) THEN s + 2 ELSE 0) /\ (s + 3 <= Len(p) => Number(p[s + 1]) = m)
  BY <1>6, <1>8, HeaderReads
<1>11. CASE ~ s + 3 <= Len(p)
  <2>1. end = 0
    BY <1>10, <1>11
  <2>2. ParseRedisArray(p, s) = Undefined
    BY <2>1 DEF ParseRedisArray
  <2> HIDE DEF e, text
  <2>3. ~ s + Len(e) - 1 <= Len(p)
    BY <1>5, <1>6, <1>9, <1>11
  <2> QED BY <2>2, <2>3 DEF e
<1>12. CASE s + 3 <= Len(p)
  <2>1. end = s + 2 /\ q = s + 4 /\ end # 0 /\ q \in 1 .. Len(p) + 1 /\ Number(p[s + 1]) = m
    BY <1>6, <1>10, <1>12
  <2> HIDE DEF e, text, end
  <2>2. /\ g[m] \in {Undefined, Thrown} => ParseRedisArray(p, s) = g[m]
        /\ g[m] \notin {Undefined, Thrown} => ParseRedisArray(p, s) = Parsed(g[m].next, Value("array", g[m].value))
    BY <2>1, ArrayIs DEF end
  <2>3. g[m] = IF q + Len(text) - 1 <= Len(p) THEN Parsed(q + Len(text), a) ELSE Undefined
    <3> HIDE DEF q
    <3> QED BY <1>4, <1>8, <1>9, <2>1, ElementsAre
  <2> HIDE DEF g
  <2>4. q + Len(text) - 1 = s + Len(e) - 1 /\ q + Len(text) = s + Len(e) /\ s + Len(e) \in Nat \ {0}
    <3> HIDE DEF q
    <3> QED BY <1>5, <1>6, <1>9, <2>1
  <2> HIDE DEF q
  <2> DEFINE k == s + Len(e)
  <2>5. CASE k - 1 <= Len(p)
    <3>1. g[m] = Parsed(k, a) /\ k \in Nat \ {0}
      BY <2>3, <2>4, <2>5
    <3> HIDE DEF k
    <3>2. g[m] \notin {Undefined, Thrown} /\ g[m].next = k /\ g[m].value = a
      BY <3>1, ParsedIs
    <3>3. ParseRedisArray(p, s) = Parsed(k, Value("array", a))
      BY <2>2, <3>2
    <3> QED BY <2>5, <3>3 DEF k, e
  <2>6. CASE ~ k - 1 <= Len(p)
    <3>1. g[m] = Undefined
      BY <2>3, <2>4, <2>6
    <3>2. ParseRedisArray(p, s) = Undefined
      BY <2>2, <3>1
    <3> QED BY <2>6, <3>2 DEF k, e
  <2> QED BY <2>5, <2>6
<1> QED BY <1>11, <1>12

LEMMA NilArrayReads ==
  ASSUME NEW p \in Seq(Nat), NEW s \in 1 .. Len(p), Agrees(p, s, Line(ArrayType, <<Numeral(-1)>>))
  PROVE  ParseRedisArray(p, s) = IF s + 3 <= Len(p) THEN Parsed(s + 4, Value("nilArray", <<>>)) ELSE Undefined
<1>1. ArrayType \in Nat /\ -1 \in Nat \cup {-1} /\ s \in Nat /\ Len(p) \in Nat
  BY DEF ArrayType
<1>2. /\ LineEnd(p, s + 1) = IF s + 3 <= Len(p) THEN s + 2 ELSE 0
      /\ s + 3 <= Len(p) => Number(p[s + 1]) = -1
  BY <1>1, HeaderReads
<1> DEFINE end == LineEnd(p, s + 1)
           size == Number(p[s + 1])
<1>3. CASE s + 3 <= Len(p)
  <2>1. end = s + 2 /\ end # 0 /\ end + 2 = s + 4 /\ size = -1
    BY <1>1, <1>2, <1>3
  <2>2. end # 0 /\ size = -1 => ParseRedisArray(p, s) = Parsed(end + 2, Value("nilArray", <<>>))
    BY DEF ParseRedisArray
  <2> HIDE DEF end, size
  <2> QED BY <1>3, <2>1, <2>2
<1>4. CASE ~ s + 3 <= Len(p)
  <2>1. end = 0
    BY <1>2, <1>4
  <2>2. end = 0 => ParseRedisArray(p, s) = Undefined
    BY DEF ParseRedisArray
  <2> QED BY <1>4, <2>1, <2>2
<1> QED BY <1>3, <1>4

(* What Redis sends as a reply is a sequence that is not empty.            *)
LEMMA ReplySent ==
  ASSUME NEW v \in Responses
  PROVE  Encoded(v) \in Seq(Nat) /\ Len(Encoded(v)) \in Nat /\ Len(Encoded(v)) >= 1
<1> DEFINE e == Encoded(v)
<1>0. -1 \in Nat \cup {-1} /\ ArrayType \in Nat
  BY DEF ArrayType
<1>1. ASSUME NEW m \in Nat \cup {-1} PROVE Line(ArrayType, <<Numeral(m)>>) \in Seq(Nat) /\ Len(Line(ArrayType, <<Numeral(m)>>)) = 4
  <2> DEFINE r == <<Numeral(m)>>
  <2>1. r \in Seq(Nat) /\ Len(r) = 1
    BY NumeralIs
  <2> HIDE DEF r
  <2>2. Line(ArrayType, r) \in Seq(Nat) /\ Len(Line(ArrayType, r)) = Len(r) + 3
    BY <1>0, <2>1, LineIs
  <2> QED BY <2>1, <2>2 DEF r
<1>2. CASE v \in Scalars \cup {ErrorReply}
  <2>1. e = EncodedScalar(v)
    BY <1>2, EncodedIs
  <2>2. e \in Seq(Nat) /\ Len(e) >= 1
    BY <1>2, <2>1, ScalarSent
  <2> QED BY <2>2
<1>3. CASE v = Value("nilArray", <<>>)
  <2>1. e = Line(ArrayType, <<Numeral(-1)>>)
    BY <1>3, EncodedIs
  <2>2. e \in Seq(Nat) /\ Len(e) = 4
    BY <1>0, <1>1, <2>1
  <2> QED BY <2>2
<1>4. ASSUME NEW m \in Nat, NEW a \in [1 .. m -> Scalars], v = Value("array", a)
      PROVE  e \in Seq(Nat) /\ Len(e) \in Nat /\ Len(e) >= 1
  <2> DEFINE parts == [i \in 1 .. m |-> EncodedScalar(a[i])]
             text == FlattenSeq(parts)
             l == Line(ArrayType, <<Numeral(m)>>)
  <2>1. Len(a) = m /\ DOMAIN a = 1 .. m
    BY <1>4
  <2>2. e = l \o text
    BY <1>4, <2>1, EncodedIs
  <2>3. parts \in Seq(Seq(Nat))
    <3>1. \A i \in 1 .. m : EncodedScalar(a[i]) \in Seq(Nat)
      BY <1>4, ScalarSent
    <3> QED BY <3>1
  <2>4. text \in Seq(Nat)
    <3> HIDE DEF parts
    <3>1. PICK at : PlacedAt(text, parts, at)
      BY <2>3, FlattenPlaced
    <3> QED BY <3>1 DEF PlacedAt
  <2>5. l \in Seq(Nat) /\ Len(l) = 4
    BY <1>1
  <2> HIDE DEF l, text, e
  <2>6. e \in Seq(Nat) /\ Len(e) = Len(l) + Len(text)
    BY <2>2, <2>4, <2>5, JoinIs
  <2>7. Len(text) \in Nat
    BY <2>4
  <2> QED BY <2>5, <2>6, <2>7
<1>5. v \in Arrays => \E m \in Nat : \E a \in [1 .. m -> Scalars] : v = Value("array", a)
  BY RespAssumption DEF Arrays, BoundedSeq, SeqOf
<1> QED BY <1>2, <1>3, <1>4, <1>5 DEF Responses

LEMMA ReplyReads ==
  ASSUME NEW v \in Responses, Plain(Encoded(v)), NEW p \in Seq(Nat), NEW s \in Nat \ {0}, Agrees(p, s, Encoded(v))
  PROVE  Reads(ParseRedisResponse(p, s), p, s, Encoded(v), v)
<1> DEFINE e == Encoded(v)
           r == ParseRedisResponse(p, s)
<1>0. e \in Seq(Nat) /\ Len(e) \in Nat /\ Len(e) >= 1 /\ s \in Nat /\ Len(p) \in Nat
  BY ReplySent
<1>1. CASE s > Len(p)
  <2>1. r = Undefined
    <3>1. r = ParseRedisScalar(p, s)
      BY <1>0, <1>1 DEF ParseRedisResponse
    <3> QED BY <1>1, <3>1, ScalarIs
  <2> HIDE DEF r, e
  <2>2. ~ s + Len(e) - 1 <= Len(p)
    BY <1>0, <1>1
  <2> QED BY <2>1, <2>2 DEF Reads, r, e
<1>2. CASE ~ s > Len(p)
  <2>1. s \in 1 .. Len(p)
    BY <1>0, <1>2
  <2>2. p[s] = e[1]
    <3>1. 1 \in 1 .. Len(e) /\ s + 1 - 1 = s /\ s <= Len(p)
      BY <1>0, <2>1
    <3> HIDE DEF e
    <3>2. p[s + 1 - 1] = e[1]
      BY <3>1 DEF Agrees, e
    <3> QED BY <3>1, <3>2
  <2>3. r = IF p[s] = ArrayType THEN ParseRedisArray(p, s) ELSE ParseRedisScalar(p, s)
    BY <1>0, <2>1 DEF ParseRedisResponse
  <2>4. CASE v \in Scalars \cup {ErrorReply}
    <3>1. e = EncodedScalar(v) /\ e[1] # ArrayType
      BY <2>4, EncodedIs, ScalarSent
    <3>2. r = ParseRedisScalar(p, s)
      BY <2>2, <2>3, <3>1
    <3>3. Reads(ParseRedisScalar(p, s), p, s, EncodedScalar(v), v)
      BY <2>4, <3>1, ScalarReads
    <3> QED BY <3>1, <3>2, <3>3
  <2>5. ASSUME NEW m \in Nat \cup {-1} PROVE Line(ArrayType, <<Numeral(m)>>) \in Seq(Nat) /\ Len(Line(ArrayType, <<Numeral(m)>>)) = 4
                                             /\ Line(ArrayType, <<Numeral(m)>>)[1] = ArrayType
    <3> DEFINE l == <<Numeral(m)>>
    <3>0. ArrayType \in Nat
      BY DEF ArrayType
    <3>1. l \in Seq(Nat) /\ Len(l) = 1
      BY NumeralIs
    <3> HIDE DEF l
    <3>2. Line(ArrayType, l) \in Seq(Nat) /\ Len(Line(ArrayType, l)) = Len(l) + 3 /\ Line(ArrayType, l)[1] = ArrayType
      BY <3>0, <3>1, LineIs
    <3> QED BY <3>1, <3>2 DEF l
  <2>6. CASE v = Value("nilArray", <<>>)
    <3>1. e = Line(ArrayType, <<Numeral(-1)>>)
      BY <2>6, EncodedIs
    <3>2. Len(e) = 4 /\ e[1] = ArrayType
      <4>1. -1 \in Nat \cup {-1}
        OBVIOUS
      <4> QED BY <2>5, <3>1, <4>1
    <3>3. ParseRedisArray(p, s) = IF s + 3 <= Len(p) THEN Parsed(s + 4, v) ELSE Undefined
      BY <2>1, <2>6, <3>1, NilArrayReads
    <3>4. r = ParseRedisArray(p, s)
      BY <2>2, <2>3, <3>2
    <3>5. v # ErrorReply
      BY <2>6 DEF Value, ErrorReply
    <3> HIDE DEF e, r
    <3>6. s + Len(e) - 1 = s + 3 /\ s + Len(e) = s + 4
      BY <1>0, <3>2
    <3> QED BY <3>3, <3>4, <3>5, <3>6 DEF Reads, e, r
  <2>7. ASSUME NEW m \in Nat, NEW a \in [1 .. m -> Scalars], v = Value("array", a)
        PROVE  Reads(r, p, s, e, v)
    <3>1. ParseRedisArray(p, s) = IF s + Len(e) - 1 <= Len(p) THEN Parsed(s + Len(e), v) ELSE Undefined
      BY <2>1, <2>7, ArrayReads
    <3>2. e[1] = ArrayType
      <4> DEFINE l == Line(ArrayType, <<Numeral(m)>>)
                 text == FlattenSeq([i \in DOMAIN a |-> EncodedScalar(a[i])])
      <4>1. Len(a) = m
        OBVIOUS
      <4>2. e = l \o text
        BY <2>7, <4>1, EncodedIs
      <4>3. l \in Seq(Nat) /\ Len(l) = 4 /\ l[1] = ArrayType
        BY <2>5
      <4>4. text \in Seq(Nat)
        <5> DEFINE parts == [i \in DOMAIN a |-> EncodedScalar(a[i])]
        <5>1. \A i \in 1 .. m : EncodedScalar(a[i]) \in Seq(Nat)
          BY ScalarSent
        <5>2. parts \in Seq(Seq(Nat))
          BY <5>1
        <5> HIDE DEF parts
        <5>3. PICK at : PlacedAt(FlattenSeq(parts), parts, at)
          BY <5>2, FlattenPlaced
        <5> QED BY <5>3 DEF PlacedAt, parts
      <4> HIDE DEF l, text, e
      <4>5. \A i \in 1 .. Len(l) : (l \o text)[i] = l[i]
        BY <4>3, <4>4, JoinIs
      <4>6. 1 \in 1 .. Len(l)
        BY <4>3
      <4> QED BY <4>2, <4>3, <4>5, <4>6
    <3>3. r = ParseRedisArray(p, s)
      BY <2>2, <2>3, <3>2
    <3>4. v # ErrorReply
      BY <2>7 DEF Value, ErrorReply
    <3> HIDE DEF e, r
    <3> QED BY <3>1, <3>3, <3>4 DEF Reads
  <2>8. v \in Arrays => \E m \in Nat : \E a \in [1 .. m -> Scalars] : v = Value("array", a)
    BY RespAssumption DEF Arrays, BoundedSeq, SeqOf
  <2> QED BY <2>4, <2>6, <2>7, <2>8 DEF Responses
<1> QED BY <1>1, <1>2

LEMMA CutIs ==
  ASSUME NEW S, NEW t \in Seq(S), NEW n \in 0 .. Len(t), NEW m \in 0 .. n
  PROVE  /\ SubSeq(t, m + 1, n) \in Seq(S) /\ Len(SubSeq(t, m + 1, n)) = n - m
         /\ \A i \in 1 .. n - m : SubSeq(t, m + 1, n)[i] = t[m + i]
<1> DEFINE r == SubSeq(t, m + 1, n)
           a == m + 1
<1>1. a \in 1 .. Len(t) + 1 /\ n \in a - 1 .. Len(t) /\ n - a + 1 = n - m /\ (~ a <= n => n - m = 0) /\ m \in Nat /\ n \in Nat
  OBVIOUS
<1>2. \A i \in 1 .. n - m : a + i - 1 = m + i
  OBVIOUS
<1> HIDE DEF a
<1>3. /\ SubSeq(t, a, n) \in Seq(S) /\ Len(SubSeq(t, a, n)) = IF a <= n THEN n - a + 1 ELSE 0
      /\ \A i \in 1 .. n - a + 1 : SubSeq(t, a, n)[i] = t[a + i - 1]
  BY <1>1, SubSeqProperties
<1>4. r = SubSeq(t, a, n)
  BY DEF a
<1> HIDE DEF r
<1>5. r \in Seq(S) /\ Len(r) = n - m /\ \A i \in 1 .. n - m : r[i] = t[a + i - 1]
  BY <1>1, <1>3, <1>4
<1> QED BY <1>2, <1>5 DEF r

(* What is left behind a part of what is left.                             *)
LEMMA CutAgain ==
  ASSUME NEW S, NEW t \in Seq(S), NEW n \in 0 .. Len(t), NEW m \in 0 .. n, NEW k \in 0 .. n - m
  PROVE  SubSeq(SubSeq(t, m + 1, n), k + 1, n - m) = SubSeq(t, m + k + 1, n)
<1> DEFINE r == SubSeq(t, m + 1, n)
           l == n - m
           u == SubSeq(r, k + 1, l)
           b == m + k
           w == SubSeq(t, b + 1, n)
<1>0. m \in Nat /\ n \in Nat /\ k \in Nat /\ l \in Nat /\ k \in 0 .. l /\ b \in 0 .. n /\ n - b = l - k
  OBVIOUS
<1>1. r \in Seq(S) /\ Len(r) = l /\ \A i \in 1 .. l : r[i] = t[m + i]
  BY CutIs
<1>2. w \in Seq(S) /\ Len(w) = l - k /\ \A i \in 1 .. l - k : w[i] = t[b + i]
  <2> HIDE DEF b, l
  <2>1. w \in Seq(S) /\ Len(w) = n - b /\ \A i \in 1 .. n - b : w[i] = t[b + i]
    BY <1>0, CutIs
  <2> HIDE DEF w
  <2> QED BY <1>0, <2>1
<1> HIDE DEF r, l, b, w
<1>3. u \in Seq(S) /\ Len(u) = l - k /\ \A i \in 1 .. l - k : u[i] = r[k + i]
  <2>1. l \in 0 .. Len(r)
    BY <1>0, <1>1
  <2> QED BY <1>0, <1>1, <2>1, CutIs
<1> HIDE DEF u
<1>4. ASSUME NEW i \in 1 .. l - k PROVE u[i] = w[i]
  <2>1. k + i \in 1 .. l
    BY <1>0
  <2>2. r[k + i] = t[m + (k + i)] /\ m + (k + i) = b + i
    BY <1>0, <1>1, <2>1 DEF b
  <2> QED BY <1>2, <1>3, <2>2
<1>5. u = w
  BY <1>2, <1>3, <1>4, SeqEqual
<1> QED BY <1>5 DEF u, w, r, l, b

(* The ends of the replies are the places of what was sent.                *)
LEMMA EndsAre ==
  ASSUME NEW k \in Nat, NEW given \in [1 .. k -> Responses], NEW at,
         PlacedAt(Sending(given), [i \in 1 .. k |-> Encoded(given[i])], at), NEW j \in 0 .. k
  PROVE  Len(Sending(SubSeq(given, 1, j))) = at[j]
<1> DEFINE parts == [i \in 1 .. k |-> Encoded(given[i])]
           b == SubSeq(given, 1, j)
           mine == [i \in DOMAIN b |-> Encoded(b[i])]
<1>0. k \in Nat /\ j \in Nat /\ j <= k /\ given \in Seq(Responses) /\ Len(given) = k
  OBVIOUS
<1>1. b \in Seq(Responses) /\ Len(b) = j /\ \A i \in 1 .. j : b[i] = given[i]
  <2>1. 0 \in 0 .. j /\ j \in 0 .. Len(given) /\ 0 + 1 = 1 /\ j - 0 = j /\ \A i \in 1 .. j : 0 + i = i
    BY <1>0
  <2>2. /\ SubSeq(given, 0 + 1, j) \in Seq(Responses) /\ Len(SubSeq(given, 0 + 1, j)) = j - 0
        /\ \A i \in 1 .. j - 0 : SubSeq(given, 0 + 1, j)[i] = given[0 + i]
    BY <1>0, <2>1, CutIs
  <2> HIDE DEF b
  <2>3. b = SubSeq(given, 0 + 1, j)
    BY <2>1 DEF b
  <2> QED BY <2>1, <2>2, <2>3
<1> HIDE DEF b
<1>2. mine \in Seq(Seq(Nat)) /\ Len(mine) = j /\ \A i \in 1 .. j : mine[i] = Encoded(given[i])
  <2>1. DOMAIN b = 1 .. j
    BY <1>1
  <2>2. \A i \in 1 .. j : b[i] \in Responses /\ Encoded(b[i]) \in Seq(Nat)
    <3> SUFFICES ASSUME NEW i \in 1 .. j PROVE b[i] \in Responses /\ Encoded(b[i]) \in Seq(Nat)
      OBVIOUS
    <3>1. b[i] \in Responses
      BY <1>1
    <3> QED BY <3>1, ReplySent
  <2>3. mine = [i \in 1 .. j |-> Encoded(b[i])]
    BY <2>1
  <2>4. [i \in 1 .. j |-> Encoded(b[i])] \in Seq(Seq(Nat)) /\ Len([i \in 1 .. j |-> Encoded(b[i])]) = j
    BY <1>0, <2>2
  <2> QED BY <1>1, <2>3, <2>4
<1>3. Sending(b) = FlattenSeq(mine)
  BY DEF Sending
<1> HIDE DEF mine
<1>4. PICK to : PlacedAt(FlattenSeq(mine), mine, to)
  BY <1>2, FlattenPlaced
<1>5. to[0] = 0 /\ Len(Sending(b)) = to[j] /\ \A i \in 1 .. j : to[i] = to[i - 1] + Len(Encoded(given[i]))
  BY <1>2, <1>3, <1>4 DEF PlacedAt
<1>6. at[0] = 0 /\ \A i \in 1 .. j : at[i] = at[i - 1] + Len(Encoded(given[i]))
  <2>1. Len(parts) = k /\ \A i \in 1 .. k : parts[i] = Encoded(given[i])
    BY <1>0
  <2>2. PlacedAt(Sending(given), parts, at)
    OBVIOUS
  <2> HIDE DEF parts
  <2>3. at[0] = 0 /\ \A i \in 1 .. k : at[i] = at[i - 1] + Len(parts[i])
    BY <2>1, <2>2 DEF PlacedAt
  <2>4. \A i \in 1 .. j : i \in 1 .. k
    BY <1>0
  <2> QED BY <2>1, <2>3, <2>4
<1> DEFINE T == {i \in 0 .. j : to[i] = at[i]}
<1>7. 0 \in T
  BY <1>5, <1>6
<1>8. ASSUME NEW i \in 1 .. j, i - 1 \in T PROVE i \in T
  <2>1. to[i] = to[i - 1] + Len(Encoded(given[i])) /\ at[i] = at[i - 1] + Len(Encoded(given[i])) /\ to[i - 1] = at[i - 1]
    BY <1>5, <1>6, <1>8
  <2>2. to[i] = at[i] /\ i \in 0 .. j
    BY <2>1
  <2> QED BY <2>2
<1> HIDE DEF T
<1>9. \A i \in 0 .. j : i \in T
  BY <1>0, <1>7, <1>8, UpTo
<1>10. to[j] = at[j]
  BY <1>0, <1>9 DEF T
<1> QED BY <1>5, <1>10 DEF b

(* Of k replies that were sent, cut has come; j of them can be taken, and  *)
(* then this is left and answered.                                         *)
Cutting(k, given, text, at, cut) ==
  /\ k \in Nat /\ given \in [1 .. k -> Responses]
  /\ PlacedAt(text, [i \in 1 .. k |-> Encoded(given[i])], at) /\ Plain(text)
  /\ cut \in 0 .. Len(text)

Fit(given, at, cut, j) == at[j] <= cut /\ \A i \in 1 .. j - 1 : given[i] # ErrorReply

TakenTo(given, text, at, cut, j) ==
  [rest    |-> IF j # 0 /\ given[j] = ErrorReply THEN <<>> ELSE SubSeq(text, at[j] + 1, cut),
   answers |-> SubSeq(given, 1, j)]

LEMMA NothingReads == ParseRedisResponse(<<>>, 1) = Undefined
<1>1. Len(<<>>) = 0 /\ 1 > 0 /\ ~ 1 <= 0
  OBVIOUS
<1>2. ParseRedisResponse(<<>>, 1) = ParseRedisScalar(<<>>, 1)
  BY <1>1 DEF ParseRedisResponse
<1> QED BY <1>1, <1>2, ScalarIs

LEMMA CuttingIs ==
  ASSUME NEW k, NEW given, NEW text, NEW at, NEW cut, Cutting(k, given, text, at, cut)
  PROVE  /\ k \in Nat /\ given \in Seq(Responses) /\ Len(given) = k /\ text \in Seq(Nat) /\ Len(text) \in Nat
         /\ cut \in Nat /\ cut <= Len(text)
         /\ at[0] = 0 /\ at[k] = Len(text) /\ \A j \in 0 .. k : at[j] \in Nat
         /\ \A j \in 1 .. k : /\ at[j] = at[j - 1] + Len(Encoded(given[j]))
                              /\ Len(Encoded(given[j])) \in Nat /\ Plain(Encoded(given[j]))
                              /\ \A i \in 1 .. Len(Encoded(given[j])) : text[at[j - 1] + i] = Encoded(given[j])[i]
<1> DEFINE parts == [i \in 1 .. k |-> Encoded(given[i])]
<1>1. k \in Nat /\ given \in [1 .. k -> Responses] /\ PlacedAt(text, parts, at) /\ Plain(text) /\ cut \in 0 .. Len(text)
  BY DEF Cutting
<1>2. given \in Seq(Responses) /\ Len(given) = k
  BY <1>1
<1>3. \A i \in 1 .. k : Encoded(given[i]) \in Seq(Nat) /\ Len(Encoded(given[i])) \in Nat
  BY <1>1, ReplySent
<1>4. parts \in Seq(Seq(Nat)) /\ Len(parts) = k /\ \A i \in 1 .. k : parts[i] = Encoded(given[i])
  BY <1>1, <1>3
<1> HIDE DEF parts
<1>5. /\ at \in [0 .. k -> Nat] /\ at[0] = 0 /\ text \in Seq(Nat) /\ Len(text) = at[k]
      /\ \A j \in 1 .. k : at[j] = at[j - 1] + Len(parts[j]) /\ \A i \in 1 .. Len(parts[j]) : text[at[j - 1] + i] = parts[j][i]
  BY <1>1, <1>4 DEF PlacedAt
<1>6. \A j \in 1 .. k : Plain(parts[j])
  BY <1>1, <1>4, PlacedPlain
<1>7. Len(text) \in Nat
  BY <1>5
<1>8. cut \in Nat /\ cut <= Len(text)
  BY <1>1, <1>7
<1>9. \A j \in 0 .. k : at[j] \in Nat
  BY <1>5
<1> QED BY <1>1, <1>2, <1>3, <1>4, <1>5, <1>6, <1>7, <1>8, <1>9

(* What one pass takes: the next reply, when there is one that has come    *)
(* and no error before it.                                                 *)
LEMMA TakesNext ==
  ASSUME NEW k, NEW given, NEW text, NEW at, NEW cut, Cutting(k, given, text, at, cut),
         NEW j \in 0 .. k, Fit(given, at, cut, j)
  PROVE  /\ j < k /\ Fit(given, at, cut, j + 1) =>
              Flushed(TakenTo(given, text, at, cut, j)) = TakenTo(given, text, at, cut, j + 1)
         /\ ~ (j < k /\ Fit(given, at, cut, j + 1)) =>
              Flushed(TakenTo(given, text, at, cut, j)) = TakenTo(given, text, at, cut, j)
<1> DEFINE x == TakenTo(given, text, at, cut, j)
           y == TakenTo(given, text, at, cut, j + 1)
           a == at[j]
           r == SubSeq(text, a + 1, cut)
           next == Fit(given, at, cut, j + 1)
           parsed == ParseRedisResponse(x.rest, 1)
<1>0. j \in Nat /\ k \in Nat /\ j <= k /\ cut \in Nat /\ cut <= Len(text) /\ Len(text) \in Nat /\ text \in Seq(Nat)
  BY CuttingIs
<1>1. a \in Nat /\ a <= cut
  BY CuttingIs DEF Fit
<1>2. r \in Seq(Nat) /\ Len(r) = cut - a /\ \A i \in 1 .. cut - a : r[i] = text[a + i]
  <2>1. cut \in 0 .. Len(text) /\ a \in 0 .. cut
    BY <1>0, <1>1
  <2> HIDE DEF a
  <2> QED BY <1>0, <2>1, CutIs
<1>3. x.rest = (IF j # 0 /\ given[j] = ErrorReply THEN <<>> ELSE r) /\ x.answers = SubSeq(given, 1, j)
  BY DEF TakenTo
<1>4. /\ parsed = Undefined => Flushed(x) = x
      /\ parsed = Thrown => Flushed(x) = [rest |-> <<>>, answers |-> Append(x.answers, ErrorReply)]
      /\ parsed # Undefined /\ parsed # Thrown =>
           Flushed(x) = [rest |-> SubSeq(x.rest, parsed.next, Len(x.rest)), answers |-> Append(x.answers, parsed.value)]
  BY FlushedIs
<1>5. CASE j # 0 /\ given[j] = ErrorReply
  <2>1. Flushed(x) = x
    <3> HIDE DEF x
    <3>1. parsed = Undefined
      BY <1>3, <1>5, NothingReads
    <3> QED BY <1>4, <3>1
  <2>2. ~ next
    <3>1. j \in 1 .. (j + 1) - 1
      BY <1>0, <1>5
    <3> QED BY <1>5, <3>1 DEF Fit
  <2> QED BY <2>1, <2>2
<1>6. CASE ~ (j # 0 /\ given[j] = ErrorReply)
  <2>1. x.rest = r
    BY <1>3, <1>6
  <2>2. CASE j = k
    <3>1. a = Len(text)
      BY <2>2, CuttingIs
    <3>2. cut - a = 0
      <4> HIDE DEF a
      <4> QED BY <1>0, <1>1, <3>1
    <3> HIDE DEF x, a, r
    <3>3. r = <<>>
      BY <1>2, <3>2
    <3>4. parsed = Undefined
      BY <2>1, <3>3, NothingReads
    <3> QED BY <1>0, <1>4, <2>2, <3>4 DEF x
  <2>3. CASE j # k
    <3> DEFINE v == given[j + 1]
               e == Encoded(v)
               b == at[j + 1]
               n == Len(e)
    <3>1. j + 1 \in 1 .. k /\ j < k /\ (j + 1) - 1 = j
      BY <1>0, <2>3
    <3>2. /\ b = a + n /\ n \in Nat /\ Plain(e) /\ \A i \in 1 .. n : text[a + i] = e[i]
      <4> DEFINE q == j + 1
      <4>1. q \in 1 .. k /\ q - 1 = j
        BY <3>1
      <4> HIDE DEF q
      <4>2. /\ at[q] = at[q - 1] + Len(Encoded(given[q])) /\ Len(Encoded(given[q])) \in Nat /\ Plain(Encoded(given[q]))
            /\ \A i \in 1 .. Len(Encoded(given[q])) : text[at[q - 1] + i] = Encoded(given[q])[i]
        BY <4>1, CuttingIs
      <4> QED BY <4>1, <4>2 DEF q
    <3>3. v \in Responses
      <4>1. given \in Seq(Responses) /\ Len(given) = k
        BY CuttingIs
      <4> QED BY <3>1, <4>1
    <3>4. next <=> b <= cut
      <4>1. \A i \in 1 .. (j + 1) - 1 : given[i] # ErrorReply
        <5> SUFFICES ASSUME NEW i \in 1 .. (j + 1) - 1 PROVE given[i] # ErrorReply
          OBVIOUS
        <5>1. i \in 1 .. j - 1 \/ (i = j /\ j # 0)
          BY <1>0
        <5> QED BY <1>6, <5>1 DEF Fit
      <4> QED BY <4>1 DEF Fit
    <3>5. SubSeq(given, 1, j + 1) = Append(SubSeq(given, 1, j), v)
      <4>1. given \in Seq(Responses) /\ Len(given) = k
        BY CuttingIs
      <4> DEFINE q == j + 1
      <4>2. q \in 1 .. Len(given) /\ q - 1 = j
        BY <3>1, <4>1
      <4> HIDE DEF q
      <4>3. SubSeq(given, 1, q) = Append(SubSeq(given, 1, q - 1), given[q])
        BY <4>1, <4>2, SubSeqOneMore
      <4> QED BY <4>2, <4>3 DEF q
    <3>6. y = [rest |-> IF v = ErrorReply THEN <<>> ELSE SubSeq(text, b + 1, cut), answers |-> Append(SubSeq(given, 1, j), v)]
      <4>1. j + 1 # 0
        BY <1>0
      <4> QED BY <3>5, <4>1 DEF TakenTo
    <3>7. x.answers = SubSeq(given, 1, j)
      BY <1>3
    <3> HIDE DEF v, e, b, n, a, r, x, y, next
    <3>8. Agrees(r, 1, e)
      <4> SUFFICES ASSUME NEW i \in 1 .. n, 1 + i - 1 <= Len(r) PROVE r[1 + i - 1] = e[i]
        BY DEF Agrees, n
      <4>1. 1 + i - 1 = i /\ i \in 1 .. cut - a
        BY <1>0, <1>1, <1>2, <3>2
      <4> QED BY <1>2, <3>2, <4>1
    <3>9. Reads(parsed, r, 1, e, v)
      <4>1. 1 \in Nat \ {0}
        OBVIOUS
      <4> QED BY <1>2, <2>1, <3>2, <3>3, <3>8, <4>1, ReplyReads DEF e
    <3>10. 1 + n - 1 <= Len(r) <=> b <= cut
      BY <1>0, <1>1, <1>2, <3>2
    <3>11. parsed = IF b <= cut THEN (IF v = ErrorReply THEN Thrown ELSE Parsed(1 + n, v)) ELSE Undefined
      <4> HIDE DEF parsed
      <4> QED BY <3>9, <3>10 DEF Reads, n
    <3>12. CASE ~ b <= cut
      <4>1. parsed = Undefined
        BY <3>11, <3>12
      <4> QED BY <1>4, <3>4, <3>12, <4>1 DEF x, next
    <3>13. CASE b <= cut /\ v = ErrorReply
      <4>1. parsed = Thrown
        BY <3>11, <3>13
      <4> HIDE DEF parsed
      <4>2. Flushed(x) = [rest |-> <<>>, answers |-> Append(x.answers, ErrorReply)]
        BY <1>4, <4>1
      <4>3. Flushed(x) = y
        BY <3>6, <3>7, <3>13, <4>2
      <4> QED BY <3>1, <3>4, <3>13, <4>3 DEF x, y, next
    <3>14. CASE b <= cut /\ v # ErrorReply
      <4> DEFINE q == 1 + n
      <4>1. parsed = Parsed(q, v) /\ q \in Nat \ {0}
        BY <3>2, <3>11, <3>14
      <4> HIDE DEF parsed, q
      <4>2. parsed # Undefined /\ parsed # Thrown /\ parsed.next = q /\ parsed.value = v
        BY <4>1, ParsedIs
      <4>3. Flushed(x) = [rest |-> SubSeq(r, q, Len(r)), answers |-> Append(SubSeq(given, 1, j), v)]
        BY <1>4, <2>1, <3>7, <4>2
      <4>4. SubSeq(r, q, Len(r)) = SubSeq(text, b + 1, cut)
        <5>1. cut \in 0 .. Len(text) /\ a \in 0 .. cut /\ n \in 0 .. cut - a
          BY <1>0, <1>1, <3>2, <3>14
        <5>2. SubSeq(SubSeq(text, a + 1, cut), n + 1, cut - a) = SubSeq(text, a + n + 1, cut)
          BY <1>0, <5>1, CutAgain
        <5>3. n + 1 = q
          BY <3>2 DEF q
        <5> QED BY <1>2, <3>2, <5>2, <5>3 DEF r
      <4>5. Flushed(x) = y
        BY <3>6, <3>14, <4>3, <4>4
      <4> QED BY <3>1, <3>4, <3>14, <4>5 DEF x, y, next
    <3> QED BY <3>12, <3>13, <3>14
  <2> QED BY <2>2, <2>3
<1> QED BY <1>5, <1>6

(* After i passes j replies are taken: as many, or as many as can be.      *)
Top(k, given, at, cut, i, j) ==
  /\ j \in 0 .. k /\ j <= i /\ Fit(given, at, cut, j)
  /\ j = i \/ ~ (j < k /\ Fit(given, at, cut, j + 1))

DrainsTo(buffer, n, g) ==
  g = [i \in 0 .. n |-> IF i = 0 THEN [rest |-> buffer, answers |-> <<>>] ELSE Flushed(g[i - 1])]

LEMMA DrainedIs ==
  ASSUME NEW k, NEW given, NEW text, NEW at, NEW cut, Cutting(k, given, text, at, cut), NEW n \in Nat
  PROVE  \E j : Top(k, given, at, cut, n, j) /\ Drained(SubSeq(text, 1, cut), n) = TakenTo(given, text, at, cut, j)
<1> DEFINE buffer == SubSeq(text, 1, cut)
           g == CHOOSE f : DrainsTo(buffer, n, f)
           S(j) == TakenTo(given, text, at, cut, j)
           Y == {S(j) : j \in {i \in 0 .. k : Fit(given, at, cut, i)}}
           F == [q \in (1 .. n) \X Y |-> Flushed(q[2])]
           x0 == [rest |-> buffer, answers |-> <<>>]
<1>0. k \in Nat /\ at[0] = 0 /\ cut \in Nat /\ \A j \in 0 .. k : at[j] \in Nat
  BY CuttingIs
<1>1. Drained(buffer, n) = g[n]
  BY Zenon DEF Drained, DrainsTo
<1>2. Fit(given, at, cut, 0) /\ 0 \in 0 .. k
  BY <1>0 DEF Fit
<1>3. S(0) = x0
  <2>1. SubSeq(given, 1, 0) = <<>>
    BY SubSeqEmpty
  <2>2. at[0] + 1 = 1
    BY <1>0
  <2> QED BY <2>1, <2>2 DEF TakenTo
<1>4. ASSUME NEW j \in 0 .. k, Fit(given, at, cut, j)
      PROVE  /\ j < k /\ Fit(given, at, cut, j + 1) => Flushed(S(j)) = S(j + 1)
             /\ ~ (j < k /\ Fit(given, at, cut, j + 1)) => Flushed(S(j)) = S(j)
  BY <1>4, TakesNext
<1> HIDE DEF g, S, buffer, x0
<1>5. \A y \in Y : Flushed(y) \in Y
  <2> SUFFICES ASSUME NEW j \in 0 .. k, Fit(given, at, cut, j) PROVE Flushed(S(j)) \in Y
    OBVIOUS
  <2>1. CASE j < k /\ Fit(given, at, cut, j + 1)
    <3>1. j + 1 \in 0 .. k
      BY <1>0, <2>1
    <3>2. S(j + 1) \in Y
      BY <2>1, <3>1
    <3> QED BY <1>4, <2>1, <3>2
  <2>2. CASE ~ (j < k /\ Fit(given, at, cut, j + 1))
    <3>1. S(j) \in Y
      OBVIOUS
    <3> QED BY <1>4, <2>2, <3>1
  <2> QED BY <2>1, <2>2
<1>6. x0 \in Y
  BY <1>2, <1>3
<1>7. F \in [(1 .. n) \X Y -> Y] /\ \A i \in 1 .. n : \A y \in Y : F[<<i, y>>] = Flushed(y)
  BY <1>5
<1> HIDE DEF Y, F
<1>8. PICK s \in [0 .. n -> Y] : OneAfterOther(s, F, x0, n)
  BY <1>6, <1>7, FoldExists
<1>9. DrainsTo(buffer, n, s)
  <2>1. \A i \in 0 .. n : s[i] = IF i = 0 THEN x0 ELSE Flushed(s[i - 1])
    <3> SUFFICES ASSUME NEW i \in 0 .. n, i # 0 PROVE s[i] = Flushed(s[i - 1])
      BY <1>8 DEF OneAfterOther
    <3>1. i \in 1 .. n /\ i - 1 \in 0 .. n
      OBVIOUS
    <3>2. s[i - 1] \in Y /\ s[i] = F[<<i, s[i - 1]>>]
      BY <1>8, <3>1 DEF OneAfterOther
    <3> QED BY <1>7, <3>1, <3>2
  <2>2. s = [i \in 0 .. n |-> s[i]]
    BY <1>8
  <2> QED BY <2>1, <2>2 DEF DrainsTo, x0
<1>10. DrainsTo(buffer, n, g)
  BY <1>9 DEF g
<1>11. g[0] = x0 /\ \A i \in 1 .. n : g[i] = Flushed(g[i - 1])
  <2>1. \A i \in 0 .. n : g[i] = IF i = 0 THEN x0 ELSE Flushed(g[i - 1])
    BY <1>10 DEF DrainsTo, x0
  <2>2. 0 \in 0 .. n /\ \A i \in 1 .. n : i \in 0 .. n /\ i # 0
    OBVIOUS
  <2> QED BY <2>1, <2>2
<1> DEFINE T == {i \in 0 .. n : \E j : Top(k, given, at, cut, i, j) /\ g[i] = S(j)}
<1>12. 0 \in T
  <2>1. Top(k, given, at, cut, 0, 0)
    BY <1>2 DEF Top
  <2> QED BY <1>3, <1>11, <2>1
<1>13. ASSUME NEW i \in 1 .. n, i - 1 \in T PROVE i \in T
  <2>1. PICK j : Top(k, given, at, cut, i - 1, j) /\ g[i - 1] = S(j)
    BY <1>13
  <2>2. j \in 0 .. k /\ j <= i - 1 /\ Fit(given, at, cut, j) /\ i \in 0 .. n /\ g[i] = Flushed(S(j))
    BY <1>11, <2>1 DEF Top
  <2>3. CASE j < k /\ Fit(given, at, cut, j + 1)
    <3>1. j = i - 1
      BY <2>1, <2>3 DEF Top
    <3>2. j + 1 \in 0 .. k /\ j + 1 = i
      BY <1>0, <2>2, <2>3, <3>1
    <3>3. Top(k, given, at, cut, i, j + 1)
      BY <2>3, <3>2 DEF Top
    <3>4. g[i] = S(j + 1)
      BY <1>4, <2>2, <2>3
    <3> QED BY <2>2, <3>3, <3>4
  <2>4. CASE ~ (j < k /\ Fit(given, at, cut, j + 1))
    <3>1. Top(k, given, at, cut, i, j)
      BY <2>2, <2>4 DEF Top
    <3>2. g[i] = S(j)
      BY <1>4, <2>2, <2>4
    <3> QED BY <2>2, <3>1, <3>2
  <2> QED BY <2>3, <2>4
<1> HIDE DEF T
<1>14. \A i \in 0 .. n : i \in T
  BY <1>12, <1>13, UpTo
<1>15. PICK j : Top(k, given, at, cut, n, j) /\ g[n] = S(j)
  BY <1>14 DEF T
<1> QED BY <1>1, <1>15 DEF S, buffer

(* A greatest number is that one. *)
LEMMA MaxIs ==
  ASSUME NEW A \in SUBSET Nat, NEW m \in A, \A a \in A : a <= m
  PROVE  Max(A) = m
<1>1. m \in A /\ \A a \in A : m >= a
  OBVIOUS
<1>2. Max(A) \in A /\ \A a \in A : Max(A) >= a
  BY Zenon, <1>1 DEF Max
<1> DEFINE x == Max(A)
<1>3. x \in A /\ x >= m
  BY <1>2
<1> HIDE DEF x
<1>4. x = m
  BY <1>3
<1> QED BY <1>4 DEF x

(* Whatever is sent and wherever it is cut, only what has come as a whole  *)
(* is taken for replies, and each reply for what it is (Whole).            *)
LEMMA WholeHolds == \A n \in 0 .. MaxReplies : Whole[n]
<1> SUFFICES ASSUME NEW n \in 0 .. MaxReplies, NEW given \in BoundedSeq(Responses, MaxReplies)
             PROVE  LET text == Sending(given)
                        ends == [j \in 0 .. Len(given) |-> Len(Sending(SubSeq(given, 1, j)))]
                        Cut(cut) ==
                          LET taken == Max({j \in 0 .. Min({n, Len(given)}) :
                                              ends[j] <= cut /\ \A i \in 1 .. j - 1 : given[i] # ErrorReply}) IN
                          [answers |-> SubSeq(given, 1, taken),
                           rest    |-> IF taken # 0 /\ given[taken] = ErrorReply THEN <<>> ELSE SubSeq(text, ends[taken] + 1, cut)] IN
                    Contains(text, Wide) \/ \A cut \in 0 .. Len(text) : Drained(SubSeq(text, 1, cut), n) = Cut(cut)
  BY Zenon DEF Whole
<1>0. n \in Nat
  BY RespAssumption
<1>1. PICK k \in Nat : given \in [1 .. k -> Responses]
  BY RespAssumption DEF BoundedSeq, SeqOf
<1> DEFINE text == Sending(given)
           ends == [j \in 0 .. Len(given) |-> Len(Sending(SubSeq(given, 1, j)))]
           Complete(cut) == {j \in 0 .. Min({n, Len(given)}) : ends[j] <= cut /\ \A i \in 1 .. j - 1 : given[i] # ErrorReply}
           Cut(cut) == [answers |-> SubSeq(given, 1, Max(Complete(cut))),
                        rest    |-> IF Max(Complete(cut)) # 0 /\ given[Max(Complete(cut))] = ErrorReply THEN <<>>
                                    ELSE SubSeq(text, ends[Max(Complete(cut))] + 1, cut)]
<1>2. SUFFICES ASSUME ~ Contains(text, Wide), NEW cut \in 0 .. Len(text) PROVE Drained(SubSeq(text, 1, cut), n) = Cut(cut)
  BY Zenon
<1> DEFINE parts == [i \in 1 .. k |-> Encoded(given[i])]
<1>3. Len(given) = k /\ DOMAIN given = 1 .. k
  BY <1>1
<1>4. parts \in Seq(Seq(Nat)) /\ text = FlattenSeq(parts)
  <2>1. \A i \in 1 .. k : Encoded(given[i]) \in Seq(Nat)
    BY <1>1, ReplySent
  <2>2. text = FlattenSeq(parts)
    BY <1>3 DEF Sending
  <2> QED BY <2>1, <2>2
<1>5. PICK at : PlacedAt(text, parts, at)
  <2> HIDE DEF parts, text
  <2> QED BY <1>4, FlattenPlaced
<1>6. Plain(text)
  BY <1>2 DEF Contains, Plain
<1>7. Cutting(k, given, text, at, cut)
  BY <1>1, <1>5, <1>6 DEF Cutting
<1>8. \A j \in 0 .. k : ends[j] = at[j]
  BY <1>1, <1>3, <1>5, EndsAre
<1>9. \A j \in 0 .. k : at[j] \in Nat
  BY <1>7, CuttingIs
<1>10. PICK t : Top(k, given, at, cut, n, t) /\ Drained(SubSeq(text, 1, cut), n) = TakenTo(given, text, at, cut, t)
  BY <1>0, <1>7, DrainedIs
<1> HIDE DEF ends, text, parts
<1>11. Min({n, Len(given)}) = IF n <= k THEN n ELSE k
  <2> DEFINE M == {n, k}
  <2>1. M \in SUBSET Nat /\ M # {} /\ n \in M /\ k \in M
    BY <1>0
  <2>2. \A y \in M : y = n \/ y = k
    OBVIOUS
  <2> HIDE DEF M
  <2>3. Min(M) \in M /\ Min(M) <= n /\ Min(M) <= k
    BY <2>1, LeastOfMin
  <2> DEFINE y == Min(M)
  <2>4. (y = n \/ y = k) /\ y <= n /\ y <= k
    BY <2>2, <2>3
  <2> HIDE DEF y
  <2>5. y = IF n <= k THEN n ELSE k
    BY <1>0, <1>1, <2>4
  <2> QED BY <1>3, <2>5 DEF y, M
<1>12. \A j : j \in Complete(cut) <=> (j \in 0 .. k /\ j <= n /\ Fit(given, at, cut, j))
  <2>1. \A j : j \in 0 .. Min({n, Len(given)}) <=> (j \in 0 .. k /\ j <= n)
    BY <1>0, <1>11
  <2> QED BY <1>8, <2>1 DEF Fit
<1> HIDE DEF Complete
<1>13. Max(Complete(cut)) = t
  <2>1. t \in 0 .. k /\ t <= n /\ Fit(given, at, cut, t) /\ (t = n \/ ~ (t < k /\ Fit(given, at, cut, t + 1)))
    BY <1>10 DEF Top
  <2>2. t \in Complete(cut) /\ Complete(cut) \in SUBSET Nat
    BY <1>12, <2>1
  <2>3. ASSUME NEW j \in Complete(cut), ~ j <= t PROVE FALSE
    <3>1. j \in 0 .. k /\ j <= n /\ Fit(given, at, cut, j) /\ j > t
      BY <1>12, <2>1, <2>3
    <3>2. t < k /\ t # n /\ t + 1 \in 0 .. k /\ t + 1 <= j
      BY <1>0, <2>1, <3>1
    <3>3. at[t + 1] <= at[j]
      <4> DEFINE U == {i \in 0 .. j - (t + 1) : at[t + 1] <= at[(t + 1) + i]}
                 l == j - (t + 1)
      <4>1. l \in Nat /\ 0 \in U
        BY <1>9, <2>1, <3>1, <3>2
      <4>2. ASSUME NEW i \in 1 .. l, i - 1 \in U PROVE i \in U
        <5> DEFINE q == (t + 1) + i
        <5>1. q \in 1 .. k /\ q - 1 = (t + 1) + (i - 1) /\ i \in 0 .. l /\ q \in 0 .. k /\ q - 1 \in 0 .. k
          BY <2>1, <3>1, <3>2
        <5>2. at[t + 1] <= at[q - 1]
          BY <4>2, <5>1
        <5> HIDE DEF q
        <5>3. at[q] = at[q - 1] + Len(Encoded(given[q])) /\ Len(Encoded(given[q])) \in Nat
          BY <1>7, <5>1, CuttingIs
        <5>4. at[q - 1] \in Nat /\ at[t + 1] \in Nat
          BY <1>9, <3>2, <5>1
        <5>5. at[t + 1] <= at[q]
          BY <5>2, <5>3, <5>4
        <5> QED BY <5>1, <5>5 DEF q
      <4> HIDE DEF U
      <4>3. \A i \in 0 .. l : i \in U
        <5> HIDE DEF l
        <5> QED BY <4>1, <4>2, UpTo
      <4>4. l \in U /\ (t + 1) + l = j
        BY <2>1, <3>1, <4>1, <4>3
      <4> QED BY <4>4 DEF U
    <3>4. Fit(given, at, cut, t + 1)
      <4>1. at[j] <= cut /\ \A i \in 1 .. j - 1 : given[i] # ErrorReply
        BY <3>1 DEF Fit
      <4>2. at[t + 1] <= cut
        <5>1. at[t + 1] \in Nat /\ at[j] \in Nat /\ cut \in Nat
          BY <1>7, <1>9, <3>1, <3>2, CuttingIs
        <5> QED BY <3>3, <4>1, <5>1
      <4>3. \A i \in 1 .. (t + 1) - 1 : i \in 1 .. j - 1
        BY <2>1, <3>1, <3>2
      <4> QED BY <4>1, <4>2, <4>3 DEF Fit
    <3> QED BY <2>1, <3>2, <3>4
  <2> QED BY <2>2, <2>3, MaxIs
<1>14. t \in 0 .. k
  BY <1>10 DEF Top
<1>15. ends[t] = at[t]
  BY <1>8, <1>14
<1>16. Cut(cut) = [answers |-> SubSeq(given, 1, t),
                   rest    |-> IF t # 0 /\ given[t] = ErrorReply THEN <<>> ELSE SubSeq(text, at[t] + 1, cut)]
  BY <1>13, <1>15
<1> HIDE DEF Cut
<1> QED BY <1>10, <1>16 DEF TakenTo

(* No reply is taken before it is there as a whole, however what was       *)
(* received is cut, and each is taken for what it is.                      *)
THEOREM RepliesAlwaysParsedWhole == RedisSpec => []ParsedWhole
<1>1. ClientInv(client) => ParsedWhole
  <2> SUFFICES ASSUME ClientInv(client) PROVE ParsedWhole
    OBVIOUS
  <2> DEFINE l == Len(client.pending)
             A == {MaxReplies, l}
             m == Min(A)
  <2>1. l \in Nat
    <3>1. client.pending \in Seq(ClientRequests)
      BY DEF ClientInv, Clients
    <3> QED BY <3>1
  <2>2. A \in SUBSET Nat /\ A # {} /\ MaxReplies \in A
    BY <2>1, RespAssumption
  <2>3. ParsedWhole = Whole[m]
    BY DEF ParsedWhole
  <2> HIDE DEF A, l
  <2>4. m \in Nat /\ m <= MaxReplies
    BY <2>2, LeastOfMin
  <2> HIDE DEF m
  <2>5. m \in 0 .. MaxReplies
    BY <2>4, RespAssumption
  <2> QED BY <2>3, <2>5, WholeHolds
<1> QED BY <1>1, ClientInvAlways, PTL
=============================================================================
