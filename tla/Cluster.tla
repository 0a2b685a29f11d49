------------------------------ MODULE Cluster ------------------------------
(* Distributed mode: the records that the nodes keep in Redis, the         *)
(* heartbeat that renews them and the caches the nodes answer from.        *)
(*                                                                         *)
(* An item is a session, a viewer binding or a running command: the three  *)
(* are saved, removed and listed in the same way.  A node's requests are   *)
(* carried out and answered in order (module RedisClient); when the        *)
(* connection fails, those under way are rejected.  One unit of time is    *)
(* the interval between heartbeats.                                        *)
EXTENDS Integers, Sequences, FiniteSets, SequencesExt

CONSTANTS
  Nodes, Items,
  Shared,        \* items that several nodes may hold: bindings by connection
  Hosts,         \* bound: nodes that open items, end and lose their connection
  Reading,       \* bound: nodes that read between heartbeats
  Timed,         \* bound: nodes whose clock matters
  Ttl,           \* intervals after which a node's record expires
  MaxOpens,      \* bound: items opened, again or for the first time
  MaxEnds,       \* bound: processes stopped or killed, connections lost
  Nobody, Lost   \* no owner; an owner that ended without removing the item

ASSUME ClusterAssumption ==
  /\ Shared \subseteq Items /\ (Hosts \cup Reading \cup Timed) \subseteq Nodes
  /\ {Nobody, Lost} \cap Nodes = {} /\ Nobody # Lost
  /\ Ttl \in Nat \ {0} /\ MaxOpens \in Nat /\ MaxEnds \in Nat

VARIABLES
  up,        \* "starting", "up", "stopping", "stopped" or "crashed"
  held,      \* the items of a node, in the order of its maps
  cache,     \* clusterSessions, clusterBindings, clusterCommands: items and owners
  beat,      \* the heartbeat under way: the items it came to, the time since its start
  heard,     \* the time since nodeLastHeartbeatAt; Ttl when it is too long ago
  sent,      \* requests Redis has not carried out
  replies,   \* requests whose reply has not been received
  store,     \* Redis: items and their owners, the index of the items, the nodes
  opener,    \* ghost: the node that opened an item last, before it stopped
  count      \* ghost: how often the bounded things happened

vars == <<up, held, cache, beat, heard, sent, replies, store, opener, count>>

Min2(a, b) == IF a < b THEN a ELSE b

----------------------------------------------------------------------------
(* Requests and what they do in Redis                                      *)

(* by: "own" for a save or removal nobody awaits, "beat", "read", "stop".  *)
Request(op, of, by) == [op |-> op, of |-> of, by |-> by, got |-> {}]
NoRequest == Request("none", {}, "own")

Wire(n) == ToSet(sent[n]) \cup ToSet(replies[n])
Busy(n, by) == \E q \in Wire(n) : q.by = by

(* The record of an item names the node that writes it as its owner. *)
Record(n, i) == <<i, n>>

(* The item or the node of the record is written, without a time to live   *)
(* for an item; the index is written by a request of its own.              *)
Applied(S, n, q) ==
  CASE q.op = "set" -> [S EXCEPT !.items = [i \in Items |-> IF i \in q.of THEN n ELSE @[i]]]
    [] q.op = "del" -> [S EXCEPT !.items = [i \in Items |-> IF i \in q.of THEN Nobody ELSE @[i]]]
    [] q.op = "add" -> [S EXCEPT !.index = @ \cup q.of]
    [] q.op = "rem" -> [S EXCEPT !.index = @ \ q.of]
    [] q.op = "node" -> [S EXCEPT !.age[n] = 0]
    [] q.op = "unnode" -> [S EXCEPT !.age[n] = Ttl]
    [] OTHER -> S

Got(S, q) ==
  CASE q.op = "ids" -> S.index
    [] q.op = "values" -> {<<i, S.items[i]>> : i \in {j \in q.of : S.items[j] # Nobody}}
    [] OTHER -> {}

Redis(n) ==
  /\ sent[n] # <<>>
  /\ LET q == Head(sent[n]) IN
     /\ store' = Applied(store, n, q)
     /\ replies' = [replies EXCEPT ![n] =
          IF up[n] \in {"stopped", "crashed"} THEN <<>> ELSE Append(@, [q EXCEPT !.got = Got(store, q)])]
  /\ sent' = [sent EXCEPT ![n] = Tail(@)]
  /\ UNCHANGED <<up, held, cache, beat, heard, opener, count>>

----------------------------------------------------------------------------
(* A node                                                                  *)

(* rememberSession, upsertViewerBinding, rememberRunningCommand.  The id   *)
(* of a session or command is new; a binding may come back.  Nothing asks   *)
(* whether cleanup has begun: what is opened then, nobody will remove.     *)
Running(n) == up[n] \in {"up", "stopping"}
Open(n, i) ==
  /\ Running(n) /\ i \notin ToSet(held[n]) /\ count.opens < MaxOpens
  /\ opener[i] \in {Nobody, n} \/ i \in Shared
  /\ held' = [held EXCEPT ![n] = Append(@, i)]
  /\ cache' = [cache EXCEPT ![n] = {r \in @ : r[1] # i} \cup {Record(n, i)}]
  /\ sent' = [sent EXCEPT ![n] = Append(@, Request("set", {i}, "own"))]
  /\ opener' = [opener EXCEPT ![i] = IF up[n] = "up" THEN n ELSE Lost]
  /\ count' = [count EXCEPT !.opens = @ + 1]
  /\ UNCHANGED <<up, beat, heard, replies, store>>

(* forgetSession, with its bindings, and forgetRunningCommand. *)
Forget(n, i) ==
  /\ Running(n)
  /\ \E p \in 1 .. Len(held[n]) : held[n][p] = i /\ held' = [held EXCEPT ![n] = RemoveAt(@, p)]
  /\ cache' = [cache EXCEPT ![n] = {r \in @ : r[1] # i}]
  /\ beat' = [beat EXCEPT ![n].visited = @ \ {i}]
  /\ sent' = [sent EXCEPT ![n] = Append(@, Request("del", {i}, "own"))]
  /\ UNCHANGED <<up, heard, replies, store, opener, count>>

(* heartbeatDistributedNode: at the start, which waits for it, and with    *)
(* every interval.  One heartbeat or read at a time, which is a bound.     *)
Heartbeat(n) ==
  /\ up[n] \in {"starting", "up"} /\ ~Busy(n, "beat") /\ ~Busy(n, "read")
  /\ beat' = [beat EXCEPT ![n] = [visited |-> {}, age |-> 0]]
  /\ sent' = [sent EXCEPT ![n] = Append(@, Request("node", {}, "beat"))]
  /\ UNCHANGED <<up, held, cache, heard, replies, store, opener, count>>

(* refreshDistributedCaches for a tool or the sessions page. *)
Read(n) ==
  /\ n \in Reading /\ up[n] = "up" /\ ~Busy(n, "beat") /\ ~Busy(n, "read")
  /\ sent' = [sent EXCEPT ![n] = Append(@, Request("ids", {}, "read"))]
  /\ UNCHANGED <<up, held, cache, beat, heard, replies, store, opener, count>>

(* The heartbeat walks over the maps as they are when it gets there. *)
Ahead(n) == {p \in 1 .. Len(held[n]) : held[n][p] \notin beat[n].visited}
NextItem(n) == held[n][CHOOSE p \in Ahead(n) : \A l \in Ahead(n) : p <= l]

Following(n, q) ==
  CASE q.op = "set" -> Request("add", q.of, q.by)
    [] q.op = "del" -> Request("rem", q.of, q.by)
    [] q.op = "ids" -> Request("values", q.got, q.by)
    [] q.by = "beat" /\ q.op \in {"node", "add"} ->
         IF Ahead(n) = {} THEN Request("ids", {}, "beat") ELSE Request("set", {NextItem(n)}, "beat")
    [] OTHER -> NoRequest

(* The order of what follows k replies that arrive together, as positions  *)
(* among the replies: the continuation of a removal runs one tick before   *)
(* the one of a save.                                                      *)
Sooner(n, j, l) ==
  IF replies[n][j].op = "del" THEN replies[n][l].op = "del" => j < l
  ELSE replies[n][l].op # "del" /\ j < l
Orders(n, k) ==
  LET answered == {j \in 1 .. k : Following(n, replies[n][j]) # NoRequest}
  IN {at \in Bijection(1 .. Cardinality(answered), answered) :
        \A p, q \in DOMAIN at : p < q => Sooner(n, at[p], at[q])}
Requests(n, at) == [p \in DOMAIN at |-> Following(n, replies[n][at[p]])]

Lists(n, k) == {j \in 1 .. k : replies[n][j].op = "values"}
LastList(n, k) == replies[n][CHOOSE j \in Lists(n, k) : \A l \in Lists(n, k) : l <= j].got
SavedByBeat(n, k) ==
  UNION {replies[n][j].of : j \in {l \in 1 .. k : replies[n][l].op = "add" /\ replies[n][l].by = "beat"}}

(* Mutant: the caches keep what they held. *)
CacheAfter_NotCleared(n, k) ==
  IF Lists(n, k) # {} THEN cache[n] \cup LastList(n, k)
  ELSE cache[n] \cup {Record(n, i) : i \in SavedByBeat(n, k)}

(* A list replaces the caches; a heartbeat caches what it has saved, also  *)
(* when it was removed meanwhile.                                          *)
CacheAfter(n, k) ==
  IF Lists(n, k) # {} THEN LastList(n, k)
  ELSE {r \in cache[n] : r[1] \notin SavedByBeat(n, k)} \cup {Record(n, i) : i \in SavedByBeat(n, k)}

(* Mutant: the time of the heartbeat is taken when it ends. *)
HeardAfter_End(n, k) ==
  IF \E j \in 1 .. k : replies[n][j].op = "values" /\ replies[n][j].by = "beat" THEN 0 ELSE heard[n]

HeardAfter(n, k) ==
  IF \E j \in 1 .. k : replies[n][j].op = "values" /\ replies[n][j].by = "beat"
  THEN beat[n].age ELSE heard[n]

Receive(n, k, next) ==
  LET begun == up[n] = "starting" /\ \E j \in 1 .. k : replies[n][j].op = "values"
      started == UNION {q.of : q \in {r \in ToSet(next) : r.op = "set"}}
  IN /\ replies' = [replies EXCEPT ![n] = SubSeq(@, k + 1, Len(@))]
     /\ sent' = [sent EXCEPT ![n] = @ \o next]
     /\ up' = [up EXCEPT ![n] = IF begun THEN "up" ELSE @]
     /\ beat' = [beat EXCEPT ![n].visited = @ \cup started]
     /\ cache' = [cache EXCEPT ![n] = CacheAfter(n, k)]
     /\ heard' = [heard EXCEPT ![n] = HeardAfter(n, k)]
     /\ UNCHANGED <<held, store, opener, count>>

SomeReceive(n) ==
  \E k \in 1 .. Len(replies[n]) : \E at \in Orders(n, k) : Receive(n, k, Requests(n, at))

(* Mutant: the sessions are not closed before the node's record goes. *)
Stop_SessionsKept(n) ==
  /\ up[n] = "up" /\ count.ends < MaxEnds
  /\ count' = [count EXCEPT !.ends = @ + 1]
  /\ up' = [up EXCEPT ![n] = "stopping"]
  /\ sent' = [sent EXCEPT ![n] = Append(@, Request("unnode", {}, "stop"))]
  /\ held' = [held EXCEPT ![n] = <<>>]
  /\ UNCHANGED <<beat, cache, heard, replies, store, opener>>

(* cleanup: the timers end, every session and command is closed and        *)
(* forgotten, and the node's record is removed.                            *)
Stop(n) ==
  /\ up[n] = "up" /\ count.ends < MaxEnds
  /\ count' = [count EXCEPT !.ends = @ + 1]
  /\ up' = [up EXCEPT ![n] = "stopping"]
  /\ sent' = [sent EXCEPT ![n] =
       @ \o [j \in 1 .. Len(held[n]) |-> Request("del", {held[n][j]}, "own")]
         \o <<Request("unnode", {}, "stop")>>]
  /\ held' = [held EXCEPT ![n] = <<>>]
  /\ cache' = [cache EXCEPT ![n] = {r \in @ : r[1] \notin ToSet(held[n])}]
  /\ UNCHANGED <<beat, heard, replies, store, opener>>

(* cleanup exits once the node's record is removed.  The exit handler      *)
(* closes what was opened meanwhile, but its removals are only started:    *)
(* nothing of them is written any more.                                    *)
Exit(n) ==
  /\ up[n] = "stopping" /\ ~Busy(n, "stop")
  /\ up' = [up EXCEPT ![n] = "stopped"]
  /\ held' = [held EXCEPT ![n] = <<>>]
  /\ heard' = [heard EXCEPT ![n] = Ttl]
  /\ replies' = [replies EXCEPT ![n] = <<>>]
  /\ UNCHANGED <<cache, beat, sent, store, opener, count>>

Ended(n) ==
  /\ up' = [up EXCEPT ![n] = "crashed"]
  /\ held' = [held EXCEPT ![n] = <<>>]
  /\ cache' = [cache EXCEPT ![n] = {}]
  /\ heard' = [heard EXCEPT ![n] = Ttl]
  /\ replies' = [replies EXCEPT ![n] = <<>>]
  /\ opener' = [i \in Items |-> IF opener[i] = n THEN Lost ELSE opener[i]]

(* The process is killed; what it wrote may still reach Redis. *)
Crash(n) ==
  /\ up[n] \in {"starting", "up", "stopping"} /\ count.ends < MaxEnds
  /\ Ended(n)
  /\ \E k \in 0 .. Len(sent[n]) : sent' = [sent EXCEPT ![n] = SubSeq(@, 1, k)]
  /\ count' = [count EXCEPT !.ends = @ + 1]
  /\ UNCHANGED <<beat, store>>

Restart(n) ==
  /\ up[n] \in {"stopped", "crashed"} /\ sent[n] = <<>>
  /\ up' = [up EXCEPT ![n] = "starting"]
  /\ beat' = [beat EXCEPT ![n] = [visited |-> {}, age |-> 0]]
  /\ cache' = [cache EXCEPT ![n] = {}]
  /\ UNCHANGED <<held, heard, sent, replies, store, opener, count>>

(* The node's connection fails: requests are rejected whether Redis has    *)
(* carried them out or not.  Later heartbeats and tools handle that; the   *)
(* start fails, and nobody handles the rejection of a save or removal,     *)
(* which ends the process.                                                 *)
ConnectionFails(n) ==
  /\ up[n] \in {"starting", "up", "stopping"} /\ Wire(n) # {} /\ count.ends < MaxEnds
  /\ IF up[n] # "up" \/ Busy(n, "own") THEN Ended(n)
     ELSE /\ replies' = [replies EXCEPT ![n] = <<>>]
          /\ UNCHANGED <<up, held, cache, heard, opener>>
  /\ sent' = [sent EXCEPT ![n] = <<>>]
  /\ count' = [count EXCEPT !.ends = @ + 1, !.failures = @ + 1]
  /\ UNCHANGED <<beat, store>>

(* An interval passes; Redis drops the record of a node after Ttl. *)
Tick ==
  /\ \E n \in Timed : Min2(store.age[n], heard[n]) < Ttl
  /\ store' = [store EXCEPT !.age = [n \in Nodes |-> IF n \in Timed THEN Min2(@[n] + 1, Ttl) ELSE @[n]]]
  /\ heard' = [n \in Nodes |-> IF n \in Timed THEN Min2(heard[n] + 1, Ttl) ELSE heard[n]]
  /\ beat' = [n \in Nodes |->
       IF n \in Timed THEN [beat[n] EXCEPT !.age = Min2(@ + 1, Ttl)] ELSE beat[n]]
  /\ UNCHANGED <<up, held, cache, sent, replies, opener, count>>

Init ==
  /\ up = [n \in Nodes |-> "starting"]
  /\ held = [n \in Nodes |-> <<>>]
  /\ cache = [n \in Nodes |-> {}]
  /\ beat = [n \in Nodes |-> [visited |-> {}, age |-> 0]]
  /\ heard = [n \in Nodes |-> Ttl]
  /\ sent = [n \in Nodes |-> <<>>]
  /\ replies = [n \in Nodes |-> <<>>]
  /\ store = [items |-> [i \in Items |-> Nobody], index |-> {}, age |-> [n \in Nodes |-> Ttl]]
  /\ opener = [i \in Items |-> Nobody]
  /\ count = [opens |-> 0, ends |-> 0, failures |-> 0]

Hosting(n) ==
  \/ \E i \in Items : Open(n, i) \/ Forget(n, i)
  \/ Stop(n) \/ Exit(n) \/ Crash(n) \/ Restart(n) \/ ConnectionFails(n)

Next ==
  \/ \E n \in Hosts : Hosting(n)
  \/ \E n \in Nodes : Heartbeat(n) \/ Read(n) \/ SomeReceive(n) \/ Redis(n)
  \/ Tick

(* The heartbeat's timer fires, Redis answers, and the runtime delivers    *)
(* the answers; connections fail a bounded number of times.                *)
Fairness == \A n \in Nodes : WF_vars(Heartbeat(n)) /\ WF_vars(SomeReceive(n)) /\ WF_vars(Redis(n))

Spec == Init /\ [][Next]_vars /\ Fairness

----------------------------------------------------------------------------
(* What other nodes see                                                    *)

(* resolveRemoteOwnerForSessionRef, resolveRemoteOwnerForBinding: another  *)
(* node's record makes the HTTP routes answer REMOTE_OWNER.                *)
RemoteOwner(n, i) == store.items[i] \notin {Nobody, n}

(* findCachedRemoteOwnerForSessionRef and -BindingKey: tools and the       *)
(* WebSocket server answer from the caches.                                *)
CachedRemoteOwner(n, i) == \E m \in Nodes \ {n} : <<i, m>> \in cache[n]

Cached(n) == {r[1] : r \in cache[n]}

(* buildReadinessPayload: the last heartbeat began less than Ttl ago. *)
Fresh(n) == up[n] = "up" /\ heard[n] < Ttl

----------------------------------------------------------------------------
(* Properties                                                              *)

(* The variables hold what their declarations say; a node holds an item    *)
(* once.                                                                   *)
Requested ==
  [op : {"set", "del", "add", "rem", "node", "unnode", "ids", "values"}, of : SUBSET Items,
   by : {"own", "beat", "read", "stop"}, got : SUBSET (Items \cup (Items \X Nodes))]
Answered(q) ==
  /\ q.op = "ids" => q.got \subseteq Items
  /\ q.op = "values" => q.got \subseteq Items \X Nodes
TypeOK ==
  /\ up \in [Nodes -> {"starting", "up", "stopping", "stopped", "crashed"}]
  /\ held \in [Nodes -> Seq(Items)] /\ \A n \in Nodes : IsInjective(held[n])
  /\ cache \in [Nodes -> SUBSET (Items \X Nodes)]
  /\ beat \in [Nodes -> [visited : SUBSET Items, age : 0 .. Ttl]]
  /\ heard \in [Nodes -> 0 .. Ttl]
  /\ sent \in [Nodes -> Seq(Requested)]
  /\ replies \in [Nodes -> Seq({q \in Requested : Answered(q)})]
  /\ store \in [items : [Items -> Nodes \cup {Nobody}], index : SUBSET Items, age : [Nodes -> 0 .. Ttl]]
  /\ opener \in [Items -> Nodes \cup {Nobody, Lost}]
  /\ count \in [opens : 0 .. MaxOpens, ends : 0 .. MaxEnds, failures : 0 .. MaxEnds]

(* Once a node's saves and removals are through, the store has what it     *)
(* holds, listed in the index, and nothing of what it forgot or left       *)
(* behind when it stopped, whatever the heartbeat wrote meanwhile          *)
(* (rememberSession, forgetSession, heartbeatDistributedNode).  Left out   *)
(* are bindings that several nodes may hold and what a node opens when it  *)
(* is already stopping (StoppedLeavesNothing).                             *)
StoreExact ==
  \A n \in Nodes, i \in Items \ Shared :
    opener[i] = n /\ ~Busy(n, "own") =>
      IF i \in ToSet(held[n]) THEN store.items[i] = n /\ i \in store.index
      ELSE store.items[i] = Nobody

(* docs/acceptance-scenarios.md: "Closed sessions, stale viewers, and      *)
(* retained runtime metadata are cleaned up": nothing in the store names   *)
(* a node that has stopped as its owner, also not a session that opened    *)
(* while cleanup waited for Redis (rememberSession, cleanup).              *)
StoppedLeavesNothing ==
  \A n \in Nodes :
    up[n] = "stopped" /\ Wire(n) = {} => \A i \in Items : store.items[i] # n

(* While a node reports itself ready its record has not expired: the time  *)
(* of a heartbeat is the one at which it began (buildReadinessPayload,     *)
(* heartbeatDistributedNode).                                              *)
ReadyMeansKnown == \A n \in Nodes : Fresh(n) => store.age[n] < Ttl

(* What a node forgot disappears from the caches of all: a heartbeat that  *)
(* read the record before brings it back, a later one does not             *)
(* (refreshDistributedCaches).                                             *)
ForgottenVanishes ==
  \A i \in Items :
    store.items[i] = Nobody
      ~> \/ store.items[i] # Nobody
         \/ \A n \in Nodes : up[n] = "up" => i \notin Cached(n)

(* docs/docker.md: "Redis or heartbeat failures keep the pod out of        *)
(* service": a node outlives the loss of its connection to Redis.          *)
StoreFailureSurvived ==
  [][\A n \in Nodes :
       count'.failures > count.failures /\ up[n] = "up" => up'[n] = "up"]_vars

(* README: "When the current replica is not the owner, HTTP APIs return    *)
(* REMOTE_OWNER" and WebSockets close: a node does not answer so for what  *)
(* it holds itself.                                                        *)
OwnerAnswers ==
  \A n \in Nodes : \A i \in ToSet(held[n]) : ~RemoteOwner(n, i) /\ ~CachedRemoteOwner(n, i)
=============================================================================
