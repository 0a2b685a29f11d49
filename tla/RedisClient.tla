---------------------------- MODULE RedisClient ----------------------------
(* The Redis client of distributed mode: one connection that is made when  *)
(* a command needs it, a queue of the requests sent and a buffer of what   *)
(* was received.  Replies carry no number: the first reply in the buffer   *)
(* answers the first request in the queue.                                 *)
(*                                                                         *)
(* A step is one event of the runtime with all the callbacks and promise   *)
(* continuations it sets off.  A socket that is destroyed reports 'close'  *)
(* in a later step, after other events.  Values are left out: a reply is   *)
(* the request it answers and whether Redis answered with an error.        *)
EXTENDS RespParser

CONSTANTS
  NCommands,   \* bound: commands called
  NSockets,    \* bound: connections tried
  Password,    \* the URL has a password: AUTH is sent first
  Database     \* the URL names a database: SELECT is sent next

ASSUME ConstantsAssumption ==
  NCommands \in Nat /\ NSockets \in Nat /\ Password \in BOOLEAN /\ Database \in BOOLEAN

VARIABLE client

Commands == 1 .. NCommands
Sockets == 1 .. NSockets
None == 0

Command(c) == [kind |-> "command", of |-> c]
Auth(k) == [kind |-> "auth", of |-> k]
Select(k) == [kind |-> "select", of |-> k]
Torn == [kind |-> "torn", of |-> None]     \* the rest of a reply whose beginning was dropped
ClientRequests == {Command(c) : c \in Commands} \cup {Auth(k) : k \in Sockets} \cup {Select(k) : k \in Sockets}
Replies == [of : ClientRequests \cup {Torn}, ok : BOOLEAN]

(* socket, connecting, buffer and pending are the fields of the class;     *)
(* state, wire and selected belong to the sockets: wire holds the requests *)
(* whose replies have not been received.  at, on and reply are the state   *)
(* of a command, the connection it waits for and what it was answered.     *)
(* Ghost: mixed, replies were dropped or come from two connections, so     *)
(* that the queue and the replies may not match.                           *)
Clients == [
  socket : Sockets \cup {None}, connecting : Sockets \cup {None},
  buffer : Seq(Replies), pending : Seq(ClientRequests),
  state : [Sockets -> {"unused", "connecting", "open", "destroyed", "closed"}],
  wire : [Sockets -> Seq(ClientRequests \cup {Torn})], selected : SUBSET Sockets,
  at : [Commands -> {"uncalled", "waiting", "sent", "resolved", "rejected"}],
  on : [Commands -> Sockets \cup {None}], reply : [Commands -> ClientRequests \cup {Torn}],
  mixed : BOOLEAN]

Live(R) == R.socket # None /\ R.state[R.socket] = "open"

Waiting(R, K) == {c \in Commands : R.at[c] = "waiting" /\ R.on[c] \in K}

OpenBut(R, k) == {j \in Sockets \ {k} : R.state[j] = "open"}

----------------------------------------------------------------------------
(* The parts of the class, on a client R                                   *)

RejectWaiters(R, K) ==
  [R EXCEPT !.at = [c \in Commands |-> IF c \in Waiting(R, K) THEN "rejected" ELSE @[c]]]

(* Mutant: the requests that were sent stay in the queue. *)
Reset_PendingKept(R) ==
  LET r == [R EXCEPT
        !.state = [k \in Sockets |-> IF k = R.socket /\ Live(R) THEN "destroyed" ELSE @[k]],
        !.wire = [k \in Sockets |-> IF k = R.socket THEN <<>> ELSE @[k]],
        !.socket = None, !.connecting = None, !.buffer = <<>>,
        !.mixed = OpenBut(R, R.socket) # {}]
  IN r

(* resetConnection: the connection is dropped and every request in the     *)
(* queue rejected; a connection whose AUTH or SELECT is among them fails.  *)
Reset(R) ==
  LET lost == {q \in ToSet(R.pending) : q.kind = "command"}
      failed == {q.of : q \in ToSet(R.pending) \ lost}
      r == [R EXCEPT
        !.state = [k \in Sockets |-> IF k = R.socket /\ Live(R) THEN "destroyed" ELSE @[k]],
        !.wire = [k \in Sockets |-> IF k = R.socket THEN <<>> ELSE @[k]],
        !.socket = None, !.connecting = None, !.buffer = <<>>, !.pending = <<>>,
        !.at = [c \in Commands |-> IF Command(c) \in lost THEN "rejected" ELSE @[c]],
        !.mixed = OpenBut(R, R.socket) # {}]
  IN RejectWaiters(r, failed)

(* Only with a live connection: the request joins the queue and is sent.   *)
Sent(R, q) ==
  [R EXCEPT !.pending = Append(@, q), !.wire[R.socket] = Append(@, q)]

SendCommand(R, c) ==
  IF Live(R) THEN [Sent(R, Command(c)) EXCEPT !.at[c] = "sent", !.on[c] = R.socket]
  ELSE [R EXCEPT !.at[c] = "rejected"]

SetupFailed(R, k) == RejectWaiters(Reset(R), {k})

(* The connection is ready: the commands that waited for it are sent. *)
Settled(R, k) ==
  LET sent[c \in 0 .. NCommands] ==
        IF c = 0 THEN [R EXCEPT !.connecting = None]
        ELSE IF c \in Waiting(R, {k}) THEN SendCommand(sent[c - 1], c)
        ELSE sent[c - 1]
  IN  sent[NCommands]

(* Mutant: the connection counts as ready when SELECT has not been sent. *)
AfterAuth_NoSelect(R, k) == Settled(R, k)

AfterAuth(R, k) ==
  IF ~Database THEN Settled(R, k)
  ELSE IF ~Live(R) THEN SetupFailed(R, k)
  ELSE [Sent(R, Select(k)) EXCEPT !.selected = @ \cup {R.socket}]

(* What the answer to a request sets off. *)
Continued(R, q, reply) ==
  IF q.kind = "command"
  THEN [R EXCEPT !.at[q.of] = IF reply.ok THEN "resolved" ELSE "rejected",
                 !.reply[q.of] = reply.of]
  ELSE IF ~reply.ok THEN SetupFailed(R, q.of)
  ELSE IF q.kind = "auth" THEN AfterAuth(R, q.of) ELSE Settled(R, q.of)

(* Mutant: an error reply empties the buffer and rejects nobody. *)
FlushPending_HeadKept(R, cut) ==
  LET n == Min({Len(R.buffer), Len(R.pending)})
      ok == \A i \in 1 .. n : R.buffer[i].ok
      r == [R EXCEPT !.buffer = IF ok THEN SubSeq(@, n + 1, Len(@)) ELSE <<>>,
                     !.pending = IF ok THEN SubSeq(@, n + 1, Len(@)) ELSE @]
      done[i \in 0 .. n] == IF i = 0 THEN r ELSE Continued(done[i - 1], R.pending[i], R.buffer[i])
  IN  IF ok THEN done[n] ELSE r

(* flushPending: an error reply rejects its request and empties the        *)
(* buffer.  cut: a part of the reply behind was received as well.          *)
FlushPending(R, cut) ==
  LET n == Min({Len(R.buffer), Len(R.pending)})
      errors == {i \in 1 .. n : ~R.buffer[i].ok}
      m == Min(errors \cup {n})
      r == [R EXCEPT !.pending = SubSeq(@, m + 1, Len(@)),
                     !.buffer = IF errors = {} THEN SubSeq(@, m + 1, Len(@)) ELSE <<>>,
                     !.mixed = @ \/ (errors # {} /\ (cut \/ m < Len(R.buffer)))]
      done[i \in 0 .. m] == IF i = 0 THEN r ELSE Continued(done[i - 1], R.pending[i], R.buffer[i])
  IN  done[m]

----------------------------------------------------------------------------
(* Events                                                                  *)

(* command: with a connection at once, else once there is one. *)
Call(c) ==
  /\ client.at[c] = "uncalled" /\ \A d \in 1 .. c - 1 : client.at[d] # "uncalled"
  /\ IF Live(client) THEN client' = SendCommand(client, c)
     ELSE \E k \in Sockets :
       /\ IF client.connecting # None THEN k = client.connecting
          ELSE client.state[k] = "unused" /\ \A j \in 1 .. k - 1 : client.state[j] # "unused"
       /\ client' = [client EXCEPT !.at[c] = "waiting", !.on[c] = k, !.connecting = k,
                                   !.state[k] = IF @ = "unused" THEN "connecting" ELSE @]

Connected(k) ==
  /\ client.state[k] = "connecting"
  /\ LET r == [client EXCEPT !.state[k] = "open", !.socket = k,
                             !.mixed = @ \/ OpenBut(client, k) # {}]
     IN client' = IF Password THEN Sent(r, Auth(k)) ELSE AfterAuth(r, k)

(* The next n replies arrive together, and a part of the one behind them   *)
(* when cut is TRUE; e is the first error among them, if it is not 0.      *)
Data(k, n, e, cut) ==
  /\ client.state[k] = "open"
  /\ n <= Len(client.wire[k]) /\ (cut => n < Len(client.wire[k]))
  /\ LET chunk == [i \in 1 .. n |-> [of |-> client.wire[k][i], ok |-> i # e]]
         rest == SubSeq(client.wire[k], n + 1, Len(client.wire[k]))
         dropped == cut /\ e # 0 /\ Len(client.buffer) + e <= Len(client.pending)
         r == [client EXCEPT !.buffer = @ \o chunk,
                             !.wire[k] = IF dropped THEN <<Torn>> \o Tail(rest) ELSE rest]
     IN client' = FlushPending(r, cut)

SomeData(k) ==
  \E n \in 1 .. Len(client.wire[k]) : \E e \in 0 .. n, cut \in BOOLEAN : Data(k, n, e, cut)

(* 'error': refused, reset or timed out; the socket is destroyed. *)
Error(k) ==
  /\ client.state[k] \in {"connecting", "open"}
  /\ client' = RejectWaiters(Reset([client EXCEPT !.state[k] = "destroyed", !.wire[k] = <<>>]), {k})

(* 'close' of a socket that was destroyed, or that the other side ended. *)
Close(k) ==
  /\ client.state[k] \in {"open", "destroyed"}
  /\ client' = RejectWaiters(Reset([client EXCEPT !.state[k] = "closed", !.wire[k] = <<>>]), {k})

(* close() of the store. *)
CloseStore ==
  /\ Live(client) \/ client.connecting # None
  /\ client' = Reset(client)

RedisInit ==
  client = [socket |-> None, connecting |-> None, buffer |-> <<>>, pending |-> <<>>,
            state |-> [k \in Sockets |-> "unused"], wire |-> [k \in Sockets |-> <<>>],
            selected |-> {}, at |-> [c \in Commands |-> "uncalled"],
            on |-> [c \in Commands |-> None], reply |-> [c \in Commands |-> Torn], mixed |-> FALSE]

SocketEvent(k) == Connected(k) \/ SomeData(k) \/ Error(k) \/ Close(k)

RedisNext == (\E c \in Commands : Call(c)) \/ (\E k \in Sockets : SocketEvent(k)) \/ CloseStore

(* The system reports the fate of a connection attempt, Redis answers what *)
(* it was sent or the connection breaks, a destroyed socket is closed.  An *)
(* open connection with nothing to answer may stay as it is.               *)
Expected(k) == client.state[k] \in {"connecting", "destroyed"} \/ client.wire[k] # <<>>

RedisFairness == \A k \in Sockets : WF_client(Expected(k) /\ SocketEvent(k))

RedisSpec == RedisInit /\ [][RedisNext]_client /\ RedisFairness

----------------------------------------------------------------------------
(* Properties                                                              *)

(* The client's fields, the sockets and the commands have their types.     *)
ClientOK == client \in Clients

Settlement == {"resolved", "rejected"}

(* However chunks are cut, as many requests as are in the queue get the    *)
(* replies that have come as a whole, each its own, up to the first error, *)
(* and what has not stays in the buffer (parseRedisResponse, which starts  *)
(* from the beginning each time): Data may hand on whole replies.  Values  *)
(* may look like a type or a line end, but one with a character of several *)
(* bytes is excepted: the parser loses its place there (BytesCounted).     *)
ParsedWhole == Whole[Min({MaxReplies, Len(client.pending)})]

(* A command that is answered is answered with its own reply, also after   *)
(* connections failed and commands were rejected (resetConnection and      *)
(* flushPending keep queue and connection in step); only an error reply    *)
(* with other replies behind it, or a second connection, mixes them up.    *)
RepliesMatch ==
  [][\A c \in Commands :
       client.at[c] # "resolved" /\ client'.at[c] = "resolved"
       => client'.reply[c] = Command(c) \/ client.mixed]_client

(* A command that waited for the connection runs in the database of the    *)
(* URL: AUTH and SELECT are ahead of it (ensureConnected).  Commands       *)
(* called while AUTH is under way do not wait.                             *)
WaitersInDatabase ==
  [][\A c \in Commands :
       client.at[c] = "waiting" /\ client'.at[c] = "sent"
       => ~Database \/ client'.on[c] \in client'.selected \/ client.mixed]_client

(* A command is answered or rejected in the end, whatever fails, unless    *)
(* replies were mixed up: nothing in the client times out.                 *)
EveryCallSettles ==
  \A c \in Commands :
    client.at[c] \in {"waiting", "sent"} ~> client.at[c] \in Settlement \/ client.mixed
----------------------------------------------------------------------------
(* What the code does not keep: a value that has come as a whole is given  *)
(* to the request that asked for it, whatever its characters.  RESP counts *)
(* a value's bytes, parseRedisBulk takes them for UTF-16 units.            *)
BytesCounted ==
  client.pending # <<>> =>
    \A t \in Texts : Drained(Sending(<<Value("bulk", t)>>), 1).answers = <<Value("bulk", t)>>
=============================================================================
