---------------------------- MODULE ViewerClient ----------------------------
(* What shows a session to a user and takes the user's keys: the xterm     *)
(* page of the browser and viewer-cli over a WebSocket, the older page and *)
(* the older loop of viewer-cli by polling, each with the server's end     *)
(* (viewer-ws-handler.ts, handleAttachReadRequest,                         *)
(* handleAttachInputRequest).                                              *)
(*                                                                         *)
(* The remote shell sends bytes.  The server decodes them as UTF-8 into a  *)
(* ring of characters, hands the bytes to the sockets and the characters   *)
(* to those that poll.  Byte <<s, n, p>> is the p-th of character n of     *)
(* session s.  A viewer follows one session, or a binding that may move    *)
(* from the first session to the second.                                   *)
EXTENDS Integers, Sequences, SequencesExt, FiniteSetsExt, BufferSnapshot

CONSTANTS
  Ends,            \* where the bytes of each character of a session end
  MaxBufferChars,  \* size of the rings
  PageChars,       \* maxChars of the viewers that poll
  MaxAttempts,     \* maxReconnectAttempts
  MaxFailures,     \* bound: connections and requests that fail
  Limits           \* bounds of a behaviour: bytes that each shell sends and keys typed

ASSUME ViewerClientAssumption ==
  /\ Ends \in Seq(Nat \ {0}) /\ Ends # <<>>
  /\ \A m, n \in 1 .. Len(Ends) : m < n => Ends[m] < Ends[n]
  /\ MaxBufferChars \in Nat \ {0} /\ PageChars \in Nat
  /\ MaxAttempts \in Nat /\ MaxFailures \in Nat
  /\ Limits \subseteq [bytes : 0 .. Ends[Len(Ends)], keys : Nat]

VARIABLES
  limit,     \* one of Limits
  kind,      \* "browser", "terminal" (WebSocket); "page", "poller" (polling)
  byBinding, \* the viewer follows a binding
  bound,     \* the session of the binding
  arrived,   \* bytes received from the shell of each session
  session,   \* "open", "closed", "forgotten"
  at,        \* "waiting" for a timer, "asking", "open" (WebSocket), "stopped"
  attached,  \* the session that the server serves it, 0 before the first time
  offset,    \* rawOffset of the connection, outputOffset of the poll
  known,     \* knownRawChars
  decoder,   \* the last byte of a character begun, of the page's own decoder ...
  tail,      \* ... and of the terminal's
  down,      \* chunks on the way to the viewer
  screen,    \* the characters shown
  attempts,  \* reconnectAttempt; for the poller, failures in a row
  sawClosed, \* the poller was told that the session is closed
  typed, up, \* keys typed, and those queued or on their way
  got,       \* keys that reached a session
  failures,
  reasons    \* ghost: why the screen may differ from what was received

served == <<bound, arrived, session>>
shown == <<known, decoder, tail, screen>>
keys == <<typed, up, got>>
given == <<limit, kind, byBinding>>
clientVars == <<given, served, at, attached, offset, shown, down, attempts, sawClosed, keys, failures, reasons>>

Sessions == {1, 2}
Sockets == {"browser", "terminal"}
NoByte == <<0, 0, 0>>

(* How many bytes the first n characters of a session have, which          *)
(* characters are whole in its first k bytes, and its bytes.               *)
ByteEnd == [n \in 0 .. Len(Ends) |-> IF n = 0 THEN 0 ELSE Ends[n]]
Whole == [k \in 0 .. ByteEnd[Len(Ends)] |-> Max({n \in 0 .. Len(Ends) : ByteEnd[n] <= k})]
ByteAt(s, k) == <<s, Whole[k - 1] + 1, k - ByteEnd[Whole[k - 1]]>>
BytesOf == [s \in Sessions |-> [k \in 1 .. ByteEnd[Len(Ends)] |-> ByteAt(s, k)]]

(* The characters that outputDecoder gave. *)
Complete(s) == Whole[arrived[s]]
Between(s) == arrived[s] = ByteEnd[Complete(s)]
RingStart(s) == Larger(0, Complete(s) - MaxBufferChars)
Ring(s) == [i \in 1 .. Complete(s) - RingStart(s) |-> <<s, RingStart(s) + i>>]
RingBytes(s, from) == SubSeq(BytesOf[s], ByteEnd[from] + 1, ByteEnd[Complete(s)])

(* A streaming UTF-8 decoder: what fits completes a character, what does   *)
(* not is one replacement each.                                            *)
Fed(d, b) ==
  LET fits == b[3] = 1 \/ d.tail = <<b[1], b[2], b[3] - 1>>
      cut  == d.tail # NoByte /\ (b[3] = 1 \/ ~fits)
      done == fits /\ b[3] = ByteEnd[b[2]] - ByteEnd[b[2] - 1] IN
  [tail  |-> IF fits /\ ~done THEN b ELSE NoByte,
   chars |-> IF done THEN Append(d.chars, <<b[1], b[2]>>) ELSE d.chars,
   bad   |-> d.bad + (IF cut THEN 1 ELSE 0) + (IF fits THEN 0 ELSE 1)]

Decoded(last, chunk) ==
  LET after[i \in 0 .. Len(chunk)] ==
        IF i = 0 THEN [tail |-> last, chars |-> <<>>, bad |-> 0] ELSE Fed(after[i - 1], chunk[i])
  IN  after[Len(chunk)]

(* resolveAttachTarget *)
Target == IF byBinding THEN bound ELSE 1

Excused(why) == reasons' = reasons \cup why
When(p, why) == IF p THEN {why} ELSE {}

----------------------------------------------------------------------------
(* The session                                                             *)

Following(s) == kind \in Sockets /\ at = "open" /\ attached = s

(* The data handler and appendOutput: bytes that complete no character go  *)
(* to nobody, others to each open socket with what came with them.         *)
Output(s, n) ==
  LET chunk == SubSeq(BytesOf[s], arrived[s] + 1, arrived[s] + n)
      chars == Whole[arrived[s] + n] - Complete(s) IN
  /\ session[s] = "open" /\ s <= bound
  /\ arrived' = [arrived EXCEPT ![s] = @ + n]
  /\ down' = IF Following(s) /\ chars > 0 THEN Append(down, chunk) ELSE down
  /\ Excused(When(Following(s) /\ chars = 0, "split"))
  /\ UNCHANGED <<given, bound, session, at, attached, offset, shown, attempts, sawClosed, keys, failures>>

(* finalize, between two characters *)
Close(s) ==
  /\ session[s] = "open" /\ s <= bound /\ Between(s)
  /\ session' = [session EXCEPT ![s] = "closed"]
  /\ UNCHANGED <<given, bound, arrived, at, attached, offset, shown, down, attempts, sawClosed, keys, failures, reasons>>

(* forgetSession, with the binding; open sockets stay. *)
Forget(s) ==
  /\ session[s] = "closed"
  /\ session' = [session EXCEPT ![s] = "forgotten"]
  /\ UNCHANGED <<given, bound, arrived, at, attached, offset, shown, down, attempts, sawClosed, keys, failures, reasons>>

(* upsertViewerBinding for a second session of the connection *)
Move ==
  /\ byBinding /\ bound = 1
  /\ bound' = 2
  /\ UNCHANGED <<given, arrived, session, at, attached, offset, shown, down, attempts, sawClosed, keys, failures, reasons>>

----------------------------------------------------------------------------
(* Viewers with a WebSocket                                                *)

(* connect, connectWs: only the page counts, and says how far it is. *)
Connect ==
  /\ kind \in Sockets /\ at = "waiting"
  /\ at' = "asking"
  /\ decoder' = NoByte
  /\ offset' = IF kind = "browser" /\ known > 0 THEN known ELSE NoOffset
  /\ UNCHANGED <<given, served, attached, known, tail, screen, down, attempts, sawClosed, keys, failures, reasons>>

(* Mutant: the offset is ignored. *)
Replay_Whole(s, from) == RingBytes(s, RingStart(s))

(* replayRawBuffer: from the offset, or the whole ring if there is none or *)
(* it lies before the ring, or nothing.                                    *)
Replay(s, from) ==
  IF from >= RingStart(s) THEN IF from < Complete(s) THEN RingBytes(s, from) ELSE <<>>
  ELSE RingBytes(s, RingStart(s))

(* handleWsAttach and onopen *)
Attach ==
  /\ kind \in Sockets /\ at = "asking" /\ session[Target] # "forgotten"
  /\ at' = "open" /\ attached' = Target /\ attempts' = 0
  /\ down' = IF Replay(Target, offset) = <<>> THEN <<>> ELSE <<Replay(Target, offset)>>
  /\ Excused(When(offset < RingStart(Target) /\ RingStart(Target) > 0, "trimmed")
       \cup When(~Between(Target), "split")
       \cup When(attached \notin {0, Target}, "moved")
       \cup When(kind = "terminal" /\ attached # 0, "again"))
  /\ UNCHANGED <<given, served, offset, shown, sawClosed, keys, failures>>

(* Closed with 4004, "session not found": the page stops. *)
Refused ==
  /\ kind \in Sockets /\ at = "asking" /\ session[Target] = "forgotten"
  /\ at' = IF kind = "browser" THEN "stopped" ELSE "waiting"
  /\ attempts' = 0
  /\ UNCHANGED <<given, served, attached, offset, shown, down, sawClosed, keys, failures, reasons>>

Receive ==
  LET page == Decoded(decoder, Head(down))
      term == Decoded(tail, Head(down)) IN
  /\ down # <<>>
  /\ down' = Tail(down)
  /\ screen' = screen \o term.chars /\ tail' = term.tail
  /\ IF kind = "browser"
     THEN known' = known + Len(page.chars) + page.bad /\ decoder' = page.tail
     ELSE UNCHANGED <<known, decoder>>
  /\ UNCHANGED <<given, served, at, attached, offset, attempts, sawClosed, keys, failures, reasons>>

(* Mutant: the page stops at the second loss, however many it had in a row. *)
Dropped_Once ==
  /\ attempts' = attempts + 1
  /\ at' = IF kind = "browser" /\ failures > 0 THEN "stopped" ELSE "waiting"

(* onclose *)
Dropped ==
  /\ attempts' = attempts + 1
  /\ at' = IF kind = "browser" /\ attempts' > MaxAttempts THEN "stopped" ELSE "waiting"

(* The connection fails or cannot be made; what was on its way is lost. *)
Drop ==
  /\ kind \in Sockets /\ at \in {"asking", "open"} /\ failures < MaxFailures
  /\ failures' = failures + 1
  /\ Dropped
  /\ down' = <<>> /\ up' = <<>>
  /\ UNCHANGED <<given, served, attached, offset, shown, sawClosed, typed, got, reasons>>

----------------------------------------------------------------------------
(* Viewers that poll                                                       *)

(* pollOnce, fetchAttachPayload; the session is found when the request     *)
(* comes.                                                                  *)
Poll ==
  /\ kind \notin Sockets /\ at = "waiting" /\ session[Target] # "forgotten"
  /\ at' = "asking" /\ attached' = Target
  /\ Excused(When(attached \notin {0, Target}, "moved"))
  /\ UNCHANGED <<given, served, offset, shown, down, attempts, sawClosed, keys, failures>>

(* The offset that the next poll starts from. *)
NextOffset(page) == page.nextOffset

(* The page stops at a closed session, viewer-cli the second time. *)
PageEnds(closed) == kind = "page" /\ closed
PollerEnds(closed) == kind = "poller" /\ closed /\ sawClosed

(* The answer after a change or in time. *)
Answer ==
  LET page   == Snapshot(RingStart(attached), Ring(attached), offset, PageChars)
      closed == session[attached] # "open"
      stop   == PageEnds(closed) \/ PollerEnds(closed) IN
  /\ kind \notin Sockets /\ at = "asking"
  /\ screen' = screen \o page.output
  /\ offset' = NextOffset(page)
  /\ attempts' = 0 /\ sawClosed' = closed
  /\ at' = IF stop THEN "stopped" ELSE "waiting"
  /\ Excused(When(offset # NoOffset /\ page.truncatedBefore, "trimmed")
       \cup When(stop /\ page.truncatedAfter, "closed"))
  /\ UNCHANGED <<given, served, attached, known, decoder, tail, down, keys, failures>>

(* An error, or no session; viewer-cli ends when the errors last. *)
Fail ==
  /\ kind \notin Sockets
  /\ \/ at = "waiting" /\ session[Target] = "forgotten" /\ UNCHANGED failures
     \/ at = "asking" /\ failures < MaxFailures /\ failures' = failures + 1
  /\ attempts' = Smaller(attempts + 1, 2)
  /\ at' \in IF kind = "poller" /\ attempts > 0 THEN {"waiting", "stopped"} ELSE {"waiting"}
  /\ UNCHANGED <<given, served, attached, offset, shown, down, sawClosed, keys, reasons>>

----------------------------------------------------------------------------
(* Keys                                                                    *)

Typing ==
  /\ typed < limit.keys /\ at # "stopped"
  /\ typed' = typed + 1
  /\ UNCHANGED <<given, served, at, attached, offset, shown, down, attempts, sawClosed, got, failures, reasons>>

(* onData: lost if the socket is not open. *)
Type ==
  /\ kind \in Sockets
  /\ Typing
  /\ up' = IF at = "open" THEN Append(up, typed') ELSE up

(* handleTerminalKeydown: behind the requests under way. *)
TypeQueued ==
  /\ kind \notin Sockets
  /\ Typing
  /\ up' = Append(up, typed')

(* Mutant: the requests are not queued. *)
Sent_AtOnce == 1 .. Len(up)

(* Which keys are on their way: the first. *)
Sent == IF up = <<>> THEN {} ELSE {1}

(* The session takes the key, or it is rejected or its request fails. *)
Deliver(i) ==
  LET s == IF kind \in Sockets THEN attached ELSE Target IN
  /\ up' = RemoveAt(up, i)
  /\ \/ session[s] = "open" /\ got' = Append(got, up[i])
     \/ UNCHANGED got
  /\ UNCHANGED <<given, served, at, attached, offset, shown, down, attempts, sawClosed, typed, failures, reasons>>

(* shutdown, cleanupAndExit: the user leaves; what was only queued is not  *)
(* sent.                                                                   *)
Leave ==
  /\ at # "stopped"
  /\ at' = "stopped"
  /\ down' = <<>>
  /\ up' = IF kind \in Sockets THEN up ELSE SubSeq(up, 1, Smaller(1, Len(up)))
  /\ Excused({"left"})
  /\ UNCHANGED <<given, served, attached, offset, shown, attempts, sawClosed, typed, got, failures>>

ClientInit ==
  /\ limit \in Limits
  /\ kind \in Sockets \cup {"page", "poller"} /\ byBinding \in BOOLEAN
  /\ bound = 1
  /\ arrived = [s \in Sessions |-> 0] /\ session = [s \in Sessions |-> "open"]
  /\ at = "waiting" /\ attached = 0 /\ offset = NoOffset
  /\ known = 0 /\ decoder = NoByte /\ tail = NoByte /\ down = <<>> /\ screen = <<>>
  /\ attempts = 0 /\ sawClosed = FALSE
  /\ typed = 0 /\ up = <<>> /\ got = <<>>
  /\ failures = 0 /\ reasons = {}

SessionNext ==
  \/ \E s \in Sessions : Close(s) \/ Forget(s) \/ \E n \in 1 .. limit.bytes - arrived[s] : Output(s, n)
  \/ Move

ViewerNext ==
  \/ Connect \/ Attach \/ Refused \/ Receive \/ Drop
  \/ Poll \/ Answer \/ Fail
  \/ Type \/ TypeQueued \/ \E i \in Sent : Deliver(i)
  \/ Leave

ClientNext == SessionNext \/ ViewerNext

(* Timers go off, and what is sent and not lost arrives. *)
ClientFairness ==
  /\ WF_clientVars(Connect) /\ WF_clientVars(Attach) /\ WF_clientVars(Receive)
  /\ WF_clientVars(Poll) /\ WF_clientVars(Answer)

ClientSpec == ClientInit /\ [][ClientNext]_clientVars /\ ClientFairness

----------------------------------------------------------------------------
(* Properties                                                              *)

(* A viewer shows the characters of its session one after the other, none  *)
(* twice and none left out, through every loss of its connection           *)
(* (knownRawChars, rawOffset, replayRawBuffer; nextOutputOffset): unless   *)
(* it was sent a ring that had lost its start, the server had part of a    *)
(* character when it connected or sent nothing, the binding moved, or      *)
(* viewer-cli reconnected, which asks for the whole ring again.            *)
ShownInSequence ==
  reasons \ {"closed", "left"} = {}
    => \A i \in 1 .. Len(screen) - 1 : screen[i + 1] = <<screen[i][1], screen[i][2] + 1>>

(* The keys that reach a session reach it in the order in which they were  *)
(* typed and none twice, whatever is lost (sendQueue, writeQueue; nothing  *)
(* that failed is sent again).                                             *)
KeysInOrder == \A i, j \in 1 .. Len(got) : i < j => got[i] < got[j]

UpToDate ==
  attached # 0 /\ (Complete(attached) = 0 \/ (screen # <<>> /\ Last(screen) = <<attached, Complete(attached)>>))

(* The page stops after its last attempt or when the session was gone, and *)
(* viewer-cli when polls fail for long.                                    *)
GaveUp ==
  /\ at = "stopped"
  /\ \/ kind = "browser" /\ (attempts > MaxAttempts \/ session[1] = "forgotten")
     \/ kind = "poller" /\ attempts > 1

(* When nothing new comes and nothing fails any more, a viewer ends up     *)
(* with the last character of its session on the screen, also when the     *)
(* session closed, unless it gave up, the user left or the session is gone *)
(* (reconnect timers, poll loops), or one of the things above happened; or *)
(* more than one page was left when the session closed.                    *)
CatchesUp == <>[](UpToDate \/ GaveUp \/ session[Target] = "forgotten" \/ reasons # {})

(* CHANGELOG.md: "Reconnect without duplication: WebSocket reconnect sends *)
(* only incremental data via rawOffset".                                   *)
NothingTwice ==
  kind = "browser" /\ ~byBinding => \A i, j \in 1 .. Len(screen) : screen[i] = screen[j] => i = j

(* viewer-cli.ts: "WebSocket + raw PTY passthrough": a viewer that never   *)
(* lost its connection shows what it was connected for.                    *)
RawPassthrough ==
  kind \in Sockets /\ failures = 0 /\ at = "open" /\ down = <<>> /\ Between(attached) => UpToDate
=============================================================================
