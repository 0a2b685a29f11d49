---------------------------- MODULE SessionStream ----------------------------
(***************************************************************************)
(* What one SSH session keeps of its terminal, and how a client reads it.  *)
(*                                                                         *)
(* The session (session.ts) keeps the last MaxBufferChars characters of    *)
(* output and the last transcript events, addressed by an offset and by a  *)
(* sequence number that never restart.  A client (ssh-session-read in      *)
(* tools.ts, the attach endpoint in viewer-http-handler.ts) polls: it asks *)
(* to be woken when there is more than it has, then reads one page.        *)
(*                                                                         *)
(* A character is its position in the whole output of the session, an      *)
(* event text is only its length.  Ghosts: received holds the characters a *)
(* client was given, in order, base the offset it began at, and skipped    *)
(* those it was told it had missed (truncatedBefore).                      *)
(***************************************************************************)
EXTENDS BufferSnapshot, FiniteSets

CONSTANTS
  Clients,
  HintClients,               \* clients that continue where readMore points
  MaxBufferChars,
  MaxTranscriptEvents, MaxTranscriptChars, MaxTranscriptEventChars,
  ClipNotice,                \* length of the "[chunk truncated ...]" line
  PageSizes,                 \* the maxChars a client asks for
  ChunkSizes,                \* lengths of output chunks and event texts
  MaxOutput, MaxEvents       \* bounds on what the session ever appends

ASSUME SizesAssumption ==
  /\ MaxBufferChars \in Nat
  /\ MaxTranscriptEvents \in Nat /\ MaxTranscriptChars \in Nat
  /\ MaxTranscriptEventChars \in Nat /\ ClipNotice \in Nat
  /\ PageSizes \subseteq Nat \ {0} /\ ChunkSizes \subseteq Nat \ {0}
  /\ MaxOutput \in Nat /\ MaxEvents \in Nat

ASSUME HintsAssumption == HintClients \subseteq Clients

VARIABLES
  buffer, bufferStart,                    \* output ring
  transcript,                             \* event ring
  closed,
  poll,                                   \* what each client is doing
  cursor, page,                           \* where each client goes on, its last page
  received, base, skipped                 \* ghosts

sessionVars == <<buffer, bufferStart, transcript, closed>>
clientVars  == <<cursor, page, received, base, skipped>>
vars        == <<sessionVars, poll, clientVars>>

NoSeq    == -1      \* the eventSeq parameter is not given
NoPoll   == [state |-> "idle", offset |-> 0, seq |-> 0]
NoPage   == [effectiveOffset |-> 0, nextOffset |-> 0, truncatedBefore |-> FALSE,
             truncatedAfter |-> FALSE, output |-> <<>>]
-----------------------------------------------------------------------------
(* The output ring.                                                        *)

CurrentBufferEnd == bufferStart + Len(buffer)

Excess(text) ==
  IF Len(text) > MaxBufferChars THEN Len(text) - MaxBufferChars ELSE 0

Chunk(n) == [i \in 1 .. n |-> CurrentBufferEnd + i - 1]

AppendToBuffer(n) ==
  LET text == buffer \o Chunk(n)
  IN  /\ buffer' = SubSeq(text, Excess(text) + 1, Len(text))
      /\ bufferStart' = bufferStart + Excess(text)
-----------------------------------------------------------------------------
(* The event ring.  A transcript is the fields events, eventSeqStart,      *)
(* nextEventSeq and transcriptCharCount of the session.                    *)

ClippedLength(n) ==
  IF n <= MaxTranscriptEventChars THEN n ELSE ClipNotice + MaxTranscriptEventChars

LengthOfFirst(events, k) ==
  LET sum[i \in 0 .. Len(events)] == IF i = 0 THEN 0 ELSE sum[i - 1] + events[i].length
  IN  sum[k]

(* The ring still breaks a limit after its first k events are dropped.     *)
Overfull(events, chars, k) ==
  \/ Len(events) - k > MaxTranscriptEvents
  \/ chars - LengthOfFirst(events, k) > MaxTranscriptChars

(* Dropping more never breaks a limit, so the number of prefixes that are  *)
(* too short to drop is the number of events that the loop shifts out.     *)
TrimTranscriptEvents_CharsKept(t) ==
  LET dropped == Cardinality({k \in 0 .. Len(t.events) - 1 :
                                Overfull(t.events, t.transcriptCharCount, k)})
      rest    == SubSeq(t.events, dropped + 1, Len(t.events))
  IN  [t EXCEPT !.events = rest,
                !.eventSeqStart = IF rest = <<>> THEN t.nextEventSeq ELSE rest[1].seq]

TrimTranscriptEvents(t) ==
  LET dropped == Cardinality({k \in 0 .. Len(t.events) - 1 :
                                Overfull(t.events, t.transcriptCharCount, k)})
      rest    == SubSeq(t.events, dropped + 1, Len(t.events))
  IN  [t EXCEPT !.events = rest,
                !.transcriptCharCount = @ - LengthOfFirst(t.events, dropped),
                !.eventSeqStart = IF rest = <<>> THEN t.nextEventSeq ELSE rest[1].seq]

PushEvent(t, n) ==
  TrimTranscriptEvents(
    [t EXCEPT !.events = Append(@, [seq |-> t.nextEventSeq, length |-> ClippedLength(n)]),
              !.nextEventSeq = @ + 1,
              !.transcriptCharCount = @ + ClippedLength(n)])
-----------------------------------------------------------------------------
(* Waking the clients.                                                     *)

Flushed_OutputOnly(p, end, next, over) ==
  IF p.state = "waiting" /\ end > p.offset THEN [p EXCEPT !.state = "reading"] ELSE p

HasRequestedChange(p, end, next, over) ==
  \/ end > p.offset
  \/ p.seq # NoSeq /\ next > p.seq
  \/ over

Flushed(p, end, next, over) ==
  IF p.state = "waiting" /\ HasRequestedChange(p, end, next, over)
  THEN [p EXCEPT !.state = "reading"] ELSE p

FlushWaiters ==
  poll' = [c \in Clients |->
             Flushed(poll[c], CurrentBufferEnd', transcript'.nextEventSeq, closed')]

(* A chunk arrives, also one that was under way when the session closed.   *)
Output(n) ==
  /\ CurrentBufferEnd + n <= MaxOutput /\ transcript.nextEventSeq < MaxEvents
  /\ AppendToBuffer(n)
  /\ transcript' = PushEvent(transcript, n)
  /\ UNCHANGED closed
  /\ FlushWaiters
  /\ UNCHANGED clientVars

(* writeRaw with one record, sendControl and resize.                       *)
Record(n) ==
  /\ ~closed /\ transcript.nextEventSeq < MaxEvents
  /\ transcript' = PushEvent(transcript, n)
  /\ UNCHANGED <<buffer, bufferStart, closed>>
  /\ FlushWaiters
  /\ UNCHANGED clientVars

(* The session ends.  If the last chunk broke off inside a character, the  *)
(* decoder gives one replacement character, which is still output.         *)
Finalize(n, partial) ==
  LET flushed == IF partial THEN PushEvent(transcript, 1) ELSE transcript
  IN  /\ ~closed /\ flushed.nextEventSeq < MaxEvents
      /\ IF partial THEN CurrentBufferEnd < MaxOutput /\ AppendToBuffer(1)
                    ELSE UNCHANGED <<buffer, bufferStart>>
      /\ transcript' = PushEvent(flushed, n)
      /\ closed' = TRUE
      /\ FlushWaiters
      /\ UNCHANGED clientVars
-----------------------------------------------------------------------------
(* A client polls.                                                         *)

StartPoll(c, seq) ==
  LET p == [state |-> "waiting", seq |-> seq,
            offset |-> IF cursor[c] = NoOffset THEN CurrentBufferEnd ELSE cursor[c]]
  IN  /\ poll[c].state = "idle"
      /\ poll' = [poll EXCEPT ![c] = Flushed(p, CurrentBufferEnd, transcript.nextEventSeq, closed)]
      /\ UNCHANGED <<sessionVars, clientVars>>

WaitTimesOut_OnChangeOnly(c) ==
  /\ poll[c].state = "waiting"
  /\ HasRequestedChange(poll[c], CurrentBufferEnd, transcript.nextEventSeq, closed)
  /\ poll' = [poll EXCEPT ![c].state = "reading"]
  /\ UNCHANGED <<sessionVars, clientVars>>

WaitTimesOut(c) ==
  /\ poll[c].state = "waiting"
  /\ poll' = [poll EXCEPT ![c].state = "reading"]
  /\ UNCHANGED <<sessionVars, clientVars>>

(* The HTTP request is gone: the handler returns without reading.          *)
AbortPoll(c) ==
  /\ poll[c].state # "idle"
  /\ poll' = [poll EXCEPT ![c] = NoPoll]
  /\ UNCHANGED <<sessionVars, clientVars>>

(* buildSnapshotReadMore, given with a page that is not the last one.      *)
ReadMoreOffset(snapshot) == Larger(bufferStart, snapshot.effectiveOffset)

NextCursor(c, snapshot) ==
  IF c \in HintClients /\ snapshot.truncatedAfter
  THEN ReadMoreOffset(snapshot) ELSE snapshot.nextOffset

FinishPoll(c, maxChars) ==
  LET snapshot == Snapshot(bufferStart, buffer, cursor[c], maxChars)
  IN  /\ poll[c].state = "reading"
      /\ poll' = [poll EXCEPT ![c] = NoPoll]
      /\ page' = [page EXCEPT ![c] = snapshot]
      /\ cursor' = [cursor EXCEPT ![c] = NextCursor(c, snapshot)]
      /\ received' = [received EXCEPT ![c] = @ \o snapshot.output]
      /\ base' = [base EXCEPT ![c] = IF cursor[c] = NoOffset THEN snapshot.effectiveOffset ELSE @]
      /\ skipped' = [skipped EXCEPT ![c] =
           IF snapshot.truncatedBefore /\ cursor[c] # NoOffset
           THEN @ \cup cursor[c] .. snapshot.effectiveOffset - 1 ELSE @]
      /\ UNCHANGED sessionVars
-----------------------------------------------------------------------------
NoEvents == [events |-> <<>>, eventSeqStart |-> 0, nextEventSeq |-> 0, transcriptCharCount |-> 0]

(* The constructor records the opening of the session.                     *)
Init ==
  /\ buffer = <<>> /\ bufferStart = 0
  /\ \E n \in ChunkSizes : transcript = PushEvent(NoEvents, n)
  /\ closed = FALSE
  /\ poll = [c \in Clients |-> NoPoll]
  /\ cursor \in [Clients -> {0, NoOffset}]
  /\ page = [c \in Clients |-> NoPage]
  /\ received = [c \in Clients |-> <<>>]
  /\ base = [c \in Clients |-> 0]
  /\ skipped = [c \in Clients |-> {}]

SessionStep ==
  \E n \in ChunkSizes :
    Output(n) \/ Record(n) \/ \E partial \in BOOLEAN : Finalize(n, partial)

ClientStep(c) ==
  \/ \E seq \in {NoSeq, transcript.nextEventSeq} : StartPoll(c, seq)
  \/ WaitTimesOut(c) \/ AbortPoll(c)
  \/ \E size \in PageSizes : FinishPoll(c, size)

Next == SessionStep \/ \E c \in Clients : ClientStep(c)

Spec == Init /\ [][Next]_vars

(* The wait of a poll is a timer, and what follows it in the handler runs  *)
(* by itself.  Clients need not poll, the remote host need not write.      *)
FairSpec ==
  /\ Spec
  /\ \A c \in Clients : WF_vars(WaitTimesOut(c))
  /\ \A c \in Clients : WF_vars(\E size \in PageSizes : FinishPoll(c, size))
-----------------------------------------------------------------------------
TypeOK ==
  /\ buffer \in Seq(Nat) /\ bufferStart \in Nat /\ closed \in BOOLEAN
  /\ transcript.events \in Seq([seq : Nat, length : Nat])
  /\ transcript.eventSeqStart \in Nat /\ transcript.nextEventSeq \in Nat
  /\ transcript.transcriptCharCount \in Nat
  /\ poll \in [Clients -> [state : {"idle", "waiting", "reading"}, offset : Nat, seq : Nat \cup {NoSeq}]]
  /\ cursor \in [Clients -> Nat \cup {NoOffset}]
  /\ page \in [Clients -> [effectiveOffset : Nat, nextOffset : Nat, truncatedBefore : BOOLEAN,
                           truncatedAfter : BOOLEAN, output : Seq(Nat)]]
  /\ received \in [Clients -> Seq(Nat)] /\ base \in [Clients -> Nat]
  /\ skipped \in [Clients -> SUBSET Nat]

(* An offset names the same character for ever: the ring holds exactly the *)
(* last characters of the output, at most MaxBufferChars of them.          *)
BufferIsTail ==
  /\ Len(buffer) <= MaxBufferChars
  /\ \A i \in 1 .. Len(buffer) : buffer[i] = bufferStart + i - 1

(* The events of the ring have consecutive numbers from eventSeqStart up   *)
(* to nextEventSeq, which readEvents relies on to find them.               *)
EventsContiguous ==
  /\ \A i \in 1 .. Len(transcript.events) :
       transcript.events[i].seq = transcript.eventSeqStart + i - 1
  /\ transcript.eventSeqStart + Len(transcript.events) = transcript.nextEventSeq

(* The character count that trimming goes by is the true one, so the ring  *)
(* neither grows without bound nor loses events it has room for.           *)
CharCountExact ==
  /\ transcript.transcriptCharCount = LengthOfFirst(transcript.events, Len(transcript.events))
  /\ ~Overfull(transcript.events, transcript.transcriptCharCount, 0) \/ transcript.events = <<>>

(* The rings are what they are addressed as: the tail of the output, the   *)
(* events with consecutive numbers, trimmed by true counts.                *)
RingsExact == BufferIsTail /\ EventsContiguous /\ CharCountExact

(* No client sleeps through a change: whoever still waits has been given   *)
(* everything it asked for, on a session that is open.                     *)
NoLostWakeup ==
  \A c \in Clients :
    poll[c].state = "waiting"
      => ~HasRequestedChange(poll[c], CurrentBufferEnd, transcript.nextEventSeq, closed)

(* A client that goes on at the offset it was given gets each character at *)
(* most once and in the order of the output.                               *)
ReceivedInOrder ==
  \A c \in Clients : \A i, j \in 1 .. Len(received[c]) :
    i < j => received[c][i] < received[c][j]

(* Every character up to the client's cursor was delivered, or the client  *)
(* was told that it came too late for it.                                  *)
NoSilentGap ==
  \A c \in Clients : \A p \in base[c] .. cursor[c] - 1 :
    p \in skipped[c] \/ \E i \in 1 .. Len(received[c]) : received[c][i] = p

(* A client that goes on at nextOffset gets every character once and in    *)
(* order, or is told what it missed.                                       *)
ReadsOnward == ReceivedInOrder /\ NoSilentGap

(* A poll that waits comes back.                                           *)
PollReturns == \A c \in Clients : poll[c].state # "idle" ~> poll[c].state = "idle"
-----------------------------------------------------------------------------
(* CHANGELOG 2.4.0: "consistent offset guidance for continuing truncated   *)
(* or live output reads".  The hint of ssh-session-read points to the page *)
(* just read, so a client that follows it reads that page again.           *)
HintGoesOn ==
  [][\A c \in HintClients :
       page'[c] # page[c] /\ page[c].truncatedAfter /\ ~page'[c].truncatedBefore
         => page'[c].effectiveOffset >= page[c].nextOffset]_vars
=============================================================================
