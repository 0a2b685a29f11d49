---------------------------- MODULE SessionHistory ----------------------------
(***************************************************************************)
(* The line-numbered history of a session (history.ts), as the session     *)
(* fills it and ssh-session-history and the viewers page through it.       *)
(*                                                                         *)
(* Output comes in chunks that end anywhere.  A printable character is its *)
(* position among all printable characters, a line of output is the        *)
(* sequence of its characters, and a chunk a sequence of "char", "cr" and  *)
(* "lf".  Of an input, control or lifecycle event only the number of its   *)
(* lines matters; each keeps, as a ghost, how many characters came before. *)
(***************************************************************************)
EXTENDS Integers, Sequences, SequencesExt, FiniteSets

CONSTANTS
  MaxLines,                      \* maxHistoryLines
  Chunks, EventSizes,            \* what is appended
  PageSizes,                     \* the maxLines a reader asks for
  MaxPrinted, MaxNumber          \* bounds: characters and lines

ASSUME HistoryAssumption ==
  /\ MaxLines \in Nat
  /\ Chunks \subseteq Seq({"char", "cr", "lf"}) \ {<<>>}
  /\ EventSizes \subseteq Nat \ {0} /\ PageSizes \subseteq Nat \ {0}
  /\ MaxPrinted \in Nat /\ MaxNumber \in Nat

VARIABLES
  lines, nextLine, pendingOutput, \* the SessionHistory
  closed,
  cursor, page,                   \* where the reader goes on, its last page
  printed                         \* ghost: characters so far

historyVars == <<lines, nextLine, pendingOutput>>
readerVars  == <<cursor, page>>
vars        == <<historyVars, closed, readerVars, printed>>

NoLine == -1      \* the line parameter is not given
NoPage == [effectiveLine |-> 1, nextLine |-> 1, truncatedBefore |-> FALSE, lines |-> <<>>]

Larger(a, b) == IF a > b THEN a ELSE b
-----------------------------------------------------------------------------
(* normalizeForHistory and splitCompleteLines.                             *)

(* The characters in the first i places of a chunk.                        *)
Chars(chunk, i) == Cardinality({j \in 1 .. i : chunk[j] = "char"})

(* A carriage return and the line feed right after it are one break, but   *)
(* only if they are in one chunk: the return alone completes the line.     *)
IsBreak(chunk, i) ==
  chunk[i] = "cr" \/ (chunk[i] = "lf" /\ (i > 1 => chunk[i - 1] # "cr"))

BreaksBefore(chunk, i) == Cardinality({b \in 1 .. i - 1 : IsBreak(chunk, b)})

BreakCount(chunk) == BreaksBefore(chunk, Len(chunk) + 1)

(* The characters between the n-th break of a chunk and the next.          *)
Piece(chunk, n) ==
  LET within == {i \in DOMAIN chunk : BreaksBefore(chunk, i) = n}
      first  == printed + Cardinality({i \in DOMAIN chunk :
                            chunk[i] = "char" /\ BreaksBefore(chunk, i) < n})
  IN  [k \in 1 .. Cardinality({i \in within : chunk[i] = "char"}) |-> first + k]

Part_PendingLost(chunk, n) == Piece(chunk, n)

Part(chunk, n) == IF n = 0 THEN pendingOutput \o Piece(chunk, 0) ELSE Piece(chunk, n)
-----------------------------------------------------------------------------
(* pushLine and trim, for one line after the other.                        *)

First(n, seq) == SubSeq(seq, 1, IF n < Len(seq) THEN n ELSE Len(seq))

From(n, seq) == SubSeq(seq, n + 1, Len(seq))

Newest(seq, n) == SubSeq(seq, Larger(0, Len(seq) - n) + 1, Len(seq))

OutputLine(number, text) == [line |-> number, type |-> "output", text |-> text, after |-> 0]

EventLine(number, count) == [line |-> number, type |-> "event", text |-> <<>>, after |-> count]

Flushed(rest) == IF rest = <<>> THEN lines ELSE Append(lines, OutputLine(nextLine, rest))

AppendOutput(chunk) ==
  LET n == BreakCount(chunk)
  IN  /\ lines' = Newest(lines \o [i \in 1 .. n |-> OutputLine(nextLine + i - 1, Part(chunk, i - 1))],
                        MaxLines)
      /\ nextLine' = nextLine + n
      /\ pendingOutput' = Part(chunk, n)
      /\ printed' = printed + Chars(chunk, Len(chunk))

AppendEvent_NotFlushed(rest, n) ==
  /\ lines' = Newest(lines \o [i \in 1 .. n |-> EventLine(nextLine + i - 1, printed')], MaxLines)
  /\ nextLine' = nextLine + n
  /\ pendingOutput' = rest

(* An event of n lines, after the pending output rest.                     *)
AppendEvent(rest, n) ==
  LET first == nextLine + Len(Flushed(rest)) - Len(lines)
  IN  /\ lines' = Newest(Flushed(rest) \o [i \in 1 .. n |-> EventLine(first + i - 1, printed')], MaxLines)
      /\ nextLine' = first + n
      /\ pendingOutput' = <<>>
-----------------------------------------------------------------------------
(* The session.                                                            *)

Output(chunk) ==
  /\ printed + Chars(chunk, Len(chunk)) <= MaxPrinted
  /\ nextLine + BreakCount(chunk) <= MaxNumber
  /\ AppendOutput(chunk)
  /\ UNCHANGED <<closed, readerVars>>

(* Input, control and resize records; a closed session takes none.         *)
Record(n) ==
  /\ ~closed /\ nextLine + n < MaxNumber
  /\ UNCHANGED printed
  /\ AppendEvent(pendingOutput, n)
  /\ UNCHANGED <<closed, readerVars>>

(* finalize first appends what the decoder still holds, one character, if  *)
(* the last chunk broke off inside it; then comes the reason.              *)
Finalize(partial) ==
  LET more == IF partial THEN 1 ELSE 0
  IN  /\ ~closed /\ nextLine + 1 < MaxNumber /\ printed + more <= MaxPrinted
      /\ printed' = printed + more
      /\ AppendEvent(pendingOutput \o [i \in 1 .. more |-> printed + 1], 1)
      /\ closed' = TRUE
      /\ UNCHANGED readerVars
-----------------------------------------------------------------------------
(* read: a pending line is shown as one more line.                         *)

SnapshotLines == Flushed(pendingOutput)

AvailableStart == IF SnapshotLines = <<>> THEN nextLine ELSE SnapshotLines[1].line

AvailableEnd == IF SnapshotLines = <<>> THEN nextLine ELSE Last(SnapshotLines).line + 1

EffectiveLine(line, maxLines) ==
  IF line = NoLine THEN Larger(AvailableStart, AvailableEnd - maxLines)
  ELSE IF line < AvailableStart THEN AvailableStart
  ELSE IF line > AvailableEnd THEN AvailableEnd ELSE line

ReadPage_NextBySize(line, maxLines) ==
  LET from  == EffectiveLine(line, maxLines)
      slice == First(maxLines, From(from - AvailableStart, SnapshotLines))
  IN  [effectiveLine |-> from, lines |-> slice, nextLine |-> from + maxLines,
       truncatedBefore |-> IF line = NoLine THEN from > AvailableStart ELSE line < AvailableStart]

ReadPage(line, maxLines) ==
  LET from  == EffectiveLine(line, maxLines)
      slice == First(maxLines, From(from - AvailableStart, SnapshotLines))
  IN  [effectiveLine |-> from, lines |-> slice,
       nextLine |-> IF slice = <<>> THEN from ELSE Last(slice).line + 1,
       truncatedBefore |-> IF line = NoLine THEN from > AvailableStart ELSE line < AvailableStart]

Read(maxLines) ==
  /\ page' = ReadPage(cursor, maxLines)
  /\ cursor' = page'.nextLine
  /\ UNCHANGED <<historyVars, closed, printed>>
-----------------------------------------------------------------------------
(* The constructor of the session records its opening.                     *)
Init ==
  /\ printed = 0
  /\ \E n \in EventSizes :
       /\ lines = Newest([i \in 1 .. n |-> EventLine(i, 0)], MaxLines)
       /\ nextLine = n + 1
  /\ pendingOutput = <<>> /\ closed = FALSE
  /\ cursor \in {NoLine, 0} /\ page = NoPage

Next ==
  \/ \E chunk \in Chunks : Output(chunk)
  \/ \E n \in EventSizes : Record(n)
  \/ \E partial \in BOOLEAN : Finalize(partial)
  \/ \E n \in PageSizes : Read(n)

Spec == Init /\ [][Next]_vars
-----------------------------------------------------------------------------
Line == [line : Nat, type : {"output", "event"}, text : Seq(Nat), after : Nat]

TypeOK ==
  /\ lines \in Seq(Line) /\ Len(lines) <= MaxLines
  /\ nextLine \in Nat /\ pendingOutput \in Seq(Nat)
  /\ closed \in BOOLEAN /\ cursor \in Nat \cup {NoLine} /\ printed \in 0 .. MaxPrinted
  /\ page \in [effectiveLine : Nat, nextLine : Nat, truncatedBefore : BOOLEAN, lines : Seq(Line)]

(* The stored lines are numbered without a hole up to nextLine, which      *)
(* every index that read computes rests on.                                *)
NumbersConsecutive ==
  \A i \in DOMAIN lines : lines[i].line = nextLine - Len(lines) + i - 1

Shown == UNION {ToSet(SnapshotLines[i].text) : i \in DOMAIN SnapshotLines}

(* However chunks are cut and events come between, every character that    *)
(* has not left the ring at its old end stands in one line, in order.      *)
TextKept ==
  /\ Shown \subseteq 1 .. printed /\ \A c \in Shown : c .. printed \subseteq Shown
  /\ \A i, j \in DOMAIN SnapshotLines :
       \A k \in DOMAIN SnapshotLines[i].text, l \in DOMAIN SnapshotLines[j].text :
         i < j \/ (i = j /\ k < l) => SnapshotLines[i].text[k] < SnapshotLines[j].text[l]

(* An event stands where it happened: after every line with output that    *)
(* came before it, before every line with output that came after it.       *)
EventsInPlace ==
  \A i, j \in DOMAIN SnapshotLines :
    LET event == SnapshotLines[i]
        text  == SnapshotLines[j].text
    IN  event.type = "event" =>
          \A k \in DOMAIN text : IF j < i THEN text[k] <= event.after ELSE text[k] > event.after

(* The stored history is the output and the events as they came.           *)
HistoryFaithful == NumbersConsecutive /\ TextKept /\ EventsInPlace

(* A line number stands for one line for ever: what a reader saw under it  *)
(* may grow, as the last line does, but is never replaced.                 *)
NumbersStable ==
  [][\A i \in DOMAIN SnapshotLines, j \in DOMAIN SnapshotLines' :
       LET before == SnapshotLines[i]
           now    == SnapshotLines'[j]
       IN  before.line = now.line => before.type = now.type /\ IsPrefix(before.text, now.text)]_vars

(* A reader that goes on at nextLine never goes back, and gets every line  *)
(* on the way unless truncatedBefore tells it that some are gone.          *)
ReaderGoesOn ==
  [][page' # page /\ cursor # NoLine =>
       /\ cursor' >= cursor
       /\ \A n \in cursor .. cursor' - 1 :
            \/ page'.truncatedBefore /\ n < page'.effectiveLine
            \/ \E i \in DOMAIN page'.lines : page'.lines[i].line = n]_vars
=============================================================================
