---------------------------- MODULE BufferSnapshot ----------------------------
(***************************************************************************)
(* createBufferSnapshot of shared.ts: one page of a ring buffer that holds *)
(* the characters from bufferStart on.  Without an offset the page is the  *)
(* end of the buffer.  A size that is not positive stands for the default. *)
(***************************************************************************)
EXTENDS Integers, Sequences

CONSTANT DefaultReadChars

ASSUME DefaultAssumption == DefaultReadChars \in Nat \ {0}

NoOffset == -1      \* the offset parameter is not given

Smaller(m, n) == IF m < n THEN m ELSE n
Larger(m, n)  == IF m > n THEN m ELSE n

PageSize(maxChars) == IF maxChars > 0 THEN maxChars ELSE DefaultReadChars

EffectiveOffset(start, end, offset, size) ==
  IF offset = NoOffset THEN Larger(start, end - size)
  ELSE IF offset < start THEN start
  ELSE Smaller(offset, end)

(* A wrong variant of Snapshot, not part of it: the next offset counts a   *)
(* full page whatever the buffer held.                                     *)
Snapshot_NextByPage(bufferStart, buffer, offset, maxChars) ==
  LET end   == bufferStart + Len(buffer)
      first == EffectiveOffset(bufferStart, end, offset, PageSize(maxChars))
      last  == Smaller(first + PageSize(maxChars), end)
  IN  [effectiveOffset |-> first,
       nextOffset      |-> first + PageSize(maxChars),
       truncatedBefore |-> IF offset = NoOffset THEN first > bufferStart
                                                ELSE offset < bufferStart,
       truncatedAfter  |-> last < end,
       output          |-> SubSeq(buffer, first - bufferStart + 1, last - bufferStart)]

Snapshot(bufferStart, buffer, offset, maxChars) ==
  LET end   == bufferStart + Len(buffer)
      first == EffectiveOffset(bufferStart, end, offset, PageSize(maxChars))
      last  == Smaller(first + PageSize(maxChars), end)
  IN  [effectiveOffset |-> first,
       nextOffset      |-> last,
       truncatedBefore |-> IF offset = NoOffset THEN first > bufferStart
                                                ELSE offset < bufferStart,
       truncatedAfter  |-> last < end,
       output          |-> SubSeq(buffer, first - bufferStart + 1, last - bufferStart)]
=============================================================================
