---------------------------- MODULE RespParser -----------------------------
(* How the Redis client finds replies in what it has received: a parser    *)
(* that is started again from the beginning of the buffer whenever data    *)
(* came, and must take nothing before a reply is there as a whole, however *)
(* the chunks are cut and whatever stands in the values, types and line    *)
(* ends included.  RedisClient takes replies for whole on the strength of  *)
(* it.  It does not hold for values with a character of several bytes.     *)
(*                                                                         *)
(* The buffer is a sequence of characters, which are numbers; what is      *)
(* written with digits is one of them.  Positions count from 1.            *)
EXTENDS Integers, Sequences, SequencesExt, FiniteSetsExt

CONSTANTS
  Texts,       \* values of replies: sequences of characters
  MaxElements, \* bound: elements of an array
  MaxReplies   \* bound: replies in the buffer, and requests they answer

ASSUME RespAssumption ==
  Texts \subseteq Seq(Nat) /\ MaxElements \in Nat /\ MaxReplies \in Nat

CR == 13
LF == 10
SimpleType == 43    \* '+'
ErrorType == 45     \* '-'
IntegerType == 58   \* ':'
BulkType == 36      \* '$'
ArrayType == 42     \* '*'
Wide == 233         \* a character of one UTF-16 unit and two bytes
Digits == 1000
Numeral(n) == Digits + n  \* a number, written with digits
Word == <<79, 75>>        \* 'OK'

Undefined == [next |-> 0, value |-> "undefined"]
Thrown == [next |-> 0, value |-> "thrown"]
Parsed(next, value) == [next |-> next, value |-> value]
Value(kind, of) == [kind |-> kind, of |-> of]

----------------------------------------------------------------------------
(* What Redis sends                                                        *)

Bytes(text) == Len(text) + Cardinality({i \in DOMAIN text : text[i] = Wide})
Line(type, rest) == <<type>> \o rest \o <<CR, LF>>

Scalars ==
  {Value("nil", <<>>), Value("integer", <<Numeral(7)>>), Value("simple", Word)} \cup {Value("bulk", t) : t \in Texts}
Arrays == {Value("array", a) : a \in BoundedSeq(Scalars, MaxElements)}
ErrorReply == Value("error", Word)
Responses == Scalars \cup Arrays \cup {Value("nilArray", <<>>), ErrorReply}

EncodedScalar(v) ==
  CASE v.kind = "nil"     -> Line(BulkType, <<Numeral(-1)>>)
    [] v.kind = "integer" -> Line(IntegerType, v.of)
    [] v.kind = "simple"  -> Line(SimpleType, v.of)
    [] v.kind = "error"   -> Line(ErrorType, v.of)
    [] v.kind = "bulk"    -> Line(BulkType, <<Numeral(Bytes(v.of))>>) \o v.of \o <<CR, LF>>
Encoded(v) ==
  CASE v.kind = "nilArray" -> Line(ArrayType, <<Numeral(-1)>>)
    [] v.kind = "array"    -> Line(ArrayType, <<Numeral(Len(v.of))>>) \o FlattenSeq([i \in DOMAIN v.of |-> EncodedScalar(v.of[i])])
    [] OTHER               -> EncodedScalar(v)
Sending(replies) == FlattenSeq([i \in DOMAIN replies |-> Encoded(replies[i])])

----------------------------------------------------------------------------
(* The parser                                                              *)

(* parseInt *)
Number(c) == c - Digits

(* payload.indexOf('\r\n', start), 0 for none *)
LineEnd(p, start) ==
  LET ends == {i \in start .. Len(p) - 1 : p[i] = CR /\ p[i + 1] = LF} IN
  IF ends = {} THEN 0 ELSE Min(ends)

ParseRedisSimple(p, start) ==
  LET end == LineEnd(p, start + 1) IN
  IF end = 0 THEN Undefined ELSE Parsed(end + 2, Value("simple", SubSeq(p, start + 1, end - 1)))

ParseRedisInteger(p, start) ==
  LET end == LineEnd(p, start + 1) IN
  IF end = 0 THEN Undefined ELSE Parsed(end + 2, Value("integer", SubSeq(p, start + 1, end - 1)))

(* Mutant: the end of the line behind the value is not waited for. *)
ParseRedisBulk_NoEnd(p, start) ==
  LET end == LineEnd(p, start + 1)
      size == Number(p[start + 1])
      valueEnd == end + 2 + size IN
  IF end = 0 THEN Undefined
  ELSE IF size = -1 THEN Parsed(end + 2, Value("nil", <<>>))
  ELSE IF Len(p) + 1 < valueEnd THEN Undefined
  ELSE Parsed(valueEnd + 2, Value("bulk", SubSeq(p, end + 2, valueEnd - 1)))

(* The size counts bytes, the positions UTF-16 units. *)
ParseRedisBulk(p, start) ==
  LET end == LineEnd(p, start + 1)
      size == Number(p[start + 1])
      valueEnd == end + 2 + size IN
  IF end = 0 THEN Undefined
  ELSE IF size = -1 THEN Parsed(end + 2, Value("nil", <<>>))
  ELSE IF Len(p) + 1 < valueEnd + 2 THEN Undefined
  ELSE Parsed(valueEnd + 2, Value("bulk", SubSeq(p, end + 2, valueEnd - 1)))

(* Whatever is not an array.  An error reply is thrown, once it is there. *)
ParseRedisScalar(p, start) ==
  IF start > Len(p) THEN Undefined
  ELSE CASE p[start] = SimpleType  -> ParseRedisSimple(p, start)
         [] p[start] = IntegerType -> ParseRedisInteger(p, start)
         [] p[start] = BulkType    -> ParseRedisBulk(p, start)
         [] p[start] = ErrorType   -> IF ParseRedisSimple(p, start) = Undefined THEN Undefined ELSE Thrown
         [] OTHER                  -> Thrown

(* The elements one after the other; nothing when one is not there yet.    *)
(* No command of the client is answered with an array in an array.         *)
ParseRedisArray(p, start) ==
  LET end == LineEnd(p, start + 1)
      size == Number(p[start + 1])
      Element(sofar) ==
        IF sofar \in {Undefined, Thrown} THEN sofar
        ELSE LET parsed == ParseRedisScalar(p, sofar.next) IN
             IF parsed \in {Undefined, Thrown} THEN parsed ELSE Parsed(parsed.next, Append(sofar.value, parsed.value))
      elements[i \in 0 .. size] == IF i = 0 THEN Parsed(end + 2, <<>>) ELSE Element(elements[i - 1]) IN
  IF end = 0 THEN Undefined
  ELSE IF size = -1 THEN Parsed(end + 2, Value("nilArray", <<>>))
  ELSE IF elements[size] \in {Undefined, Thrown} THEN elements[size]
  ELSE Parsed(elements[size].next, Value("array", elements[size].value))

ParseRedisResponse(p, start) ==
  IF start <= Len(p) /\ p[start] = ArrayType THEN ParseRedisArray(p, start) ELSE ParseRedisScalar(p, start)

(* flushPending with n requests in the queue: what they are answered, and  *)
(* what is left of the buffer.                                             *)
Flushed(state) ==
  LET parsed == ParseRedisResponse(state.rest, 1) IN
  CASE parsed = Undefined -> state
    [] parsed = Thrown    -> [rest |-> <<>>, answers |-> Append(state.answers, ErrorReply)]
    [] OTHER              -> [rest |-> SubSeq(state.rest, parsed.next, Len(state.rest)), answers |-> Append(state.answers, parsed.value)]
Drained(buffer, n) ==
  LET drained[i \in 0 .. n] == IF i = 0 THEN [rest |-> buffer, answers |-> <<>>] ELSE Flushed(drained[i - 1]) IN
  drained[n]

----------------------------------------------------------------------------
(* Of replies that are cut somewhere, n requests get those that have come  *)
(* as a whole, each its own, up to the first error; the rest stays in the  *)
(* buffer, unless an error reply took it with it.  Values with a character *)
(* of several bytes are excepted: their length counts bytes, the parser    *)
(* waits for as many characters and takes them from the next reply.        *)
Whole ==
  [n \in 0 .. MaxReplies |->
     \A replies \in BoundedSeq(Responses, MaxReplies) :
       LET text == Sending(replies)
           ends == [k \in 0 .. Len(replies) |-> Len(Sending(SubSeq(replies, 1, k)))]
           Cut(cut) ==
             LET taken == Max({k \in 0 .. Min({n, Len(replies)}) :
                                 ends[k] <= cut /\ \A i \in 1 .. k - 1 : replies[i] # ErrorReply}) IN
             [answers |-> SubSeq(replies, 1, taken),
              rest    |-> IF taken # 0 /\ replies[taken] = ErrorReply THEN <<>> ELSE SubSeq(text, ends[taken] + 1, cut)] IN
       Contains(text, Wide) \/ \A cut \in 0 .. Len(text) : Drained(SubSeq(text, 1, cut), n) = Cut(cut)]
=============================================================================
