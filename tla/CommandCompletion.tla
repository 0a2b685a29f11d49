--------------------------- MODULE CommandCompletion ---------------------------
(***************************************************************************)
(* How the server decides that a command has finished: waitForCompletion   *)
(* of session.ts, as ssh-run, ssh-retry and the background monitor call    *)
(* it.                                                                     *)
(*                                                                         *)
(* The remote shell echoes the command, whose trailer prints a marker, the *)
(* exit code and a line end; then come the output, the marker with the     *)
(* code, and a prompt.  The stream is made of tokens: "printf" is the      *)
(* trailer up to the marker, "mark" the marker, "code" the digits that     *)
(* follow a printed one, "prompt" text whose last line looks like a        *)
(* prompt, "text" anything else.  Where a chunk ends is up to the network. *)
(*                                                                         *)
(* Timers count ticks down.  They fire in time: no tick passes a timer     *)
(* that is due.  Two that are due together may fire in either order.       *)
(***************************************************************************)
EXTENDS Integers, Sequences, SequencesExt

CONSTANTS
  MaxTicks, IdleTicks, FinishTicks,  \* maxWaitMs, idleMs, and the 50 ms
  Window,                            \* tokens in the 4000 characters looked at
  MaxWire                            \* bound: tokens under way

ASSUME TicksAssumption ==
  /\ MaxTicks \in Nat \ {0} /\ IdleTicks \in Nat \ {0} /\ FinishTicks \in Nat \ {0}
  /\ Window \in Nat
  /\ MaxWire \in 2 .. Window  \* what is under way is within the text looked at

VARIABLES
  marked,      \* the command was sent with a trailer
  remote,      \* what the command does
  wire,        \* output under way
  tail,        \* the last Window tokens since startOffset
  closed,
  pc, result,                     \* the wait and how it ended
  maxTimer, idleTimer, finishing, \* its timers
  quiet, sinceCode                \* ghosts: ticks since idle output, since the code came

remoteVars == <<marked, remote, wire>>
timers     == <<maxTimer, idleTimer, finishing>>
vars       == <<remoteVars, tail, closed, pc, result, timers, quiet, sinceCode>>

Off      == -1
NoResult == [reason |-> "none", exitCode |-> FALSE]
-----------------------------------------------------------------------------
(* What the wait sees in the tail.                                         *)

BufferTail(text) == SubSeq(text, IF Len(text) > Window THEN Len(text) - Window + 1 ELSE 1, Len(text))

(* The marker, not on a line on which the trailer stands before it.        *)
SentinelAt(text, i) == text[i] = "mark" /\ (i > 1 => text[i - 1] # "printf")

FindSentinel(text) == marked /\ \E i \in DOMAIN text : SentinelAt(text, i)

MatchesPrompt(text) == text # <<>> /\ Last(text) = "prompt"

(* The digits follow the first such marker.                                *)
ExtractExitCode_OrZero(text) == TRUE

ExtractExitCode(text) ==
  \E i \in DOMAIN text :
    /\ SentinelAt(text, i) /\ \A j \in 1 .. i - 1 : ~SentinelAt(text, j)
    /\ i < Len(text) /\ text[i + 1] = "code"
-----------------------------------------------------------------------------
(* The end of a wait.                                                      *)

Finish(reason, exitCode) ==
  IF pc = "waiting"
  THEN /\ pc' = "done"
       /\ result' = [reason |-> reason, exitCode |-> exitCode]
       /\ maxTimer' = Off /\ idleTimer' = Off
  ELSE UNCHANGED <<pc, result, maxTimer, idleTimer>>

FinishSoon(reason, exitCode) ==
  /\ finishing' = finishing \cup {[left |-> FinishTicks, reason |-> reason, exitCode |-> exitCode]}
  /\ UNCHANGED <<idleTimer, quiet>>

(* A chunk makes text the tail that a running wait looks at.               *)
OnOutput_FinishLater(text) ==
  CASE FindSentinel(text) ->
         /\ finishing' = {[left |-> FinishTicks, reason |-> "sentinel",
                           exitCode |-> ExtractExitCode(text)]}
         /\ UNCHANGED <<idleTimer, quiet>>
    [] ~FindSentinel(text) /\ MatchesPrompt(text) -> FinishSoon("prompt", FALSE)
    [] OTHER -> idleTimer' = IdleTicks /\ quiet' = 0 /\ UNCHANGED finishing

OnOutput(text) ==
  CASE FindSentinel(text) -> FinishSoon("sentinel", ExtractExitCode(text))
    [] ~FindSentinel(text) /\ MatchesPrompt(text) -> FinishSoon("prompt", FALSE)
    [] OTHER -> idleTimer' = IdleTicks /\ quiet' = 0 /\ UNCHANGED finishing

(* Timers of an earlier wait find that one resolved and do nothing, so the *)
(* new wait starts with none.                                              *)
BeginWait_NoMaxTimer ==
  /\ pc' = "waiting" /\ result' = NoResult
  /\ maxTimer' = Off
  /\ idleTimer' = IF tail = <<>> THEN Off ELSE IdleTicks
  /\ finishing' = {}

BeginWait ==
  /\ pc' = "waiting" /\ result' = NoResult
  /\ maxTimer' = MaxTicks
  /\ idleTimer' = IF tail = <<>> THEN Off ELSE IdleTicks
  /\ finishing' = {}

AnswerAtOnce(reason, exitCode) ==
  /\ pc' = "done" /\ result' = [reason |-> reason, exitCode |-> exitCode]
  /\ maxTimer' = Off /\ idleTimer' = Off /\ finishing' = {}

(* After a timeout the background monitor waits again, on what has come    *)
(* since the command was sent.                                             *)
WaitAgain ==
  /\ pc = "done" /\ result.reason = "timeout"
  /\ CASE closed -> AnswerAtOnce("idle", FALSE)
       [] ~closed /\ FindSentinel(tail) -> AnswerAtOnce("sentinel", ExtractExitCode(tail))
       [] ~closed /\ ~FindSentinel(tail) /\ MatchesPrompt(tail) -> AnswerAtOnce("prompt", FALSE)
       [] OTHER -> BeginWait
  /\ quiet' = 0 /\ sinceCode' = Off
  /\ UNCHANGED <<remoteVars, tail, closed>>
-----------------------------------------------------------------------------
(* The remote shell.                                                       *)

RemotePrint ==
  /\ Len(wire) < MaxWire
  /\ wire' \in {Append(wire, t) : t \in IF remote = "running" THEN {"text", "prompt"} ELSE {"text"}}
  /\ UNCHANGED <<marked, remote, tail, closed, pc, result, timers, quiet, sinceCode>>

RemoteExit ==
  LET sentinel == IF marked THEN <<"mark", "code">> ELSE <<>>
  IN  /\ remote = "running" /\ Len(wire \o sentinel) < MaxWire
      /\ remote' = "exited"
      /\ wire' = wire \o sentinel \o <<"prompt">>
      /\ UNCHANGED <<marked, tail, closed, pc, result, timers, quiet, sinceCode>>

(* Ctrl-C drops the rest of the line, the trailer too.                     *)
RemoteBreak ==
  /\ remote = "running" /\ Len(wire) < MaxWire
  /\ remote' = "aborted"
  /\ wire' = Append(wire, "prompt")
  /\ UNCHANGED <<marked, tail, closed, pc, result, timers, quiet, sinceCode>>

(* A chunk of n tokens is appended to the buffer and the wait looks at it. *)
Deliver(n) ==
  LET chunk == SubSeq(wire, 1, n)
      text  == BufferTail(tail \o chunk)
  IN  /\ ~closed
      /\ wire' = SubSeq(wire, n + 1, Len(wire))
      /\ tail' = text
      /\ IF pc = "waiting" THEN OnOutput(text) ELSE UNCHANGED <<idleTimer, finishing, quiet>>
      /\ sinceCode' = IF pc = "waiting" /\ sinceCode = Off /\ Contains(chunk, "code")
                      THEN 0 ELSE sinceCode
      /\ UNCHANGED <<marked, remote, closed, pc, result, maxTimer>>

Close ==
  /\ ~closed
  /\ closed' = TRUE
  /\ Finish("idle", FALSE)
  /\ UNCHANGED <<remoteVars, tail, finishing, quiet, sinceCode>>
-----------------------------------------------------------------------------
(* Time.                                                                   *)

MaxTimerFires ==
  /\ maxTimer = 0
  /\ Finish("timeout", FALSE)
  /\ UNCHANGED <<remoteVars, tail, closed, finishing, quiet, sinceCode>>

IdleTimerFires ==
  /\ idleTimer = 0
  /\ Finish("idle", FALSE)
  /\ UNCHANGED <<remoteVars, tail, closed, finishing, quiet, sinceCode>>

FinishTimerFires ==
  \E f \in finishing :
    /\ f.left = 0
    /\ finishing' = finishing \ {f}
    /\ Finish(f.reason, f.exitCode)
    /\ UNCHANGED <<remoteVars, tail, closed, quiet, sinceCode>>

Later(timer) == IF timer = Off THEN Off ELSE timer - 1

Tick ==
  /\ maxTimer # 0 /\ idleTimer # 0 /\ \A f \in finishing : f.left # 0
  /\ pc = "waiting" \/ finishing # {}
  /\ maxTimer' = Later(maxTimer) /\ idleTimer' = Later(idleTimer)
  /\ finishing' = {[f EXCEPT !.left = @ - 1] : f \in finishing}
  /\ quiet' = IF quiet < IdleTicks THEN quiet + 1 ELSE quiet
  /\ sinceCode' = IF sinceCode \in 0 .. FinishTicks THEN sinceCode + 1 ELSE sinceCode
  /\ UNCHANGED <<remoteVars, tail, closed, pc, result>>
-----------------------------------------------------------------------------
(* ssh-run sends the command and begins to wait in one go.                 *)
Init ==
  /\ marked \in BOOLEAN
  /\ remote = "running"
  /\ wire = IF marked THEN <<"printf", "mark">> ELSE <<"text">>
  /\ tail = <<>> /\ closed = FALSE
  /\ pc = "waiting" /\ result = NoResult
  /\ maxTimer = MaxTicks /\ idleTimer = Off /\ finishing = {}
  /\ quiet = 0 /\ sinceCode = Off

RemoteStep == RemotePrint \/ RemoteExit \/ RemoteBreak \/ \E n \in 1 .. Len(wire) : Deliver(n)

TimerStep == MaxTimerFires \/ IdleTimerFires \/ FinishTimerFires \/ Tick

Next == WaitAgain \/ RemoteStep \/ Close \/ TimerStep

Spec == Init /\ [][Next]_vars

(* Time goes on and timers fire; the remote may be silent for ever.        *)
FairSpec == Spec /\ WF_vars(TimerStep)
-----------------------------------------------------------------------------
Tokens   == {"printf", "mark", "code", "text", "prompt"}
Outcomes == [reason : {"none", "sentinel", "prompt", "idle", "timeout"}, exitCode : BOOLEAN]

TypeOK ==
  /\ marked \in BOOLEAN /\ remote \in {"running", "exited", "aborted"}
  /\ wire \in Seq(Tokens) /\ Len(wire) <= MaxWire
  /\ tail \in Seq(Tokens) /\ Len(tail) <= Window
  /\ closed \in BOOLEAN /\ pc \in {"waiting", "done"}
  /\ result \in Outcomes
  /\ maxTimer \in {Off} \cup 0 .. MaxTicks /\ idleTimer \in {Off} \cup 0 .. IdleTicks
  /\ finishing \subseteq [left : 0 .. FinishTicks, reason : {"sentinel", "prompt"}, exitCode : BOOLEAN]
  /\ quiet \in 0 .. IdleTicks /\ sinceCode \in {Off} \cup 0 .. FinishTicks + 1

(* Once the exit code of the command has come in, the wait is over within  *)
(* the 50 ms that collect the rest of the output, whatever arrives then.   *)
SentinelEndsWait == pc = "waiting" => sinceCode <= FinishTicks

(* An exit code is only reported for a command that has exited.            *)
ExitCodeHonest == result.exitCode => remote = "exited"

(* On an open session 'idle' means that no ordinary output came for as     *)
(* long as the caller asked.                                               *)
IdleOnlyAfterSilence ==
  pc = "waiting" /\ pc' = "done" /\ result'.reason = "idle" /\ ~closed' => quiet >= IdleTicks

(* A wait answers once: timers that are still running change nothing.      *)
AnswerStays == pc = "done" /\ pc' = "done" /\ result.reason # "timeout" => result' = result

(* What a wait answers is true when it answers and is not changed later.   *)
ResultHonest == [][ExitCodeHonest' /\ IdleOnlyAfterSilence /\ AnswerStays]_vars

(* Every wait comes to an end, also when the remote says nothing.          *)
WaitReturns == pc = "waiting" ~> pc = "done"
-----------------------------------------------------------------------------
(* CHANGELOG 2.2.0, "Sentinel-first detection": a wait that has seen the   *)
(* sentinel does not end with 'prompt' or 'idle'.  The idle timer and an   *)
(* earlier prompt timer go on while the sentinel's 50 ms run.              *)
SentinelFirst ==
  [][pc = "waiting" /\ pc' = "done" /\ result'.reason \in {"prompt", "idle"} /\ ~closed'
       => ~FindSentinel(tail)]_vars

(* CHANGELOG 2.2.0, "Exit code in response": a wait that ends by the       *)
(* sentinel knows the exit code.  A chunk may end between the two.         *)
SentinelHasExitCode == result.reason = "sentinel" => result.exitCode

(* findSentinelOutput: the marker in the echo of the command is not taken  *)
(* for the printed one.  It is when the tail begins between the two words. *)
SentinelMeansExit == result.reason = "sentinel" => remote = "exited"
=============================================================================
