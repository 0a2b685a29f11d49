----------------------- MODULE CommandCompletion_proofs -----------------------
(***************************************************************************)
(* What TLAPS proves about CommandCompletion for any times and any sizes   *)
(* of the text looked at and of what is under way.                         *)
(*                                                                         *)
(* 1. HonestInv: the exit code is on the way of a command that has exited, *)
(*    and of no other.                                                     *)
(* 2. IdleInv: what is left of the idle timer is what is left of the       *)
(*    silence.                                                             *)
(* 3. StreamInv: the code follows a marker that is not the echoed one.     *)
(* 4. FinishInv: who has seen a marker has a finish timer, and no longer   *)
(*    than the code is there.  It needs StreamInv: the marker may have     *)
(*    been the end of an earlier chunk.                                    *)
(***************************************************************************)
EXTENDS CommandCompletion, SequenceTheorems, TLAPS

USE DEF remoteVars, timers, NoResult

(* The exit code is in s.                                                 *)
Comes(s) == \E i \in 1 .. Len(s) : s[i] = "code"

HonestInv ==
  /\ Comes(tail) \/ Comes(wire) => marked /\ remote = "exited"
  /\ \A f \in finishing : f.exitCode => remote = "exited"
  /\ ExitCodeHonest

IdleInv ==
  /\ pc = "done" => idleTimer = Off
  /\ idleTimer # Off => quiet + idleTimer >= IdleTicks

(* The marker in the echo is in the chunk of the trailer or in a later one. *)
PrintfThenMore ==
  /\ \A i \in 1 .. Len(wire) : wire[i] = "printf" => i < Len(wire)
  /\ Len(tail) > 0 /\ tail[Len(tail)] = "printf" => Len(wire) > 0

CodeAfterMark ==
  \A i \in 1 .. Len(wire) : wire[i] = "code" =>
    IF i = 1
    THEN Len(tail) > 0 /\ SentinelAt(tail, Len(tail))
    ELSE SentinelAt(wire, i - 1) /\ (i = 2 /\ Len(tail) > 0 => tail[Len(tail)] # "printf")

StreamInv == PrintfThenMore /\ CodeAfterMark

FinishInv ==
  pc = "waiting" =>
    /\ FindSentinel(tail) => finishing # {}
    /\ sinceCode # Off => \E f \in finishing : f.left + sinceCode <= FinishTicks
-----------------------------------------------------------------------------
LEMMA Dropped ==
  ASSUME NEW s \in Seq(Tokens), NEW n \in 0 .. Len(s), NEW rest, rest = SubSeq(s, n + 1, Len(s))
  PROVE  /\ rest \in Seq(Tokens) /\ Len(rest) = Len(s) - n
         /\ \A i \in 1 .. Len(s) - n : rest[i] = s[n + i]
<1>1. /\ Len(s) \in Nat /\ n \in Nat
      /\ \A i \in n + 1 .. Len(s) : s[i] \in Tokens
  BY LenProperties, ElementOfSeq
<1>2. /\ rest \in Seq(Tokens)
      /\ Len(rest) = IF n + 1 <= Len(s) THEN Len(s) - (n + 1) + 1 ELSE 0
      /\ \A i \in 1 .. Len(s) - (n + 1) + 1 : rest[i] = s[n + 1 + i - 1]
  BY <1>1, SubSeqProperties
<1> QED BY <1>1, <1>2

(* What is looked at ends with the chunk, and before that with what was    *)
(* looked at earlier.                                                      *)
LEMMA TailGrows ==
  ASSUME TypeOK, NEW n \in 1 .. Len(wire), NEW text,
         text = BufferTail(tail \o SubSeq(wire, 1, n))
  PROVE  /\ text \in Seq(Tokens) /\ Len(text) \in n .. Window
         /\ Len(text) <= Len(tail) + n
         /\ \A k \in 0 .. Len(text) - 1 :
              text[Len(text) - k] = IF k < n THEN wire[n - k] ELSE tail[Len(tail) + n - k]
<1> DEFINE chunk == SubSeq(wire, 1, n)
           all   == tail \o chunk
           cut   == IF Len(all) > Window THEN Len(all) - Window ELSE 0
<1>1. /\ Len(wire) \in Nat /\ Len(tail) \in Nat /\ n \in Nat /\ n <= Window /\ Window \in Nat
      /\ \A i \in 1 .. Len(wire) : wire[i] \in Tokens
  BY LenProperties, ElementOfSeq, TicksAssumption DEF TypeOK
<1>2. chunk \in Seq(Tokens) /\ Len(chunk) = n /\ \A i \in 1 .. n : chunk[i] = wire[i]
  <2>1. \A i \in 1 .. n : wire[i] \in Tokens
    BY <1>1
  <2>2. /\ chunk \in Seq(Tokens)
        /\ Len(chunk) = IF 1 <= n THEN n - 1 + 1 ELSE 0
        /\ \A i \in 1 .. n - 1 + 1 : chunk[i] = wire[1 + i - 1]
    BY <1>1, <2>1, SubSeqProperties
  <2> QED BY <1>1, <2>2
<1>3. /\ all \in Seq(Tokens) /\ Len(all) = Len(tail) + n
      /\ \A i \in 1 .. Len(tail) + n : all[i] = IF i <= Len(tail) THEN tail[i] ELSE wire[i - Len(tail)]
  <2>1. tail \in Seq(Tokens)
    BY DEF TypeOK
  <2>2. /\ all \in Seq(Tokens) /\ Len(all) = Len(tail) + n
        /\ \A i \in 1 .. Len(tail) + n : all[i] = IF i <= Len(tail) THEN tail[i] ELSE chunk[i - Len(tail)]
    BY <1>2, <2>1, ConcatProperties
  <2> QED BY <1>1, <1>2, <2>2
<1>4. cut \in Nat /\ cut <= Len(tail) /\ Len(all) - cut \in n .. Window
  BY <1>1, <1>3
<1>5. text = SubSeq(all, cut + 1, Len(all))
  BY <1>1, <1>3 DEF BufferTail
<1> HIDE DEF all, cut
<1>6. /\ text \in Seq(Tokens) /\ Len(text) = Len(all) - cut
      /\ \A i \in 1 .. Len(all) - cut : text[i] = all[cut + i]
  <2>1. cut \in 0 .. Len(all) /\ all \in Seq(Tokens)
    BY <1>1, <1>3, <1>4
  <2> QED BY <1>5, <2>1, Dropped
<1>7. ASSUME NEW k \in 0 .. Len(text) - 1
      PROVE  text[Len(text) - k] = IF k < n THEN wire[n - k] ELSE tail[Len(tail) + n - k]
  <2> DEFINE i == Len(text) - k
  <2>0. Len(text) = Len(tail) + n - cut /\ Len(text) \in Nat /\ k \in Nat /\ k < Len(text)
    <3>1. Len(all) - cut \in Nat /\ Len(text) = Len(all) - cut /\ Len(all) = Len(tail) + n
      BY <1>1, <1>3, <1>4, <1>6
    <3>2. k \in Nat /\ k < Len(text)
      BY <3>1
    <3> QED BY <1>1, <1>4, <3>1, <3>2
  <2>1. i \in 1 .. Len(all) - cut /\ cut + i = Len(tail) + n - k
    <3>1. Len(all) = Len(tail) + n /\ cut \in Nat
      BY <1>3, <1>4
    <3> QED BY <1>1, <2>0, <3>1
  <2> HIDE DEF i
  <2>2. text[i] = all[cut + i]
    BY <1>6, <2>1
  <2>3. cut + i \in 1 .. Len(tail) + n /\ (cut + i <= Len(tail) <=> ~ k < n) /\ cut + i - Len(tail) = n - k
    BY <1>1, <1>3, <1>4, <1>6, <2>1
  <2>4. all[cut + i] = IF k < n THEN wire[n - k] ELSE tail[Len(tail) + n - k]
    BY <1>3, <2>1, <2>3
  <2> QED BY <2>2, <2>4 DEF i
<1> QED BY <1>1, <1>3, <1>4, <1>6, <1>7

LEMMA WireGrows ==
  ASSUME TypeOK, NEW t \in Tokens
  PROVE  /\ Append(wire, t) \in Seq(Tokens) /\ Len(Append(wire, t)) = Len(wire) + 1
         /\ Len(wire) \in Nat
         /\ \A i \in 1 .. Len(wire) + 1 : Append(wire, t)[i] = IF i <= Len(wire) THEN wire[i] ELSE t
<1>1. wire \in Seq(Tokens) /\ Len(wire) \in Nat
  BY LenProperties DEF TypeOK
<1> QED BY <1>1, AppendProperties

LEMMA Delivered ==
  ASSUME TypeOK, NEW n \in 1 .. Len(wire), Deliver(n)
  PROVE  /\ tail' \in Seq(Tokens) /\ Len(tail') \in n .. Window /\ Len(tail') <= Len(tail) + n
         /\ \A k \in 0 .. Len(tail') - 1 :
              tail'[Len(tail') - k] = IF k < n THEN wire[n - k] ELSE tail[Len(tail) + n - k]
         /\ wire' \in Seq(Tokens) /\ Len(wire') = Len(wire) - n
         /\ \A i \in 1 .. Len(wire) - n : wire'[i] = wire[n + i]
         /\ Len(tail) \in Nat /\ Len(wire) \in Nat /\ n \in Nat /\ Len(wire) <= MaxWire
         /\ wire \in Seq(Tokens) /\ tail \in Seq(Tokens)
<1>1. /\ Len(tail) \in Nat /\ Len(wire) \in Nat /\ n \in Nat /\ Len(wire) <= MaxWire
      /\ wire \in Seq(Tokens) /\ tail \in Seq(Tokens)
  BY LenProperties DEF TypeOK
<1>2. wire' = SubSeq(wire, n + 1, Len(wire)) /\ tail' = BufferTail(tail \o SubSeq(wire, 1, n))
  BY DEF Deliver
<1>3. n \in 0 .. Len(wire)
  BY <1>1
<1>4. /\ wire' \in Seq(Tokens) /\ Len(wire') = Len(wire) - n
      /\ \A i \in 1 .. Len(wire) - n : wire'[i] = wire[n + i]
  BY <1>1, <1>2, <1>3, Dropped
<1>5. /\ tail' \in Seq(Tokens) /\ Len(tail') \in n .. Window /\ Len(tail') <= Len(tail) + n
      /\ \A k \in 0 .. Len(tail') - 1 :
           tail'[Len(tail') - k] = IF k < n THEN wire[n - k] ELSE tail[Len(tail) + n - k]
  BY <1>2, TailGrows
<1> QED BY <1>1, <1>4, <1>5

LEMMA Exited ==
  ASSUME TypeOK, RemoteExit
  PROVE  /\ wire' \in Seq(Tokens) /\ Len(wire') <= MaxWire /\ Len(wire) \in Nat
         /\ marked => /\ Len(wire') = Len(wire) + 3
                      /\ \A i \in 1 .. Len(wire) + 3 :
                           wire'[i] = CASE i <= Len(wire)    -> wire[i]
                                        [] i = Len(wire) + 1 -> "mark"
                                        [] i = Len(wire) + 2 -> "code"
                                        [] OTHER             -> "prompt"
         /\ ~marked => /\ Len(wire') = Len(wire) + 1
                       /\ \A i \in 1 .. Len(wire) + 1 :
                            wire'[i] = IF i <= Len(wire) THEN wire[i] ELSE "prompt"
<1>0. wire \in Seq(Tokens) /\ Len(wire) \in Nat /\ MaxWire \in Nat
  BY LenProperties, TicksAssumption DEF TypeOK
<1>1. <<"prompt">> \in Seq(Tokens) /\ Len(<<"prompt">>) = 1 /\ <<"prompt">>[1] = "prompt"
  BY DEF Tokens
<1>2. CASE marked
  <2>1. /\ <<"mark", "code">> \in Seq(Tokens) /\ Len(<<"mark", "code">>) = 2
        /\ <<"mark", "code">>[1] = "mark" /\ <<"mark", "code">>[2] = "code"
    BY DEF Tokens
  <2> DEFINE w == wire \o <<"mark", "code">>
  <2>2. /\ w \in Seq(Tokens) /\ Len(w) = Len(wire) + 2
        /\ \A i \in 1 .. Len(wire) + 2 : w[i] = IF i <= Len(wire) THEN wire[i] ELSE <<"mark", "code">>[i - Len(wire)]
    BY <1>0, <2>1, ConcatProperties
  <2>3. wire' = w \o <<"prompt">> /\ Len(w) < MaxWire
    BY <1>2 DEF RemoteExit
  <2> HIDE DEF w
  <2>4. /\ wire' \in Seq(Tokens) /\ Len(wire') = Len(w) + 1
        /\ \A i \in 1 .. Len(w) + 1 : wire'[i] = IF i <= Len(w) THEN w[i] ELSE <<"prompt">>[i - Len(w)]
    BY <1>1, <2>2, <2>3, ConcatProperties
  <2>5. ASSUME NEW i \in 1 .. Len(wire) + 3
        PROVE  wire'[i] = CASE i <= Len(wire)    -> wire[i]
                            [] i = Len(wire) + 1 -> "mark"
                            [] i = Len(wire) + 2 -> "code"
                            [] OTHER             -> "prompt"
    <3>1. CASE i = Len(wire) + 3
      <4>1. i \in 1 .. Len(w) + 1 /\ ~ i <= Len(w) /\ i - Len(w) = 1
        BY <1>0, <2>2, <3>1
      <4>2. wire'[i] = "prompt"
        BY <1>1, <2>4, <4>1
      <4> QED BY <1>0, <3>1, <4>2
    <3>2. CASE i <= Len(wire) + 2
      <4>1. i \in 1 .. Len(w) + 1 /\ i <= Len(w)
        BY <1>0, <2>2, <3>2
      <4>2. wire'[i] = w[i]
        BY <2>4, <4>1
      <4>3. w[i] = IF i <= Len(wire) THEN wire[i] ELSE <<"mark", "code">>[i - Len(wire)]
        BY <1>0, <2>2, <3>2
      <4>4. i <= Len(wire) \/ i - Len(wire) = 1 \/ i - Len(wire) = 2
        BY <1>0, <3>2
      <4> QED BY <1>0, <2>1, <4>2, <4>3, <4>4
    <3> QED BY <1>0, <3>1, <3>2
  <2> QED BY <1>0, <1>2, <2>2, <2>3, <2>4, <2>5
<1>3. CASE ~marked
  <2>1. wire \o <<>> = wire
    BY <1>0, ConcatEmptySeq
  <2>2. wire' = wire \o <<"prompt">> /\ Len(wire) < MaxWire
    BY <1>3, <2>1 DEF RemoteExit
  <2>3. /\ wire' \in Seq(Tokens) /\ Len(wire') = Len(wire) + 1
        /\ \A i \in 1 .. Len(wire) + 1 : wire'[i] = IF i <= Len(wire) THEN wire[i] ELSE <<"prompt">>[i - Len(wire)]
    BY <1>0, <1>1, <2>2, ConcatProperties
  <2>4. ASSUME NEW i \in 1 .. Len(wire) + 1, ~ i <= Len(wire) PROVE wire'[i] = "prompt"
    <3>1. i - Len(wire) = 1
      BY <1>0, <2>4
    <3> QED BY <1>1, <2>3, <2>4, <3>1
  <2> QED BY <1>0, <1>3, <2>2, <2>3, <2>4
<1> QED BY <1>2, <1>3 DEF TypeOK
-----------------------------------------------------------------------------
(* Types.                                                                  *)
LEMMA Sizes ==
  /\ MaxTicks \in Nat \ {0} /\ IdleTicks \in Nat \ {0} /\ FinishTicks \in Nat \ {0}
  /\ MaxWire \in Nat /\ Window \in Nat /\ 2 <= MaxWire /\ MaxWire <= Window
BY TicksAssumption

LEMMA TypeInit == Init => TypeOK
<1> SUFFICES ASSUME Init PROVE TypeOK
  OBVIOUS
<1>1. /\ wire \in Seq(Tokens) /\ Len(wire) <= MaxWire
      /\ tail \in Seq(Tokens) /\ Len(tail) <= Window
  <2>1. /\ <<"printf", "mark">> \in Seq(Tokens) /\ Len(<<"printf", "mark">>) = 2
        /\ <<"text">> \in Seq(Tokens) /\ Len(<<"text">>) = 1
        /\ <<>> \in Seq(Tokens) /\ Len(<<>>) = 0
    BY EmptySeq DEF Tokens
  <2>2. CASE marked
    BY <2>1, <2>2, Sizes DEF Init
  <2>3. CASE ~marked
    BY <2>1, <2>3, Sizes DEF Init
  <2> QED BY <2>2, <2>3
<1>2. /\ maxTimer \in {Off} \cup 0 .. MaxTicks /\ idleTimer \in {Off} \cup 0 .. IdleTicks
      /\ quiet \in 0 .. IdleTicks /\ sinceCode \in {Off} \cup 0 .. FinishTicks + 1
  BY Sizes DEF Init
<1>3. finishing \subseteq [left : 0 .. FinishTicks, reason : {"sentinel", "prompt"}, exitCode : BOOLEAN]
  BY DEF Init
<1>4. /\ marked \in BOOLEAN /\ remote \in {"running", "exited", "aborted"}
      /\ closed \in BOOLEAN /\ pc \in {"waiting", "done"} /\ result \in Outcomes
  BY DEF Init, Outcomes
<1> QED BY <1>1, <1>2, <1>3, <1>4 DEF TypeOK

LEMMA FinishTypes ==
  ASSUME TypeOK, NEW reason \in {"sentinel", "prompt", "idle", "timeout"}, NEW exitCode \in BOOLEAN,
         Finish(reason, exitCode)
  PROVE  /\ pc' \in {"waiting", "done"} /\ result' \in Outcomes
         /\ maxTimer' \in {Off} \cup 0 .. MaxTicks /\ idleTimer' \in {Off} \cup 0 .. IdleTicks
BY DEF TypeOK, Finish, Outcomes

LEMMA TypeStep == TypeOK /\ [Next]_vars => TypeOK'
<1> SUFFICES ASSUME TypeOK, [Next]_vars PROVE TypeOK'
  OBVIOUS
<1> USE Sizes
<1>1. CASE UNCHANGED vars
  BY <1>1 DEF TypeOK, vars
<1>2. CASE WaitAgain
  <2>1. UNCHANGED <<marked, remote, wire, tail, closed>> /\ quiet' = 0 /\ sinceCode' = Off
    BY <1>2 DEF WaitAgain
  <2>2. ASSUME NEW reason \in {"sentinel", "prompt", "idle"}, NEW exitCode \in BOOLEAN,
               AnswerAtOnce(reason, exitCode)
        PROVE  TypeOK'
    BY <2>1, <2>2 DEF AnswerAtOnce, TypeOK, Outcomes
  <2>3. CASE BeginWait
    BY <2>1, <2>3 DEF BeginWait, TypeOK, Outcomes
  <2>4. ExtractExitCode(tail) \in BOOLEAN
    BY DEF ExtractExitCode
  <2> QED BY <1>2, <2>2, <2>3, <2>4 DEF WaitAgain
<1>3. CASE RemotePrint
  <2>1. PICK t \in Tokens : wire' = Append(wire, t)
    BY <1>3 DEF RemotePrint, Tokens
  <2>2. wire' \in Seq(Tokens) /\ Len(wire') <= MaxWire
    BY <1>3, <2>1, WireGrows DEF RemotePrint
  <2> QED BY <1>3, <2>2 DEF RemotePrint, TypeOK
<1>4. CASE RemoteExit
  BY <1>4, Exited DEF RemoteExit, TypeOK
<1>5. CASE RemoteBreak
  <2>1. "prompt" \in Tokens /\ wire' = Append(wire, "prompt")
    BY <1>5 DEF RemoteBreak, Tokens
  <2>2. wire' \in Seq(Tokens) /\ Len(wire') <= MaxWire
    BY <1>5, <2>1, WireGrows DEF RemoteBreak
  <2> QED BY <1>5, <2>2 DEF RemoteBreak, TypeOK
<1>6. ASSUME NEW n \in 1 .. Len(wire), Deliver(n) PROVE TypeOK'
  <2>1. /\ wire' \in Seq(Tokens) /\ Len(wire') <= MaxWire
        /\ tail' \in Seq(Tokens) /\ Len(tail') <= Window
    BY <1>6, Delivered
  <2>2. idleTimer' \in {Off} \cup 0 .. IdleTicks /\ quiet' \in 0 .. IdleTicks
        /\ finishing' \subseteq [left : 0 .. FinishTicks, reason : {"sentinel", "prompt"}, exitCode : BOOLEAN]
    <3>1. CASE pc # "waiting"
      BY <1>6, <3>1 DEF Deliver, TypeOK
    <3>2. CASE pc = "waiting"
      <4>1. PICK text : OnOutput(text)
        BY <1>6, <3>2 DEF Deliver
      <4>2. ExtractExitCode(text) \in BOOLEAN
        BY DEF ExtractExitCode
      <4>3. \/ FinishSoon("sentinel", ExtractExitCode(text)) \/ FinishSoon("prompt", FALSE)
            \/ idleTimer' = IdleTicks /\ quiet' = 0 /\ UNCHANGED finishing
        BY <4>1 DEF OnOutput
      <4>4. ASSUME NEW reason \in {"sentinel", "prompt"}, NEW exitCode \in BOOLEAN,
                   FinishSoon(reason, exitCode)
            PROVE  /\ finishing' \subseteq [left : 0 .. FinishTicks, reason : {"sentinel", "prompt"},
                                            exitCode : BOOLEAN]
                   /\ UNCHANGED <<idleTimer, quiet>>
        BY <4>4 DEF FinishSoon, TypeOK
      <4>5. CASE FinishSoon("sentinel", ExtractExitCode(text)) \/ FinishSoon("prompt", FALSE)
        <5>1. finishing' \subseteq [left : 0 .. FinishTicks, reason : {"sentinel", "prompt"}, exitCode : BOOLEAN]
              /\ UNCHANGED <<idleTimer, quiet>>
          BY <4>2, <4>4, <4>5
        <5> QED BY <5>1 DEF TypeOK
      <4>6. CASE idleTimer' = IdleTicks /\ quiet' = 0 /\ UNCHANGED finishing
        BY <4>6 DEF TypeOK
      <4> QED BY <4>3, <4>5, <4>6
    <3> QED BY <3>1, <3>2
  <2>3. sinceCode' \in {Off} \cup 0 .. FinishTicks + 1
    BY <1>6 DEF Deliver, TypeOK
  <2> QED BY <1>6, <2>1, <2>2, <2>3 DEF Deliver, TypeOK
<1>7. CASE Close
  BY <1>7, FinishTypes DEF Close, TypeOK
<1>8. CASE MaxTimerFires
  BY <1>8, FinishTypes DEF MaxTimerFires, TypeOK
<1>9. CASE IdleTimerFires
  BY <1>9, FinishTypes DEF IdleTimerFires, TypeOK
<1>10. CASE FinishTimerFires
  <2>1. PICK f \in finishing : finishing' = finishing \ {f} /\ Finish(f.reason, f.exitCode)
    BY <1>10 DEF FinishTimerFires
  <2>2. f.reason \in {"sentinel", "prompt", "idle", "timeout"} /\ f.exitCode \in BOOLEAN
    BY DEF TypeOK
  <2>3. /\ pc' \in {"waiting", "done"} /\ result' \in Outcomes
        /\ maxTimer' \in {Off} \cup 0 .. MaxTicks /\ idleTimer' \in {Off} \cup 0 .. IdleTicks
    BY <2>1, <2>2, FinishTypes
  <2> QED BY <1>10, <2>1, <2>3 DEF FinishTimerFires, TypeOK
<1>11. CASE Tick
  <2>1. ASSUME NEW f \in finishing
        PROVE  [f EXCEPT !.left = @ - 1] \in [left : 0 .. FinishTicks, reason : {"sentinel", "prompt"}, exitCode : BOOLEAN]
    <3>1. f \in [left : 0 .. FinishTicks, reason : {"sentinel", "prompt"}, exitCode : BOOLEAN] /\ f.left # 0
      BY <1>11 DEF Tick, TypeOK
    <3>2. f.left - 1 \in 0 .. FinishTicks
      BY <3>1, TicksAssumption
    <3> QED BY <3>1, <3>2
  <2>2. finishing' \subseteq [left : 0 .. FinishTicks, reason : {"sentinel", "prompt"}, exitCode : BOOLEAN]
    BY <1>11, <2>1 DEF Tick
  <2>3. maxTimer' \in {Off} \cup 0 .. MaxTicks
    BY <1>11, TicksAssumption DEF Tick, TypeOK, Later, Off
  <2>4. idleTimer' \in {Off} \cup 0 .. IdleTicks
    BY <1>11, TicksAssumption DEF Tick, TypeOK, Later, Off
  <2>5. quiet' \in 0 .. IdleTicks
    BY <1>11, TicksAssumption DEF Tick, TypeOK
  <2>6. sinceCode' \in {Off} \cup 0 .. FinishTicks + 1
    BY <1>11, TicksAssumption DEF Tick, TypeOK, Off
  <2>7. UNCHANGED <<remoteVars, tail, closed, pc, result>>
    BY <1>11 DEF Tick
  <2> QED BY <2>2, <2>3, <2>4, <2>5, <2>6, <2>7 DEF TypeOK, remoteVars
<1> QED BY <1>1, <1>2, <1>3, <1>4, <1>5, <1>6, <1>7, <1>8, <1>9, <1>10, <1>11
        DEF Next, RemoteStep, TimerStep
-----------------------------------------------------------------------------
(* The exit code is that of a command that has exited.                     *)
LEMMA CodeCame ==
  ASSUME NEW text, text \in Seq(Tokens), ExtractExitCode(text)
  PROVE  Comes(text)
<1>1. DOMAIN text = 1 .. Len(text) /\ Len(text) \in Nat
  BY LenProperties
<1>2. PICK i \in DOMAIN text : i < Len(text) /\ text[i + 1] = "code"
  BY DEF ExtractExitCode
<1>3. i + 1 \in 1 .. Len(text)
  BY <1>1, <1>2
<1> QED BY <1>2, <1>3 DEF Comes

LEMMA HonestInit == Init => HonestInv
<1> SUFFICES ASSUME Init PROVE HonestInv
  OBVIOUS
<1>1. Len(tail) = 0 /\ ~Comes(tail)
  BY DEF Init, Comes
<1>2. ~Comes(<<"printf", "mark">>) /\ ~Comes(<<"text">>)
  BY DEF Comes
<1>3. ~Comes(wire)
  BY <1>2 DEF Init
<1> QED BY <1>1, <1>3 DEF Init, HonestInv, ExitCodeHonest

LEMMA HonestFinish ==
  ASSUME ExitCodeHonest, NEW reason, NEW exitCode, exitCode => remote = "exited",
         remote' = remote, Finish(reason, exitCode)
  PROVE  ExitCodeHonest'
BY DEF ExitCodeHonest, Finish

LEMMA HonestStep == TypeOK /\ HonestInv /\ [Next]_vars => HonestInv'
<1> SUFFICES ASSUME TypeOK, HonestInv, [Next]_vars PROVE HonestInv'
  OBVIOUS
<1>1. CASE UNCHANGED vars
  BY <1>1 DEF HonestInv, ExitCodeHonest, Comes, vars
<1>2. CASE WaitAgain
  <2>1. UNCHANGED <<marked, remote, wire, tail>>
    BY <1>2 DEF WaitAgain
  <2>2. ASSUME NEW reason, NEW exitCode, exitCode => remote = "exited", AnswerAtOnce(reason, exitCode)
        PROVE  HonestInv'
    BY <2>1, <2>2 DEF AnswerAtOnce, HonestInv, ExitCodeHonest, Comes
  <2>3. CASE BeginWait
    BY <2>1, <2>3 DEF BeginWait, HonestInv, ExitCodeHonest, Comes
  <2>4. ExtractExitCode(tail) => remote = "exited"
    BY CodeCame DEF HonestInv, TypeOK
  <2> QED BY <1>2, <2>2, <2>3, <2>4 DEF WaitAgain
<1>3. ASSUME NEW t \in {"text", "prompt"}, wire' = Append(wire, t),
             remote' = remote \/ remote = "running",
             UNCHANGED <<marked, tail, finishing, result>>
      PROVE  HonestInv'
  <2>1. Comes(wire') => Comes(wire)
    BY <1>3, WireGrows DEF Comes, Tokens
  <2>2. Comes(tail') => Comes(tail)
    BY <1>3 DEF Comes
  <2> QED BY <1>3, <2>1, <2>2 DEF HonestInv, ExitCodeHonest
<1>4. CASE RemoteExit
  <2>1. UNCHANGED <<marked, tail, finishing, result>> /\ remote' = "exited" /\ remote = "running"
    BY <1>4 DEF RemoteExit
  <2>2. Comes(wire') => Comes(wire) \/ marked
    BY <1>4, Exited DEF Comes
  <2>3. Comes(tail') => Comes(tail)
    BY <2>1 DEF Comes
  <2> QED BY <2>1, <2>2, <2>3 DEF HonestInv, ExitCodeHonest
<1>5. ASSUME NEW n \in 1 .. Len(wire), Deliver(n) PROVE HonestInv'
  <2>1. UNCHANGED <<marked, remote, result>>
    BY <1>5 DEF Deliver
  <2>2. Comes(wire') => Comes(wire)
    <3> SUFFICES ASSUME NEW i \in 1 .. Len(wire'), wire'[i] = "code" PROVE Comes(wire)
      BY DEF Comes
    <3>1. wire[n + i] = "code" /\ n + i \in 1 .. Len(wire)
      BY <1>5, Delivered
    <3> QED BY <3>1 DEF Comes
  <2>3. Comes(tail') => Comes(tail) \/ Comes(wire)
    <3> SUFFICES ASSUME NEW i \in 1 .. Len(tail'), tail'[i] = "code" PROVE Comes(tail) \/ Comes(wire)
      BY DEF Comes
    <3> DEFINE k == Len(tail') - i
    <3>1. k \in 0 .. Len(tail') - 1 /\ Len(tail') - k = i /\ Len(tail') \in Nat /\ k \in Nat
      BY <1>5, Delivered
    <3> HIDE DEF k
    <3>2. "code" = IF k < n THEN wire[n - k] ELSE tail[Len(tail) + n - k]
      BY <1>5, <3>1, Delivered
    <3>3. CASE k < n
      <4>1. n - k \in 1 .. Len(wire)
        BY <1>5, <3>1, <3>3, Delivered
      <4> QED BY <3>2, <3>3, <4>1 DEF Comes
    <3>4. CASE ~ k < n
      <4>1. Len(tail) + n - k \in 1 .. Len(tail)
        BY <1>5, <3>1, <3>4, Delivered
      <4> QED BY <3>2, <3>4, <4>1 DEF Comes
    <3> QED BY <3>3, <3>4
  <2>4. ASSUME NEW f \in finishing', f.exitCode PROVE remote = "exited"
    <3>1. CASE f \in finishing
      BY <2>4, <3>1 DEF HonestInv
    <3>2. CASE f \notin finishing
      <4>1. f.exitCode = ExtractExitCode(tail') \/ f.exitCode = FALSE
        BY <1>5, <3>2 DEF Deliver, OnOutput, FinishSoon
      <4>2. Comes(tail')
        BY <1>5, <2>4, <4>1, CodeCame, Delivered
      <4> QED BY <2>3, <4>2 DEF HonestInv
    <3> QED BY <3>1, <3>2
  <2> QED BY <2>1, <2>2, <2>3, <2>4 DEF HonestInv, ExitCodeHonest
<1>6. ASSUME UNCHANGED <<marked, remote, wire, tail>>, ExitCodeHonest',
             \A f \in finishing' : f.exitCode => remote = "exited"
      PROVE  HonestInv'
  BY <1>6 DEF HonestInv, Comes
<1>7. CASE Close \/ MaxTimerFires \/ IdleTimerFires
  BY <1>6, <1>7, HonestFinish DEF Close, MaxTimerFires, IdleTimerFires, HonestInv
<1>8. CASE FinishTimerFires
  BY <1>6, <1>8, HonestFinish DEF FinishTimerFires, HonestInv
<1>9. CASE Tick
  <2>1. \A f \in finishing : [f EXCEPT !.left = @ - 1].exitCode = f.exitCode
    BY DEF TypeOK
  <2>2. \A f \in finishing' : f.exitCode => remote = "exited"
    BY <1>9, <2>1 DEF Tick, HonestInv
  <2> QED BY <1>6, <1>9, <2>2 DEF Tick, HonestInv, ExitCodeHonest
<1>10. CASE RemotePrint
  BY <1>3, <1>10 DEF RemotePrint
<1>11. CASE RemoteBreak
  BY <1>3, <1>11 DEF RemoteBreak
<1> QED BY <1>1, <1>2, <1>4, <1>5, <1>7, <1>8, <1>9, <1>10, <1>11 DEF Next, RemoteStep, TimerStep
-----------------------------------------------------------------------------
(* The idle timer.                                                         *)
LEMMA IdleInit == Init => IdleInv
BY DEF Init, IdleInv, Off

LEMMA IdleStep == TypeOK /\ IdleInv /\ [Next]_vars => IdleInv'
<1> SUFFICES ASSUME TypeOK, IdleInv, [Next]_vars PROVE IdleInv'
  OBVIOUS
<1> USE Sizes DEF Off
<1>1. CASE UNCHANGED <<pc, idleTimer, quiet>>
  BY <1>1 DEF IdleInv
<1>2. CASE WaitAgain
  <2>1. quiet' = 0
    BY <1>2 DEF WaitAgain
  <2>2. \/ pc' = "done" /\ idleTimer' = Off
        \/ pc' = "waiting" /\ idleTimer' \in {Off, IdleTicks}
    BY <1>2 DEF WaitAgain, AnswerAtOnce, BeginWait
  <2> QED BY <2>1, <2>2 DEF IdleInv
<1>3. ASSUME NEW n \in 1 .. Len(wire), Deliver(n) PROVE IdleInv'
  <2>1. pc' = pc
    BY <1>3 DEF Deliver
  <2>2. \/ UNCHANGED <<idleTimer, quiet>>
        \/ pc = "waiting" /\ idleTimer' = IdleTicks /\ quiet' = 0
    BY <1>3 DEF Deliver, OnOutput, FinishSoon
  <2> QED BY <2>1, <2>2 DEF IdleInv
<1>4. ASSUME NEW reason, NEW exitCode, Finish(reason, exitCode), UNCHANGED quiet PROVE IdleInv'
  BY <1>4 DEF Finish, IdleInv
<1>5. CASE Close \/ MaxTimerFires \/ IdleTimerFires \/ FinishTimerFires
  BY <1>4, <1>5 DEF Close, MaxTimerFires, IdleTimerFires, FinishTimerFires
<1>6. CASE Tick
  BY <1>6 DEF Tick, Later, IdleInv, TypeOK
<1> QED BY <1>1, <1>2, <1>3, <1>5, <1>6 DEF Next, RemoteStep, RemotePrint, RemoteExit, RemoteBreak, TimerStep, vars
-----------------------------------------------------------------------------
(* The code follows a printed marker.                                      *)
LEMMA StreamInit == Init => StreamInv
<1> SUFFICES ASSUME Init PROVE StreamInv
  OBVIOUS
<1>1. CASE marked
  <2>1. wire = <<"printf", "mark">> /\ Len(wire) = 2 /\ wire[1] = "printf" /\ wire[2] = "mark"
    BY <1>1 DEF Init
  <2>2. Len(tail) = 0
    BY DEF Init
  <2>3. \A i \in 1 .. Len(wire) : i = 1 \/ i = 2
    BY <2>1
  <2> QED BY <2>1, <2>2, <2>3 DEF StreamInv, PrintfThenMore, CodeAfterMark
<1>2. CASE ~marked
  <2>1. wire = <<"text">> /\ Len(wire) = 1 /\ wire[1] = "text" /\ Len(tail) = 0
    BY <1>2 DEF Init
  <2>2. \A i \in 1 .. Len(wire) : i = 1
    BY <2>1
  <2> QED BY <2>1, <2>2 DEF StreamInv, PrintfThenMore, CodeAfterMark
<1> QED BY <1>1, <1>2

(* Adding to the wire, where what is added is in order by itself.          *)
LEMMA StreamGrows ==
  ASSUME TypeOK, StreamInv, UNCHANGED tail, Len(wire') \in Nat, Len(wire') > Len(wire),
         \A i \in 1 .. Len(wire) : wire'[i] = wire[i],
         \A i \in Len(wire) + 1 .. Len(wire') :
           /\ wire'[i] # "printf"
           /\ wire'[i] = "code" => /\ i = Len(wire) + 2
                                   /\ wire'[i - 1] = "mark"
  PROVE  StreamInv'
<1>1. Len(wire) \in Nat /\ Len(tail) \in Nat /\ tail' = tail
  BY LenProperties DEF TypeOK
<1>2. PrintfThenMore'
  <2>1. ASSUME NEW i \in 1 .. Len(wire'), wire'[i] = "printf" PROVE i < Len(wire')
    <3>1. i \in 1 .. Len(wire)
      BY <1>1, <2>1
    <3> QED BY <1>1, <3>1
  <2> QED BY <1>1, <2>1 DEF PrintfThenMore
<1>3. ASSUME NEW i \in 1 .. Len(wire'), wire'[i] = "code"
      PROVE  IF i = 1
             THEN Len(tail) > 0 /\ SentinelAt(tail, Len(tail))
             ELSE SentinelAt(wire', i - 1) /\ (i = 2 /\ Len(tail) > 0 => tail[Len(tail)] # "printf")
  <2>1. CASE i <= Len(wire)
    <3>1. i \in 1 .. Len(wire) /\ wire[i] = "code"
      BY <1>1, <1>3, <2>1
    <3>2. CASE i = 1
      BY <3>1, <3>2 DEF StreamInv, CodeAfterMark
    <3>3. CASE i # 1
      <4>1. wire'[i - 1] = wire[i - 1] /\ (i - 1 > 1 => wire'[i - 1 - 1] = wire[i - 1 - 1])
        BY <1>1, <3>1, <3>3
      <4> QED BY <3>1, <3>3, <4>1 DEF StreamInv, CodeAfterMark, SentinelAt
    <3> QED BY <3>2, <3>3
  <2>2. CASE i > Len(wire)
    <3>1. i = Len(wire) + 2 /\ wire'[i - 1] = "mark"
      BY <1>1, <1>3, <2>2
    <3>2. i - 1 > 1 => wire'[i - 1 - 1] # "printf"
      <4> SUFFICES ASSUME i - 1 > 1 PROVE wire'[i - 1 - 1] # "printf"
        OBVIOUS
      <4>1. Len(wire) \in 1 .. Len(wire) /\ i - 1 - 1 = Len(wire)
        BY <1>1, <3>1
      <4> QED BY <1>1, <4>1 DEF StreamInv, PrintfThenMore
    <3>3. i = 2 /\ Len(tail) > 0 => tail[Len(tail)] # "printf"
      BY <1>1, <3>1 DEF StreamInv, PrintfThenMore
    <3> QED BY <1>1, <3>1, <3>2, <3>3 DEF SentinelAt
  <2> QED BY <1>1, <2>1, <2>2
<1> QED BY <1>1, <1>2, <1>3 DEF StreamInv, CodeAfterMark, SentinelAt

(* Where a chunk is cut off, what is left goes on from what is looked at.  *)
LEMMA StreamCut ==
  ASSUME TypeOK, StreamInv, NEW n \in 1 .. Len(wire), Deliver(n)
  PROVE  StreamInv'
<1>1. /\ Len(tail') \in Nat /\ n <= Len(tail') /\ Len(tail') <= Len(tail) + n
      /\ Len(wire') = Len(wire) - n /\ Len(wire) \in Nat /\ Len(tail) \in Nat /\ n \in Nat /\ 0 < n
      /\ \A i \in 1 .. Len(wire) - n : wire'[i] = wire[n + i]
  BY Delivered
<1>2. tail'[Len(tail')] = wire[n]
  <2>1. 0 \in 0 .. Len(tail') - 1 /\ 0 < n
    BY <1>1
  <2>2. tail'[Len(tail') - 0] = wire[n - 0]
    BY <2>1, Delivered
  <2> QED BY <1>1, <2>2
<1>3. Len(tail') > 1 => tail'[Len(tail') - 1] = IF 1 < n THEN wire[n - 1] ELSE tail[Len(tail)]
  <2> SUFFICES ASSUME Len(tail') > 1
               PROVE  tail'[Len(tail') - 1] = IF 1 < n THEN wire[n - 1] ELSE tail[Len(tail)]
    OBVIOUS
  <2>1. 1 \in 0 .. Len(tail') - 1
    BY <1>1
  <2>2. tail'[Len(tail') - 1] = IF 1 < n THEN wire[n - 1] ELSE tail[Len(tail) + n - 1]
    BY <2>1, Delivered
  <2>3. 1 < n \/ Len(tail) + n - 1 = Len(tail)
    BY <1>1
  <2> QED BY <2>2, <2>3
<1>4. PrintfThenMore'
  <2>1. ASSUME NEW i \in 1 .. Len(wire'), wire'[i] = "printf" PROVE i < Len(wire')
    <3>1. n + i \in 1 .. Len(wire) /\ wire[n + i] = "printf"
      BY <1>1, <2>1
    <3> QED BY <1>1, <3>1 DEF StreamInv, PrintfThenMore
  <2>2. wire[n] = "printf" => Len(wire') > 0
    BY <1>1 DEF StreamInv, PrintfThenMore
  <2> QED BY <1>2, <2>1, <2>2 DEF PrintfThenMore
<1>5. ASSUME NEW i \in 1 .. Len(wire'), wire'[i] = "code"
      PROVE  IF i = 1
             THEN Len(tail') > 0 /\ SentinelAt(tail', Len(tail'))
             ELSE SentinelAt(wire', i - 1) /\ (i = 2 /\ Len(tail') > 0 => tail'[Len(tail')] # "printf")
  <2>1. n + i \in 1 .. Len(wire) /\ wire[n + i] = "code" /\ n + i # 1
    BY <1>1, <1>5
  <2>2. /\ wire[n + i - 1] = "mark" /\ (n + i - 1 > 1 => wire[n + i - 1 - 1] # "printf")
        /\ n + i = 2 /\ Len(tail) > 0 => tail[Len(tail)] # "printf"
    BY <2>1 DEF StreamInv, CodeAfterMark, SentinelAt
  <2>3. CASE i = 1
    <3>1. wire[n] = "mark"
      BY <1>1, <2>2, <2>3
    <3>2. 1 < n => wire[n - 1] # "printf"
      BY <1>1, <2>2, <2>3
    <3>3. n = 1 /\ Len(tail) > 0 => tail[Len(tail)] # "printf"
      BY <1>1, <2>2, <2>3
    <3>4. Len(tail') > 1 => tail'[Len(tail') - 1] # "printf"
      BY <1>1, <1>3, <3>2, <3>3
    <3> QED BY <1>1, <1>2, <2>3, <3>1, <3>4 DEF SentinelAt
  <2>4. CASE i # 1
    <3>1. wire'[i - 1] = wire[n + i - 1]
      <4>1. i - 1 \in 1 .. Len(wire) - n /\ n + (i - 1) = n + i - 1
        BY <1>1, <1>5, <2>4
      <4> QED BY <1>1, <4>1
    <3>2. i - 1 > 1 => wire'[i - 1 - 1] = wire[n + i - 1 - 1]
      <4> SUFFICES ASSUME i - 1 > 1 PROVE wire'[i - 1 - 1] = wire[n + i - 1 - 1]
        OBVIOUS
      <4>1. i - 1 - 1 \in 1 .. Len(wire) - n /\ n + (i - 1 - 1) = n + i - 1 - 1
        BY <1>1, <1>5, <2>4
      <4> QED BY <1>1, <4>1
    <3>3. n + i - 1 > 1
      BY <1>1, <1>5, <2>4
    <3>4. i = 2 => n + i - 1 - 1 = n
      BY <1>1
    <3> QED BY <1>2, <2>2, <2>4, <3>1, <3>2, <3>3, <3>4 DEF SentinelAt
  <2> QED BY <2>3, <2>4
<1> QED BY <1>4, <1>5 DEF StreamInv, CodeAfterMark, SentinelAt

LEMMA StreamStep == TypeOK /\ StreamInv /\ [Next]_vars => StreamInv'
<1> SUFFICES ASSUME TypeOK, StreamInv, [Next]_vars PROVE StreamInv'
  OBVIOUS
<1>1. CASE UNCHANGED <<wire, tail>>
  BY <1>1 DEF StreamInv, PrintfThenMore, CodeAfterMark, SentinelAt
<1>2. ASSUME NEW t \in {"text", "prompt"}, wire' = Append(wire, t), UNCHANGED tail PROVE StreamInv'
  <2>1. t \in Tokens
    BY DEF Tokens
  <2>2. /\ Len(wire') = Len(wire) + 1 /\ Len(wire) \in Nat
        /\ \A i \in 1 .. Len(wire) + 1 : wire'[i] = IF i <= Len(wire) THEN wire[i] ELSE t
    BY <1>2, <2>1, WireGrows
  <2>3. \A i \in 1 .. Len(wire) : wire'[i] = wire[i]
    BY <2>2
  <2>4. \A i \in Len(wire) + 1 .. Len(wire') : wire'[i] = t
    BY <2>2
  <2> QED BY <1>2, <2>2, <2>3, <2>4, StreamGrows
<1>3. CASE RemoteExit
  <2>1. tail' = tail
    BY <1>3 DEF RemoteExit
  <2>2. CASE marked
    <3>1. /\ Len(wire') = Len(wire) + 3 /\ Len(wire) \in Nat
          /\ \A i \in 1 .. Len(wire) + 3 :
               wire'[i] = CASE i <= Len(wire)    -> wire[i]
                            [] i = Len(wire) + 1 -> "mark"
                            [] i = Len(wire) + 2 -> "code"
                            [] OTHER             -> "prompt"
      BY <1>3, <2>2, Exited
    <3>2. /\ \A i \in 1 .. Len(wire) : wire'[i] = wire[i]
          /\ wire'[Len(wire) + 1] = "mark" /\ wire'[Len(wire) + 2] = "code" /\ wire'[Len(wire) + 3] = "prompt"
      BY <3>1
    <3>3. ASSUME NEW i \in Len(wire) + 1 .. Len(wire')
          PROVE  /\ wire'[i] # "printf"
                 /\ wire'[i] = "code" => i = Len(wire) + 2 /\ wire'[i - 1] = "mark"
      <4>1. i = Len(wire) + 1 \/ i = Len(wire) + 2 \/ i = Len(wire) + 3
        BY <3>1
      <4>2. i = Len(wire) + 2 => i - 1 = Len(wire) + 1
        BY <3>1
      <4> QED BY <3>2, <4>1, <4>2
    <3> QED BY <2>1, <3>1, <3>2, <3>3, StreamGrows
  <2>3. CASE ~marked
    <3>1. /\ Len(wire') = Len(wire) + 1 /\ Len(wire) \in Nat
          /\ \A i \in 1 .. Len(wire) + 1 : wire'[i] = IF i <= Len(wire) THEN wire[i] ELSE "prompt"
      BY <1>3, <2>3, Exited
    <3>2. \A i \in 1 .. Len(wire) : wire'[i] = wire[i]
      BY <3>1
    <3>3. \A i \in Len(wire) + 1 .. Len(wire') : wire'[i] = "prompt"
      BY <3>1
    <3> QED BY <2>1, <3>1, <3>2, <3>3, StreamGrows
  <2> QED BY <2>2, <2>3
<1>4. ASSUME NEW n \in 1 .. Len(wire), Deliver(n) PROVE StreamInv'
  BY <1>4, StreamCut
<1>5. CASE RemotePrint
  BY <1>2, <1>5 DEF RemotePrint
<1>6. CASE RemoteBreak
  BY <1>2, <1>6 DEF RemoteBreak
<1> QED BY <1>1, <1>3, <1>4, <1>5, <1>6 DEF Next, WaitAgain, RemoteStep, Close, TimerStep,
           MaxTimerFires, IdleTimerFires, FinishTimerFires, Tick, vars
-----------------------------------------------------------------------------
(* Who sees the code has seen the marker, in this chunk or in an earlier   *)
(* one.                                                                    *)
LEMMA CodeSeen ==
  ASSUME TypeOK, HonestInv, StreamInv, FinishInv, pc = "waiting",
         NEW n \in 1 .. Len(wire), Deliver(n),
         NEW j \in 1 .. n, wire[j] = "code"
  PROVE  finishing' # {}
<1>1. /\ Len(tail') \in Nat /\ n <= Len(tail') /\ Len(tail') <= Len(tail) + n
      /\ Len(wire) \in Nat /\ Len(tail) \in Nat /\ n \in Nat
      /\ DOMAIN tail = 1 .. Len(tail) /\ DOMAIN tail' = 1 .. Len(tail')
  BY Delivered, LenProperties
<1>2. OnOutput(tail') /\ marked' = marked
  BY DEF Deliver
<1>3. j \in 1 .. Len(wire) /\ marked
  BY <1>1 DEF HonestInv, Comes
<1>4. CASE j = 1
  <2>1. Len(tail) > 0 /\ SentinelAt(tail, Len(tail))
    BY <1>3, <1>4 DEF StreamInv, CodeAfterMark
  <2>2. finishing # {}
    BY <1>1, <1>3, <2>1 DEF FinishInv, FindSentinel
  <2> QED BY <1>2, <2>2 DEF OnOutput, FinishSoon
<1>5. CASE j # 1
  <2>1. /\ wire[j - 1] = "mark" /\ (j - 1 > 1 => wire[j - 1 - 1] # "printf")
        /\ j = 2 /\ Len(tail) > 0 => tail[Len(tail)] # "printf"
    BY <1>3, <1>5 DEF StreamInv, CodeAfterMark, SentinelAt
  <2> DEFINE k == n - (j - 1)
             p == Len(tail') - k
  <2>2. k \in 0 .. Len(tail') - 1 /\ k < n /\ n - k = j - 1 /\ p \in 1 .. Len(tail') /\ Len(tail') - k = p
        /\ k \in Nat /\ p \in Nat
    BY <1>1, <1>5
  <2> HIDE DEF k, p
  <2>3. tail'[p] = "mark"
    <3>1. tail'[Len(tail') - k] = wire[n - k]
      BY <2>2, Delivered
    <3> QED BY <2>1, <2>2, <3>1
  <2>4. p > 1 => tail'[p - 1] # "printf"
    <3> SUFFICES ASSUME p > 1 PROVE tail'[p - 1] # "printf"
      OBVIOUS
    <3>0. Len(tail') \in Nat /\ k \in Nat /\ p \in Nat /\ Len(tail') - k = p
      BY <1>1, <2>2
    <3>1. k + 1 \in 0 .. Len(tail') - 1 /\ Len(tail') - (k + 1) = p - 1
      BY <3>0
    <3>2. tail'[p - 1] = IF k + 1 < n THEN wire[n - (k + 1)] ELSE tail[Len(tail) + n - (k + 1)]
      BY <3>1, Delivered
    <3>3. CASE k + 1 < n
      <4>1. n - (k + 1) = j - 1 - 1 /\ j - 1 > 1
        BY <1>1, <2>2, <3>3
      <4> QED BY <2>1, <3>2, <3>3, <4>1
    <3>4. CASE ~ k + 1 < n
      <4>1. j = 2 /\ Len(tail) + n - (k + 1) = Len(tail) /\ Len(tail) > 0
        BY <1>1, <1>5, <2>2, <3>1, <3>4
      <4> QED BY <2>1, <3>2, <3>4, <4>1
    <3> QED BY <3>3, <3>4
  <2>5. SentinelAt(tail', p) /\ p \in DOMAIN tail'
    BY <1>1, <2>2, <2>3, <2>4 DEF SentinelAt
  <2>6. FindSentinel(tail')
    BY <1>3, <2>5 DEF FindSentinel
  <2> QED BY <1>2, <2>6 DEF OnOutput, FinishSoon
<1> QED BY <1>4, <1>5

LEMMA FinishInit == Init => FinishInv
<1> SUFFICES ASSUME Init PROVE FinishInv
  OBVIOUS
<1>1. tail = <<>> /\ sinceCode = Off
  BY DEF Init
<1>2. ~FindSentinel(tail)
  BY <1>1 DEF FindSentinel
<1> QED BY <1>1, <1>2 DEF FinishInv

LEMMA FinishStep ==
  TypeOK /\ TypeOK' /\ HonestInv /\ StreamInv /\ FinishInv /\ [Next]_vars => FinishInv'
<1> SUFFICES ASSUME TypeOK, TypeOK', HonestInv, StreamInv, FinishInv, [Next]_vars PROVE FinishInv'
  OBVIOUS
<1>1. CASE UNCHANGED <<marked, tail, pc, finishing, sinceCode>>
  BY <1>1 DEF FinishInv, FindSentinel, SentinelAt
<1>2. CASE pc' # "waiting"
  BY <1>2 DEF FinishInv
<1>3. CASE WaitAgain
  <2>1. CASE FindSentinel(tail)
    <3>1. pc' = "done"
      BY <1>3, <2>1 DEF WaitAgain, AnswerAtOnce
    <3> QED BY <1>2, <3>1
  <2>2. CASE ~FindSentinel(tail)
    <3>1. UNCHANGED <<marked, tail>> /\ sinceCode' = Off
      BY <1>3 DEF WaitAgain
    <3>2. ~FindSentinel(tail)'
      BY <2>2, <3>1 DEF FindSentinel, SentinelAt
    <3> QED BY <3>1, <3>2 DEF FinishInv
  <2> QED BY <2>1, <2>2
<1>4. ASSUME NEW n \in 1 .. Len(wire), Deliver(n), pc' = "waiting" PROVE FinishInv'
  <2>1. pc = "waiting" /\ OnOutput(tail') /\ marked' = marked
    BY <1>4 DEF Deliver
  <2>2. finishing \subseteq finishing'
    BY <2>1 DEF OnOutput, FinishSoon
  <2>3. FindSentinel(tail)' => finishing' # {}
    <3>1. FindSentinel(tail)' => FindSentinel(tail')
      BY <2>1 DEF FindSentinel, SentinelAt
    <3> QED BY <2>1, <3>1 DEF OnOutput, FinishSoon
  <2>4. ASSUME sinceCode' # Off PROVE \E f \in finishing' : f.left + sinceCode' <= FinishTicks
    <3>1. CASE sinceCode # Off
      <4>1. sinceCode' = sinceCode
        BY <1>4, <3>1 DEF Deliver
      <4> QED BY <2>1, <2>2, <3>1, <4>1 DEF FinishInv
    <3>2. CASE sinceCode = Off
      <4> DEFINE chunk == SubSeq(wire, 1, n)
      <4>1. Contains(chunk, "code") /\ sinceCode' = 0
        BY <1>4, <2>4, <3>2 DEF Deliver
      <4>2. n \in Nat /\ Len(wire) \in Nat /\ \A i \in 1 .. n : wire[i] \in Tokens
        BY LenProperties, ElementOfSeq DEF TypeOK
      <4>3. Len(chunk) = n /\ \A i \in 1 .. n : chunk[i] = wire[i]
        BY <4>2, SubSeqProperties
      <4> HIDE DEF chunk
      <4>4. PICK j \in 1 .. n : wire[j] = "code"
        BY <4>1, <4>3 DEF Contains
      <4>5. PICK f \in finishing' : TRUE
        BY <1>4, <2>1, <4>4, CodeSeen
      <4>6. f.left \in 0 .. FinishTicks
        BY <4>5 DEF TypeOK
      <4> QED BY <4>1, <4>5, <4>6, Sizes
    <3> QED BY <3>1, <3>2
  <2> QED BY <2>3, <2>4 DEF FinishInv
<1>5. ASSUME NEW reason, NEW exitCode, Finish(reason, exitCode) PROVE pc' # "waiting"
  BY <1>5 DEF Finish
<1>6. CASE Close \/ MaxTimerFires \/ IdleTimerFires \/ FinishTimerFires
  BY <1>2, <1>5, <1>6 DEF Close, MaxTimerFires, IdleTimerFires, FinishTimerFires
<1>7. CASE Tick /\ pc' = "waiting"
  <2>1. UNCHANGED <<marked, tail, pc>> /\ finishing' = {[f EXCEPT !.left = @ - 1] : f \in finishing}
    BY <1>7 DEF Tick
  <2>2. FindSentinel(tail)' => finishing' # {}
    <3>1. FindSentinel(tail)' => FindSentinel(tail)
      BY <2>1 DEF FindSentinel, SentinelAt
    <3> QED BY <1>7, <2>1, <3>1 DEF FinishInv
  <2>3. ASSUME sinceCode' # Off PROVE \E f \in finishing' : f.left + sinceCode' <= FinishTicks
    <3>1. sinceCode # Off
      BY <1>7, <2>3 DEF Tick, Off
    <3>2. PICK f \in finishing : f.left + sinceCode <= FinishTicks
      BY <1>7, <2>1, <3>1 DEF FinishInv
    <3>3. f.left \in 0 .. FinishTicks /\ sinceCode \in 0 .. FinishTicks + 1
      BY <3>1 DEF TypeOK
    <3>4. sinceCode' = sinceCode + 1
      BY <1>7, <3>2, <3>3, Sizes DEF Tick
    <3> DEFINE g == [f EXCEPT !.left = @ - 1]
    <3>0. f \in [left : 0 .. FinishTicks, reason : {"sentinel", "prompt"}, exitCode : BOOLEAN]
      BY DEF TypeOK
    <3>5. g \in finishing' /\ g.left = f.left - 1
      BY <2>1, <3>0
    <3> HIDE DEF g
    <3>6. g.left + sinceCode' <= FinishTicks
      BY <3>2, <3>3, <3>4, <3>5, Sizes
    <3> QED BY <3>5, <3>6
  <2> QED BY <2>2, <2>3 DEF FinishInv
<1> QED BY <1>1, <1>2, <1>3, <1>4, <1>6, <1>7 DEF Next, RemoteStep, RemotePrint, RemoteExit, RemoteBreak,
           TimerStep, vars
-----------------------------------------------------------------------------
Inv == TypeOK /\ HonestInv /\ IdleInv /\ StreamInv /\ FinishInv

LEMMA InvInit == Init => Inv
BY TypeInit, HonestInit, IdleInit, StreamInit, FinishInit DEF Inv

LEMMA InvStep == Inv /\ [Next]_vars => Inv'
BY TypeStep, HonestStep, IdleStep, StreamStep, FinishStep DEF Inv

(* The state stays within its types.                                       *)
THEOREM CompletionTyped == Spec => []TypeOK
<1>1. Inv => TypeOK
  BY DEF Inv
<1> QED BY <1>1, InvInit, InvStep, PTL DEF Spec

(* Once the exit code has come in, waitForCompletion is over within the    *)
(* 50 ms of its finish timer, however the output was cut into chunks.      *)
THEOREM SentinelAlwaysEnds == Spec => []SentinelEndsWait
<1>1. Inv => SentinelEndsWait
  <2> SUFFICES ASSUME Inv, pc = "waiting" PROVE sinceCode <= FinishTicks
    BY DEF SentinelEndsWait
  <2>1. CASE sinceCode = Off
    BY <2>1, Sizes DEF Off
  <2>2. CASE sinceCode # Off
    <3>1. PICK f \in finishing : f.left + sinceCode <= FinishTicks
      BY <2>2 DEF Inv, FinishInv
    <3>2. f.left \in 0 .. FinishTicks /\ sinceCode \in 0 .. FinishTicks + 1
      BY <2>2 DEF Inv, TypeOK
    <3> QED BY <3>1, <3>2, Sizes
  <2> QED BY <2>1, <2>2
<1> QED BY <1>1, InvInit, InvStep, PTL DEF Spec

(* The idle timer ends a wait on an open session only after as long a      *)
(* silence as the caller asked for.                                        *)
LEMMA IdleHonest ==
  ASSUME TypeOK, IdleInv, Next
  PROVE  IdleOnlyAfterSilence
<1> SUFFICES ASSUME pc = "waiting", pc' = "done", result'.reason = "idle", ~closed'
             PROVE  quiet >= IdleTicks
  BY DEF IdleOnlyAfterSilence
<1>1. CASE IdleTimerFires
  BY <1>1, Sizes DEF IdleTimerFires, IdleInv, TypeOK, Off
<1>2. CASE FinishTimerFires
  <2>1. PICK f \in finishing : Finish(f.reason, f.exitCode)
    BY <1>2 DEF FinishTimerFires
  <2>2. f.reason \in {"sentinel", "prompt"} /\ result'.reason = f.reason
    BY <2>1 DEF TypeOK, Finish
  <2> QED BY <2>2
<1>3. CASE MaxTimerFires
  BY <1>3 DEF MaxTimerFires, Finish
<1>4. CASE WaitAgain \/ RemoteStep \/ Close \/ Tick
  BY <1>4 DEF WaitAgain, RemoteStep, RemotePrint, RemoteExit, RemoteBreak, Deliver, Close, Tick
<1> QED BY <1>1, <1>2, <1>3, <1>4 DEF Next, TimerStep

(* Timers that fire after the answer change nothing.                       *)
LEMMA AnswerKept == Next => AnswerStays
<1> SUFFICES ASSUME Next, pc = "done", result.reason # "timeout" PROVE result' = result
  BY DEF AnswerStays
<1>1. CASE RemoteStep \/ Tick
  BY <1>1 DEF RemoteStep, RemotePrint, RemoteExit, RemoteBreak, Deliver, Tick
<1>2. CASE Close \/ MaxTimerFires \/ IdleTimerFires \/ FinishTimerFires
  BY <1>2 DEF Close, MaxTimerFires, IdleTimerFires, FinishTimerFires, Finish
<1> QED BY <1>1, <1>2 DEF Next, WaitAgain, TimerStep

(* What waitForCompletion answers is true when it answers, and stays.      *)
THEOREM ResultAlwaysHonest == Spec => ResultHonest
<1>1. Inv /\ [Next]_vars => [ExitCodeHonest' /\ IdleOnlyAfterSilence /\ AnswerStays]_vars
  <2> SUFFICES ASSUME Inv, Next PROVE ExitCodeHonest' /\ IdleOnlyAfterSilence /\ AnswerStays
    OBVIOUS
  <2>1. HonestInv'
    BY InvStep DEF Inv
  <2> QED BY <2>1, IdleHonest, AnswerKept DEF Inv, HonestInv
<1> QED BY <1>1, InvInit, InvStep, PTL DEF Spec, ResultHonest
=============================================================================
