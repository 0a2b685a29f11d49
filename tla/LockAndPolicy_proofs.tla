------------------------ MODULE LockAndPolicy_proofs ------------------------
(***************************************************************************)
(* What TLAPS proves about InputLock for any number of callers, viewers,   *)
(* retries and keys, and about PolicyRules for any rules, edits and calls. *)
(*                                                                         *)
(* 1. The draft part (types, draft bookkeeping, cached lock): DraftInv is  *)
(*    inductive, with or without the debug endpoints.                      *)
(* 2. RunsAccounted is inductive: an unfinished run is waited for or in    *)
(*    runningCommands.  NoCommandOverRunning follows from it.              *)
(* 3. Without the debug endpoints SlotInv is inductive; it gives the       *)
(*    single command slot, the protection of a running command from the    *)
(*    user's keys, and the refinement of CommandSlot.                      *)
(* 4. RulesInv is inductive: rules are kept one for each id, with the      *)
(*    defaults among them (DefaultsCovered).  Its rules have places in a   *)
(*    strict order, the one of the page and, unless a file has a "warn",   *)
(*    of validateCommand (VerdictAsShown).  With SavesOK, that what is     *)
(*    sent comes in levels, it gives SavedAsSent.                          *)
(***************************************************************************)
EXTENDS InputLock, PolicyRules, SequenceTheorems, FiniteSetTheorems, WellFoundedInduction, TLAPS

DraftInv ==
  /\ TypeOK
  /\ LineWithinDraft
  /\ closed => line = 0
  /\ DraftHasOwner
  /\ CachedLockFresh

(* The same key shortens or lengthens two lines alike: the shorter one     *)
(* stays the shorter one.                                                  *)
LEMMA KeyEffectMonotone ==
  ASSUME NEW k \in PlainKeys, NEW m \in Nat, NEW n \in Nat, m <= n
  PROVE  KeyEffect(k, m) \in Nat /\ KeyEffect(k, n) \in Nat /\ KeyEffect(k, m) <= KeyEffect(k, n)
  BY DEF KeyEffect, PlainKeys

(* A key of the user leaves a plain line within the draft it also changed. *)
LEMMA KeyOnLineWithin ==
  ASSUME NEW k \in Keys, NEW who \in Typists, NEW m \in 0 .. MaxDraft, KeyEffect(k, m) \in 0 .. MaxDraft,
         line \in 0 .. MaxDraft, plain \in BOOLEAN, plain => line <= m, KeyOnLine(k, who)
  PROVE  /\ plain' \in BOOLEAN /\ line' \in 0 .. MaxDraft /\ typist' \in Typists
         /\ plain' => line' <= KeyEffect(k, m)
<1>1. plain' \in BOOLEAN /\ typist' \in Typists
  BY DEF KeyOnLine, SetLine, Typists
<1>2. CASE plain'
  <2>1. line' = KeyEffect(k, line)
    BY <1>2 DEF KeyOnLine, SetLine
  <2> DEFINE Within == line' \in 0 .. MaxDraft /\ line' <= KeyEffect(k, m)
  <2>2. ASSUME k = "enter" PROVE Within
    BY <2>1, <2>2, BoundsAssumption DEF KeyEffect
  <2>3. ASSUME plain, k \in PlainKeys PROVE Within
    <3>1. line \in Nat /\ m \in Nat /\ line <= m
      BY <2>3, BoundsAssumption
    <3>2. KeyEffect(k, line) \in Nat /\ KeyEffect(k, line) <= KeyEffect(k, m)
      BY <2>3, <3>1, KeyEffectMonotone
    <3> QED
      BY <2>1, <3>2, BoundsAssumption
  <2>4. k = "enter" \/ (plain /\ k \in PlainKeys)
    BY <1>2 DEF KeyOnLine
  <2> HIDE DEF Within
  <2>5. Within
    BY <2>2, <2>3, <2>4
  <2> QED
    BY <1>1, <2>5 DEF Within
<1>3. CASE ~plain'
  BY <1>1, <1>3 DEF KeyOnLine, SetLine
<1> QED
  BY <1>2, <1>3

(* So does a control message that ends or erases: the draft stays.         *)
LEMMA ControlWithin ==
  ASSUME NEW k \in Keys \ {"char"}, NEW who \in Typists, NEW m \in 0 .. MaxDraft,
         line \in 0 .. MaxDraft, plain \in BOOLEAN, plain => line <= m, KeyOnLine(k, who)
  PROVE  /\ plain' \in BOOLEAN /\ line' \in 0 .. MaxDraft /\ typist' \in Typists
         /\ plain' => line' <= m
<1>1. plain' \in BOOLEAN /\ typist' \in Typists
  BY DEF KeyOnLine, SetLine, Typists
<1>2. CASE plain'
  <2>1. line' = KeyEffect(k, line)
    BY <1>2 DEF KeyOnLine, SetLine
  <2>2. k = "enter" \/ (plain /\ k \in {"erase", "ctrl_d"})
    BY <1>2 DEF KeyOnLine, PlainKeys
  <2> QED
    BY <1>1, <2>1, <2>2, BoundsAssumption DEF KeyEffect
<1>3. CASE ~plain'
  BY <1>1, <1>3 DEF KeyOnLine, SetLine
<1> QED
  BY <1>2, <1>3

(* And so does the agent, without a newline or with one.                   *)
LEMMA AgentOnLineWithin ==
  ASSUME NEW m \in 0 .. MaxDraft, line \in 0 .. MaxDraft, typist \in Typists, plain \in BOOLEAN,
         plain => line <= m, AgentOnLine
  PROVE  /\ plain' \in BOOLEAN /\ line' \in 0 .. MaxDraft /\ typist' \in Typists
         /\ plain' => line' <= m
         /\ line = 0 => line' = 0
<1>1. CASE EndLine
  BY <1>1, BoundsAssumption DEF EndLine, SetLine, Typists
<1>2. CASE line = 0 /\ UNCHANGED lineVars
  BY <1>2 DEF lineVars
<1>3. CASE line > 0 /\ plain' = FALSE /\ \E n \in 0 .. MaxDraft : SetLine(n, typist)
  <2>1. line' \in 0 .. MaxDraft /\ typist' \in Typists
    BY <1>3 DEF SetLine, Typists
  <2>2. plain' = FALSE /\ line # 0
    BY <1>3
  <2> QED
    BY <2>1, <2>2
<1> QED
  BY <1>1, <1>2, <1>3 DEF AgentOnLine

USE DEF sessionVars, draftVars, callVars, lineVars

LEMMA DraftInvInit == Init => DraftInv
<1> SUFFICES ASSUME Init PROVE DraftInv
  OBVIOUS
<1> USE DEF Init
<1>1. pc \in [Callers -> {"idle", "waiting", "delay"}]
  OBVIOUS
<1>2. NoRetry \in [attempt : 0 .. MaxRetries, mode : Modes, dangerous : BOOLEAN]
  BY BoundsAssumption DEF NoRetry, Modes
<1>3. retry \in [Retriers -> [attempt : 0 .. MaxRetries, mode : Modes, dangerous : BOOLEAN]]
  BY <1>2
<1>4. /\ agentInputActive \in BOOLEAN /\ userDraftActive \in BOOLEAN /\ closed \in BOOLEAN
      /\ ~closed /\ ~userDraftActive
  OBVIOUS
<1>5. TypeOK
  BY <1>1, <1>3, <1>4, BoundsAssumption DEF TypeOK, Policies, Modes, Typists, Writes
<1>6. LineWithinDraft /\ DraftHasOwner
  BY <1>4 DEF LineWithinDraft, DraftHasOwner
<1>7. CachedLockFresh
  BY <1>4 DEF CachedLockFresh, PolicyInputLock
<1> QED
  BY <1>4, <1>5, <1>6, <1>7 DEF DraftInv

LEMMA DraftInvViewer ==
  ASSUME DraftInv, ViewerStep
  PROVE  DraftInv'
<1> USE BoundsAssumption
    DEF DraftInv, TypeOK, LineWithinDraft, DraftHasOwner, CachedLockFresh, PolicyInputLock,
        Policies, Modes, Typists, Writes, SetUserDraftActive
<1>1. ASSUME NEW v \in Viewers, Attach(v) PROVE DraftInv'
  BY <1>1 DEF Attach
<1>2. ASSUME NEW v \in Viewers, Detach(v) PROVE DraftInv'
  BY <1>2 DEF Detach, SetViewerDraftState
<1>3. ASSUME NEW v \in Viewers, NEW drafting \in BOOLEAN, DraftState(v, drafting) PROVE DraftInv'
  BY <1>3 DEF DraftState, SetViewerDraftState
<1>4. ASSUME NEW who \in Typists, NEW k \in Keys, UserInput(who, k) PROVE DraftInv'
  <2>1. KeyEffect(k, userDraft) \in 0 .. MaxDraft
    BY <1>4 DEF UserInput, KeyEffect
  <2>2. /\ userDraft' = KeyEffect(k, userDraft)
        /\ userDraftActive' = (userDraft' > 0 \/ draftViewers # {})
        /\ inputLock' = PolicyInputLock(lockPolicy, userDraftActive')
        /\ draftViewers' = draftViewers
    BY <1>4 DEF UserInput, NoteUserDraftDelta
  <2>3. /\ plain' => line' <= userDraft'
        /\ line' \in 0 .. MaxDraft /\ typist' \in Typists /\ plain' \in BOOLEAN
    <3>1. CASE closed
      BY <1>4, <2>1, <2>2, <3>1 DEF UserInput
    <3>2. CASE ~closed
      BY <1>4, <2>1, <2>2, <3>2, KeyOnLineWithin DEF UserInput
    <3> QED
      BY <3>1, <3>2
  <2>4. closed' = closed /\ (closed => line' = 0) /\ wire' \in Writes
    BY <1>4 DEF UserInput
  <2>5. userDraftActive' \in BOOLEAN /\ (userDraftActive' => userDraft' > 0 \/ draftViewers' # {})
    BY <2>2
  <2> QED
    BY <1>4, <2>1, <2>2, <2>3, <2>4, <2>5 DEF UserInput
<1>5. ASSUME NEW v \in Viewers, NEW k \in Keys \ {"char"}, ViewerControl(v, k) PROVE DraftInv'
  <2>1. /\ plain' => line' <= userDraft
        /\ line' \in 0 .. MaxDraft /\ typist' \in Typists /\ plain' \in BOOLEAN
    BY <1>5, ControlWithin DEF ViewerControl
  <2> QED
    BY <1>5, <2>1 DEF ViewerControl
<1>6. ASSUME NEW p \in Policies, SetLockPolicy(p) PROVE DraftInv'
  BY <1>6 DEF SetLockPolicy
<1>7. ASSUME NEW m \in Modes, SetOperationMode(m) PROVE DraftInv'
  BY <1>7 DEF SetOperationMode
<1> QED
  BY <1>1, <1>2, <1>3, <1>4, <1>5, <1>6, <1>7 DEF ViewerStep, ViewerInput, HttpInput

LEMMA DraftInvRun ==
  ASSUME DraftInv, NEW c \in Runners, RunStep(c)
  PROVE  DraftInv'
<1> USE BoundsAssumption
    DEF DraftInv, TypeOK, LineWithinDraft, DraftHasOwner, CachedLockFresh, PolicyInputLock,
        Policies, Modes, Typists, Writes, Callers, EndLine, SetLine
<1>1. ASSUME NEW d \in BOOLEAN, RunStart(c, d) PROVE DraftInv'
  BY <1>1 DEF RunStart, TypeCommand
<1>2. ASSUME NEW d \in BOOLEAN, RunStartDetached(c, d) PROVE DraftInv'
  BY <1>2 DEF RunStartDetached, TypeCommand
<1>3. CASE RunComplete(c)
  BY <1>3 DEF RunComplete, EndWait, ReleaseAgentLock
<1>4. CASE RunTimeout(c)
  BY <1>4 DEF RunTimeout, EndWait, ReleaseAgentLock
<1> QED
  BY <1>1, <1>2, <1>3, <1>4 DEF RunStep

LEMMA DraftInvRetry ==
  ASSUME DraftInv, NEW c \in Retriers, RetryStep(c)
  PROVE  DraftInv'
<1> DEFINE Entry == [attempt : 0 .. MaxRetries, mode : Modes, dangerous : BOOLEAN]
<1>0. NoRetry \in Entry
  BY BoundsAssumption DEF NoRetry, Modes
<1>a. ASSUME NEW n \in 0 .. MaxRetries, NEW m \in Modes, NEW d \in BOOLEAN, Attempt(c, n, m, d)
      PROVE  DraftInv'
  <2>1. retry' \in [Retriers -> Entry]
    BY <1>a DEF Attempt, DraftInv, TypeOK
  <2> QED
    BY <1>a, <2>1, BoundsAssumption
    DEF Attempt, TypeCommand, DraftInv, TypeOK, LineWithinDraft, DraftHasOwner, CachedLockFresh,
        PolicyInputLock, Policies, Modes, Typists, Writes, Callers, EndLine, SetLine
<1>b. retry[c].attempt \in 0 .. MaxRetries /\ retry[c].mode \in Modes /\ retry[c].dangerous \in BOOLEAN
  BY DEF DraftInv, TypeOK
<1>1. ASSUME NEW d \in BOOLEAN, RetryStart(c, d) PROVE DraftInv'
  BY <1>a, <1>1, BoundsAssumption DEF RetryStart, DraftInv, TypeOK
<1>2. CASE RetryAttempt(c)
  BY <1>a, <1>b, <1>2 DEF RetryAttempt
<1> USE BoundsAssumption
    DEF DraftInv, TypeOK, LineWithinDraft, DraftHasOwner, CachedLockFresh, PolicyInputLock,
        Policies, Modes, Typists, Writes, Callers
<1>3. CASE RetryBlocked(c)
  BY <1>0, <1>3 DEF RetryBlocked
<1>4. ASSUME NEW t \in BOOLEAN, RetryReturn(c, t) PROVE DraftInv'
  BY <1>0, <1>4 DEF RetryReturn, EndWait, ReleaseAgentLock
<1>5. ASSUME NEW t \in BOOLEAN, RetryAgain(c, t) PROVE DraftInv'
  <2>1. retry' \in [Retriers -> Entry]
    <3>1. CASE retry[c].attempt < MaxRetries
      <4>1. [retry[c] EXCEPT !.attempt = @ + 1] \in Entry
        BY <1>b, <3>1
      <4>2. retry' = [retry EXCEPT ![c] = [retry[c] EXCEPT !.attempt = @ + 1]]
        BY <1>5, <3>1 DEF RetryAgain
      <4> QED
        BY <4>1, <4>2
    <3>2. CASE ~(retry[c].attempt < MaxRetries)
      BY <1>0, <1>5, <3>2 DEF RetryAgain
    <3> QED
      BY <3>1, <3>2
  <2>2. pc' \in [Callers -> {"idle", "waiting", "delay"}]
    BY <1>5 DEF RetryAgain
  <2>3. unfinished' \subseteq Callers
    BY <1>5 DEF RetryAgain
  <2> QED
    BY <1>5, <2>1, <2>2, <2>3 DEF RetryAgain, EndWait, ReleaseAgentLock
<1> QED
  BY <1>1, <1>2, <1>3, <1>4, <1>5 DEF RetryStep

LEMMA DraftInvServer ==
  ASSUME DraftInv, ServerStep
  PROVE  DraftInv'
<1> USE BoundsAssumption
    DEF DraftInv, TypeOK, LineWithinDraft, DraftHasOwner, CachedLockFresh, PolicyInputLock,
        Policies, Modes, Typists, Writes, Callers, EndLine, SetLine
<1>1. CASE SessionSend
  BY <1>1, AgentOnLineWithin DEF SessionSend
<1>2. CASE DebugAgentInput
  BY <1>2 DEF DebugAgentInput
<1>3. CASE DebugControl
  BY <1>3, AgentOnLineWithin DEF DebugControl
<1>4. CASE Finalize
  <2>1. line' = 0 /\ closed' \in BOOLEAN /\ agentInputActive' \in BOOLEAN
    BY <1>4 DEF Finalize
  <2> QED
    BY <1>4, <2>1 DEF Finalize
<1>5. CASE Close
  <2>1. line' = 0 /\ closed' \in BOOLEAN /\ agentInputActive' \in BOOLEAN
    BY <1>5 DEF Close
  <2>2. userDraft' = 0 /\ draftViewers' = {} /\ userDraftActive' \in BOOLEAN /\ ~userDraftActive'
    BY <1>5 DEF Close, ClearUserDraft, SetUserDraftActive
  <2>3. inputLock' = PolicyInputLock(lockPolicy, FALSE)
    BY <1>5 DEF Close, ClearUserDraft, SetUserDraftActive
  <2> QED
    BY <1>5, <2>1, <2>2, <2>3 DEF Close
<1>6. ASSUME NEW c \in Callers, SettleTracked(c) PROVE DraftInv'
  BY <1>6 DEF SettleTracked
<1>7. ASSUME NEW c \in Callers, RemoteFinish(c) PROVE DraftInv'
  BY <1>7 DEF RemoteFinish
<1> QED
  BY <1>1, <1>2, <1>3, <1>4, <1>5, <1>6, <1>7 DEF ServerStep

(* The draft part is inductive: however keys, draft messages, departures,  *)
(* policy changes and commands interleave.                                 *)
THEOREM DraftInvariant == Spec => []DraftInv
<1>1. DraftInv /\ [Next]_vars => DraftInv'
  <2> SUFFICES ASSUME DraftInv, [Next]_vars PROVE DraftInv'
    OBVIOUS
  <2>1. CASE Next
    BY <2>1, DraftInvViewer, DraftInvRun, DraftInvRetry, DraftInvServer DEF Next
  <2>2. CASE UNCHANGED vars
    BY <2>2 DEF vars, DraftInv, TypeOK, LineWithinDraft, DraftHasOwner, CachedLockFresh
  <2> QED
    BY <2>1, <2>2
<1> QED
  BY <1>1, DraftInvInit, PTL DEF Spec

(* setUserDraftActive, noteUserDraftDelta and the tool calls keep every    *)
(* field in its type, and the draft length at or above zero.               *)
THEOREM TypeCorrect == Spec => []TypeOK
  BY DraftInvariant, PTL DEF DraftInv

(* A viewer that leaves never leaves the auto lock held behind it.         *)
THEOREM DraftAlwaysHasOwner == Spec => []DraftHasOwner
  BY DraftInvariant, PTL DEF DraftInv

(* The user's line on the remote terminal is never longer than the draft   *)
(* the session believes in.                                                *)
THEOREM LineAlwaysWithinDraft == Spec => []LineWithinDraft
  BY DraftInvariant, PTL DEF DraftInv

(* The cached field inputLock is what computePolicyInputLock would return. *)
THEOREM CachedLockAlwaysFresh == Spec => []CachedLockFresh
  BY DraftInvariant, PTL DEF DraftInv
-----------------------------------------------------------------------------
(* Running commands are accounted for, with or without the debug endpoints. *)

RunsAccounted == unfinished \cap Runners \subseteq Waiting \cup tracked

LEMMA AccountedStep ==
  ASSUME TypeOK, RunsAccounted, [Next]_vars
  PROVE  RunsAccounted'
<1> USE DEF RunsAccounted
<1>0. pc \in [Callers -> {"idle", "waiting", "delay"}] /\ unfinished \subseteq Callers
  BY DEF TypeOK
<1>1. ASSUME UNCHANGED <<pc, tracked, unfinished>> PROVE RunsAccounted'
  BY <1>1 DEF Waiting
<1>2. ASSUME NEW c \in Callers, pc' = [pc EXCEPT ![c] = "waiting"], unfinished' = unfinished \cup {c},
             tracked' = tracked
      PROVE  RunsAccounted'
  BY <1>0, <1>2 DEF Waiting
<1>3. ASSUME NEW c \in Callers, NEW status, pc' = [pc EXCEPT ![c] = status],
             c \in tracked' \/ c \notin unfinished' \/ c \notin Runners \/ pc[c] # "waiting",
             unfinished' \subseteq unfinished, tracked \subseteq tracked'
      PROVE  RunsAccounted'
  BY <1>0, <1>3 DEF Waiting
<1>4. CASE ViewerStep
  BY <1>1, <1>4
  DEF ViewerStep, Attach, Detach, DraftState, ViewerInput, HttpInput, UserInput, ViewerControl,
      SetLockPolicy, SetOperationMode
<1>5. ASSUME NEW c \in Runners, RunStep(c) PROVE RunsAccounted'
  <2>0. c \in Callers
    BY DEF Callers
  <2>1. ASSUME NEW d \in BOOLEAN, RunStart(c, d) PROVE RunsAccounted'
    BY <1>2, <2>0, <2>1 DEF RunStart, TypeCommand
  <2>2. ASSUME NEW d \in BOOLEAN, RunStartDetached(c, d) PROVE RunsAccounted'
    BY <2>2 DEF RunStartDetached, TypeCommand, Waiting
  <2>3. CASE RunComplete(c)
    BY <1>3, <2>0, <2>3 DEF RunComplete
  <2>4. CASE RunTimeout(c)
    BY <1>3, <2>0, <2>4 DEF RunTimeout
  <2> QED
    BY <1>5, <2>1, <2>2, <2>3, <2>4 DEF RunStep
<1>6. ASSUME NEW c \in Retriers, RetryStep(c) PROVE RunsAccounted'
  <2>0. c \in Callers /\ c \notin Runners
    BY CallersAssumption DEF Callers
  <2>1. ASSUME NEW d \in BOOLEAN, RetryStart(c, d) \/ RetryAttempt(c) PROVE RunsAccounted'
    BY <1>2, <2>0, <2>1 DEF RetryStart, RetryAttempt, Attempt, TypeCommand
  <2>2. CASE RetryBlocked(c)
    BY <1>3, <2>0, <2>2 DEF RetryBlocked
  <2>3. ASSUME NEW t \in BOOLEAN, RetryReturn(c, t) \/ RetryAgain(c, t) PROVE RunsAccounted'
    <3>1. \E status : pc' = [pc EXCEPT ![c] = status]
      BY <2>3 DEF RetryReturn, RetryAgain
    <3>2. unfinished' \subseteq unfinished /\ tracked' = tracked
      BY <2>3 DEF RetryReturn, RetryAgain
    <3> QED
      BY <1>3, <2>0, <3>1, <3>2
  <2> QED
    BY <1>6, <2>1, <2>2, <2>3 DEF RetryStep
<1>7. CASE ServerStep
  <2>1. CASE SessionSend \/ DebugAgentInput \/ DebugControl \/ Finalize \/ Close
    BY <1>1, <2>1 DEF SessionSend, DebugAgentInput, DebugControl, Finalize, Close
  <2>2. ASSUME NEW c \in Callers, SettleTracked(c) \/ RemoteFinish(c) PROVE RunsAccounted'
    BY <2>2 DEF SettleTracked, RemoteFinish, Waiting
  <2> QED
    BY <1>7, <2>1, <2>2 DEF ServerStep
<1>8. CASE UNCHANGED vars
  BY <1>1, <1>8 DEF vars
<1> QED
  BY <1>4, <1>5, <1>6, <1>7, <1>8 DEF Next

(* No step types a command while a run reported as still running goes on:  *)
(* the AGENT_BUSY guard sees its entry.                                    *)
THEOREM NoCommandOverARunningOne == Spec => NoCommandOverRunning
<1> DEFINE Safe == wire' \in {"command", "dangerous"} => (unfinished \cap Runners) \ Waiting = {}
<1>1. ASSUME RunsAccounted, Next
      PROVE  Safe
  <2>1. ASSUME NEW m, NEW d, MayType(m, d) PROVE Safe
    BY <1>1, <2>1 DEF MayType, AgentBusy, RunsAccounted
  <2>2. CASE ViewerStep
    BY <2>2
    DEF ViewerStep, Attach, Detach, DraftState, ViewerInput, HttpInput, UserInput, ViewerControl,
        SetLockPolicy, SetOperationMode
  <2>3. ASSUME NEW c \in Runners, RunStep(c)
        PROVE  Safe
    <3>1. CASE RunComplete(c) \/ RunTimeout(c)
      BY <3>1 DEF RunComplete, RunTimeout, EndWait
    <3> HIDE DEF Safe
    <3> QED
      BY <2>1, <2>3, <3>1 DEF RunStep, RunStart, RunStartDetached
  <2>4. ASSUME NEW c \in Retriers, RetryStep(c)
        PROVE  Safe
    <3>1. ASSUME NEW t \in BOOLEAN, RetryBlocked(c) \/ RetryReturn(c, t) \/ RetryAgain(c, t) PROVE Safe
      BY <3>1 DEF RetryBlocked, RetryReturn, RetryAgain, EndWait
    <3> HIDE DEF Safe
    <3> QED
      BY <2>1, <2>4, <3>1 DEF RetryStep, RetryStart, RetryAttempt, Attempt
  <2>5. CASE ServerStep
    BY <2>5
    DEF ServerStep, SessionSend, DebugAgentInput, DebugControl, Finalize, Close, SettleTracked,
        RemoteFinish
  <2> QED
    BY <1>1, <2>2, <2>3, <2>4, <2>5 DEF Next
<1>2. RunsAccounted /\ [Next]_vars => [Safe]_vars
  BY <1>1
<1>3. Init => RunsAccounted
  BY DEF Init, RunsAccounted
<1>4. Spec => []RunsAccounted
  BY <1>3, TypeCorrect, AccountedStep, PTL DEF Spec
<1>5. Spec => [][Safe]_vars
  <2> HIDE DEF Safe
  <2> QED
    BY <1>2, <1>4, PTL DEF Spec
<1> QED
  BY <1>5 DEF NoCommandOverRunning

-----------------------------------------------------------------------------
(* The single command slot, without the debug endpoints: DebugAgentInput   *)
(* resets the agent flag under the feet of a waiting command, and the run  *)
(* InputLockDebug shows the slot broken by it.  Neither half of SlotInv is *)
(* inductive alone: a second caller is kept out by the flag, and the flag  *)
(* stays up because no second caller exists to reset it.                   *)

SlotInv == TypeOK /\ WaitingHoldsLock /\ OneCommandInFlight

(* The slot as it is held, whatever the debug mode.                         *)
Held == INSTANCE CommandSlot WITH foreground <- Waiting, background <- tracked

NoSlotChange == /\ Waiting' = Waiting /\ tracked' = tracked
                /\ closed => closed'
                /\ ~closed' => agentInputActive' = agentInputActive

(* A call that may type finds nobody in the slot.                          *)
LEMMA FreeWhenMayType ==
  ASSUME SlotInv, NEW m, NEW d, MayType(m, d)
  PROVE  Waiting = {} /\ tracked = {} /\ ~closed
  BY DEF SlotInv, WaitingHoldsLock, MayType, AgentBusy

(* A call that waits has the slot for itself, and leaves it empty.         *)
LEMMA LastWaiter ==
  ASSUME SlotInv, NEW c \in Callers, EndWait(c),
         NEW status \in {"idle", "delay"}, pc' = [pc EXCEPT ![c] = status]
  PROVE  Waiting = {c} /\ tracked = {} /\ Waiting' = {}
<1>1. c \in Waiting
  BY DEF EndWait, Waiting
<1>2. Waiting = {c} /\ tracked = {}
  BY <1>1 DEF SlotInv, OneCommandInFlight
<1>3. ASSUME NEW d \in Callers PROVE pc'[d] # "waiting"
  <2>1. CASE d = c
    BY <2>1 DEF SlotInv, TypeOK
  <2>2. CASE d # c
    BY <1>2, <2>2 DEF SlotInv, TypeOK, Waiting
  <2> QED
    BY <2>1, <2>2
<1> QED
  BY <1>2, <1>3 DEF Waiting

(* A call that types its command and waits is the only one that waits.     *)
LEMMA FirstWaiter ==
  ASSUME TypeOK, Waiting = {}, NEW c \in Callers, pc' = [pc EXCEPT ![c] = "waiting"]
  PROVE  Waiting' = {c}
  BY DEF TypeOK, Waiting

(* Every step leaves the slot alone or is one of the steps of CommandSlot, *)
(* and the flag is up whenever the slot holds a waiting caller.            *)
LEMMA SlotStep ==
  ASSUME SlotInv, Next, ~debugMode
  PROVE  \/ NoSlotChange
         \/ /\ Held!SlotNext
            /\ Waiting' = {} \/ agentInputActive'
<1> DEFINE Goal == NoSlotChange \/ (Held!SlotNext /\ (Waiting' = {} \/ agentInputActive'))
<1>1. CASE ViewerStep
  <2>1. UNCHANGED <<pc, tracked, closed, agentInputActive>>
    BY <1>1
    DEF ViewerStep, Attach, Detach, DraftState, ViewerInput, HttpInput, UserInput, ViewerControl,
        SetLockPolicy, SetOperationMode
  <2> QED
    BY <2>1 DEF NoSlotChange, Waiting
<1>2. ASSUME NEW c \in Runners, RunStep(c) PROVE Goal
  <2>0. c \in Callers
    BY DEF Callers
  <2>1. ASSUME NEW d \in BOOLEAN, RunStart(c, d) PROVE Goal
    <3>1. Waiting = {} /\ tracked = {}
      BY <2>1, FreeWhenMayType DEF RunStart
    <3>2. Waiting' = {c}
      BY <2>0, <2>1, <3>1, FirstWaiter DEF RunStart, SlotInv
    <3>3. Held!Take(c)
      BY <2>1, <3>1, <3>2 DEF RunStart, Held!Take, Held!SlotFree
    <3> QED
      BY <2>0, <2>1, <3>3 DEF RunStart, Held!SlotNext
  <2>2. ASSUME NEW d \in BOOLEAN, RunStartDetached(c, d) PROVE Goal
    <3>1. Waiting = {} /\ tracked = {}
      BY <2>2, FreeWhenMayType DEF RunStartDetached
    <3>2. Waiting' = {} /\ tracked' = {c}
      BY <2>2, <3>1 DEF RunStartDetached, Waiting
    <3>3. Held!TakeDetached(c)
      BY <3>1, <3>2 DEF Held!TakeDetached, Held!SlotFree
    <3> QED
      BY <2>0, <3>2, <3>3 DEF Held!SlotNext
  <2>3. CASE RunComplete(c)
    <3>1. Waiting = {c} /\ Waiting' = {} /\ tracked' = tracked
      BY <2>0, <2>3, LastWaiter DEF RunComplete
    <3> QED
      BY <2>0, <3>1 DEF Held!SlotNext, Held!Release
  <2>4. CASE RunTimeout(c)
    <3>1. Waiting = {c} /\ tracked = {} /\ Waiting' = {} /\ tracked' = {c}
      BY <2>0, <2>4, LastWaiter DEF RunTimeout
    <3> QED
      BY <2>0, <3>1 DEF Held!SlotNext, Held!Park
  <2> QED
    BY <1>2, <2>1, <2>2, <2>3, <2>4 DEF RunStep
<1>3. ASSUME NEW c \in Retriers, RetryStep(c) PROVE Goal
  <2>0. c \in Callers
    BY DEF Callers
  <2>a. ASSUME NEW n, NEW m, NEW d, Attempt(c, n, m, d) PROVE Goal
    <3>1. Waiting = {} /\ tracked = {}
      BY <2>a, FreeWhenMayType DEF Attempt
    <3>2. Waiting' = {c}
      BY <2>0, <2>a, <3>1, FirstWaiter DEF Attempt, SlotInv
    <3>3. Held!Take(c)
      BY <2>a, <3>1, <3>2 DEF Attempt, Held!Take, Held!SlotFree
    <3> QED
      BY <2>0, <2>a, <3>3 DEF Attempt, Held!SlotNext
  <2>1. ASSUME NEW d \in BOOLEAN, RetryStart(c, d) PROVE Goal
    BY <2>a, <2>1 DEF RetryStart
  <2>2. CASE RetryAttempt(c)
    BY <2>a, <2>2 DEF RetryAttempt
  <2>3. CASE RetryBlocked(c)
    <3>1. Waiting' = Waiting
      BY <2>0, <2>3 DEF RetryBlocked, SlotInv, TypeOK, Waiting
    <3> QED
      BY <2>3, <3>1 DEF RetryBlocked, NoSlotChange
  <2>4. ASSUME NEW t \in BOOLEAN, RetryReturn(c, t) PROVE Goal
    <3>1. Waiting = {c} /\ Waiting' = {} /\ tracked' = tracked
      BY <2>0, <2>4, LastWaiter DEF RetryReturn
    <3> QED
      BY <2>0, <3>1 DEF Held!SlotNext, Held!Release
  <2>5. ASSUME NEW t \in BOOLEAN, RetryAgain(c, t) PROVE Goal
    <3>1. \E status \in {"idle", "delay"} : pc' = [pc EXCEPT ![c] = status]
      BY <2>5 DEF RetryAgain
    <3>2. Waiting = {c} /\ Waiting' = {} /\ tracked' = tracked
      BY <2>0, <2>5, <3>1, LastWaiter DEF RetryAgain
    <3> QED
      BY <2>0, <3>2 DEF Held!SlotNext, Held!Release
  <2> QED
    BY <1>3, <2>1, <2>2, <2>3, <2>4, <2>5 DEF RetryStep
<1>4. CASE ServerStep
  <2>1. CASE SessionSend \/ DebugAgentInput \/ DebugControl
    BY <2>1 DEF SessionSend, DebugAgentInput, DebugControl, NoSlotChange, Waiting
  <2>2. CASE Finalize \/ Close
    BY <2>2 DEF Finalize, Close, NoSlotChange, Waiting
  <2>3. ASSUME NEW c \in Callers, SettleTracked(c) PROVE Goal
    <3>1. Waiting = {} /\ tracked = {c}
      BY <2>3 DEF SettleTracked, SlotInv, OneCommandInFlight, Waiting
    <3>2. Waiting' = {} /\ tracked' = {}
      BY <2>3, <3>1 DEF SettleTracked, Waiting
    <3> QED
      BY <3>1, <3>2 DEF Held!SlotNext, Held!Settle
  <2>4. ASSUME NEW c \in Callers, RemoteFinish(c) PROVE Goal
    BY <2>4 DEF RemoteFinish, NoSlotChange, Waiting
  <2> QED
    BY <1>4, <2>1, <2>2, <2>3, <2>4 DEF ServerStep
<1> QED
  BY <1>1, <1>2, <1>3, <1>4 DEF Next

(* The debug mode is set once, when the server starts.                     *)
LEMMA DebugModeFixed ==
  ASSUME Next
  PROVE  debugMode' = debugMode
<1>1. CASE ViewerStep
  BY <1>1
  DEF ViewerStep, Attach, Detach, DraftState, ViewerInput, HttpInput, UserInput, ViewerControl,
      SetLockPolicy, SetOperationMode
<1>2. ASSUME NEW c \in Runners, RunStep(c) PROVE debugMode' = debugMode
  BY <1>2 DEF RunStep, RunStart, RunStartDetached, RunComplete, RunTimeout, EndWait
<1>3. ASSUME NEW c \in Retriers, RetryStep(c) PROVE debugMode' = debugMode
  BY <1>3
  DEF RetryStep, RetryStart, RetryAttempt, RetryBlocked, RetryReturn, RetryAgain, Attempt, EndWait
<1>4. CASE ServerStep
  BY <1>4
  DEF ServerStep, SessionSend, DebugAgentInput, DebugControl, Finalize, Close, SettleTracked,
      RemoteFinish
<1> QED
  BY <1>1, <1>2, <1>3, <1>4 DEF Next

(* In one session the server never has two commands in flight, whoever     *)
(* calls ssh-run or ssh-retry and whatever the viewers do.                 *)
THEOREM SlotInvariant == Spec => [](debugMode \/ SlotInv)
<1>1. Init => SlotInv
  BY DraftInvInit
  DEF Init, SlotInv, DraftInv, WaitingHoldsLock, OneCommandInFlight, Waiting
<1>2. (debugMode \/ SlotInv) /\ TypeOK' /\ [Next]_vars => (debugMode \/ SlotInv)'
  <2> SUFFICES ASSUME ~debugMode, SlotInv, TypeOK', [Next]_vars PROVE SlotInv'
    BY DebugModeFixed DEF vars
  <2>1. CASE NoSlotChange
    BY <2>1 DEF NoSlotChange, SlotInv, WaitingHoldsLock, OneCommandInFlight
  <2>2. CASE Held!SlotNext /\ (Waiting' = {} \/ agentInputActive')
    BY <2>2
    DEF SlotInv, WaitingHoldsLock, OneCommandInFlight, Held!SlotNext, Held!Take, Held!TakeDetached,
        Held!Park, Held!Release, Held!Settle, Held!SlotFree
  <2>3. CASE UNCHANGED vars
    BY <2>3 DEF vars, NoSlotChange, SlotInv, WaitingHoldsLock, OneCommandInFlight, Waiting
  <2> QED
    BY <2>1, <2>2, <2>3, SlotStep
<1> QED
  BY <1>1, <1>2, TypeCorrect, PTL DEF Spec

(* The agent flag is up whenever a caller of an open session waits.        *)
THEOREM WaitingAlwaysHoldsLock == Spec => [](debugMode \/ WaitingHoldsLock)
  BY SlotInvariant, PTL DEF SlotInv

(* At most one command in flight, waited for or tracked.                   *)
THEOREM AtMostOneCommand == Spec => [](debugMode \/ OneCommandInFlight)
  BY SlotInvariant, PTL DEF SlotInv

(* A key of a user, typed, posted or sent as a control message, never      *)
(* reaches the terminal while a foreground command waits for its output.   *)
THEOREM KeysStayOutOfCommands == Spec => NoUserKeysIntoCommand
<1>1. ASSUME SlotInv, Next, wire' = "user" PROVE Waiting = {}
  <2>1. ~closed /\ EffectiveInputLock # "agent"
    <3>1. CASE ViewerStep
      BY <1>1, <3>1
      DEF ViewerStep, Attach, Detach, DraftState, ViewerInput, HttpInput, UserInput, ViewerControl,
          SetLockPolicy, SetOperationMode
    <3>2. ASSUME NEW c \in Runners, RunStep(c) PROVE FALSE
      BY <1>1, <3>2
      DEF RunStep, RunStart, RunStartDetached, RunComplete, RunTimeout, EndWait, TypeCommand
    <3>3. ASSUME NEW c \in Retriers, RetryStep(c) PROVE FALSE
      BY <1>1, <3>3
      DEF RetryStep, RetryStart, RetryAttempt, RetryBlocked, RetryReturn, RetryAgain, Attempt,
          EndWait, TypeCommand
    <3>4. CASE ServerStep
      BY <1>1, <3>4
      DEF ServerStep, SessionSend, DebugAgentInput, DebugControl, Finalize, Close, SettleTracked,
          RemoteFinish
    <3> QED
      BY <1>1, <3>1, <3>2, <3>3, <3>4 DEF Next
  <2> QED
    BY <1>1, <2>1 DEF EffectiveInputLock, SlotInv, WaitingHoldsLock
<1>2. (debugMode \/ SlotInv) /\ [Next]_vars => [wire' = "user" => debugMode \/ Waiting = {}]_vars
  BY <1>1
<1> QED
  BY <1>2, SlotInvariant, PTL DEF Spec, NoUserKeysIntoCommand

(* The lock, the tracking of commands and the calls together implement the *)
(* single command slot.                                                    *)
THEOREM ImplementsSlot == Spec => ImplementsCommandSlot
<1>1. Init => Slot!SlotInit
  BY DEF Init, Slot!SlotInit, Waiting
<1>2. (debugMode \/ SlotInv) /\ [Next]_vars => [Slot!SlotNext]_(Slot!slotVars)
  <2> SUFFICES ASSUME debugMode \/ SlotInv, [Next]_vars
               PROVE  Slot!SlotNext \/ UNCHANGED Slot!slotVars
    OBVIOUS
  <2>1. CASE UNCHANGED vars
    BY <2>1 DEF vars, Slot!slotVars, Waiting
  <2>2. CASE debugMode /\ Next
    BY <2>2, DebugModeFixed DEF Slot!slotVars
  <2>3. CASE ~debugMode /\ Next
    <3>1. ~debugMode /\ ~debugMode'
      BY <2>3, DebugModeFixed
    <3>2. CASE NoSlotChange
      BY <3>1, <3>2 DEF NoSlotChange, Slot!slotVars
    <3>3. CASE Held!SlotNext
      BY <3>1, <3>3
      DEF Held!SlotNext, Held!Take, Held!TakeDetached, Held!Park, Held!Release, Held!Settle,
          Held!SlotFree, Slot!SlotNext, Slot!Take, Slot!TakeDetached, Slot!Park, Slot!Release,
          Slot!Settle, Slot!SlotFree
    <3> QED
      BY <2>3, <3>2, <3>3, SlotStep
  <2> QED
    BY <2>1, <2>2, <2>3
<1> QED
  BY <1>1, <1>2, SlotInvariant, PTL DEF Spec, ImplementsCommandSlot, Slot!SlotSpec

HIDE DEF sessionVars, draftVars, callVars, lineVars

----------------------------------------------------------------------------
(* PolicyRules                                                             *)

SessionRules == [source : {"default", "session"}, id : Nat \ {NoId}, enabled : BOOLEAN, mode : FieldValues.mode,
                 pattern : FieldValues.pattern, action : DOMAIN NormalAction, priority : Nat]

(* The rules of a session: no two with one id. *)
RuleSet(rules) == rules \in SUBSET SessionRules /\ IsFiniteSet(rules) /\ OnePerId(rules)

(* The files have rules with ids of their own, the session has its         *)
(* defaults and a rule for each of their ids, and what the page has and    *)
(* sends are rows.                                                         *)
FilesOK ==
  /\ files \in [Scopes -> SUBSET Rules]
  /\ \A scope \in Scopes : IsFiniteSet(files[scope]) /\ OnePerId(files[scope])
SessionOK == RuleSet(defaults) /\ RuleSet(active) /\ Ids(defaults) \subseteq Ids(active)
FetchOK(f) == f.sent \in Seq(Rows) /\ (f.answer = NoAnswer \/ RuleSet(f.answer))
PageOK == rows \in Seq(Rows) /\ screen \in Seq(Rows) /\ \A f \in fetches : FetchOK(f)

RulesInv == FilesOK /\ SessionOK /\ PageOK

(* A set of numbers that is not empty has a least one.                     *)
LEMMA LeastNumber ==
  ASSUME NEW T \in SUBSET Nat, T # {}
  PROVE  \E n \in T : \A m \in T : n <= m
<1>1. PICK n \in T : \A m \in T : ~ <<m, n>> \in OpToRel(<, Nat)
  BY NatLessThanWellFounded, WFMin
<1>2. \A m \in T : ~ m < n
  BY <1>1 DEF OpToRel
<1> QED BY <1>2
(* What holds at 0, and of a number when it holds of the one before, holds *)
(* up to n.                                                                *)
LEMMA UpTo ==
  ASSUME NEW n \in Nat, NEW T, 0 \in T, \A i \in 1 .. n : i - 1 \in T => i \in T
  PROVE  \A i \in 0 .. n : i \in T
<1> DEFINE Bad == {i \in 0 .. n : i \notin T}
<1> SUFFICES ASSUME Bad # {} PROVE FALSE
  OBVIOUS
<1>1. Bad \in SUBSET Nat
  OBVIOUS
<1> HIDE DEF Bad
<1>2. PICK i \in Bad : \A j \in Bad : i <= j
  BY <1>1, LeastNumber
<1> USE DEF Bad
<1>3. i \in 1 .. n /\ i - 1 \in 0 .. n /\ i - 1 \notin Bad
  BY <1>2
<1> QED BY <1>2, <1>3

(* A sequence of values may be computed one after the other.               *)
OneAfterOther(s, F, x, n) ==
  s[0] = x /\ \A i \in 1 .. n : s[i] = F[<<i, s[i - 1]>>]

LEMMA FoldExists ==
  ASSUME NEW Y, NEW n \in Nat, NEW F \in [(1 .. n) \X Y -> Y], NEW x \in Y
  PROVE  \E s \in [0 .. n -> Y] : OneAfterOther(s, F, x, n)
<1> DEFINE T == {m \in 0 .. n : \E s \in [0 .. m -> Y] : OneAfterOther(s, F, x, m)}
<1>1. 0 \in T
  <2> DEFINE s == [i \in 0 .. 0 |-> x]
  <2>1. s \in [0 .. 0 -> Y] /\ OneAfterOther(s, F, x, 0)
    BY DEF OneAfterOther
  <2> QED BY <2>1
<1>2. ASSUME NEW m \in 1 .. n, m - 1 \in T PROVE m \in T
  <2>1. PICK s \in [0 .. m - 1 -> Y] : OneAfterOther(s, F, x, m - 1)
    BY <1>2
  <2> DEFINE y == F[<<m, s[m - 1]>>]
             t == [i \in 0 .. m |-> IF i = m THEN y ELSE s[i]]
  <2>2. y \in Y
    BY <2>1
  <2>3. t \in [0 .. m -> Y]
    BY <2>1, <2>2
  <2>4. t[0] = x
    BY <2>1 DEF OneAfterOther
  <2>5. ASSUME NEW i \in 1 .. m PROVE t[i] = F[<<i, t[i - 1]>>]
    <3>1. t[i - 1] = s[i - 1]
      OBVIOUS
    <3>2. i # m => i \in 1 .. m - 1 /\ t[i] = s[i]
      OBVIOUS
    <3>3. i = m => t[i] = F[<<m, s[m - 1]>>]
      OBVIOUS
    <3> HIDE DEF t
    <3>4. CASE i = m
      BY <3>1, <3>3, <3>4
    <3>5. CASE i # m
      BY <2>1, <3>1, <3>2, <3>5 DEF OneAfterOther
    <3> QED BY <3>4, <3>5
  <2> HIDE DEF t
  <2> QED BY <2>3, <2>4, <2>5 DEF OneAfterOther
<1> HIDE DEF T
<1>3. \A i \in 0 .. n : i \in T
  BY <1>1, <1>2, UpTo
<1> QED BY <1>3 DEF T

(* Min of the community modules is that one.                               *)
LEMMA LeastOfMin ==
  ASSUME NEW A \in SUBSET Nat, A # {}
  PROVE  Min(A) \in A /\ \A a \in A : Min(A) <= a
<1>1. \E x \in A : \A y \in A : x <= y
  BY LeastNumber
<1> QED BY Zenon, <1>1 DEF Min

LEMMA NormalIs ==
  ASSUME NEW r \in Rules
  PROVE  /\ Normal(r) \in Rules /\ Normal(r).id = r.id
         /\ Normal(r).action \in PageActions
<1>1. r.action \in DOMAIN NormalAction
  BY DEF Rules
<1>2. NormalAction[r.action] \in PageActions
  BY <1>1 DEF NormalAction, PageActions
<1>3. PageActions \subseteq DOMAIN NormalAction
  BY DEF NormalAction, PageActions
<1> DEFINE a == NormalAction[r.action]
           s == [r EXCEPT !.action = a]
<1>4. Normal(r) = s
  BY DEF Normal, Rules
<1> HIDE DEF a
<1>5. s \in Rules /\ s.id = r.id /\ s.action = a
  BY <1>2, <1>3 DEF Rules, a
<1> QED BY <1>2, <1>4, <1>5 DEF a

LEMMA FromIs ==
  ASSUME NEW r, NEW source \in {"default", "session"}, r \in Rules \/ r \in SessionRules
  PROVE  /\ From(source, r) \in SessionRules /\ From(source, r).id = r.id
         /\ From(source, r).action = r.action
BY DEF From, Rules, SessionRules

Single(A, rules) == rules \in SUBSET A /\ IsFiniteSet(rules) /\ OnePerId(rules)

LEMMA OthersIs ==
  ASSUME NEW A, NEW rules, Single(A, rules), NEW r \in A
  PROVE  /\ Single(A, Others(rules, r.id) \cup {r})
         /\ Ids(Others(rules, r.id) \cup {r}) = Ids(rules) \cup {r.id}
<1> DEFINE o == Others(rules, r.id)
<1>1. o \in SUBSET rules /\ \A s \in o : s.id # r.id
  BY DEF Others
<1>2. \A s \in rules : s.id # r.id => s \in o
  BY DEF Others
<1> HIDE DEF o
<1>3. IsFiniteSet(o)
  BY <1>1, FS_Subset DEF Single
<1>4. IsFiniteSet(o \cup {r})
  BY <1>3, FS_AddElement
<1>5. OnePerId(o \cup {r})
  BY <1>1 DEF OnePerId, Single
<1>6. Ids(o \cup {r}) = Ids(rules) \cup {r.id}
  <2>1. \A s \in rules : s.id = r.id \/ s \in o
    BY <1>2
  <2> QED BY <1>1, <2>1 DEF Ids
<1> QED BY <1>1, <1>4, <1>5, <1>6 DEF o, Single

(* Upserting a rule replaces the one with its id. *)
LEMMA UpsertedIs ==
  ASSUME NEW rules, RuleSet(rules), NEW r \in Rules
  PROVE  RuleSet(Upserted(rules, r)) /\ Ids(Upserted(rules, r)) = Ids(rules) \cup {r.id}
<1> DEFINE s == From("session", r)
<1>1. s \in SessionRules /\ s.id = r.id
  BY FromIs
<1> HIDE DEF s
<1>2. Upserted(rules, r) = Others(rules, s.id) \cup {s}
  BY <1>1 DEF Upserted, s
<1>3. Single(SessionRules, rules)
  BY DEF RuleSet, Single
<1> HIDE DEF SessionRules
<1>4. Single(SessionRules, Others(rules, s.id) \cup {s}) /\ Ids(Others(rules, s.id) \cup {s}) = Ids(rules) \cup {s.id}
  BY <1>1, <1>3, OthersIs
<1> QED BY <1>1, <1>2, <1>4 DEF RuleSet, Single

(* Removing a rule of the session brings the default back. *)
LEMMA RemovedIs ==
  ASSUME SessionOK, NEW id
  PROVE  RuleSet(Removed(id)) /\ Ids(defaults) \subseteq Ids(Removed(id))
<1> DEFINE o == Others(active, id)
           d == {r \in defaults : r.id = id}
<1>0. RuleSet(defaults) /\ RuleSet(active) /\ Ids(defaults) \subseteq Ids(active)
  BY DEF SessionOK
<1>1. o \in SUBSET active /\ (\A s \in o : s.id # id) /\ (\A s \in active : s.id # id => s \in o)
  BY DEF Others
<1>2. d \in SUBSET defaults /\ (\A s \in d : s.id = id) /\ (\A s \in defaults : s.id = id => s \in d)
  OBVIOUS
<1>3. Removed(id) = o \cup d
  BY DEF Removed
<1> HIDE DEF o, d
<1>4. IsFiniteSet(o) /\ IsFiniteSet(d)
  <2>1. IsFiniteSet(o)
    BY <1>0, <1>1, FS_Subset DEF RuleSet
  <2>2. IsFiniteSet(d)
    BY <1>0, <1>2, FS_Subset DEF RuleSet
  <2> QED BY <2>1, <2>2
<1>5. IsFiniteSet(o \cup d)
  BY <1>4, FS_Union
<1>6. OnePerId(o \cup d)
  BY <1>0, <1>1, <1>2 DEF RuleSet, OnePerId
<1>7. Ids(defaults) \subseteq Ids(o \cup d)
  <2> SUFFICES ASSUME NEW r \in defaults PROVE \E s \in o \cup d : s.id = r.id
    BY DEF Ids
  <2>1. CASE r.id = id
    BY <1>2, <2>1
  <2>2. CASE r.id # id
    <3>1. PICK s \in active : s.id = r.id
      BY <1>0 DEF Ids
    <3> QED BY <1>1, <2>2, <3>1
  <2> QED BY <2>1, <2>2
<1> HIDE DEF SessionRules
<1> QED BY <1>0, <1>1, <1>2, <1>3, <1>5, <1>6, <1>7 DEF RuleSet

LEMMA InheritedIs ==
  ASSUME FilesOK
  PROVE  RuleSet(Inherited)
<1> DEFINE g == files["global"]
           w == files["workspace"]
<1>1. g \in SUBSET Rules /\ w \in SUBSET Rules /\ IsFiniteSet(g) /\ IsFiniteSet(w) /\ OnePerId(g) /\ OnePerId(w)
  BY DEF FilesOK, Scopes
<1> DEFINE h == {r \in g : r.id \notin Ids(w)}
<1>2. Configured = w \cup h
  BY DEF Configured
<1> HIDE DEF g, w
<1>3. h \in SUBSET g /\ \A r \in h : r.id \notin Ids(w)
  OBVIOUS
<1> HIDE DEF h
<1>4. IsFiniteSet(h)
  BY <1>1, <1>3, FS_Subset
<1>5. IsFiniteSet(Configured)
  BY <1>1, <1>2, <1>4, FS_Union
<1>6. Configured \in SUBSET Rules
  BY <1>1, <1>2, <1>3
<1>7. OnePerId(Configured)
  BY <1>1, <1>2, <1>3 DEF OnePerId, Ids
<1> HIDE DEF Configured
<1> DEFINE F == [r \in Configured |-> From("default", r)]
<1>8. Inherited = {F[r] : r \in Configured}
  BY DEF Inherited
<1>9. IsFiniteSet(Inherited)
  <2>1. F \in Surjection(Configured, Inherited)
    <3>1. F \in [Configured -> Inherited]
      BY DEF Inherited
    <3>2. \A x \in Inherited : \E r \in Configured : F[r] = x
      BY DEF Inherited
    <3> HIDE DEF F
    <3> QED BY <3>1, <3>2 DEF Surjection
  <2> QED BY <1>5, <2>1, FS_Surjection
<1>10. \A x \in Inherited : \E r \in Configured : x = From("default", r) /\ x \in SessionRules /\ x.id = r.id
  BY <1>6, FromIs DEF Inherited
<1>11. OnePerId(Inherited)
  BY <1>7, <1>10 DEF OnePerId
<1> HIDE DEF SessionRules
<1> QED BY <1>9, <1>10, <1>11 DEF RuleSet

(* A row shows the action of a rule as it is, unless that is "warn".        *)
ShownRight(rules) == \A r \in rules : r.action # "warn"

LEMMA UpsertedShown ==
  ASSUME NEW rules, ShownRight(rules), NEW r \in Rules, r.action # "warn"
  PROVE  ShownRight(Upserted(rules, r))
<1> DEFINE s == From("session", r)
<1>1. s.action = r.action
  BY FromIs
<1>2. \A x \in Upserted(rules, r) : x \in rules \/ x = s
  BY DEF Upserted, Others
<1> HIDE DEF s
<1> QED BY <1>1, <1>2 DEF ShownRight

(* What a POST makes of the rules, one row after the other.                *)
Put(sent, i, rules) == IF sent[i].id = NoId THEN rules ELSE Upserted(rules, RuleOf(sent[i], i))

Puts(sent, n, put) ==
  /\ n \in Nat /\ n <= Len(sent)
  /\ put[0] = defaults /\ \A i \in 1 .. n : put[i] = Put(sent, i, put[i - 1])
  /\ Posted(sent).rules = put[n] /\ (Posted(sent).ok => n = Len(sent))

LEMMA RuleOfIs ==
  ASSUME NEW sent \in Seq(Rows), NEW i \in 1 .. Len(sent), sent[i].id # NoId
  PROVE  RuleOf(sent[i], i) \in Rules /\ RuleOf(sent[i], i).id = sent[i].id /\ RuleOf(sent[i], i).action # "warn"
<1>1. sent[i] \in Rows /\ i \in Nat
  OBVIOUS
<1>2. PageActions \subseteq DOMAIN NormalAction /\ "warn" \notin PageActions
  BY DEF PageActions, NormalAction
<1> QED BY <1>1, <1>2 DEF RuleOf, PriorityOf, Rows, Rules

(* A set of rules with those that the defaults have.                       *)
Covering(rules) ==
  /\ RuleSet(rules) /\ Ids(defaults) \subseteq Ids(rules)
  /\ ShownRight(defaults) => ShownRight(rules)

LEMMA PutIs ==
  ASSUME NEW sent \in Seq(Rows), NEW i \in 1 .. Len(sent), NEW rules, Covering(rules)
  PROVE  Covering(Put(sent, i, rules))
<1>1. CASE sent[i].id = NoId
  BY <1>1 DEF Put
<1>2. CASE sent[i].id # NoId
  <2> DEFINE r == RuleOf(sent[i], i)
             u == Upserted(rules, r)
  <2>1. r \in Rules /\ r.action # "warn"
    BY <1>2, RuleOfIs
  <2> HIDE DEF r
  <2>2. ShownRight(rules) => ShownRight(u)
    BY <2>1, UpsertedShown
  <2>3. RuleSet(u) /\ Ids(u) = Ids(rules) \cup {r.id}
    BY <2>1, UpsertedIs DEF Covering
  <2>4. Put(sent, i, rules) = u
    BY <1>2 DEF r, Put
  <2> HIDE DEF u
  <2> QED BY <2>2, <2>3, <2>4 DEF Covering
<1> QED BY <1>1, <1>2

LEMMA PostedPuts ==
  ASSUME SessionOK, NEW sent \in Seq(Rows)
  PROVE  \E n, put : Puts(sent, n, put)
<1> DEFINE bad == {i \in 1 .. Len(sent) : sent[i].id \in LongIds}
           n == Min({Len(sent)} \cup {i - 1 : i \in bad})
           Does(f) == f = [i \in 0 .. n |-> IF i = 0 THEN defaults ELSE
                                            IF sent[i].id = NoId THEN f[i - 1]
                                            ELSE Upserted(f[i - 1], RuleOf(sent[i], i))]
           f == CHOOSE f : Does(f)
<1>1. Posted(sent).rules = f[n] /\ Posted(sent).ok = (bad = {})
  <2>1. Posted(sent) = [rules |-> f[n], ok |-> bad = {}]
    BY Zenon DEF Posted
  <2> HIDE DEF f, n, bad
  <2> QED BY <2>1
<1>2. n \in Nat /\ n <= Len(sent) /\ (bad = {} => n = Len(sent))
  <2> DEFINE M == {Len(sent)} \cup {i - 1 : i \in bad}
  <2>1. M \in SUBSET Nat /\ M # {} /\ Len(sent) \in M /\ (bad = {} => M = {Len(sent)})
    OBVIOUS
  <2> HIDE DEF M
  <2>2. Min(M) \in M /\ \A m \in M : Min(M) <= m
    BY <2>1, LeastOfMin
  <2>3. n = Min(M)
    BY DEF M
  <2>4. Len(sent) \in Nat
    OBVIOUS
  <2> HIDE DEF n, bad
  <2>5. n \in M /\ n <= Len(sent)
    BY <2>1, <2>2, <2>3
  <2> QED BY <2>1, <2>4, <2>5
<1> HIDE DEF n, bad
<1> DEFINE Y == {rules \in SUBSET SessionRules : Covering(rules)}
<1>4. ASSUME NEW i \in 1 .. n, NEW rules \in Y PROVE Put(sent, i, rules) \in Y
  <2>1. i \in 1 .. Len(sent)
    BY <1>2
  <2>2. Covering(Put(sent, i, rules))
    BY <2>1, PutIs
  <2> QED BY <2>2 DEF Covering, RuleSet
<1>5. defaults \in Y
  BY DEF SessionOK, RuleSet, Covering
<1> HIDE DEF Y
<1> DEFINE F == [p \in (1 .. n) \X Y |-> Put(sent, p[1], p[2])]
<1>6. F \in [(1 .. n) \X Y -> Y]
  BY <1>4
<1> HIDE DEF F
<1>7. PICK s \in [0 .. n -> Y] : OneAfterOther(s, F, defaults, n)
  BY <1>2, <1>5, <1>6, FoldExists
<1>8. \A i \in 1 .. n : s[i] = Put(sent, i, s[i - 1])
  <2> SUFFICES ASSUME NEW i \in 1 .. n PROVE s[i] = Put(sent, i, s[i - 1])
    OBVIOUS
  <2> DEFINE y == s[i - 1]
  <2>1. y \in Y
    BY <1>2, <1>7
  <2>2. s[i] = F[<<i, y>>]
    BY <1>7 DEF OneAfterOther
  <2> HIDE DEF y
  <2>3. F[<<i, y>>] = Put(sent, i, y)
    BY <2>1 DEF F
  <2> QED BY <2>2, <2>3 DEF y
<1>9. Does(s)
  <2>1. s[0] = defaults
    BY <1>7 DEF OneAfterOther
  <2>2. \A i \in 0 .. n : i # 0 => i \in 1 .. n
    BY <1>2
  <2> QED BY <1>7, <1>8, <2>1, <2>2 DEF Put
<1>10. Does(f)
  BY <1>9
<1> HIDE DEF f
<1>11. f[0] = defaults /\ \A i \in 1 .. n : f[i] = Put(sent, i, f[i - 1])
  BY <1>10, <1>2 DEF Put
<1> HIDE DEF Does
<1> QED BY <1>1, <1>2, <1>11 DEF Puts

(* The defaults are there, changed or not.                                 *)
LEMMA PostedIs ==
  ASSUME SessionOK, NEW sent \in Seq(Rows)
  PROVE  Covering(Posted(sent).rules)
<1>1. PICK n, put : Puts(sent, n, put)
  BY PostedPuts
<1>2. n \in Nat /\ n <= Len(sent) /\ Posted(sent).rules = put[n]
  BY <1>1 DEF Puts
<1> DEFINE T == {i \in 0 .. n : Covering(put[i])}
<1>3. 0 \in T
  BY <1>1, <1>2 DEF Puts, SessionOK, Covering
<1>4. ASSUME NEW i \in 1 .. n, i - 1 \in T PROVE i \in T
  <2> DEFINE y == put[i - 1]
  <2>1. Covering(y) /\ put[i] = Put(sent, i, y) /\ i \in 0 .. n /\ i \in 1 .. Len(sent)
    BY <1>1, <1>2, <1>4 DEF Puts
  <2> HIDE DEF y
  <2> QED BY <2>1, PutIs
<1>5. n \in T
  <2> HIDE DEF T
  <2>1. \A i \in 0 .. n : i \in T
    BY <1>2, <1>3, <1>4, UpTo
  <2> QED BY <1>2, <2>1
<1> QED BY <1>2, <1>5

(* A row that no later one replaces has its rule at the end.               *)
LEMMA PostedHas ==
  ASSUME SessionOK, NEW sent \in Seq(Rows), Posted(sent).ok, NEW k \in KeptRows(sent)
  PROVE  From("session", RuleOf(sent[k], k)) \in Posted(sent).rules
<1>1. PICK n, put : Puts(sent, n, put)
  BY PostedPuts
<1>2. n \in Nat /\ n = Len(sent) /\ Posted(sent).rules = put[n]
  BY <1>1 DEF Puts
<1>3. k \in 1 .. n /\ sent[k].id # NoId /\ \A j \in 1 .. n : j > k => sent[j].id # sent[k].id
  BY <1>2 DEF KeptRows
<1> DEFINE r == From("session", RuleOf(sent[k], k))
<1>4. r.id = sent[k].id
  BY <1>2, <1>3, RuleOfIs, FromIs
<1> DEFINE T == {i \in 0 .. n : i >= k => r \in put[i]}
<1>5. 0 \in T
  BY <1>2, <1>3
<1>6. ASSUME NEW i \in 1 .. n, i - 1 \in T PROVE i \in T
  <2> DEFINE y == put[i - 1]
  <2>1. put[i] = Put(sent, i, y) /\ i \in 0 .. n
    BY <1>1, <1>2 DEF Puts
  <2>2. CASE i < k
    BY <1>3, <2>1, <2>2
  <2>3. CASE i = k
    BY <1>3, <2>1, <2>3 DEF Put, Upserted
  <2>4. CASE i > k
    <3>1. r \in y
      BY <1>3, <1>6, <2>4
    <3> DEFINE s == RuleOf(sent[i], i)
    <3>2. sent[i].id # NoId => s.id = sent[i].id
      BY <1>2, RuleOfIs
    <3>3. sent[i].id # r.id
      BY <1>2, <1>3, <1>4, <2>4
    <3> HIDE DEF r, y, s
    <3>4. sent[i].id # NoId => r \in Upserted(y, s)
      BY <3>1, <3>2, <3>3 DEF Upserted, Others
    <3>5. r \in Put(sent, i, y)
      BY <3>1, <3>4 DEF Put, s
    <3> QED BY <2>1, <3>5 DEF r
  <2> QED BY <1>3, <2>2, <2>3, <2>4
<1>7. n \in T
  <2> HIDE DEF T
  <2>1. \A i \in 0 .. n : i \in T
    BY <1>2, <1>5, <1>6, UpTo
  <2> QED BY <1>2, <2>1
<1>8. n >= k
  BY <1>2, <1>3
<1> QED BY <1>2, <1>7, <1>8
(* A strict total order on a finite set gives each of its elements a place, *)
(* the number of those before it.                                          *)
Orders(B, S) ==
  /\ \A x \in S : <<x, x>> \notin B
  /\ \A x, y \in S : x = y \/ <<x, y>> \in B \/ <<y, x>> \in B
  /\ \A x, y, z \in S : <<x, y>> \in B /\ <<y, z>> \in B => <<x, z>> \in B

Before(B, S, x) == {y \in S : <<y, x>> \in B}
Place(B, S, x) == Cardinality(Before(B, S, x))

Placed(B, S) ==
  /\ \A x \in S : Place(B, S, x) \in 0 .. Cardinality(S) - 1
  /\ \A x, y \in S : <<x, y>> \in B <=> Place(B, S, x) < Place(B, S, y)
  /\ \A i \in 0 .. Cardinality(S) - 1 : \E x \in S : Place(B, S, x) = i
  /\ \A x, y \in S : Place(B, S, x) = Place(B, S, y) => x = y

LEMMA PlacesAre ==
  ASSUME NEW S, IsFiniteSet(S), NEW B, Orders(B, S)
  PROVE  Placed(B, S)
<1> DEFINE n == Cardinality(S)
           T == 0 .. n - 1
<1>1. n \in Nat
  BY FS_CardinalityType
<1>2. ASSUME NEW x \in S
      PROVE  IsFiniteSet(Before(B, S, x)) /\ Place(B, S, x) \in T
  <2> DEFINE b == Before(B, S, x)
  <2>1. b \in SUBSET (S \ {x})
    BY DEF Before, Orders
  <2>2. IsFiniteSet(S \ {x}) /\ Cardinality(S \ {x}) = n - 1
    BY FS_RemoveElement
  <2> HIDE DEF b, n
  <2>3. IsFiniteSet(b) /\ Cardinality(b) <= n - 1
    BY <2>1, <2>2, FS_Subset
  <2>4. Cardinality(b) \in Nat
    BY <2>3, FS_CardinalityType
  <2>5. Cardinality(b) \in T
    BY <1>1, <2>3, <2>4
  <2> QED BY <2>3, <2>5 DEF b, Place
<1>3. ASSUME NEW x \in S, NEW y \in S, <<x, y>> \in B
      PROVE  Place(B, S, x) < Place(B, S, y)
  <2> DEFINE b == Before(B, S, x)
             c == Before(B, S, y)
             d == b \cup {x}
  <2>1. d \in SUBSET c /\ x \notin b
    BY <1>3 DEF Before, Orders
  <2>2. IsFiniteSet(b) /\ IsFiniteSet(c)
    BY <1>2
  <2> HIDE DEF b, c
  <2>3. Cardinality(d) = Cardinality(b) + 1
    BY <2>1, <2>2, FS_AddElement
  <2> HIDE DEF d
  <2>4. Cardinality(d) <= Cardinality(c)
    BY <2>1, <2>2, FS_Subset
  <2>5. Cardinality(b) \in Nat /\ Cardinality(c) \in Nat
    BY <2>2, FS_CardinalityType
  <2>6. Cardinality(b) < Cardinality(c)
    BY <2>3, <2>4, <2>5
  <2> QED BY <2>6 DEF b, c, Place
<1> HIDE DEF T, n
<1>4. \A x \in S : Place(B, S, x) \in Int
  BY <1>1, <1>2 DEF T
<1>5. ASSUME NEW x \in S, NEW y \in S, Place(B, S, x) < Place(B, S, y) PROVE <<x, y>> \in B
  <2>1. x # y
    BY <1>4, <1>5
  <2>2. <<y, x>> \notin B
    BY <1>3, <1>4, <1>5
  <2> QED BY <2>1, <2>2 DEF Orders
<1>6. ASSUME NEW x \in S, NEW y \in S, Place(B, S, x) = Place(B, S, y) PROVE x = y
  <2>1. <<x, y>> \notin B /\ <<y, x>> \notin B
    BY <1>3, <1>4, <1>6
  <2> QED BY <2>1 DEF Orders
<1> DEFINE f == [x \in S |-> Place(B, S, x)]
<1>7. f \in Injection(S, T)
  <2>1. f \in [S -> T]
    BY <1>2
  <2>2. \A x, y \in S : f[x] = f[y] => x = y
    BY <1>6
  <2> HIDE DEF f
  <2> QED BY <2>1, <2>2 DEF Injection, IsInjective
<1>8. IsFiniteSet(T) /\ Cardinality(T) = n
  <2>1. 0 \in Int /\ n - 1 \in Int
    BY <1>1
  <2>2. IsFiniteSet(T) /\ Cardinality(T) = IF 0 > n - 1 THEN 0 ELSE n - 1 - 0 + 1
    BY <2>1, FS_Interval DEF T
  <2> QED BY <1>1, <2>2
<1>9. f \in Surjection(S, T)
  <2> HIDE DEF f
  <2> QED BY <1>7, <1>8, FS_Injection DEF n
<1>10. ASSUME NEW i \in T PROVE \E x \in S : Place(B, S, x) = i
  BY <1>9 DEF Surjection
<1>11. \A x \in S : Place(B, S, x) \in T
  BY <1>2
<1>12. \A x, y \in S : <<x, y>> \in B <=> Place(B, S, x) < Place(B, S, y)
  BY <1>3, <1>5
<1>13. \A x, y \in S : Place(B, S, x) = Place(B, S, y) => x = y
  BY <1>6
<1>14. \A i \in T : \E x \in S : Place(B, S, x) = i
  BY <1>10
<1> QED BY <1>11, <1>12, <1>13, <1>14 DEF Placed, T, n

(* The rules of a session in the order of the page.                        *)
RowOrder(rules) == {p \in rules \X rules : RowBefore(p[1], p[2])}
ListedAs(rules, nth) ==
  /\ nth \in [1 .. Cardinality(rules) -> rules]
  /\ \A i, j \in 1 .. Cardinality(rules) : RowBefore(nth[i], nth[j]) <=> i < j
  /\ \A r \in rules : \E i \in 1 .. Cardinality(rules) : nth[i] = r
  /\ Listed(rules) = [i \in 1 .. Cardinality(rules) |-> Row(nth[i])]

LEMMA RowIs ==
  ASSUME NEW r \in SessionRules
  PROVE  Row(r) \in Rows /\ Severity[Row(r).action] \in 1 .. 3
<1>1. Row(r).action \in PageActions
  BY DEF Row, PageActions
<1>2. Severity[Row(r).action] \in 1 .. 3
  BY <1>1 DEF Severity, PageActions
<1>3. Row(r) = [id |-> r.id, enabled |-> r.enabled, mode |-> r.mode, pattern |-> r.pattern, action |-> Row(r).action]
  BY DEF Row
<1>4. r.id \in Nat /\ r.enabled \in BOOLEAN /\ r.mode \in FieldValues.mode /\ r.pattern \in FieldValues.pattern
  BY DEF SessionRules
<1> HIDE DEF SessionRules
<1> DEFINE a == Row(r).action
<1> HIDE DEF a
<1>5. Row(r) \in Rows
  BY <1>1, <1>3, <1>4 DEF Rows, a
<1> QED BY <1>2, <1>5

LEMMA RowsOrdered ==
  ASSUME NEW rules, RuleSet(rules)
  PROVE  Orders(RowOrder(rules), rules)
<1> DEFINE L(r) == Severity[Row(r).action]
<1>1. \A r \in rules : L(r) \in Int /\ r.priority \in Int /\ r.id \in Int
  BY RowIs DEF RuleSet, SessionRules
<1>2. \A r, s \in rules : RowBefore(r, s) <=> (L(r) > L(s) \/ (L(r) = L(s) /\ Earlier(r, s)))
  BY DEF RowBefore
<1>3. \A r, s \in rules : <<r, s>> \in RowOrder(rules) <=> RowBefore(r, s)
  BY DEF RowOrder
<1>4. \A r, s \in rules : r.id = s.id => r = s
  BY DEF RuleSet, OnePerId
<1> HIDE DEF L
<1>5. \A x \in rules : ~ RowBefore(x, x)
  BY <1>1, <1>2 DEF Earlier
<1>6. \A x, y \in rules : x = y \/ RowBefore(x, y) \/ RowBefore(y, x)
  <2> SUFFICES ASSUME NEW x \in rules, NEW y \in rules, x.id # y.id PROVE RowBefore(x, y) \/ RowBefore(y, x)
    BY <1>4
  <2> DEFINE a == L(x)
             b == L(y)
             p == x.priority
             q == y.priority
             i == x.id
             j == y.id
  <2>1. a \in Int /\ b \in Int /\ p \in Int /\ q \in Int /\ i \in Int /\ j \in Int /\ i # j
    BY <1>1
  <2>2. RowBefore(x, y) <=> (a > b \/ (a = b /\ (p < q \/ (p = q /\ i < j))))
    BY <1>2 DEF Earlier
  <2>3. RowBefore(y, x) <=> (b > a \/ (b = a /\ (q < p \/ (q = p /\ j < i))))
    BY <1>2 DEF Earlier
  <2> HIDE DEF a, b, p, q, i, j
  <2> QED BY <2>1, <2>2, <2>3
<1>7. \A x, y, z \in rules : RowBefore(x, y) /\ RowBefore(y, z) => RowBefore(x, z)
  BY <1>1, <1>2 DEF Earlier
<1> QED BY <1>3, <1>5, <1>6, <1>7 DEF Orders

LEMMA ListedIs ==
  ASSUME NEW rules, RuleSet(rules)
  PROVE  \E nth : ListedAs(rules, nth)
<1> DEFINE n == Cardinality(rules)
           B == RowOrder(rules)
           nth == [i \in 1 .. n |-> CHOOSE r \in rules : Cardinality({s \in rules : RowBefore(s, r)}) = i - 1]
<1>1. n \in Nat
  BY FS_CardinalityType DEF RuleSet
<1>2. Placed(B, rules)
  BY RowsOrdered, PlacesAre DEF RuleSet
<1>3. \A r \in rules : Before(B, rules, r) = {s \in rules : RowBefore(s, r)}
  BY DEF Before, RowOrder
<1>4. \A r \in rules : Cardinality({s \in rules : RowBefore(s, r)}) = Place(B, rules, r)
  BY <1>3 DEF Place
<1>5. \A r, s \in rules : RowBefore(r, s) <=> <<r, s>> \in B
  BY DEF RowOrder
<1> HIDE DEF n, B, RowBefore
<1>6. ASSUME NEW i \in 1 .. n PROVE nth[i] \in rules /\ Place(B, rules, nth[i]) = i - 1
  <2>1. i - 1 \in 0 .. n - 1
    BY <1>1
  <2>2. \E r \in rules : Place(B, rules, r) = i - 1
    BY <1>2, <2>1 DEF Placed, n
  <2>3. \E r \in rules : Cardinality({s \in rules : RowBefore(s, r)}) = i - 1
    BY <1>4, <2>2
  <2> DEFINE c == CHOOSE r \in rules : Cardinality({s \in rules : RowBefore(s, r)}) = i - 1
  <2>4. c \in rules /\ Cardinality({s \in rules : RowBefore(s, c)}) = i - 1
    BY <2>3
  <2>5. nth[i] = c
    OBVIOUS
  <2> HIDE DEF c, nth
  <2> QED BY <1>4, <2>4, <2>5
<1>7. Listed(rules) = [i \in 1 .. n |-> Row(nth[i])]
  BY DEF Listed, n
<1>8. nth \in [1 .. n -> rules]
  BY <1>6
<1> HIDE DEF nth
<1>9. \A i, j \in 1 .. n : RowBefore(nth[i], nth[j]) <=> i < j
  <2> SUFFICES ASSUME NEW i \in 1 .. n, NEW j \in 1 .. n PROVE RowBefore(nth[i], nth[j]) <=> i < j
    OBVIOUS
  <2> DEFINE x == nth[i]
             y == nth[j]
  <2>1. x \in rules /\ y \in rules /\ Place(B, rules, x) = i - 1 /\ Place(B, rules, y) = j - 1
    BY <1>6
  <2> HIDE DEF x, y
  <2>2. RowBefore(x, y) <=> Place(B, rules, x) < Place(B, rules, y)
    BY <1>2, <1>5, <2>1 DEF Placed
  <2>3. RowBefore(x, y) <=> i - 1 < j - 1
    BY <2>1, <2>2
  <2>4. i - 1 < j - 1 <=> i < j
    BY <1>1
  <2> QED BY <2>3, <2>4 DEF x, y
<1>10. \A r \in rules : \E i \in 1 .. n : nth[i] = r
  <2> SUFFICES ASSUME NEW r \in rules PROVE \E i \in 1 .. n : nth[i] = r
    OBVIOUS
  <2> DEFINE p == Place(B, rules, r)
  <2>1. p \in 0 .. n - 1
    BY <1>2 DEF Placed, n
  <2> DEFINE i == p + 1
  <2>2. i \in 1 .. n /\ i - 1 = p
    BY <1>1, <2>1
  <2> HIDE DEF i
  <2>3. nth[i] \in rules /\ Place(B, rules, nth[i]) = p
    BY <1>6, <2>2
  <2>4. nth[i] = r
    BY <1>2, <2>3 DEF Placed, p
  <2> QED BY <2>2, <2>4
<1> QED BY <1>7, <1>8, <1>9, <1>10 DEF ListedAs, n

LEMMA ListedAreRows ==
  ASSUME NEW rules, RuleSet(rules)
  PROVE  Listed(rules) \in Seq(Rows) /\ Len(Listed(rules)) = Cardinality(rules)
<1>1. PICK nth : ListedAs(rules, nth)
  BY ListedIs
<1> DEFINE n == Cardinality(rules)
<1>2. n \in Nat
  BY FS_CardinalityType DEF RuleSet
<1>3. nth \in [1 .. n -> rules] /\ Listed(rules) = [i \in 1 .. n |-> Row(nth[i])]
  BY <1>1 DEF ListedAs
<1>4. \A r \in rules : Row(r) \in Rows
  BY RowIs DEF RuleSet
<1> HIDE DEF n
<1>5. \A i \in 1 .. n : Row(nth[i]) \in Rows
  BY <1>3, <1>4
<1>6. [i \in 1 .. n |-> Row(nth[i])] \in Seq(Rows) /\ Len([i \in 1 .. n |-> Row(nth[i])]) = n
  BY <1>2, <1>5
<1> QED BY <1>3, <1>6 DEF n
(* What the page makes of its rows are rows.                               *)
OfLevel(list, k) == \A i \in 1 .. Len(list) : Severity[list[i].action] = k

(* The rows of a list come in levels, errors first.                        *)
Falling(list) == \A i, j \in 1 .. Len(list) : i < j => Severity[list[i].action] >= Severity[list[j].action]

LEMMA LevelIs ==
  ASSUME NEW list \in Seq(Rows), NEW k
  PROVE  Level(list, k) \in Seq(Rows) /\ OfLevel(Level(list, k), k)
<1> DEFINE n == Len(list)
           Y == {l \in Seq(Rows) : OfLevel(l, k)}
           Add(i, l) == IF Severity[list[i].action] = k THEN Append(l, list[i]) ELSE l
           Kept(f) == f = [i \in 0 .. n |-> IF i = 0 THEN <<>> ELSE
                             IF Severity[list[i].action] = k THEN Append(f[i - 1], list[i]) ELSE f[i - 1]]
           f == CHOOSE f : Kept(f)
<1>1. Level(list, k) = f[n]
  BY Zenon DEF Level
<1>2. n \in Nat /\ \A i \in 1 .. n : list[i] \in Rows
  OBVIOUS
<1> HIDE DEF n
<1>3. ASSUME NEW i \in 1 .. n, NEW l \in Y PROVE Add(i, l) \in Y
  <2> DEFINE x == list[i]
             t == Append(l, x)
  <2>1. x \in Rows /\ l \in Seq(Rows) /\ OfLevel(l, k)
    BY <1>2
  <2> HIDE DEF x
  <2>2. t \in Seq(Rows) /\ Len(t) = Len(l) + 1 /\ (\A j \in 1 .. Len(l) : t[j] = l[j]) /\ t[Len(l) + 1] = x
    BY <2>1
  <2>3. ASSUME Severity[x.action] = k PROVE OfLevel(t, k)
    <3> SUFFICES ASSUME NEW j \in 1 .. Len(t) PROVE Severity[t[j].action] = k
      BY DEF OfLevel
    <3>1. j \in 1 .. Len(l) \/ j = Len(l) + 1
      BY <2>1, <2>2
    <3> HIDE DEF t
    <3> QED BY <2>1, <2>2, <2>3, <3>1 DEF OfLevel
  <2> HIDE DEF t
  <2>4. Add(i, l) = IF Severity[x.action] = k THEN t ELSE l
    BY DEF x, t
  <2> QED BY <2>1, <2>2, <2>3, <2>4
<1>4. <<>> \in Y
  BY DEF OfLevel
<1> HIDE DEF Y
<1> DEFINE F == [p \in (1 .. n) \X Y |-> Add(p[1], p[2])]
<1>5. F \in [(1 .. n) \X Y -> Y]
  <2> HIDE DEF Add
  <2> QED BY <1>3
<1> HIDE DEF F
<1>6. PICK s \in [0 .. n -> Y] : OneAfterOther(s, F, <<>>, n)
  BY <1>2, <1>4, <1>5, FoldExists
<1>7. \A i \in 1 .. n : s[i] = Add(i, s[i - 1])
  <2> SUFFICES ASSUME NEW i \in 1 .. n PROVE s[i] = Add(i, s[i - 1])
    OBVIOUS
  <2> DEFINE y == s[i - 1]
  <2>1. y \in Y
    BY <1>2, <1>6
  <2>2. s[i] = F[<<i, y>>]
    BY <1>6 DEF OneAfterOther
  <2> HIDE DEF y, Add
  <2>3. F[<<i, y>>] = Add(i, y)
    BY <2>1 DEF F
  <2> QED BY <2>2, <2>3 DEF y
<1>8. Kept(s)
  <2>1. s[0] = <<>>
    BY <1>6 DEF OneAfterOther
  <2>2. \A i \in 0 .. n : i # 0 => i \in 1 .. n
    BY <1>2
  <2> QED BY <1>6, <1>7, <2>1, <2>2
<1>9. Kept(f)
  BY <1>8
<1> HIDE DEF f
<1>10. f[0] = <<>> /\ \A i \in 1 .. n : f[i] = Add(i, f[i - 1])
  <2>1. f[0] = <<>>
    BY <1>9, <1>2
  <2>2. ASSUME NEW i \in 1 .. n PROVE f[i] = Add(i, f[i - 1])
    <3>1. i \in 0 .. n /\ i # 0
      BY <1>2
    <3> QED BY <1>9, <3>1
  <2> QED BY <2>1, <2>2
<1> HIDE DEF Kept, Add
<1> DEFINE T == {i \in 0 .. n : f[i] \in Y}
<1>11. 0 \in T
  BY <1>2, <1>4, <1>10
<1>12. ASSUME NEW i \in 1 .. n, i - 1 \in T PROVE i \in T
  <2> DEFINE y == f[i - 1]
  <2>1. y \in Y /\ f[i] = Add(i, y) /\ i \in 0 .. n
    BY <1>2, <1>10, <1>12
  <2> HIDE DEF y
  <2> QED BY <1>3, <2>1
<1>13. n \in T
  <2> HIDE DEF T
  <2>1. \A i \in 0 .. n : i \in T
    BY <1>2, <1>11, <1>12, UpTo
  <2> QED BY <1>2, <2>1
<1> QED BY <1>1, <1>13 DEF Y

LEMMA SortedAreRows ==
  ASSUME NEW list \in Seq(Rows)
  PROVE  SortRules(list) \in Seq(Rows) /\ Falling(SortRules(list))
<1> DEFINE a == Level(list, 3)
           b == Level(list, 2)
           c == Level(list, 1)
           s == (a \o b) \o c
<1>1. a \in Seq(Rows) /\ b \in Seq(Rows) /\ c \in Seq(Rows)
  BY LevelIs
<1>2. OfLevel(a, 3) /\ OfLevel(b, 2) /\ OfLevel(c, 1)
  BY LevelIs
<1>3. SortRules(list) = s
  BY DEF SortRules
<1> HIDE DEF a, b, c
<1>4. s \in Seq(Rows) /\ Len(s) = Len(a) + Len(b) + Len(c)
  BY <1>1
<1>5. ASSUME NEW i \in 1 .. Len(s)
      PROVE  Severity[s[i].action] = IF i <= Len(a) THEN 3 ELSE IF i <= Len(a) + Len(b) THEN 2 ELSE 1
  <2>1. CASE i <= Len(a)
    <3>1. s[i] = a[i] /\ i \in 1 .. Len(a)
      BY <1>1, <1>4, <2>1
    <3> HIDE DEF s
    <3> QED BY <1>2, <2>1, <3>1 DEF OfLevel
  <2>2. CASE i > Len(a) /\ i <= Len(a) + Len(b)
    <3> DEFINE j == i - Len(a)
    <3>1. s[i] = b[j] /\ j \in 1 .. Len(b)
      BY <1>1, <1>4, <2>2
    <3> HIDE DEF s, j
    <3>2. Severity[s[i].action] = 2
      BY <1>2, <3>1 DEF OfLevel
    <3> QED BY <1>1, <2>2, <3>2
  <2>3. CASE i > Len(a) + Len(b)
    <3> DEFINE j == i - (Len(a) + Len(b))
    <3>1. s[i] = c[j] /\ j \in 1 .. Len(c)
      BY <1>1, <1>4, <2>3
    <3> HIDE DEF s, j
    <3>2. Severity[s[i].action] = 1
      BY <1>2, <3>1 DEF OfLevel
    <3> QED BY <1>1, <2>3, <3>2
  <2> QED BY <1>1, <2>1, <2>2, <2>3
<1> HIDE DEF s
<1>6. Falling(s)
  <2> SUFFICES ASSUME NEW i \in 1 .. Len(s), NEW j \in 1 .. Len(s), i < j
               PROVE  Severity[s[i].action] >= Severity[s[j].action]
    BY DEF Falling
  <2> DEFINE x == Severity[s[i].action]
             y == Severity[s[j].action]
  <2>1. x = IF i <= Len(a) THEN 3 ELSE IF i <= Len(a) + Len(b) THEN 2 ELSE 1
    BY <1>5
  <2>2. y = IF j <= Len(a) THEN 3 ELSE IF j <= Len(a) + Len(b) THEN 2 ELSE 1
    BY <1>5
  <2>3. Len(a) \in Nat /\ Len(b) \in Nat /\ i \in Int /\ j \in Int
    BY <1>1
  <2> HIDE DEF x, y
  <2>4. x >= y
    BY <2>1, <2>2, <2>3
  <2> QED BY <2>4 DEF x, y
<1> QED BY <1>3, <1>4, <1>6

LEMMA PieceIs ==
  ASSUME NEW list \in Seq(Rows), NEW a \in 1 .. Len(list) + 1, NEW b \in 0 .. Len(list)
  PROVE  SubSeq(list, a, b) \in Seq(Rows)
<1>1. a \in Int /\ b \in Int /\ \A i \in a .. b : list[i] \in Rows
  OBVIOUS
<1> QED BY <1>1, SubSeqProperties

LEMMA RemovedAtIs ==
  ASSUME NEW list \in Seq(Rows), NEW i \in 1 .. Len(list)
  PROVE  RemoveAt(list, i) \in Seq(Rows)
<1> DEFINE s == SubSeq(list, 1, i - 1)
           t == SubSeq(list, i + 1, Len(list))
<1>1. s \in Seq(Rows) /\ t \in Seq(Rows)
  <2>1. /\ Len(list) \in Nat /\ 1 \in 1 .. Len(list) + 1 /\ i - 1 \in 0 .. Len(list)
        /\ i + 1 \in 1 .. Len(list) + 1 /\ Len(list) \in 0 .. Len(list)
    OBVIOUS
  <2> QED BY <2>1, PieceIs
<1>2. RemoveAt(list, i) = s \o t
  BY DEF RemoveAt
<1> HIDE DEF s, t
<1> QED BY <1>1, <1>2

LEMMA InsertedAtIs ==
  ASSUME NEW list \in Seq(Rows), NEW i \in 1 .. Len(list) + 1, NEW r \in Rows
  PROVE  InsertAt(list, i, r) \in Seq(Rows)
<1> DEFINE s == SubSeq(list, 1, i - 1)
           t == SubSeq(list, i, Len(list))
<1>1. s \in Seq(Rows) /\ t \in Seq(Rows)
  <2>1. Len(list) \in Nat /\ 1 \in 1 .. Len(list) + 1 /\ i - 1 \in 0 .. Len(list) /\ Len(list) \in 0 .. Len(list)
    OBVIOUS
  <2> QED BY <2>1, PieceIs
<1>2. InsertAt(list, i, r) = (s \o <<r>>) \o t
  BY DEF InsertAt
<1>3. <<r>> \in Seq(Rows)
  OBVIOUS
<1> HIDE DEF s, t
<1> QED BY <1>1, <1>2, <1>3

LEMMA NewRowIs ==
  ASSUME NEW id \in Nat
  PROVE  NewRow(id) \in Rows
BY DEF NewRow, Rows, FieldValues, OperationModes, Commands, PageActions

LEMMA EditedRowIs ==
  ASSUME NEW r \in Rows, NEW e \in Edits
  PROVE  Edited(r, e) \in Rows
<1> DEFINE g == e.field
           v == e.value
           a == IF g = "id" THEN v ELSE r.id
           b == IF g = "enabled" THEN v ELSE r.enabled
           m == IF g = "mode" THEN v ELSE r.mode
           p == IF g = "pattern" THEN v ELSE r.pattern
           c == IF g = "action" THEN v ELSE r.action
<1>1. v \in FieldValues[g] /\ (g = "action" => v \in PageActions)
  BY PolicyRulesAssumption
<1>2. /\ r.id \in Nat /\ r.enabled \in BOOLEAN /\ r.mode \in FieldValues.mode
      /\ r.pattern \in FieldValues.pattern /\ r.action \in PageActions
  BY DEF Rows
<1>3. Edited(r, e) = [id |-> a, enabled |-> b, mode |-> m, pattern |-> p, action |-> c]
  BY DEF Edited
<1> HIDE DEF g, v
<1>4. a \in Nat
  <2>1. FieldValues["id"] = Nat
    BY DEF FieldValues
  <2> QED BY <1>1, <1>2, <2>1
<1>5. b \in BOOLEAN
  <2>1. FieldValues["enabled"] = BOOLEAN
    BY DEF FieldValues
  <2> QED BY <1>1, <1>2, <2>1
<1>6. m \in FieldValues.mode /\ p \in FieldValues.pattern /\ c \in PageActions
  BY <1>1, <1>2
<1> HIDE DEF a, b, m, p, c
<1>7. [id |-> a, enabled |-> b, mode |-> m, pattern |-> p, action |-> c] \in Rows
  BY <1>4, <1>5, <1>6 DEF Rows
<1> QED BY <1>3, <1>7

LEMMA EditedIs ==
  ASSUME NEW list \in Seq(Rows), NEW i \in 1 .. Len(list), NEW e \in Edits
  PROVE  [list EXCEPT ![i] = Edited(list[i], e)] \in Seq(Rows)
<1> DEFINE r == Edited(list[i], e)
<1>1. r \in Rows
  <2>1. list[i] \in Rows
    OBVIOUS
  <2> QED BY <2>1, EditedRowIs
<1> HIDE DEF r
<1>2. [list EXCEPT ![i] = r] \in Seq(Rows)
  BY <1>1, ExceptSeq
<1> QED BY <1>2 DEF r
(* What the flags of the CLI make of the rule that was there, or of        *)
(* nothing, is a rule.                                                     *)
LEMMA FromFlagsIs ==
  ASSUME NEW w \in ConfigWrites, NEW existing, existing \in SUBSET Rules, Complete(existing, w[2])
  PROVE  FromFlags(existing, w[2]) \in Rules
<1> DEFINE flags == w[2]
           x == CHOOSE r \in existing : TRUE
           Given(field, default) ==
             IF field \in DOMAIN flags THEN flags[field] ELSE IF existing = {} THEN default ELSE x[field]
           i == flags.id
           b == Given("enabled", TRUE)
           m == Given("mode", "safe")
           p == Given("pattern", "")
           a == Given("action", "")
           n == Given("priority", 1000)
<1>1. /\ "id" \in DOMAIN flags /\ i # NoId
      /\ \A field \in DOMAIN flags : flags[field] \in FieldValues[field]
  BY PolicyRulesAssumption
<1>2. existing # {} => x \in Rules
  OBVIOUS
<1>3. existing # {} \/ ("pattern" \in DOMAIN flags /\ "action" \in DOMAIN flags)
  BY DEF Complete
<1>4. FromFlags(existing, flags) = [id |-> i, enabled |-> b, mode |-> m, pattern |-> p, action |-> a, priority |-> n]
  BY DEF FromFlags
<1> HIDE DEF x, flags
<1>5. /\ FieldValues["id"] = Nat /\ FieldValues["enabled"] = BOOLEAN
      /\ FieldValues["action"] = DOMAIN NormalAction /\ FieldValues["priority"] = Nat
  BY DEF FieldValues
<1>6. i \in Nat \ {NoId}
  BY <1>1, <1>5
<1>7. existing # {} => /\ x["enabled"] \in BOOLEAN /\ x["mode"] \in FieldValues.mode
                       /\ x["pattern"] \in FieldValues.pattern /\ x["action"] \in DOMAIN NormalAction
                       /\ x["priority"] \in Nat
  BY <1>2 DEF Rules
<1>8. b \in BOOLEAN
  BY <1>1, <1>5, <1>7
<1>9. m \in FieldValues.mode
  <2>1. "safe" \in FieldValues.mode
    BY DEF FieldValues, OperationModes
  <2>2. "mode" \in DOMAIN flags => flags["mode"] \in FieldValues["mode"]
    BY <1>1
  <2> QED BY <2>1, <2>2, <1>7
<1>10. p \in FieldValues.pattern
  <2>1. "pattern" \in DOMAIN flags => flags["pattern"] \in FieldValues["pattern"]
    BY <1>1
  <2> QED BY <2>1, <1>3, <1>7
<1>11. a \in DOMAIN NormalAction
  BY <1>1, <1>3, <1>5, <1>7
<1>12. n \in Nat
  BY <1>1, <1>5, <1>7
<1> HIDE DEF i, b, m, p, a, n, Given
<1>13. [id |-> i, enabled |-> b, mode |-> m, pattern |-> p, action |-> a, priority |-> n] \in Rules
  BY <1>6, <1>8, <1>9, <1>10, <1>11, <1>12 DEF Rules
<1> QED BY <1>4, <1>13 DEF flags

LEMMA RulesInitOK ==
  ASSUME RulesInit
  PROVE  RulesInv
<1>1. FilesOK
  BY PolicyRulesAssumption DEF RulesInit, FilesOK
<1>2. RuleSet(Inherited)
  BY <1>1, InheritedIs
<1>3. SessionOK
  BY <1>2 DEF RulesInit, SessionOK
<1>4. PageOK
  BY DEF RulesInit, PageOK
<1> QED BY <1>1, <1>3, <1>4 DEF RulesInv

(* Configuration: only the files change.                                   *)
LEMMA ConfigSetOK ==
  ASSUME RulesInv, NEW w \in ConfigWrites, ConfigSet(w[1], w[2])
  PROVE  RulesInv'
<1> DEFINE c == w[1]
           g == files[c]
           existing == {old \in g : old.id = w[2].id}
           r == Normal(FromFlags(existing, w[2]))
           r0 == FromFlags(existing, w[2])
<1>1. c \in Scopes
  BY PolicyRulesAssumption
<1>2. files \in [Scopes -> SUBSET Rules] /\ Single(Rules, g)
  BY <1>1 DEF RulesInv, FilesOK, Single
<1>3. Complete(existing, w[2])
  BY DEF ConfigSet
<1>4. existing \in SUBSET Rules
  BY <1>2 DEF Single
<1>5. r0 \in Rules
  <2> HIDE DEF existing
  <2> QED BY <1>3, <1>4, FromFlagsIs
<1>6. files' = [files EXCEPT ![c] = Others(g, r0.id) \cup {r}]
  BY DEF ConfigSet
<1> HIDE DEF r0
<1>7. r \in Rules /\ r.id = r0.id
  BY <1>5, NormalIs DEF r0
<1> HIDE DEF r, existing
<1>8. Single(Rules, Others(g, r.id) \cup {r})
  BY <1>2, <1>7, OthersIs
<1> DEFINE h == Others(g, r.id) \cup {r}
<1>9. files' = [files EXCEPT ![c] = h]
  BY <1>6, <1>7
<1> HIDE DEF h, g, c
<1>10. FilesOK'
  <2>1. h \in SUBSET Rules /\ IsFiniteSet(h) /\ OnePerId(h)
    BY <1>8 DEF h, Single
  <2>2. files' \in [Scopes -> SUBSET Rules]
    BY <1>1, <1>2, <1>9, <2>1
  <2>3. \A scope \in Scopes : files'[scope] = IF scope = c THEN h ELSE files[scope]
    BY <1>2, <1>9
  <2>4. \A scope \in Scopes : IsFiniteSet(files'[scope]) /\ OnePerId(files'[scope])
    BY <2>1, <2>3 DEF RulesInv, FilesOK
  <2> QED BY <2>2, <2>4 DEF FilesOK
<1>11. UNCHANGED <<session, page>>
  BY DEF ConfigSet
<1>12. SessionOK' /\ PageOK'
  BY <1>11 DEF RulesInv, session, page, SessionOK, PageOK
<1> QED BY <1>10, <1>12 DEF RulesInv

LEMMA ConfigRemoveOK ==
  ASSUME RulesInv, NEW scope \in Scopes, NEW id, ConfigRemove(scope, id)
  PROVE  RulesInv'
<1> DEFINE g == files[scope]
           h == Others(g, id)
<1>1. files \in [Scopes -> SUBSET Rules] /\ Single(Rules, g)
  BY DEF RulesInv, FilesOK, Single
<1>2. h \in SUBSET g
  BY DEF Others
<1>3. files' = [files EXCEPT ![scope] = h]
  BY DEF ConfigRemove
<1> HIDE DEF h, g
<1>4. IsFiniteSet(h)
  BY <1>1, <1>2, FS_Subset DEF Single
<1>5. h \in SUBSET Rules /\ OnePerId(h)
  BY <1>1, <1>2 DEF Single, OnePerId
<1>6. FilesOK'
  <2>1. files' \in [Scopes -> SUBSET Rules]
    BY <1>1, <1>3, <1>5
  <2>2. \A c \in Scopes : files'[c] = IF c = scope THEN h ELSE files[c]
    BY <1>1, <1>3
  <2>3. \A c \in Scopes : IsFiniteSet(files'[c]) /\ OnePerId(files'[c])
    BY <1>4, <1>5, <2>2 DEF RulesInv, FilesOK
  <2> QED BY <2>1, <2>3 DEF FilesOK
<1>7. UNCHANGED <<session, page>>
  BY DEF ConfigRemove
<1>8. SessionOK' /\ PageOK'
  BY <1>7 DEF RulesInv, session, page, SessionOK, PageOK
<1> QED BY <1>6, <1>8 DEF RulesInv

LEMMA ToolUpsertOK ==
  ASSUME RulesInv, NEW r \in ToolRules, ToolUpsert(r)
  PROVE  RulesInv'
<1> DEFINE s == Normal(r)
           u == Upserted(active, s)
<1>1. s \in Rules
  BY PolicyRulesAssumption, NormalIs
<1>2. SessionOK
  BY DEF RulesInv
<1>3. active' = u /\ UNCHANGED <<files, defaults, page>>
  BY DEF ToolUpsert
<1> HIDE DEF s
<1>4. RuleSet(u) /\ Ids(u) = Ids(active) \cup {s.id}
  BY <1>1, <1>2, UpsertedIs DEF SessionOK
<1> HIDE DEF u
<1>5. SessionOK'
  <2>1. Ids(defaults) \subseteq Ids(u)
    BY <1>2, <1>4 DEF SessionOK
  <2>2. RuleSet(active)' /\ (Ids(active)' = Ids(u)) /\ RuleSet(defaults)' /\ Ids(defaults)' = Ids(defaults)
    BY <1>2, <1>3, <1>4 DEF SessionOK
  <2> QED BY <2>1, <2>2 DEF SessionOK
<1>6. FilesOK' /\ PageOK'
  BY <1>3 DEF RulesInv, page, FilesOK, PageOK
<1> QED BY <1>5, <1>6 DEF RulesInv

LEMMA ToolRemoveOK ==
  ASSUME RulesInv, NEW id, ToolRemove(id)
  PROVE  RulesInv'
<1> DEFINE u == Removed(id)
<1>1. SessionOK
  BY DEF RulesInv
<1>2. active' = u /\ UNCHANGED <<files, defaults, page>>
  BY DEF ToolRemove
<1>3. RuleSet(u) /\ Ids(defaults) \subseteq Ids(u)
  BY <1>1, RemovedIs
<1> HIDE DEF u
<1>4. SessionOK'
  <2>1. RuleSet(active)' /\ (Ids(active)' = Ids(u)) /\ RuleSet(defaults)' /\ Ids(defaults)' = Ids(defaults)
    BY <1>1, <1>2, <1>3 DEF SessionOK
  <2> QED BY <1>3, <2>1 DEF SessionOK
<1>5. FilesOK' /\ PageOK'
  BY <1>2 DEF RulesInv, page, FilesOK, PageOK
<1> QED BY <1>4, <1>5 DEF RulesInv

LEMMA ToolResetOK ==
  ASSUME RulesInv, ToolReset
  PROVE  RulesInv'
<1>1. RuleSet(Inherited)
  BY InheritedIs DEF RulesInv
<1> DEFINE u == Inherited
<1>2. active' = u /\ defaults' = u /\ UNCHANGED <<files, page>>
  BY DEF ToolReset, SetInherited
<1> HIDE DEF u
<1>3. SessionOK'
  BY <1>1, <1>2 DEF SessionOK, u
<1>4. FilesOK' /\ PageOK'
  BY <1>2 DEF RulesInv, page, FilesOK, PageOK
<1> QED BY <1>3, <1>4 DEF RulesInv
(* A step of the page that leaves the rules of the session alone keeps the *)
(* invariant when it keeps the rows and the requests.                      *)
LEMMA PageStepOK ==
  ASSUME RulesInv, UNCHANGED <<files, session>>, PageOK'
  PROVE  RulesInv'
BY DEF RulesInv, session, FilesOK, SessionOK

LEMMA TouchedOK ==
  ASSUME PageOK
  PROVE  \A f \in Touched : FetchOK(f)
<1>1. \A f \in fetches : LET g == [f EXCEPT !.touched = TRUE] IN g.sent = f.sent /\ g.answer = f.answer
  OBVIOUS
<1> QED BY <1>1 DEF PageOK, FetchOK, Touched

LEMMA AskedOK ==
  ASSUME NEW what, NEW sent \in Seq(Rows)
  PROVE  FetchOK(Asked(what, sent))
BY DEF FetchOK, Asked

LEMMA AskedNothingOK ==
  ASSUME NEW what
  PROVE  FetchOK(Asked(what, <<>>))
<1>1. <<>> \in Seq(Rows)
  OBVIOUS
<1> QED BY <1>1, AskedOK

LEMMA OpenedOrClosedOK ==
  ASSUME RulesInv, OpenDetails \/ CloseDetails
  PROVE  RulesInv'
<1>1. UNCHANGED <<files, session>>
  BY DEF OpenDetails, CloseDetails
<1>2. rows' = rows /\ screen' = <<>>
  BY DEF OpenDetails, CloseDetails
<1>3. \A f \in fetches' : f \in fetches \/ f = Asked("open", <<>>)
  BY DEF OpenDetails, CloseDetails
<1>4. FetchOK(Asked("open", <<>>))
  BY AskedNothingOK
<1>5. \A f \in fetches' : FetchOK(f)
  BY <1>3, <1>4 DEF RulesInv, PageOK
<1>6. PageOK'
  BY <1>2, <1>5 DEF RulesInv, PageOK, FetchOK
<1> QED BY <1>1, <1>6, PageStepOK

(* Every edit gives the page a list of rows.                               *)
LEMMA EditingOK ==
  ASSUME RulesInv, NEW list \in Seq(Rows), Editing(list), screen' \in Seq(Rows)
  PROVE  RulesInv'
<1>1. UNCHANGED <<files, session>>
  BY DEF Editing
<1>2. rows' = list /\ fetches' = Touched
  BY DEF Editing
<1>3. \A f \in Touched : FetchOK(f)
  BY TouchedOK DEF RulesInv
<1>4. PageOK'
  BY <1>2, <1>3 DEF PageOK, FetchOK
<1> QED BY <1>1, <1>4, PageStepOK

LEMMA WithoutIs ==
  ASSUME PageOK, NEW i \in Int
  PROVE  Without(i) \in Seq(Rows)
<1>1. CASE i \in 1 .. Len(rows)
  <2>1. RemoveAt(rows, i) \in Seq(Rows)
    BY <1>1, RemovedAtIs DEF PageOK
  <2> QED BY <1>1, <2>1 DEF Without
<1>2. CASE i \notin 1 .. Len(rows)
  BY <1>2 DEF Without, PageOK
<1> QED BY <1>1, <1>2

LEMMA UpdateRuleFieldOK ==
  ASSUME RulesInv, NEW i \in 1 .. Len(screen), NEW e \in Edits, UpdateRuleField(i, e)
  PROVE  RulesInv'
<1>0. PageOK
  BY DEF RulesInv
<1> DEFINE list == [rows EXCEPT ![i] = Edited(rows[i], e)]
           shown == [screen EXCEPT ![i] = Edited(screen[i], e)]
<1>1. i \in 1 .. Len(rows) /\ Editing(list) /\ screen' = shown
  BY DEF UpdateRuleField
<1>2. list \in Seq(Rows) /\ shown \in Seq(Rows)
  BY <1>0, <1>1, EditedIs DEF PageOK
<1> HIDE DEF list, shown
<1> QED BY <1>1, <1>2, EditingOK

LEMMA AddRuleOK ==
  ASSUME RulesInv, AddRule
  PROVE  RulesInv'
<1>0. PageOK
  BY DEF RulesInv
<1> DEFINE longer == Append(rows, NewRow(NewId))
           list == SortRules(longer)
<1>1. Editing(list) /\ screen' = rows'
  BY DEF AddRule
<1>2. longer \in Seq(Rows)
  <2>1. NewRow(NewId) \in Rows
    BY PolicyRulesAssumption, NewRowIs
  <2> QED BY <1>0, <2>1 DEF PageOK
<1> HIDE DEF longer
<1>3. list \in Seq(Rows)
  BY <1>2, SortedAreRows
<1> HIDE DEF list
<1>4. screen' \in Seq(Rows)
  BY <1>1, <1>3 DEF Editing
<1> QED BY <1>1, <1>3, <1>4, EditingOK

LEMMA DeleteRuleOK ==
  ASSUME RulesInv, NEW i \in Int, DeleteRule(i)
  PROVE  RulesInv'
<1>0. PageOK
  BY DEF RulesInv
<1> DEFINE list == Without(i)
<1>1. Editing(list) /\ screen' = rows'
  BY DEF DeleteRule
<1>2. list \in Seq(Rows)
  BY <1>0, WithoutIs
<1> HIDE DEF list
<1>3. screen' \in Seq(Rows)
  BY <1>1, <1>2 DEF Editing
<1> QED BY <1>1, <1>2, <1>3, EditingOK

LEMMA MoveRuleOK ==
  ASSUME RulesInv, NEW i \in Int, NEW j \in Nat \ {0}, MoveRule(i, j)
  PROVE  RulesInv'
<1>0. PageOK
  BY DEF RulesInv
<1> DEFINE moved == IF i \in 1 .. Len(rows) THEN rows[i] ELSE NewRow(NoId)
           left == Without(i)
           at == Min({j, Len(left) + 1})
           list == InsertAt(left, at, moved)
<1>1. Editing(list) /\ screen' = rows'
  BY DEF MoveRule
<1>2. left \in Seq(Rows)
  BY <1>0, WithoutIs
<1>3. moved \in Rows
  <2>1. NewRow(NoId) \in Rows
    BY NewRowIs DEF NoId
  <2> QED BY <1>0, <2>1 DEF PageOK
<1> HIDE DEF moved, left
<1>4. at \in 1 .. Len(left) + 1
  <2> DEFINE M == {j, Len(left) + 1}
  <2>1. M \in SUBSET Nat /\ M # {} /\ Len(left) + 1 \in M /\ \A m \in M : m >= 1
    BY <1>2
  <2> HIDE DEF M
  <2>2. Min(M) \in M /\ \A m \in M : Min(M) <= m
    BY <2>1, LeastOfMin
  <2> QED BY <1>2, <2>1, <2>2 DEF M
<1> HIDE DEF at
<1>5. list \in Seq(Rows)
  BY <1>2, <1>3, <1>4, InsertedAtIs
<1> HIDE DEF list
<1>6. screen' \in Seq(Rows)
  BY <1>1, <1>5 DEF Editing
<1> QED BY <1>1, <1>5, <1>6, EditingOK

LEMMA SaveOrRefreshOK ==
  ASSUME RulesInv, Save \/ Refresh
  PROVE  RulesInv'
<1>1. UNCHANGED <<files, session>>
  BY DEF Save, Refresh
<1>2. rows' = rows /\ screen' = screen
  BY DEF Save, Refresh
<1> DEFINE sorted == SortRules(rows)
<1>3. sorted \in Seq(Rows)
  BY SortedAreRows DEF RulesInv, PageOK
<1>4. \A f \in fetches' : f \in fetches \/ f = Asked("save", sorted) \/ f = Asked("refresh", <<>>)
  BY DEF Save, Refresh
<1> HIDE DEF sorted
<1>5. FetchOK(Asked("save", sorted)) /\ FetchOK(Asked("refresh", <<>>))
  BY <1>3, AskedOK, AskedNothingOK
<1>6. \A f \in fetches' : FetchOK(f)
  BY <1>4, <1>5 DEF RulesInv, PageOK
<1>7. PageOK'
  BY <1>2, <1>6 DEF RulesInv, PageOK, FetchOK
<1> QED BY <1>1, <1>7, PageStepOK

LEMMA ServeOK ==
  ASSUME RulesInv, NEW f \in fetches, Serve(f)
  PROVE  RulesInv'
<1> DEFINE p == Posted(f.sent)
           a == p.rules
           Answered(x) == [f EXCEPT !.answer = x]
<1>0. SessionOK /\ PageOK /\ FetchOK(f)
  BY DEF RulesInv, PageOK
<1>1. UNCHANGED <<files, defaults, rows, screen>>
  BY DEF Serve
<1>2. RuleSet(a) /\ Ids(defaults) \subseteq Ids(a)
  BY <1>0, PostedIs DEF FetchOK, Covering
<1>3. /\ active' = a \/ active' = active
      /\ \A g \in fetches' : g \in fetches \/ g = Answered(a) \/ g = Answered(active)
  BY DEF Serve
<1> HIDE DEF a, p
<1>4. ASSUME NEW x, RuleSet(x) PROVE FetchOK(Answered(x))
  <2>1. Answered(x).sent = f.sent
    OBVIOUS
  <2>2. Answered(x).answer = x \/ Answered(x).answer = f.answer
    OBVIOUS
  <2> HIDE DEF Answered
  <2> QED BY <1>0, <1>4, <2>1, <2>2 DEF FetchOK
<1>5. FetchOK(Answered(a)) /\ FetchOK(Answered(active))
  BY <1>0, <1>2, <1>4 DEF SessionOK
<1> HIDE DEF Answered
<1>6. \A g \in fetches' : FetchOK(g)
  BY <1>0, <1>3, <1>5 DEF PageOK
<1>7. PageOK'
  BY <1>0, <1>1, <1>6 DEF PageOK, FetchOK
<1>8. SessionOK'
  <2>1. RuleSet(active') /\ Ids(defaults) \subseteq Ids(active')
    BY <1>0, <1>2, <1>3 DEF SessionOK
  <2> QED BY <1>0, <1>1, <2>1 DEF SessionOK
<1>9. FilesOK'
  BY <1>1 DEF RulesInv, FilesOK
<1> QED BY <1>7, <1>8, <1>9 DEF RulesInv

LEMMA AnsweredOK ==
  ASSUME RulesInv, NEW f \in fetches, Saved(f) \/ Loaded(f)
  PROVE  RulesInv'
<1>1. UNCHANGED <<files, session>>
  BY DEF Saved, Loaded
<1>2. RuleSet(f.answer)
  BY DEF RulesInv, PageOK, FetchOK, Saved, Loaded
<1> DEFINE list == Listed(f.answer)
<1>3. list \in Seq(Rows)
  BY <1>2, ListedAreRows
<1>4. rows' = list /\ (screen' = list \/ screen' = screen)
  BY DEF Saved, Loaded
<1>5. \A g \in fetches' : g \in fetches \/ g = Asked("saved", <<>>)
  BY DEF Saved, Loaded
<1> HIDE DEF list
<1>6. FetchOK(Asked("saved", <<>>))
  BY AskedNothingOK
<1>7. \A g \in fetches' : FetchOK(g)
  BY <1>5, <1>6 DEF RulesInv, PageOK
<1>8. PageOK'
  BY <1>3, <1>4, <1>7 DEF RulesInv, PageOK, FetchOK
<1> QED BY <1>1, <1>8, PageStepOK

LEMMA FailOK ==
  ASSUME RulesInv, NEW f \in fetches, Fail(f)
  PROVE  RulesInv'
<1>1. UNCHANGED <<files, session>> /\ rows' = rows /\ screen' = screen /\ fetches' \in SUBSET fetches
  BY DEF Fail
<1>2. \A g \in fetches' : FetchOK(g)
  BY <1>1 DEF RulesInv, PageOK
<1>3. PageOK'
  BY <1>1, <1>2 DEF RulesInv, PageOK, FetchOK
<1> QED BY <1>1, <1>3, PageStepOK

LEMMA RulesStepOK ==
  ASSUME RulesInv, [RulesNext]_rulesVars
  PROVE  RulesInv'
<1>1. CASE UNCHANGED rulesVars
  BY <1>1 DEF rulesVars, session, page, RulesInv, FilesOK, SessionOK, PageOK, FetchOK
<1>2. CASE ServerNext
  <2>1. ASSUME NEW w \in ConfigWrites, ConfigSet(w[1], w[2]) PROVE RulesInv'
    BY <2>1, ConfigSetOK
  <2>2. ASSUME NEW scope \in Scopes, NEW id \in Ids(files[scope]), ConfigRemove(scope, id) PROVE RulesInv'
    BY <2>2, ConfigRemoveOK
  <2>3. ASSUME NEW r \in ToolRules, ToolUpsert(r) PROVE RulesInv'
    BY <2>3, ToolUpsertOK
  <2>4. ASSUME NEW id \in Ids(active), ToolRemove(id) PROVE RulesInv'
    BY <2>4, ToolRemoveOK
  <2>5. CASE ToolReset
    BY <2>5, ToolResetOK
  <2> HIDE DEF RulesInv
  <2> QED BY <1>2, <2>1, <2>2, <2>3, <2>4, <2>5 DEF ServerNext
<1>3. CASE PageNext
  <2>0. Len(screen) \in Nat
    BY DEF RulesInv, PageOK
  <2>1. CASE OpenDetails \/ CloseDetails
    BY <2>1, OpenedOrClosedOK
  <2>2. CASE Save \/ Refresh
    BY <2>2, SaveOrRefreshOK
  <2>3. CASE AddRule
    BY <2>3, AddRuleOK
  <2>4. ASSUME NEW i \in 1 .. Len(screen), DeleteRule(i) PROVE RulesInv'
    BY <2>0, <2>4, DeleteRuleOK
  <2>5. ASSUME NEW i \in 1 .. Len(screen), NEW e \in Edits, UpdateRuleField(i, e) PROVE RulesInv'
    BY <2>5, UpdateRuleFieldOK
  <2>6. ASSUME NEW i \in 1 .. Len(screen), NEW j \in 1 .. Len(screen), MoveRule(i, j) PROVE RulesInv'
    BY <2>0, <2>6, MoveRuleOK
  <2>7. ASSUME NEW f \in fetches, Serve(f) \/ Saved(f) \/ Loaded(f) \/ Fail(f) PROVE RulesInv'
    BY <2>7, ServeOK, AnsweredOK, FailOK
  <2> HIDE DEF RulesInv
  <2> QED BY <1>3, <2>1, <2>2, <2>3, <2>4, <2>5, <2>6, <2>7 DEF PageNext
<1> QED BY <1>1, <1>2, <1>3 DEF RulesNext

(* Files, session and page keep what they should, whatever the CLI, the    *)
(* tools and the page do and in whatever order.                            *)
THEOREM RulesAlwaysOK == RulesSpec => []RulesInv
<1>1. RulesInit => RulesInv
  BY RulesInitOK
<1>2. RulesInv /\ [RulesNext]_rulesVars => RulesInv'
  BY RulesStepOK
<1> QED BY <1>1, <1>2, PTL DEF RulesSpec

(* The rules of a session cover its defaults, with one rule for each id    *)
(* (DefaultsCovered; upsertPolicyRule, removePolicyRule, the POST).        *)
THEOREM DefaultsAlwaysCovered == RulesSpec => []DefaultsCovered
<1>1. RulesInv => DefaultsCovered
  BY DEF RulesInv, SessionOK, RuleSet, DefaultsCovered
<1> QED BY <1>1, RulesAlwaysOK, PTL
(* Unless an action is "warn", the page and validateCommand rank a rule    *)
(* alike.                                                                  *)
LEMMA SameRank ==
  ASSUME NEW r \in SessionRules, r.action # "warn"
  PROVE  /\ Severity[Row(r).action] = Rank(r) /\ Rank(Row(r)) = Rank(r) /\ Rank(r) \in Int
         /\ Row(r).action = "error" <=> NormalAction[r.action] = "error"
<1>1. r.action \in {"error", "block", "warning", "log"}
  BY DEF SessionRules, NormalAction
<1>2. Row(r).action = IF r.action \in {"warning", "log"} THEN r.action ELSE "error"
  BY DEF Row
<1> DEFINE a == r.action
           b == Row(r).action
<1>3. Rank(r) = Severity[NormalAction[a]] /\ Rank(Row(r)) = Severity[NormalAction[b]]
  BY DEF Rank
<1> HIDE DEF a, b
<1>4. NormalAction[a] = b /\ NormalAction[b] = b /\ Severity[b] \in Int
  <2>1. CASE a = "error" \/ a = "block"
    BY <1>2, <2>1 DEF a, b, NormalAction, Severity
  <2>2. CASE a = "warning"
    BY <1>2, <2>2 DEF a, b, NormalAction, Severity
  <2>3. CASE a = "log"
    BY <1>2, <2>3 DEF a, b, NormalAction, Severity
  <2> QED BY <1>1, <2>1, <2>2, <2>3 DEF a
<1> QED BY <1>3, <1>4 DEF a, b

LEMMA SameOrder ==
  ASSUME NEW r \in SessionRules, NEW s \in SessionRules, r.action # "warn", s.action # "warn"
  PROVE  EvaluatedBefore(r, s) <=> RowBefore(r, s)
<1>1. Severity[Row(r).action] = Rank(r) /\ Severity[Row(s).action] = Rank(s)
  BY SameRank
<1> QED BY <1>1 DEF EvaluatedBefore, RowBefore

(* The row that wins on the page is the one of the rule that is found.     *)
Winner(nth, m, rules, command, mode) ==
  /\ m \in 1 .. Cardinality(rules) /\ CustomRuleApplies(nth[m], command, mode)
  /\ \A i \in 1 .. Cardinality(rules) : CustomRuleApplies(nth[i], command, mode) => m <= i

LEMMA FirstRuleIs ==
  ASSUME NEW rules, RuleSet(rules), ShownRight(rules), NEW nth, ListedAs(rules, nth), NEW command, NEW mode,
         NEW m, Winner(nth, m, rules, command, mode)
  PROVE  MatchCustomRule(command, mode, rules) = nth[m]
<1> DEFINE n == Cardinality(rules)
           fit == {r \in rules : CustomRuleApplies(r, command, mode)}
           c == CHOOSE r \in fit : \A s \in fit \ {r} : EvaluatedBefore(r, s)
<1>1. /\ nth \in [1 .. n -> rules] /\ \A r \in rules : \E i \in 1 .. n : nth[i] = r
      /\ \A i, j \in 1 .. n : RowBefore(nth[i], nth[j]) <=> i < j
  BY DEF ListedAs
<1>2. \A r, s \in rules : EvaluatedBefore(r, s) <=> RowBefore(r, s)
  BY SameOrder DEF RuleSet, ShownRight
<1>3. m \in 1 .. n /\ nth[m] \in fit /\ \A i \in 1 .. n : nth[i] \in fit => m <= i
  BY <1>1 DEF Winner
<1>4. MatchCustomRule(command, mode, rules) = c
  BY <1>3 DEF MatchCustomRule
<1>5. fit \in SUBSET rules
  OBVIOUS
<1>6. n \in Nat
  BY FS_CardinalityType DEF RuleSet
<1> HIDE DEF n, fit
<1>7. \A s \in fit \ {nth[m]} : EvaluatedBefore(nth[m], s)
  <2> SUFFICES ASSUME NEW s \in fit, s # nth[m] PROVE EvaluatedBefore(nth[m], s)
    OBVIOUS
  <2>1. PICK j \in 1 .. n : nth[j] = s
    BY <1>1, <1>5
  <2>2. m < j
    BY <1>3, <1>6, <2>1
  <2> QED BY <1>1, <1>2, <1>3, <1>5, <2>1, <2>2
<1>8. c \in fit /\ \A s \in fit \ {c} : EvaluatedBefore(c, s)
  BY <1>3, <1>7
<1> HIDE DEF c
<1>9. c = nth[m]
  <2> SUFFICES ASSUME c # nth[m] PROVE FALSE
    OBVIOUS
  <2>1. PICK j \in 1 .. n : nth[j] = c
    BY <1>1, <1>5, <1>8
  <2>2. EvaluatedBefore(c, nth[m])
    BY <1>3, <1>8
  <2>3. j < m
    BY <1>1, <1>2, <1>3, <1>5, <2>1, <2>2
  <2>4. m <= j
    BY <1>3, <1>8, <2>1
  <2> QED BY <1>3, <1>6, <2>3, <2>4
<1> QED BY <1>4, <1>9

LEMMA FirstRowIs ==
  ASSUME RuleSet(active), ShownRight(active), NEW nth, ListedAs(active, nth), screen = Listed(active),
         NEW command, NEW mode, NEW m, Winner(nth, m, active, command, mode)
  PROVE  FirstRow(command, mode) = Row(nth[m])
<1> DEFINE n == Cardinality(active)
           fit == {i \in 1 .. Len(screen) : CustomRuleApplies(screen[i], command, mode)}
           Wins(i, j) == Rank(screen[i]) > Rank(screen[j]) \/ (Rank(screen[i]) = Rank(screen[j]) /\ i <= j)
           c == CHOOSE i \in fit : \A j \in fit : Wins(i, j)
<1>1. /\ nth \in [1 .. n -> active]
      /\ \A i, j \in 1 .. n : RowBefore(nth[i], nth[j]) <=> i < j
      /\ screen = [i \in 1 .. n |-> Row(nth[i])]
  BY DEF ListedAs
<1>2. n \in Nat /\ Len(screen) = n
  <2>1. n \in Nat
    BY FS_CardinalityType DEF RuleSet
  <2>2. Len(screen) = n
    BY ListedAreRows
  <2> QED BY <2>1, <2>2
<1> HIDE DEF n
<1>3. \A i \in 1 .. n : screen[i] = Row(nth[i]) /\ nth[i] \in active
  BY <1>1
<1>4. \A r \in active : /\ CustomRuleApplies(Row(r), command, mode) <=> CustomRuleApplies(r, command, mode)
  BY DEF CustomRuleApplies, Row
<1>5. m \in 1 .. n /\ m \in fit /\ \A i \in fit : m <= i
  BY <1>2, <1>3, <1>4 DEF Winner, n
<1>6. \A r \in active : Severity[Row(r).action] = Rank(r) /\ Rank(Row(r)) = Rank(r) /\ Rank(r) \in Int
  BY SameRank DEF RuleSet, ShownRight
<1>7. fit \in SUBSET (1 .. n)
  BY <1>2
<1> HIDE DEF fit
<1>8. ASSUME NEW i \in 1 .. n, NEW j \in 1 .. n PROVE Wins(i, j) <=> i <= j
  <2> DEFINE x == nth[i]
             y == nth[j]
  <2>1. x \in active /\ y \in active /\ Rank(screen[i]) = Rank(x) /\ Rank(screen[j]) = Rank(y)
    BY <1>3, <1>6
  <2>2. i < j => Rank(x) >= Rank(y)
    <3>1. i < j => RowBefore(x, y)
      BY <1>1
    <3> HIDE DEF x, y
    <3> QED BY <1>6, <2>1, <3>1 DEF RowBefore
  <2>3. j < i => Rank(y) >= Rank(x)
    <3>1. j < i => RowBefore(y, x)
      BY <1>1
    <3> HIDE DEF x, y
    <3> QED BY <1>6, <2>1, <3>1 DEF RowBefore
  <2>4. Rank(x) \in Int /\ Rank(y) \in Int
    BY <1>6, <2>1
  <2> DEFINE a == Rank(x)
             b == Rank(y)
  <2>5. Wins(i, j) <=> (a > b \/ (a = b /\ i <= j))
    BY <2>1
  <2>6. i = j => a = b
    OBVIOUS
  <2>7. a \in Int /\ b \in Int /\ (i < j => a >= b) /\ (j < i => b >= a)
    BY <2>2, <2>3, <2>4
  <2> HIDE DEF a, b, Wins
  <2> QED BY <1>2, <2>5, <2>6, <2>7
<1>9. FirstRow(command, mode) = screen[c]
  BY <1>5 DEF FirstRow, fit
<1> HIDE DEF Wins
<1>10. \A j \in fit : Wins(m, j)
  BY <1>5, <1>7, <1>8
<1>11. c \in fit /\ \A j \in fit : Wins(c, j)
  BY <1>5, <1>10
<1> HIDE DEF c
<1>12. c = m
  <2>1. c <= m
    BY <1>5, <1>7, <1>8, <1>11
  <2>2. m <= c /\ c \in 1 .. n
    BY <1>5, <1>7, <1>11
  <2> QED BY <1>2, <1>5, <2>1, <2>2
<1> QED BY <1>3, <1>5, <1>9, <1>12

LEMMA VerdictIs ==
  ASSUME RulesInv, ShownRight(active)
  PROVE  VerdictAsShown
<1> SUFFICES ASSUME screen = Listed(active), NEW command \in Commands \ {"fatal"}, NEW mode \in OperationModes
             PROVE  LET row == FirstRow(command, mode)
                        verdict == Validate(command, mode, active) IN
                    verdict.rule = row.id /\ (row # NoRule => verdict.allowed = (row.action # "error"))
  BY DEF VerdictAsShown
<1> DEFINE n == Cardinality(active)
           row == FirstRow(command, mode)
           match == MatchCustomRule(command, mode, active)
           verdict == Validate(command, mode, active)
<1>1. RuleSet(active)
  BY DEF RulesInv, SessionOK
<1>2. PICK nth : ListedAs(active, nth)
  BY <1>1, ListedIs
<1>3. /\ nth \in [1 .. n -> active] /\ \A r \in active : \E i \in 1 .. n : nth[i] = r
      /\ screen = [i \in 1 .. n |-> Row(nth[i])]
  BY <1>2 DEF ListedAs
<1>4. n \in Nat /\ Len(screen) = n
  <2>1. n \in Nat
    BY <1>1, FS_CardinalityType DEF RuleSet
  <2>2. Len(screen) = n
    BY <1>1, ListedAreRows
  <2> QED BY <2>1, <2>2
<1> DEFINE T == {i \in 1 .. n : CustomRuleApplies(nth[i], command, mode)}
<1>5. CASE T = {}
  <2>1. \A r \in active : ~ CustomRuleApplies(r, command, mode)
    BY <1>3, <1>5
  <2>2. match = NoRule
    BY <2>1 DEF MatchCustomRule
  <2>3. \A i \in 1 .. n : ~ CustomRuleApplies(screen[i], command, mode)
    BY <1>3, <1>5 DEF CustomRuleApplies, Row
  <2>4. row = NoRule
    BY <1>4, <2>3 DEF FirstRow
  <2>5. verdict.rule = NoId
    BY <2>2 DEF Validate
  <2> QED BY <2>4, <2>5 DEF NoRule
<1>6. CASE T # {}
  <2>1. T \in SUBSET Nat
    BY <1>4
  <2> HIDE DEF T
  <2>2. PICK m \in T : \A i \in T : m <= i
    BY <1>6, <2>1, LeastNumber
  <2>3. Winner(nth, m, active, command, mode)
    BY <2>2 DEF Winner, T
  <2> DEFINE x == nth[m]
  <2>4. match = x
    BY <1>1, <1>2, <2>3, FirstRuleIs
  <2>5. row = Row(x)
    BY <1>1, <1>2, <2>3, FirstRowIs
  <2>6. x \in active
    BY <1>3, <2>2 DEF T
  <2> HIDE DEF x
  <2>7. x \in SessionRules /\ x.id # NoId /\ x.action # "warn"
    BY <1>1, <2>6 DEF RuleSet, SessionRules, ShownRight
  <2>8. x # NoRule
    BY <2>7 DEF NoRule
  <2> HIDE DEF match, row
  <2>9. verdict = [allowed |-> NormalAction[x.action] # "error", rule |-> x.id]
    BY <2>4, <2>8 DEF Validate, match
  <2>10. verdict.rule = x.id /\ verdict.allowed = (NormalAction[x.action] # "error")
    BY <2>9
  <2>11. row.id = x.id /\ (row.action = "error" <=> NormalAction[x.action] = "error")
    <3>1. Row(x).id = x.id
      BY DEF Row
    <3>2. Row(x).action = "error" <=> NormalAction[x.action] = "error"
      BY <2>7, SameRank
    <3> QED BY <2>5, <3>1, <3>2
  <2> QED BY <2>10, <2>11 DEF row
<1> QED BY <1>5, <1>6
(* When no installed rule is written "warn", none of the session is: the   *)
(* CLI and the tools write "warning".                                      *)
NeverWarn ==
  /\ \A scope \in Scopes : ShownRight(files[scope])
  /\ ShownRight(defaults) /\ ShownRight(active)

LEMMA InheritedShown ==
  ASSUME FilesOK, \A scope \in Scopes : ShownRight(files[scope])
  PROVE  ShownRight(Inherited)
<1>1. ASSUME NEW r \in Configured PROVE r \in Rules /\ r.action # "warn"
  <2>1. r \in files["global"] \/ r \in files["workspace"]
    BY DEF Configured
  <2>2. "global" \in Scopes /\ "workspace" \in Scopes
    BY DEF Scopes
  <2> QED BY <2>1, <2>2 DEF FilesOK, ShownRight
<1>2. \A r \in Configured : From("default", r).action # "warn"
  BY <1>1, FromIs
<1> QED BY <1>2 DEF Inherited, ShownRight

LEMMA NeverWarnStep ==
  ASSUME RulesInv, NeverWarn, [RulesNext]_rulesVars
  PROVE  NeverWarn'
<1>0. FilesOK /\ SessionOK /\ PageOK
  BY DEF RulesInv
<1>1. ASSUME NEW w \in ConfigWrites, ConfigSet(w[1], w[2]) PROVE NeverWarn'
  <2> DEFINE c == w[1]
             g == files[c]
             existing == {old \in g : old.id = w[2].id}
             r0 == FromFlags(existing, w[2])
             r == Normal(r0)
             h == Others(g, r0.id) \cup {r}
  <2>1. c \in Scopes
    BY PolicyRulesAssumption
  <2>2. files \in [Scopes -> SUBSET Rules] /\ g \in SUBSET Rules
    BY <1>0, <2>1 DEF FilesOK
  <2>3. files' = [files EXCEPT ![c] = h] /\ UNCHANGED <<session, page>>
    BY <1>1 DEF ConfigSet
  <2>4. existing \in SUBSET Rules /\ Complete(existing, w[2])
    BY <1>1, <2>2 DEF ConfigSet
  <2>5. r0 \in Rules
    <3> HIDE DEF existing
    <3> QED BY <2>4, FromFlagsIs
  <2>6. \A s \in h : s \in g \/ s = r
    BY DEF Others
  <2> HIDE DEF r0
  <2>7. r.action # "warn"
    BY <2>5, NormalIs DEF PageActions
  <2> HIDE DEF r, h
  <2>8. ShownRight(h)
    BY <2>1, <2>6, <2>7 DEF ShownRight, NeverWarn
  <2> HIDE DEF g, c
  <2>9. \A scope \in Scopes : files'[scope] = IF scope = c THEN h ELSE files[scope]
    BY <2>2, <2>3
  <2>10. \A scope \in Scopes : ShownRight(files'[scope])
    BY <2>8, <2>9 DEF NeverWarn
  <2> QED BY <2>3, <2>10 DEF NeverWarn, session
<1>2. ASSUME NEW scope \in Scopes, NEW id, ConfigRemove(scope, id) PROVE NeverWarn'
  <2>1. files' = [files EXCEPT ![scope] = Others(files[scope], id)] /\ UNCHANGED <<session, page>>
    BY <1>2 DEF ConfigRemove
  <2>2. files \in [Scopes -> SUBSET Rules]
    BY <1>0 DEF FilesOK
  <2>3. \A c \in Scopes : files'[c] \in SUBSET files[c]
    BY <2>1, <2>2 DEF Others
  <2>4. \A c \in Scopes : ShownRight(files'[c])
    BY <2>3 DEF NeverWarn, ShownRight
  <2> QED BY <2>1, <2>4 DEF NeverWarn, session
<1>3. ASSUME NEW r \in ToolRules, ToolUpsert(r) PROVE NeverWarn'
  <2> DEFINE s == Normal(r)
             u == Upserted(active, s)
  <2>1. s \in Rules /\ s.action # "warn"
    BY PolicyRulesAssumption, NormalIs DEF PageActions
  <2>2. active' = u /\ UNCHANGED <<files, defaults>>
    BY <1>3 DEF ToolUpsert
  <2> HIDE DEF s
  <2>3. ShownRight(u)
    BY <2>1, UpsertedShown DEF NeverWarn
  <2> HIDE DEF u
  <2> QED BY <2>2, <2>3 DEF NeverWarn, ShownRight
<1>4. ASSUME NEW id, ToolRemove(id) PROVE NeverWarn'
  <2>1. active' = Removed(id) /\ UNCHANGED <<files, defaults>>
    BY <1>4 DEF ToolRemove
  <2>2. \A r \in Removed(id) : r \in active \/ r \in defaults
    BY DEF Removed, Others
  <2> QED BY <2>1, <2>2 DEF NeverWarn, ShownRight
<1>5. CASE ToolReset
  <2>1. active' = Inherited /\ defaults' = Inherited /\ UNCHANGED files
    BY <1>5 DEF ToolReset, SetInherited
  <2>2. ShownRight(Inherited)
    BY <1>0, InheritedShown DEF NeverWarn
  <2> HIDE DEF ShownRight
  <2> QED BY <2>1, <2>2 DEF NeverWarn
<1>6. ASSUME NEW f \in fetches, Serve(f) PROVE NeverWarn'
  <2> DEFINE a == Posted(f.sent).rules
  <2>1. ShownRight(a)
    BY <1>0, PostedIs DEF NeverWarn, PageOK, FetchOK, Covering
  <2>2. (active' = a \/ active' = active) /\ UNCHANGED <<files, defaults>>
    BY <1>6 DEF Serve
  <2> HIDE DEF a
  <2> QED BY <2>1, <2>2 DEF NeverWarn, ShownRight
<1>7. ASSUME UNCHANGED <<files, session>> PROVE NeverWarn'
  BY <1>7 DEF NeverWarn, session, ShownRight
<1>8. CASE PageNext
  <2>1. (\E f \in fetches : Serve(f)) \/ UNCHANGED <<files, session>>
    BY <1>8 DEF PageNext, OpenDetails, CloseDetails, AddRule, Save, Refresh, DeleteRule, UpdateRuleField, MoveRule,
                Editing, Saved, Loaded, Fail
  <2> QED BY <1>6, <1>7, <2>1
<1>9. CASE UNCHANGED rulesVars
  BY <1>7, <1>9 DEF rulesVars
<1> QED BY <1>1, <1>2, <1>3, <1>4, <1>5, <1>8, <1>9 DEF RulesNext, ServerNext

(* When no installed rule is written "warn", a command is judged as the    *)
(* rows on the page say (VerdictAsShown, validateCommand).                 *)
THEOREM VerdictsAlwaysAsShown ==
  ASSUME \A scope \in Scopes : ShownRight(Installed[scope])
  PROVE  RulesSpec => []VerdictAsShown
<1>1. RulesInit => NeverWarn
  <2> SUFFICES ASSUME RulesInit PROVE NeverWarn
    OBVIOUS
  <2>1. FilesOK
    BY RulesInitOK DEF RulesInv
  <2>2. \A scope \in Scopes : ShownRight(files[scope])
    BY DEF RulesInit
  <2>3. ShownRight(Inherited)
    BY <2>1, <2>2, InheritedShown
  <2> QED BY <2>2, <2>3 DEF RulesInit, NeverWarn
<1>2. RulesInv /\ NeverWarn /\ [RulesNext]_rulesVars => NeverWarn'
  BY NeverWarnStep
<1>3. RulesInv /\ NeverWarn => VerdictAsShown
  BY VerdictIs DEF NeverWarn
<1> QED BY <1>1, <1>2, <1>3, RulesAlwaysOK, PTL DEF RulesSpec
(* A save sends rows that come in levels, and there is one at a time.      *)
SavesOK ==
  /\ \A f \in fetches : f.for = "save" => Falling(f.sent)
  /\ \A f, g \in fetches : f.for = "save" /\ g.for = "save" => f = g

LEMMA TouchedIs ==
  ASSUME NEW g \in Touched
  PROVE  \E f \in fetches : g = [f EXCEPT !.touched = TRUE] /\ g.for = f.for /\ g.sent = f.sent /\ g.answer = f.answer
<1>1. PICK f \in fetches : g = [f EXCEPT !.touched = TRUE]
  BY DEF Touched
<1> DEFINE h == [f EXCEPT !.touched = TRUE]
<1>2. h.for = f.for /\ h.sent = f.sent /\ h.answer = f.answer
  OBVIOUS
<1>3. g = h
  BY <1>1
<1> HIDE DEF h
<1>4. g.for = f.for /\ g.sent = f.sent /\ g.answer = f.answer
  BY <1>2, <1>3
<1> QED BY <1>1, <1>4

(* The answer goes with the request.                                       *)
LEMMA ServedIs ==
  ASSUME NEW f \in fetches, Serve(f), NEW g \in fetches'
  PROVE  (g \in fetches /\ g # f) \/ (g.for = f.for /\ g.sent = f.sent)
<1> DEFINE Answered(x) == [f EXCEPT !.answer = x]
<1>1. \A x : Answered(x).for = f.for /\ Answered(x).sent = f.sent
  OBVIOUS
<1>2. (g \in fetches /\ g # f) \/ g = Answered(Posted(f.sent).rules) \/ g = Answered(active)
  BY DEF Serve
<1> HIDE DEF Answered
<1>3. g = Answered(Posted(f.sent).rules) \/ g = Answered(active) => g.for = f.for /\ g.sent = f.sent
  BY <1>1
<1> QED BY <1>2, <1>3

(* What a step may make of the requests.                                   *)
LEMMA FetchesStep ==
  ASSUME [RulesNext]_rulesVars
  PROVE  \/ fetches' = Touched
         \/ \E f \in fetches : Serve(f)
         \/ \A g \in fetches' : g \in fetches \/ g.for # "save"
         \/ Save
<1> DEFINE Less == \A g \in fetches' : g \in fetches \/ g.for # "save"
<1>1. CASE ServerNext \/ UNCHANGED rulesVars
  <2>1. fetches' = fetches
    BY <1>1 DEF rulesVars, page, ServerNext, ConfigSet, ConfigRemove, ToolUpsert, ToolRemove, ToolReset
  <2> QED BY <2>1
<1>2. CASE PageNext
  <2>1. CASE OpenDetails \/ CloseDetails \/ Refresh
    <3>1. \A g \in fetches' : g \in fetches \/ g = Asked("open", <<>>) \/ g = Asked("refresh", <<>>)
      BY <2>1 DEF OpenDetails, CloseDetails, Refresh
    <3>2. Asked("open", <<>>).for # "save" /\ Asked("refresh", <<>>).for # "save"
      BY DEF Asked
    <3> QED BY <3>1, <3>2
  <2>2. ASSUME NEW f \in fetches, Saved(f) \/ Loaded(f) \/ Fail(f) PROVE Less
    <3>1. \A g \in fetches' : g \in fetches \/ g = Asked("saved", <<>>)
      BY <2>2 DEF Saved, Loaded, Fail
    <3>2. Asked("saved", <<>>).for # "save"
      BY DEF Asked
    <3> QED BY <3>1, <3>2
  <2>3. ASSUME NEW i, NEW j, NEW e, AddRule \/ DeleteRule(i) \/ UpdateRuleField(i, e) \/ MoveRule(i, j)
        PROVE  fetches' = Touched
    BY <2>3 DEF AddRule, DeleteRule, UpdateRuleField, MoveRule, Editing
  <2> HIDE DEF Less
  <2> QED BY <1>2, <2>1, <2>2, <2>3 DEF PageNext, Less
<1> QED BY <1>1, <1>2 DEF RulesNext

LEMMA SavesStep ==
  ASSUME RulesInv, SavesOK, [RulesNext]_rulesVars
  PROVE  SavesOK'
<1>1. CASE fetches' = Touched
  <2>1. \A g \in fetches' : \E f \in fetches : /\ g = [f EXCEPT !.touched = TRUE] /\ g.for = f.for
                                               /\ g.sent = f.sent /\ g.answer = f.answer
    BY <1>1, TouchedIs
  <2>2. \A g \in fetches' : g.for = "save" => Falling(g.sent)
    BY <2>1 DEF SavesOK
  <2>3. ASSUME NEW g \in fetches', NEW h \in fetches', g.for = "save", h.for = "save" PROVE g = h
    <3>1. PICK f \in fetches : g = [f EXCEPT !.touched = TRUE] /\ g.for = f.for
      BY <2>1
    <3>2. PICK e \in fetches : h = [e EXCEPT !.touched = TRUE] /\ h.for = e.for
      BY <2>1
    <3>3. e = f
      BY <2>3, <3>1, <3>2 DEF SavesOK
    <3> QED BY <3>1, <3>2, <3>3
  <2> QED BY <2>2, <2>3 DEF SavesOK, Falling
<1>2. ASSUME NEW f \in fetches, Serve(f) PROVE SavesOK'
  <2>1. \A g \in fetches' : (g \in fetches /\ g # f) \/ (g.for = f.for /\ g.sent = f.sent)
    BY <1>2, ServedIs
  <2>2. \A g, h \in fetches' : (g \in fetches /\ g # f) \/ (h \in fetches /\ h # f) \/ g = h
    BY <1>2 DEF Serve
  <2>3. \A g \in fetches' : g.for = "save" => Falling(g.sent)
    BY <2>1 DEF SavesOK
  <2>4. ASSUME NEW g \in fetches', NEW h \in fetches', g.for = "save", h.for = "save", g # h PROVE FALSE
    <3>1. (g \in fetches /\ g # f) \/ (h \in fetches /\ h # f)
      BY <2>2, <2>4
    <3>2. f.for # "save"
      BY <2>4, <3>1 DEF SavesOK
    <3>3. g \in fetches /\ h \in fetches
      BY <2>1, <2>4, <3>2
    <3> QED BY <2>4, <3>3 DEF SavesOK
  <2> QED BY <2>3, <2>4 DEF SavesOK, Falling
<1>3. CASE \A g \in fetches' : g \in fetches \/ g.for # "save"
  BY <1>3 DEF SavesOK, Falling
<1>4. CASE Save
  <2> DEFINE new == Asked("save", SortRules(rows))
  <2>1. fetches' = fetches \cup {new} /\ \A f \in fetches : f.for # "save"
    BY <1>4 DEF Save, Under
  <2>2. Falling(new.sent)
    <3>1. new.sent = SortRules(rows)
      BY DEF Asked
    <3>2. Falling(SortRules(rows))
      BY SortedAreRows DEF RulesInv, PageOK
    <3> QED BY <3>1, <3>2
  <2> HIDE DEF new
  <2> QED BY <2>1, <2>2 DEF SavesOK, Falling
<1> QED BY <1>1, <1>2, <1>3, <1>4, FetchesStep

(* The answer to a save is what the POST made of its rows.                 *)
LEMMA AnswerIs ==
  ASSUME SavesOK, [RulesNext]_rulesVars, NEW f \in Under("save"), f.answer = NoAnswer,
         NEW g \in fetches', g.for = "save", g.answer # NoAnswer
  PROVE  Posted(f.sent).ok /\ active' = Posted(f.sent).rules
<1>0. f \in fetches /\ f.for = "save"
  BY DEF Under
<1>1. fetches' # Touched
  <2> SUFFICES ASSUME fetches' = Touched PROVE FALSE
    OBVIOUS
  <2>1. PICK h \in fetches : g.for = h.for /\ g.answer = h.answer
    BY TouchedIs
  <2> QED BY <1>0, <2>1 DEF SavesOK
<1>2. g \notin fetches
  BY <1>0 DEF SavesOK
<1>3. ~ Save
  BY <1>0 DEF Save, Under
<1>4. PICK h \in fetches : Serve(h)
  BY <1>1, <1>2, <1>3, FetchesStep
<1>5. h.for = "save"
  <2>1. g \in fetches \/ g.for = h.for
    BY <1>4, ServedIs
  <2> QED BY <1>2, <2>1
<1>6. h = f
  BY <1>0, <1>5 DEF SavesOK
<1> DEFINE p == Posted(f.sent)
<1>7. active' = p.rules /\ fetches' = (fetches \ {f}) \cup IF p.ok THEN {[f EXCEPT !.answer = p.rules]} ELSE {}
  BY <1>4, <1>5, <1>6 DEF Serve
<1> HIDE DEF p
<1>8. p.ok
  BY <1>2, <1>7
<1> QED BY <1>7, <1>8 DEF p

(* The row of the rule that a row was sent as is that row.                 *)
LEMMA RowBack ==
  ASSUME NEW sent \in Seq(Rows), NEW i \in 1 .. Len(sent), sent[i].id # NoId
  PROVE  /\ Row(From("session", RuleOf(sent[i], i))) = sent[i]
         /\ From("session", RuleOf(sent[i], i)).id = sent[i].id
         /\ From("session", RuleOf(sent[i], i)).priority = i
<1> DEFINE x == sent[i]
           r == From("session", RuleOf(x, i))
<1>1. x \in Rows
  OBVIOUS
<1>2. r = [source |-> "session", id |-> x.id, enabled |-> x.enabled, mode |-> x.mode, pattern |-> x.pattern,
           action |-> x.action, priority |-> i]
  BY DEF From, RuleOf, PriorityOf
<1> HIDE DEF x, r
<1>3. Row(r) = [id |-> x.id, enabled |-> x.enabled, mode |-> x.mode, pattern |-> x.pattern, action |-> x.action]
  <2>1. x.action \in {"warning", "log"} \/ x.action = "error"
    BY <1>1 DEF Rows, PageActions
  <2> QED BY <1>2, <2>1 DEF Row
<1>4. x = [id |-> x.id, enabled |-> x.enabled, mode |-> x.mode, pattern |-> x.pattern, action |-> x.action]
  BY <1>1 DEF Rows
<1>5. Row(r) = x /\ r.id = x.id /\ r.priority = i
  BY <1>2, <1>3, <1>4
<1> QED BY <1>5 DEF x, r

LEMMA ListedBack ==
  ASSUME SessionOK, NEW sent \in Seq(Rows), Falling(sent), Posted(sent).ok
  PROVE  LET list == Listed(Posted(sent).rules)
             kept == KeptRows(sent) IN
         /\ \A i \in kept : \E p \in DOMAIN list : list[p] = sent[i]
         /\ \A i, j \in kept, p, q \in DOMAIN list :
              i < j /\ list[p] = sent[i] /\ list[q] = sent[j] => p < q
<1> DEFINE a == Posted(sent).rules
           n == Cardinality(a)
           list == Listed(a)
           kept == KeptRows(sent)
           R(i) == From("session", RuleOf(sent[i], i))
<1>1. RuleSet(a)
  BY PostedIs DEF Covering
<1>2. \A i \in kept : R(i) \in a
  BY PostedHas
<1>3. \A i \in kept : i \in 1 .. Len(sent) /\ sent[i].id # NoId
  BY DEF KeptRows
<1>4. \A i \in kept : Row(R(i)) = sent[i] /\ R(i).id = sent[i].id /\ R(i).priority = i
  BY <1>3, RowBack
<1>5. \A i, j \in kept : i < j => Severity[sent[i].action] >= Severity[sent[j].action]
  BY <1>3 DEF Falling
<1> HIDE DEF a, R, kept
<1>6. PICK nth : ListedAs(a, nth)
  BY <1>1, ListedIs
<1>7. /\ nth \in [1 .. n -> a] /\ \A r \in a : \E i \in 1 .. n : nth[i] = r
      /\ \A i, j \in 1 .. n : RowBefore(nth[i], nth[j]) <=> i < j
      /\ list = [i \in 1 .. n |-> Row(nth[i])]
  BY <1>6 DEF ListedAs
<1> HIDE DEF list, n
<1>8. DOMAIN list = 1 .. n /\ \A i \in 1 .. n : list[i] = Row(nth[i])
  BY <1>7
<1>9. ASSUME NEW i \in kept PROVE \E p \in DOMAIN list : list[p] = sent[i]
  <2>1. PICK p \in 1 .. n : nth[p] = R(i)
    BY <1>2, <1>7
  <2> QED BY <1>4, <1>8, <2>1
<1>10. ASSUME NEW i \in kept, NEW p \in DOMAIN list, list[p] = sent[i] PROVE nth[p] = R(i)
  <2>1. p \in 1 .. n /\ Row(nth[p]) = sent[i] /\ nth[p] \in a
    BY <1>7, <1>8, <1>10
  <2>2. Row(nth[p]).id = nth[p].id
    BY DEF Row
  <2>3. nth[p].id = R(i).id
    BY <1>4, <2>1, <2>2
  <2> QED BY <1>1, <1>2, <2>1, <2>3 DEF RuleSet, OnePerId
<1>11. ASSUME NEW i \in kept, NEW j \in kept, NEW p \in DOMAIN list, NEW q \in DOMAIN list,
              i < j, list[p] = sent[i], list[q] = sent[j]
       PROVE  p < q
  <2> DEFINE r == R(i)
             s == R(j)
  <2>1. nth[p] = r /\ nth[q] = s /\ p \in 1 .. n /\ q \in 1 .. n
    BY <1>8, <1>10, <1>11
  <2>2. r \in SessionRules /\ s \in SessionRules
    BY <1>1, <1>2 DEF RuleSet
  <2>3. Severity[Row(r).action] >= Severity[Row(s).action] /\ r.priority < s.priority
    BY <1>4, <1>5, <1>11
  <2> HIDE DEF r, s
  <2>4. Severity[Row(r).action] \in Int /\ Severity[Row(s).action] \in Int
    BY <2>2, RowIs
  <2>5. RowBefore(r, s)
    BY <2>3, <2>4 DEF RowBefore, Earlier
  <2> QED BY <1>7, <2>1, <2>5
<1> QED BY <1>9, <1>11 DEF list, kept, a

(* A save comes back to the page as it was sent, in its order (SavedAsSent, *)
(* saveRules, handleSessionPolicyRequest, sortRules).                      *)
THEOREM SavesAlwaysAsSent == RulesSpec => SavedAsSent
<1>1. RulesInit => SavesOK
  BY DEF RulesInit, SavesOK
<1>2. RulesInv /\ SavesOK /\ [RulesNext]_rulesVars => SavesOK'
  BY SavesStep
<1> DEFINE A ==
      \A f \in Under("save") :
        f.answer = NoAnswer /\ (\E g \in fetches' : g.for = "save" /\ g.answer # NoAnswer)
          => LET list == Listed(active')
                 kept == KeptRows(f.sent) IN
             /\ \A i \in kept : \E p \in DOMAIN list : list[p] = f.sent[i]
             /\ \A i, j \in kept, p, q \in DOMAIN list :
                  i < j /\ list[p] = f.sent[i] /\ list[q] = f.sent[j] => p < q
<1>3. RulesInv /\ SavesOK /\ [RulesNext]_rulesVars => A
  <2> SUFFICES ASSUME RulesInv, SavesOK, [RulesNext]_rulesVars, NEW f \in Under("save"), f.answer = NoAnswer,
                      NEW g \in fetches', g.for = "save", g.answer # NoAnswer
               PROVE  LET list == Listed(active')
                          kept == KeptRows(f.sent) IN
                      /\ \A i \in kept : \E p \in DOMAIN list : list[p] = f.sent[i]
                      /\ \A i, j \in kept, p, q \in DOMAIN list :
                           i < j /\ list[p] = f.sent[i] /\ list[q] = f.sent[j] => p < q
    OBVIOUS
  <2>1. Posted(f.sent).ok /\ active' = Posted(f.sent).rules
    BY AnswerIs
  <2>2. SessionOK /\ f.sent \in Seq(Rows) /\ Falling(f.sent)
    BY DEF RulesInv, PageOK, FetchOK, SavesOK, Under
  <2> QED BY <2>1, <2>2, ListedBack
<1>4. RulesSpec => [][A]_rulesVars
  <2> HIDE DEF A
  <2> QED BY <1>1, <1>2, <1>3, RulesAlwaysOK, PTL DEF RulesSpec
<1> QED BY <1>4 DEF SavedAsSent

=============================================================================
