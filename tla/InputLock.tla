------------------------------ MODULE InputLock ------------------------------
(***************************************************************************)
(* Who may type into the shared terminal of one SSH session.               *)
(*                                                                         *)
(* The state is the lock part of SSHSession (session.ts), the tool calls   *)
(* of ssh-run and ssh-retry that hold or want the agent lock (tools.ts),   *)
(* the running commands the server tracks for this session                 *)
(* (server-state.ts) and the viewers attached to it (viewer-ws-handler.ts, *)
(* viewer-http-handler.ts).  A handler runs without interruption between   *)
(* two awaits, so a piece of code from one await to the next is an action. *)
(*                                                                         *)
(* A text is only its length: userDraft is the length of userDraftBuffer.  *)
(* Ghost variables: line is the number of user characters that stand on    *)
(* the remote command line and typist who typed the last of them; plain    *)
(* says that since the line was begun nothing but typing and erasing at    *)
(* its end was done to it; wire says who wrote to the terminal in the last *)
(* step; unfinished holds the callers whose last command was typed and has *)
(* neither ended nor been given up by the server.                          *)
(***************************************************************************)
EXTENDS Naturals

CONSTANTS
  Runners,        \* callers of ssh-run
  Retriers,       \* callers of ssh-retry
  Viewers,        \* viewer sockets
  MaxRetries,     \* maxRetries of ssh-retry
  MaxDraft        \* bound on the length of the draft

Callers == Runners \cup Retriers

ASSUME BoundsAssumption == MaxRetries \in Nat /\ MaxDraft \in Nat
ASSUME CallersAssumption == Runners \cap Retriers = {}

VARIABLES
  debugMode,      \* DEBUG_MODE, set when the server starts: the debug endpoints answer
  lockPolicy, inputLock, agentInputActive, userDraftActive, draftViewers,
  userDraft, operationMode, closed,       \* fields of the SSHSession
  attached,                               \* viewers with an open socket
  pc, retry,                              \* tool calls in flight
  tracked,                                \* running entries of runningCommands
  line, typist, plain, wire, unfinished   \* ghosts

draftVars   == <<userDraftActive, draftViewers, userDraft>>
sessionVars == <<debugMode, lockPolicy, inputLock, agentInputActive, draftVars, operationMode, closed>>
callVars    == <<pc, retry, tracked, unfinished>>
lineVars    == <<line, typist, plain>>
vars        == <<sessionVars, attached, callVars, lineVars, wire>>

Policies == {"common", "agent", "user", "auto"}
Modes    == {"safe", "full"}
Typists  == Viewers \cup {"http", "nobody"}
PlainKeys == {"char", "enter", "erase", "ctrl_d"}
Keys     == PlainKeys \cup {"tab", "arrow"}     \* "tab" for esc and the other control characters too
Writes   == {"none", "user", "send", "debug", "command", "dangerous"}
NoRetry  == [attempt |-> 0, mode |-> "safe", dangerous |-> FALSE]

Waiting == {c \in Callers : pc[c] = "waiting"}
-----------------------------------------------------------------------------
(* The lock as the session computes it.  A name with an underscore is a    *)
(* deliberately wrong variant of the definition that follows it: with it   *)
(* in place of the right one some property below must fail.                *)

PolicyInputLock(policy, draft) ==
  IF policy \in {"agent", "user"} THEN policy
  ELSE IF policy = "auto" /\ draft THEN "user" ELSE "none"

EffectiveInputLock_PolicyOnly == PolicyInputLock(lockPolicy, userDraftActive)

EffectiveInputLock ==
  IF agentInputActive THEN "agent" ELSE PolicyInputLock(lockPolicy, userDraftActive)

SetUserDraftActive(active) ==
  /\ userDraftActive' = active
  /\ inputLock' = PolicyInputLock(lockPolicy, active)

(* The effect of one typed key on the draft, as noteUserDraftDelta replays *)
(* it: the carriage return ends the line (and so does ctrl_c), ctrl_d and  *)
(* tab leave it, and of the sequence an arrow key sends two characters     *)
(* count as typed.                                                         *)
KeyEffect(k, n) ==
  CASE k = "char"  -> n + 1
    [] k = "enter" -> 0
    [] k = "erase" -> IF n = 0 THEN 0 ELSE n - 1
    [] k = "arrow" -> n + 2
    [] OTHER       -> n

NoteUserDraftDelta_CtrlDClears(k) ==
  /\ userDraft' = IF k = "ctrl_d" THEN 0 ELSE KeyEffect(k, userDraft)
  /\ SetUserDraftActive(userDraft' > 0 \/ draftViewers # {})
  /\ UNCHANGED draftViewers

NoteUserDraftDelta(k) ==
  /\ userDraft' = KeyEffect(k, userDraft)
  /\ SetUserDraftActive(userDraft' > 0 \/ draftViewers # {})
  /\ UNCHANGED draftViewers

ClearUserDraft ==
  /\ userDraft' = 0
  /\ draftViewers' = {}
  /\ SetUserDraftActive(FALSE)
-----------------------------------------------------------------------------
(* The guards of a tool call that wants to type a command.                 *)

AgentBusy_TrackedOnly == tracked # {}

AgentBusy == tracked # {} \/ agentInputActive

CommandAllowed(mode, dangerous) == dangerous => mode = "full"

MayType(mode, dangerous) ==
  /\ EffectiveInputLock # "user"
  /\ ~AgentBusy
  /\ CommandAllowed(mode, dangerous)
  /\ ~closed            \* on a closed session the write throws, the finally block releases

SetLine(n, who) ==
  /\ line' = n
  /\ typist' = IF n = 0 THEN "nobody" ELSE who

EndLine == SetLine(0, typist) /\ plain' = TRUE

(* What a key of the user does to the remote line.  Completion, the        *)
(* history and a moved cursor make any line of it, and of what is typed    *)
(* after them, until the line ends.                                        *)
KeyOnLine(k, who) ==
  /\ plain' = (k = "enter" \/ (plain /\ k \in PlainKeys))
  /\ \E n \in IF plain' THEN {KeyEffect(k, line)} ELSE 0 .. MaxDraft : SetLine(n, who)

(* An agent's text or key without a newline: it ends the line (enter,      *)
(* ctrl_c), or it finds no character of the user, or it mixes with them.   *)
AgentOnLine ==
  \/ EndLine
  \/ line = 0 /\ UNCHANGED lineVars
  \/ line > 0 /\ plain' = FALSE /\ \E n \in 0 .. MaxDraft : SetLine(n, typist)

TypeCommand(c, dangerous) ==
  /\ wire' = IF dangerous THEN "dangerous" ELSE "command"
  /\ unfinished' = unfinished \cup {c}
  /\ EndLine                    \* the command ends with a newline
-----------------------------------------------------------------------------
(* Viewers.                                                                *)

Attach(v) ==
  /\ v \notin attached
  /\ attached' = attached \cup {v}
  /\ wire' = "none"
  /\ UNCHANGED <<sessionVars, callVars, lineVars>>

SetViewerDraftState(v, active) ==
  /\ draftViewers' = IF active THEN draftViewers \cup {v} ELSE draftViewers \ {v}
  /\ SetUserDraftActive(draftViewers' # {})
  /\ UNCHANGED userDraft

Detach_LeavesDraft(v) ==
  /\ v \in attached
  /\ attached' = attached \ {v}
  /\ wire' = "none"
  /\ UNCHANGED <<sessionVars, callVars, lineVars>>

Detach(v) ==
  /\ v \in attached
  /\ attached' = attached \ {v}
  /\ SetViewerDraftState(v, FALSE)
  /\ wire' = "none"
  /\ UNCHANGED <<debugMode, lockPolicy, agentInputActive, operationMode, closed, callVars, lineVars>>

DraftState(v, active) ==
  /\ v \in attached
  /\ SetViewerDraftState(v, active)
  /\ wire' = "none"
  /\ UNCHANGED <<debugMode, lockPolicy, agentInputActive, operationMode, closed, attached, callVars, lineVars>>

SetLockPolicy(p) ==
  /\ attached # {}
  /\ lockPolicy' = p
  /\ inputLock' = PolicyInputLock(p, userDraftActive)
  /\ wire' = "none"
  /\ UNCHANGED <<debugMode, agentInputActive, draftVars, operationMode, closed, attached, callVars, lineVars>>

SetOperationMode(m) ==
  /\ operationMode' = m
  /\ wire' = "none"
  /\ UNCHANGED <<debugMode, lockPolicy, inputLock, agentInputActive, draftVars, closed, attached, callVars, lineVars>>

(* The draft is noted before the write, so it moves even when the session  *)
(* is closed and the write throws.                                         *)
UserInput(who, k) ==
  /\ EffectiveInputLock # "agent"
  /\ KeyEffect(k, userDraft) <= MaxDraft
  /\ NoteUserDraftDelta(k)
  /\ wire' = IF closed THEN "none" ELSE "user"
  /\ IF closed THEN UNCHANGED lineVars ELSE KeyOnLine(k, who)
  /\ UNCHANGED <<debugMode, lockPolicy, agentInputActive, operationMode, closed, attached, callVars>>

ViewerInput(v, k) == v \in attached /\ UserInput(v, k)

HttpInput(k) == UserInput("http", k)

(* A control message, unlike the same key typed, leaves the draft alone.   *)
ViewerControl(v, k) ==
  /\ v \in attached /\ ~closed
  /\ EffectiveInputLock # "agent"
  /\ wire' = "user"
  /\ KeyOnLine(k, v)
  /\ UNCHANGED <<sessionVars, attached, callVars>>
-----------------------------------------------------------------------------
(* Tool calls.                                                             *)

RunStart(c, dangerous) ==
  /\ pc[c] = "idle"
  /\ MayType(operationMode, dangerous)
  /\ agentInputActive' = TRUE
  /\ pc' = [pc EXCEPT ![c] = "waiting"]
  /\ TypeCommand(c, dangerous)
  /\ UNCHANGED <<debugMode, lockPolicy, inputLock, draftVars, operationMode, closed, attached,
                 retry, tracked>>

(* waitMs = 0: the command is tracked before the handler ever waits.       *)
RunStartDetached(c, dangerous) ==
  /\ pc[c] = "idle"
  /\ MayType(operationMode, dangerous)
  /\ tracked' = tracked \cup {c}
  /\ TypeCommand(c, dangerous)
  /\ UNCHANGED <<sessionVars, attached, pc, retry>>

ReleaseAgentLock == agentInputActive' = FALSE

EndWait(c) ==
  /\ pc[c] = "waiting"
  /\ ReleaseAgentLock
  /\ wire' = "none"
  /\ UNCHANGED <<debugMode, lockPolicy, inputLock, draftVars, operationMode, closed, attached, lineVars>>

RunComplete(c) ==
  /\ EndWait(c)
  /\ pc' = [pc EXCEPT ![c] = "idle"]
  /\ unfinished' = unfinished \ {c}
  /\ UNCHANGED <<retry, tracked>>

RunTimeout_Untracked(c) ==
  /\ ~closed
  /\ EndWait(c)
  /\ pc' = [pc EXCEPT ![c] = "idle"]
  /\ UNCHANGED <<retry, tracked, unfinished>>

RunTimeout(c) ==
  /\ ~closed            \* closing the session settles the wait as completed
  /\ EndWait(c)
  /\ pc' = [pc EXCEPT ![c] = "idle"]
  /\ tracked' = tracked \cup {c}
  /\ UNCHANGED <<retry, unfinished>>

(* One attempt of ssh-retry, from the checks at the head of the loop to    *)
(* the await.  The mode is the one the call saw when it began.             *)
Attempt(c, n, mode, dangerous) ==
  /\ MayType(mode, dangerous)
  /\ agentInputActive' = TRUE
  /\ pc' = [pc EXCEPT ![c] = "waiting"]
  /\ retry' = [retry EXCEPT ![c] = [attempt |-> n, mode |-> mode, dangerous |-> dangerous]]
  /\ TypeCommand(c, dangerous)
  /\ UNCHANGED <<debugMode, lockPolicy, inputLock, draftVars, operationMode, closed, attached, tracked>>

RetryStart(c, dangerous) ==
  /\ pc[c] = "idle"
  /\ Attempt(c, 0, operationMode, dangerous)

RetryAttempt(c) ==
  /\ pc[c] = "delay"
  /\ Attempt(c, retry[c].attempt, retry[c].mode, retry[c].dangerous)

(* After the delay the call returns INPUT_LOCKED, AGENT_BUSY, ... or, on a *)
(* closed session, throws.                                                 *)
RetryBlocked(c) ==
  /\ pc[c] = "delay"
  /\ pc' = [pc EXCEPT ![c] = "idle"]
  /\ retry' = [retry EXCEPT ![c] = NoRetry]
  /\ wire' = "none"
  /\ UNCHANGED <<sessionVars, attached, tracked, unfinished, lineVars>>

(* The attempt succeeded: exit code 0, no exit code at all, or a match of  *)
(* successPattern, which may come before the end of the command.           *)
RetryReturn(c, timedOut) ==
  /\ timedOut => ~closed
  /\ EndWait(c)
  /\ pc' = [pc EXCEPT ![c] = "idle"]
  /\ retry' = [retry EXCEPT ![c] = NoRetry]
  /\ unfinished' = IF timedOut THEN unfinished ELSE unfinished \ {c}
  /\ UNCHANGED tracked

(* The attempt failed: a non-zero exit code, a match of failPattern, or no *)
(* answer in time.  Retry, or give up after MaxRetries.                    *)
RetryAgain_Forever(c, timedOut) ==
  /\ timedOut => ~closed
  /\ EndWait(c)
  /\ pc' = [pc EXCEPT ![c] = "delay"]
  /\ unfinished' = IF timedOut THEN unfinished ELSE unfinished \ {c}
  /\ UNCHANGED <<retry, tracked>>

RetryAgain(c, timedOut) ==
  /\ timedOut => ~closed
  /\ EndWait(c)
  /\ IF retry[c].attempt < MaxRetries
     THEN /\ pc' = [pc EXCEPT ![c] = "delay"]
          /\ retry' = [retry EXCEPT ![c].attempt = @ + 1]
     ELSE /\ pc' = [pc EXCEPT ![c] = "idle"]
          /\ retry' = [retry EXCEPT ![c] = NoRetry]
  /\ unfinished' = IF timedOut THEN unfinished ELSE unfinished \ {c}
  /\ UNCHANGED tracked

(* ssh-session-send and ssh-session-control.                               *)
SessionSend ==
  /\ EffectiveInputLock # "user" /\ ~closed
  /\ wire' = "send"
  /\ AgentOnLine
  /\ UNCHANGED <<sessionVars, attached, callVars>>

(* The debug endpoint sets the agent flag, writes and resets it.  On a     *)
(* closed session the write throws and the flag stays set.                 *)
DebugAgentInput ==
  /\ debugMode
  /\ EffectiveInputLock # "user"
  /\ agentInputActive' = closed
  /\ wire' = IF closed THEN "none" ELSE "debug"
  /\ EndLine
  /\ UNCHANGED <<debugMode, lockPolicy, inputLock, draftVars, operationMode, closed, attached, callVars>>

DebugControl ==
  /\ debugMode /\ ~closed
  /\ wire' = "debug"
  /\ AgentOnLine
  /\ UNCHANGED <<sessionVars, attached, callVars>>
-----------------------------------------------------------------------------
(* The server settles a tracked command: its monitor saw it end or gave    *)
(* up, or the sweep interrupted or evicted it.                             *)
SettleTracked(c) ==
  /\ c \in tracked
  /\ tracked' = tracked \ {c}
  /\ unfinished' = unfinished \ {c}
  /\ wire' = "none"
  /\ UNCHANGED <<sessionVars, attached, pc, retry, lineVars>>

(* The remote shell comes to the end of a command nobody waits for.        *)
RemoteFinish(c) ==
  /\ c \in unfinished \ Waiting
  /\ unfinished' = unfinished \ {c}
  /\ wire' = "none"
  /\ UNCHANGED <<sessionVars, attached, pc, retry, tracked, lineVars>>

(* The channel closed or failed, or the session was idle for too long.     *)
Finalize ==
  /\ ~closed
  /\ closed' = TRUE
  /\ agentInputActive' = FALSE
  /\ EndLine
  /\ wire' = "none"
  /\ UNCHANGED <<debugMode, lockPolicy, inputLock, draftVars, operationMode, attached, callVars>>

Close ==
  /\ ClearUserDraft
  /\ closed' = TRUE
  /\ agentInputActive' = (closed /\ agentInputActive)
  /\ EndLine
  /\ wire' = "none"
  /\ UNCHANGED <<debugMode, lockPolicy, operationMode, attached, callVars>>
-----------------------------------------------------------------------------
Init ==
  /\ debugMode \in BOOLEAN
  /\ lockPolicy = "auto" /\ inputLock = "none" /\ agentInputActive = FALSE
  /\ userDraftActive = FALSE /\ draftViewers = {} /\ userDraft = 0
  /\ operationMode = "safe" /\ closed = FALSE
  /\ attached = {}
  /\ pc = [c \in Callers |-> "idle"]
  /\ retry = [c \in Retriers |-> NoRetry]
  /\ tracked = {} /\ unfinished = {}
  /\ line = 0 /\ typist = "nobody" /\ plain = TRUE /\ wire = "none"

ViewerStep ==
  \/ \E v \in Viewers :
       \/ Attach(v)
       \/ Detach(v)
       \/ \E active \in BOOLEAN : DraftState(v, active)
       \/ \E k \in Keys : ViewerInput(v, k)
       \/ \E k \in Keys \ {"char"} : ViewerControl(v, k)
  \/ \E p \in Policies : SetLockPolicy(p)
  \/ \E m \in Modes : SetOperationMode(m)
  \/ \E k \in Keys : HttpInput(k)

RunStep(c) ==
  \/ \E d \in BOOLEAN : RunStart(c, d) \/ RunStartDetached(c, d)
  \/ RunComplete(c)
  \/ RunTimeout(c)

RetryStep(c) ==
  \/ \E d \in BOOLEAN : RetryStart(c, d)
  \/ RetryAttempt(c) \/ RetryBlocked(c)
  \/ \E t \in BOOLEAN : RetryReturn(c, t) \/ RetryAgain(c, t)

ServerStep ==
  \/ SessionSend \/ DebugAgentInput \/ DebugControl \/ Finalize \/ Close
  \/ \E c \in Callers : SettleTracked(c) \/ RemoteFinish(c)

Next ==
  \/ ViewerStep
  \/ \E c \in Runners : RunStep(c)
  \/ \E c \in Retriers : RetryStep(c)
  \/ ServerStep

(* Every wait has a maximum and every delay is a timer, and node fires a   *)
(* due timer: a call that waits or sleeps goes on.                         *)
Fairness ==
  /\ \A c \in Runners : WF_vars(RunComplete(c) \/ RunTimeout(c))
  /\ \A c \in Retriers : WF_vars(\E t \in BOOLEAN : RetryReturn(c, t) \/ RetryAgain(c, t))
  /\ \A c \in Retriers : WF_vars(RetryAttempt(c) \/ RetryBlocked(c))

Spec == Init /\ [][Next]_vars

FairSpec == Spec /\ Fairness
-----------------------------------------------------------------------------
(* Every variable has its type; in particular a draft is never shorter     *)
(* than empty, however many erase keys arrive.                             *)
TypeOK ==
  /\ debugMode \in BOOLEAN
  /\ lockPolicy \in Policies /\ inputLock \in {"none", "agent", "user"}
  /\ agentInputActive \in BOOLEAN /\ userDraftActive \in BOOLEAN
  /\ draftViewers \subseteq Viewers /\ attached \subseteq Viewers
  /\ userDraft \in 0 .. MaxDraft /\ line \in 0 .. MaxDraft
  /\ typist \in Typists /\ plain \in BOOLEAN
  /\ operationMode \in Modes /\ closed \in BOOLEAN
  /\ pc \in [Callers -> {"idle", "waiting", "delay"}]
  /\ retry \in [Retriers -> [attempt : 0 .. MaxRetries, mode : Modes, dangerous : BOOLEAN]]
  /\ tracked \subseteq Callers /\ unfinished \subseteq Callers
  /\ wire \in Writes

(* While a foreground command of an open session waits for its end, the    *)
(* session's agent flag is up, so viewers are refused and the badge says   *)
(* "AI active": nobody else's release may take the flag away.              *)
WaitingHoldsLock == Waiting # {} /\ ~closed => agentInputActive

(* At most one command of the session is in flight, counting the one whose *)
(* caller waits and the one the server tracks in the background.           *)
OneCommandInFlight ==
  /\ Waiting = {} \/ tracked = {}
  /\ \A c, d \in Waiting \cup tracked : c = d

(* The auto lock is never held by nobody: a draft is marked active only    *)
(* while a viewer that is still attached claims one or the shared draft    *)
(* buffer holds text.  A viewer that left cannot keep the agent locked out.*)
DraftHasOwner ==
  /\ draftViewers \subseteq attached
  /\ userDraftActive => userDraft > 0 \/ draftViewers # {}

(* The server never believes that the user's half-typed line is shorter    *)
(* than what stands on the remote command line, as long as the line was    *)
(* only typed and erased at its end.  Tab, esc, the arrows and agent text  *)
(* that mixes with the line are excepted: the draft does not follow them   *)
(* (DraftSeesLine below).                                                  *)
LineWithinDraft == plain => line <= userDraft

(* The cached field inputLock, which the diagnostics and the tests read,   *)
(* agrees with the policy and the draft flag after every operation.        *)
CachedLockFresh == inputLock = PolicyInputLock(lockPolicy, userDraftActive)

(* No key of a user reaches the terminal while a foreground agent command  *)
(* is waiting for its output: as long as the debug endpoints are off,      *)
(* nothing takes the agent flag from a waiting call.                       *)
NoUserKeysIntoCommand == [][wire' = "user" => debugMode \/ Waiting = {}]_vars

(* No command is typed while one that ssh-run typed and no longer waits    *)
(* for, having reported it as still running, has neither ended nor been    *)
(* given up.                                                               *)
NoCommandOverRunning ==
  [][wire' \in {"command", "dangerous"} => (unfinished \cap Runners) \ Waiting = {}]_vars

(* The server grants its one command slot as CommandSlot says.  With the   *)
(* debug endpoints on, which drop the flag, it promises nothing.           *)
Slot == INSTANCE CommandSlot WITH
          foreground <- IF debugMode THEN {} ELSE Waiting,
          background <- IF debugMode THEN {} ELSE tracked
ImplementsCommandSlot == Slot!SlotSpec

(* Every ssh-run and ssh-retry call returns, and the agent lock that it    *)
(* took always comes back (a debug request to a closed session leaves it). *)
CallsReturn ==
  /\ \A c \in Callers : pc[c] # "idle" ~> pc[c] = "idle"
  /\ ~debugMode /\ agentInputActive ~> ~agentInputActive
-----------------------------------------------------------------------------
(* What documents say and the code does not keep.                          *)

(* CHANGELOG 2.2.0: AGENT_BUSY "if another command is already running on   *)
(* the same session".  ssh-retry leaves no entry for an attempt that timed *)
(* out, so its next attempt, or anyone's command, is typed over it.        *)
NoCommandOverTimedOut == [][wire' \in {"command", "dangerous"} => unfinished \ Waiting = {}]_vars

(* README, Operation Modes: safe mode "Automatically blocks obviously      *)
(* dangerous" commands.  ssh-retry validates later attempts against the    *)
(* mode the session had when the call began.                               *)
SafeModeHolds == [][wire' = "dangerous" => operationMode = "full"]_vars

(* README, Lock Policy, auto: "While the user is actively drafting input,  *)
(* agent writes are blocked".  The line of a user of the terminal viewer   *)
(* is known only to the draft buffer, which draft messages and departures  *)
(* of browser viewers ignore, even when it follows the line.               *)
NoAgentWriteIntoDraft ==
  [][wire' \in {"send", "command", "dangerous"} /\ lockPolicy = "auto" /\ plain
       => line = 0 \/ typist # "http"]_vars

(* The same promise.  noteUserDraftDelta ignores tab and esc, a control    *)
(* message leaves the draft alone, and both can put text on the line       *)
(* (completion, history): the agent may write after what the draft does    *)
(* not see.                                                                *)
DraftSeesLine ==
  [][wire' \in {"send", "command", "dangerous"} /\ lockPolicy = "auto" => line <= userDraft]_vars

(* README, Lock Policy, user: "Only the user can type. Agent write actions *)
(* are blocked".                                                           *)
UserPolicyBlocksAgent ==
  [][wire' \in {"send", "command", "dangerous"} => lockPolicy # "user"]_vars
=============================================================================
