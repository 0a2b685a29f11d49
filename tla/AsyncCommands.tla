----------------------------- MODULE AsyncCommands -----------------------------
(***************************************************************************)
(* The life of a command that outlasted ssh-run: the entry in              *)
(* runningCommands, the background monitor that settles it, the sweep that *)
(* throws entries and sessions away, ssh-command-status that reports it,   *)
(* and the ways in which its session may end meanwhile.                    *)
(*                                                                         *)
(* Node.js runs one handler at a time, and the callbacks of the promises   *)
(* it resolved directly after it; so an action that ends a session also    *)
(* holds what the waits on that session do then.  How a wait finds its end *)
(* is CommandCompletion; here it may end at any moment, or time out.       *)
(*                                                                         *)
(* Time goes in ticks.  age and doneAge are what Date.now() - startTime    *)
(* and Date.now() - completedAt give, and they go on after the entry is    *)
(* gone.  Timers fire in time.  The ages of sessions are left out: a sweep *)
(* may find any open session idle and any closed one past its retention.   *)
(***************************************************************************)
EXTENDS Integers, Functions

CONSTANTS
  Commands, Sessions,
  MonitorTicks, MaxDepth,  \* one wait of the monitor, and how often it waits again
  EvictTicks, StuckTicks,  \* 5 and 10 minutes
  SweepTicks               \* between two sweeps of the timer

ASSUME LimitsAssumption ==
  /\ MonitorTicks \in Nat \ {0} /\ SweepTicks \in Nat \ {0}
  /\ MaxDepth \in Nat /\ EvictTicks \in Nat /\ StuckTicks \in Nat

VARIABLES
  session,          \* "open"; "closed" but kept for reading; or "forgotten"
  sessionOf,        \* the session a command was sent to
  foreground,       \* the command that ssh-run waits for, per session
  remote,           \* what the command does on the host
  runningCommands,  \* the status of every tracked command
  monitor,          \* the running wait of a command's monitor
  age, doneAge,     \* ticks since startTime, since completedAt
  sweepTimer,
  reported          \* ghost: the final status that a client was told

vars == <<session, sessionOf, foreground, remote, runningCommands, monitor, age, doneAge,
          sweepTimer, reported>>

Off       == -1
NoSession == "no session"
NoCommand == "no command"
NoMonitor == [left |-> Off, depth |-> 0]

ASSUME NamesAssumption == NoSession \notin Sessions /\ NoCommand \notin Commands

IsRunning(c)  == c \in DOMAIN runningCommands /\ runningCommands[c] = "running"
IsOver(c)     == c \in DOMAIN runningCommands /\ runningCommands[c] # "running"
Tracked(c, s) == IsRunning(c) /\ sessionOf[c] = s
-----------------------------------------------------------------------------
(* A handler ends with the sessions sess and the entries left.  Waits on a *)
(* session that has closed end with 'idle': ssh-run returns, and a monitor *)
(* whose entry is still there completes it.                                *)
EndHandler(sess, left) ==
  LET settles(c) == left[c] = "running" /\ monitor[c] # NoMonitor /\ sess[sessionOf[c]] # "open"
  IN  /\ session' = sess
      /\ runningCommands' = [c \in DOMAIN left |-> IF settles(c) THEN "completed" ELSE left[c]]
      /\ doneAge' = [c \in Commands |-> IF c \in DOMAIN left /\ settles(c) THEN 0 ELSE doneAge[c]]

MonitorsEnd(sess) ==
  monitor' = [c \in Commands |->
                IF monitor[c] # NoMonitor /\ sess[sessionOf[c]] # "open" THEN NoMonitor ELSE monitor[c]]

WaitsEnd(sess) ==
  /\ MonitorsEnd(sess)
  /\ foreground' = [s \in Sessions |-> IF sess[s] # "open" THEN NoCommand ELSE foreground[s]]

(* sweepSessions: open sessions may be closed as idle and closed ones be   *)
(* pruned; entries go with their session, by age after their end, and as   *)
(* stuck.  An entry that is interrupted as stuck is dropped at once.       *)
Swept(sess) == {[s \in Sessions |-> CASE s \in hit /\ sess[s] = "open"   -> "closed"
                                     [] s \in hit /\ sess[s] = "closed" -> "forgotten"
                                     [] OTHER                           -> sess[s]]
                  : hit \in SUBSET Sessions}

Kept_ByAge(sess) ==
  {c \in DOMAIN runningCommands :
     /\ sess[sessionOf[c]] # "forgotten"
     /\ IsOver(c) => age[c] <= EvictTicks
     /\ IsRunning(c) => age[c] <= StuckTicks}

Kept_CompletedForGood(sess) ==
  {c \in DOMAIN runningCommands :
     /\ sess[sessionOf[c]] # "forgotten"
     /\ IsRunning(c) => age[c] <= StuckTicks}

Kept(sess) ==
  {c \in DOMAIN runningCommands :
     /\ sess[sessionOf[c]] # "forgotten"
     /\ IsOver(c) => doneAge[c] <= EvictTicks
     /\ IsRunning(c) => age[c] <= StuckTicks}

SweepSessions ==
  \E sess \in Swept(session) :
    /\ EndHandler(sess, Restrict(runningCommands, Kept(sess)))
    /\ WaitsEnd(sess)

SweepTimerFires ==
  /\ sweepTimer = 0
  /\ sweepTimer' = SweepTicks
  /\ SweepSessions
  /\ UNCHANGED <<sessionOf, remote, age, reported>>

(* Many tools and viewer requests sweep before they look at anything.      *)
SweepOnRequest ==
  /\ SweepSessions
  /\ UNCHANGED <<sessionOf, remote, age, sweepTimer, reported>>
-----------------------------------------------------------------------------
(* ssh-run.                                                                *)

RunStart(s, c) ==
  \E sess \in Swept(session) :
    LET kept == Kept(sess)
    IN  /\ sessionOf[c] = NoSession
        /\ sess[s] = "open" /\ foreground[s] = NoCommand
        /\ \A d \in kept : ~Tracked(d, s)
        /\ sessionOf' = [sessionOf EXCEPT ![c] = s]
        /\ remote' = [remote EXCEPT ![c] = "running"]
        /\ EndHandler(sess, Restrict(runningCommands, kept)) /\ MonitorsEnd(sess)
        /\ foreground' = [t \in Sessions |->
                            CASE t = s -> c [] sess[t] # "open" -> NoCommand [] OTHER -> foreground[t]]
        /\ UNCHANGED <<age, sweepTimer, reported>>

RunReturns(s) ==
  /\ foreground[s] # NoCommand
  /\ foreground' = [foreground EXCEPT ![s] = NoCommand]
  /\ UNCHANGED <<session, sessionOf, remote, runningCommands, monitor, age, doneAge, sweepTimer, reported>>

RunPromoted(s) ==
  LET c == foreground[s]
  IN  /\ c # NoCommand
      /\ runningCommands' = [d \in DOMAIN runningCommands \cup {c} |->
                               IF d = c THEN "running" ELSE runningCommands[d]]
      /\ age' = [age EXCEPT ![c] = 0]
      /\ monitor' = [monitor EXCEPT ![c] = [left |-> MonitorTicks, depth |-> 0]]
      /\ foreground' = [foreground EXCEPT ![s] = NoCommand]
      /\ UNCHANGED <<session, sessionOf, remote, doneAge, sweepTimer, reported>>
-----------------------------------------------------------------------------
(* startBackgroundMonitor.                                                 *)

MonitorSettles_Unchecked(c) ==
  /\ monitor[c] # NoMonitor
  /\ monitor' = [monitor EXCEPT ![c] = NoMonitor]
  /\ runningCommands' = [d \in DOMAIN runningCommands \cup {c} |->
                           IF d = c THEN "completed" ELSE runningCommands[d]]
  /\ doneAge' = [doneAge EXCEPT ![c] = 0]
  /\ UNCHANGED <<session, sessionOf, foreground, remote, age, sweepTimer, reported>>

MonitorSettles(c) ==
  /\ monitor[c] # NoMonitor
  /\ monitor' = [monitor EXCEPT ![c] = NoMonitor]
  /\ IF IsRunning(c)
     THEN /\ runningCommands' = [runningCommands EXCEPT ![c] = "completed"]
          /\ doneAge' = [doneAge EXCEPT ![c] = 0]
     ELSE UNCHANGED <<runningCommands, doneAge>>
  /\ UNCHANGED <<session, sessionOf, foreground, remote, age, sweepTimer, reported>>

(* A wait that timed out is begun again, up to a limit at which the entry  *)
(* is interrupted and dropped; if the entry has gone, nobody waits on.     *)
MonitorTimesOut(c) ==
  LET again == IsRunning(c) /\ monitor[c].depth < MaxDepth
  IN  /\ monitor[c].left = 0
      /\ monitor' = [monitor EXCEPT ![c] =
                       IF again THEN [left |-> MonitorTicks, depth |-> @.depth + 1] ELSE NoMonitor]
      /\ runningCommands' = IF IsRunning(c) /\ ~again
                            THEN Restrict(runningCommands, DOMAIN runningCommands \ {c})
                            ELSE runningCommands
      /\ UNCHANGED <<session, sessionOf, foreground, remote, age, doneAge, sweepTimer, reported>>
-----------------------------------------------------------------------------
(* ssh-command-status.  A command that is over is reported and dropped; a  *)
(* running one whose session is gone is reported as interrupted, and       *)
(* dropped.  Else the answer changes nothing.                              *)
CommandStatus(c) ==
  /\ \/ IsOver(c) /\ reported' = [reported EXCEPT ![c] = runningCommands[c]]
     \/ /\ IsRunning(c) /\ session[sessionOf[c]] = "forgotten"
        /\ reported' = [reported EXCEPT ![c] = "interrupted"]
  /\ runningCommands' = Restrict(runningCommands, DOMAIN runningCommands \ {c})
  /\ UNCHANGED <<session, sessionOf, foreground, remote, monitor, age, doneAge, sweepTimer>>
-----------------------------------------------------------------------------
(* The end of a session.                                                   *)

(* The host hangs up.                                                      *)
StreamCloses(s) ==
  LET sess == [session EXCEPT ![s] = "closed"]
  IN  /\ session[s] = "open"
      /\ EndHandler(sess, runningCommands) /\ WaitsEnd(sess)
      /\ UNCHANGED <<sessionOf, remote, age, sweepTimer, reported>>

(* ssh-session-close sweeps, closes and forgets; the session's entries     *)
(* stay until the next sweep.                                              *)
SessionClose(s) ==
  \E swept \in Swept(session) :
    LET sess == [swept EXCEPT ![s] = "forgotten"]
    IN  /\ swept[s] # "forgotten"
        /\ EndHandler(sess, Restrict(runningCommands, Kept(swept))) /\ WaitsEnd(sess)
        /\ UNCHANGED <<sessionOf, remote, age, sweepTimer, reported>>

(* The viewer's close button sweeps once more after that.                  *)
ViewerClose(s) ==
  \E swept \in Swept(session) :
    \E sess \in Swept([swept EXCEPT ![s] = "forgotten"]) :
        /\ swept[s] # "forgotten"
        /\ EndHandler(sess, Restrict(runningCommands, Kept(sess))) /\ WaitsEnd(sess)
        /\ UNCHANGED <<sessionOf, remote, age, sweepTimer, reported>>
-----------------------------------------------------------------------------
(* The host, and time.                                                     *)

RemoteEnds(c) ==
  /\ remote[c] = "running"
  /\ remote' = [remote EXCEPT ![c] = "ended"]
  /\ UNCHANGED <<session, sessionOf, foreground, runningCommands, monitor, age, doneAge, sweepTimer, reported>>

Later(time, last) == IF time \in 0 .. last - 1 THEN time + 1 ELSE time

LastAge     == StuckTicks + EvictTicks + SweepTicks + 1  \* bound: ages beyond tell nothing apart
LastDoneAge == EvictTicks + SweepTicks + 1

Tick ==
  /\ sweepTimer # 0 /\ \A c \in Commands : monitor[c].left # 0
  /\ sweepTimer' = sweepTimer - 1
  /\ monitor' = [c \in Commands |->
                   IF monitor[c] = NoMonitor THEN NoMonitor ELSE [monitor[c] EXCEPT !.left = @ - 1]]
  /\ age' = [c \in Commands |-> Later(age[c], LastAge)]
  /\ doneAge' = [c \in Commands |-> Later(doneAge[c], LastDoneAge)]
  /\ UNCHANGED <<session, sessionOf, foreground, remote, runningCommands, reported>>
-----------------------------------------------------------------------------
Init ==
  /\ session = [s \in Sessions |-> "open"]
  /\ sessionOf = [c \in Commands |-> NoSession]
  /\ foreground = [s \in Sessions |-> NoCommand]
  /\ remote = [c \in Commands |-> "not started"]
  /\ runningCommands = [c \in {} |-> "running"]
  /\ monitor = [c \in Commands |-> NoMonitor]
  /\ age = [c \in Commands |-> Off] /\ doneAge = [c \in Commands |-> Off]
  /\ sweepTimer = SweepTicks
  /\ reported = [c \in Commands |-> "nothing"]

TimerStep == SweepTimerFires \/ Tick \/ \E c \in Commands : MonitorTimesOut(c)

Next ==
  \/ TimerStep \/ SweepOnRequest
  \/ \E s \in Sessions :
       \/ \E c \in Commands : RunStart(s, c)
       \/ RunReturns(s) \/ RunPromoted(s)
       \/ StreamCloses(s) \/ SessionClose(s) \/ ViewerClose(s)
  \/ \E c \in Commands : MonitorSettles(c) \/ CommandStatus(c) \/ RemoteEnds(c)

Spec == Init /\ [][Next]_vars

(* The interval of the sweep and the timers of the waits go on.            *)
FairSpec == Spec /\ WF_vars(TimerStep)
-----------------------------------------------------------------------------
Statuses == {"running", "completed"}

TypeOK ==
  /\ session \in [Sessions -> {"open", "closed", "forgotten"}]
  /\ sessionOf \in [Commands -> Sessions \cup {NoSession}]
  /\ foreground \in [Sessions -> Commands \cup {NoCommand}]
  /\ remote \in [Commands -> {"not started", "running", "ended"}]
  /\ DOMAIN runningCommands \subseteq Commands
  /\ runningCommands \in [DOMAIN runningCommands -> Statuses]
  /\ monitor \in [Commands -> [left : 0 .. MonitorTicks, depth : 0 .. MaxDepth] \cup {NoMonitor}]
  /\ age \in [Commands -> Off .. LastAge] /\ doneAge \in [Commands -> Off .. LastDoneAge]
  /\ sweepTimer \in 0 .. SweepTicks
  /\ reported \in [Commands -> {"nothing", "completed", "interrupted"}]

(* A promoted command that ssh-command-status does not know was reported,  *)
(* or lost its session, or was over for 5 minutes, or ran for 10 minutes   *)
(* or to the monitor's limit: nothing else makes a result disappear.       *)
UnknownExplained ==
  \A c \in Commands :
    age[c] # Off /\ c \notin DOMAIN runningCommands =>
      \/ reported[c] # "nothing"
      \/ session[sessionOf[c]] = "forgotten"
      \/ IF doneAge[c] # Off THEN doneAge[c] > EvictTicks
         ELSE age[c] > StuckTicks \/ age[c] >= (MaxDepth + 1) * MonitorTicks

(* A running entry never lacks the monitor that will settle it.            *)
MonitorAlive == \A c \in Commands : IsRunning(c) => monitor[c] # NoMonitor

(* A running entry blocks its session for 10 minutes and one sweep at most *)
(* and a result is kept no longer than 5 minutes and one sweep.            *)
EntriesBounded ==
  \A c \in DOMAIN runningCommands :
    IF IsRunning(c) THEN age[c] <= StuckTicks + SweepTicks
                    ELSE doneAge[c] <= EvictTicks + SweepTicks

(* An entry lives as long as the limits say, neither shorter nor longer,   *)
(* and while its command runs there is somebody who will settle it.        *)
EntryLifetime == UnknownExplained /\ MonitorAlive /\ EntriesBounded

(* A final answer is given once: the entry is gone with it.                *)
AnsweredOnce == \A c \in Commands : reported[c] # "nothing" => c \notin DOMAIN runningCommands

(* No late callback brings a dropped entry back.                           *)
NoResurrection ==
  [][\A c \in Commands :
       age[c] # Off /\ c \notin DOMAIN runningCommands => c \notin DOMAIN runningCommands']_vars

(* Every entry goes, also when no client ever asks for it.                 *)
EntriesForgotten ==
  \A c \in Commands : c \in DOMAIN runningCommands ~> c \notin DOMAIN runningCommands
-----------------------------------------------------------------------------
(* CHANGELOG 2.2.0, "stuck commands auto-interrupted after 10 minutes": a  *)
(* command that is dropped as interrupted on an open session has stopped.  *)
(* Nothing is sent to the host, and the session is free for the next one.  *)
InterruptedMeansStopped ==
  [][\A c \in Commands :
       IsRunning(c) /\ c \notin DOMAIN runningCommands' /\ session'[sessionOf[c]] = "open"
         => remote[c] = "ended"]_vars

(* ssh-command-status says "Command has finished" of what it reports as    *)
(* completed.  The monitor completes what is silent for three seconds.     *)
ReportedFinishedHasFinished ==
  \A c \in Commands :
    reported[c] = "completed" /\ session[sessionOf[c]] = "open" => remote[c] = "ended"
=============================================================================
