------------------------- MODULE AsyncCommands_proofs -------------------------
(***************************************************************************)
(* What TLAPS proves about AsyncCommands for any number of commands and    *)
(* sessions and all time limits.                                           *)
(*                                                                         *)
(* The invariants of the runs are not inductive: that the sweep comes in   *)
(* time is in the sweep timer (a running entry is no older than the limit  *)
(* plus what the timer has run), and that the monitor's limit is a time is *)
(* in its counters (age + left = (depth + 1) * MonitorTicks).  Entry(c)    *)
(* says this and the rest for one command, Foreground(s) that a command    *)
(* ssh-run waits for is on an open session and not promoted yet.           *)
(***************************************************************************)
EXTENDS AsyncCommands, TLAPS

Explained(c) ==
  \/ reported[c] # "nothing"
  \/ session[sessionOf[c]] = "forgotten"
  \/ IF doneAge[c] # Off THEN doneAge[c] > EvictTicks
     ELSE age[c] > StuckTicks \/ age[c] >= (MaxDepth + 1) * MonitorTicks

Entry(c) ==
  /\ age[c] = Off => /\ c \notin DOMAIN runningCommands /\ monitor[c] = NoMonitor
                     /\ doneAge[c] = Off /\ reported[c] = "nothing"
  /\ age[c] # Off => sessionOf[c] \in Sessions
  /\ monitor[c] # NoMonitor => session[sessionOf[c]] = "open"
  /\ IsRunning(c) => /\ monitor[c] # NoMonitor /\ doneAge[c] = Off
                     /\ age[c] <= StuckTicks + SweepTicks - sweepTimer
                     /\ age[c] + monitor[c].left = (monitor[c].depth + 1) * MonitorTicks
  /\ IsOver(c) => doneAge[c] # Off /\ doneAge[c] <= EvictTicks + SweepTicks - sweepTimer
  /\ reported[c] # "nothing" => c \notin DOMAIN runningCommands
  /\ age[c] # Off /\ c \notin DOMAIN runningCommands => Explained(c)

Foreground(s) ==
  foreground[s] # NoCommand =>
    sessionOf[foreground[s]] = s /\ age[foreground[s]] = Off /\ session[s] = "open"

IInv ==
  /\ TypeOK
  /\ \A c \in Commands : Entry(c)
  /\ \A s \in Sessions : Foreground(s)

SessionStates == {"open", "closed", "forgotten"}
Waits         == [left : 0 .. MonitorTicks, depth : 0 .. MaxDepth]

LEMMA NoMonitorIsNone == NoMonitor \notin Waits /\ NoMonitor.left = Off
  BY DEF NoMonitor, Waits, Off

LEMMA Room ==
  ASSUME NEW a \in Nat, NEW b \in Nat, NEW n \in 0 .. b
  PROVE  0 <= a + b - n
  OBVIOUS

LEMMA OffIsAnAge ==
  Off \in Off .. LastAge /\ Off \in Off .. LastDoneAge /\ SweepTicks \in 0 .. SweepTicks
  BY LimitsAssumption DEF Off, LastAge, LastDoneAge

LEMMA IInvInit == Init => IInv
<1> SUFFICES ASSUME Init PROVE IInv
  OBVIOUS
<1> USE LimitsAssumption, NamesAssumption DEF Init
<1>1. /\ session \in [Sessions -> SessionStates]
      /\ sessionOf \in [Commands -> Sessions \cup {NoSession}]
      /\ foreground \in [Sessions -> Commands \cup {NoCommand}]
      /\ remote \in [Commands -> {"not started", "running", "ended"}]
      /\ DOMAIN runningCommands = {} /\ runningCommands \in [{} -> Statuses]
      /\ monitor \in [Commands -> Waits \cup {NoMonitor}]
      /\ reported \in [Commands -> {"nothing", "completed", "interrupted"}]
  BY DEF SessionStates
<1>2. /\ age \in [Commands -> Off .. LastAge] /\ doneAge \in [Commands -> Off .. LastDoneAge]
      /\ sweepTimer \in 0 .. SweepTicks
  BY OffIsAnAge
<1>3. TypeOK
  BY <1>1, <1>2 DEF TypeOK, Waits, SessionStates
<1>4. ASSUME NEW c \in Commands PROVE Entry(c)
  BY DEF Entry, IsRunning, IsOver
<1>5. ASSUME NEW s \in Sessions PROVE Foreground(s)
  BY DEF Foreground
<1> QED
  BY <1>3, <1>4, <1>5 DEF IInv

(* Types of what EndHandler and MonitorsEnd leave behind.                  *)
LEMMA HandlerTypes ==
  ASSUME TypeOK, NEW sess \in [Sessions -> SessionStates],
         NEW kept \in SUBSET DOMAIN runningCommands,
         EndHandler(sess, Restrict(runningCommands, kept)), MonitorsEnd(sess)
  PROVE  /\ session' \in [Sessions -> SessionStates]
         /\ DOMAIN runningCommands' = kept /\ runningCommands' \in [kept -> Statuses]
         /\ monitor' \in [Commands -> Waits \cup {NoMonitor}]
         /\ doneAge' \in [Commands -> Off .. LastDoneAge]
<1>1. session' \in [Sessions -> SessionStates]
  BY DEF EndHandler
<1>2. DOMAIN runningCommands' = kept /\ runningCommands' \in [kept -> Statuses]
  BY DEF EndHandler, Restrict, TypeOK, Statuses
<1>3. monitor' \in [Commands -> Waits \cup {NoMonitor}]
  BY DEF MonitorsEnd, TypeOK, Waits
<1>4. 0 \in Off .. LastDoneAge
  BY LimitsAssumption DEF Off, LastDoneAge
<1>5. doneAge' \in [Commands -> Off .. LastDoneAge]
  BY <1>4 DEF EndHandler, TypeOK
<1> QED
  BY <1>1, <1>2, <1>3, <1>5

(* What a handler may drop.                                                *)
MayDrop(c, sess) ==
  \/ sess[sessionOf[c]] = "forgotten"
  \/ IsOver(c) /\ doneAge[c] > EvictTicks
  \/ IsRunning(c) /\ age[c] > StuckTicks

(* What a sweep keeps.                                                     *)
Fresh(c) ==
  /\ IsOver(c) => doneAge[c] <= EvictTicks
  /\ IsRunning(c) => age[c] <= StuckTicks

(* Sessions only go on towards "forgotten".                                *)
Onward(sess) ==
  \A s \in Sessions : /\ session[s] # "open" => sess[s] # "open"
                      /\ session[s] = "forgotten" => sess[s] = "forgotten"

(* A handler that ends sessions and drops entries as it may leaves every   *)
(* command in order.                                                       *)
LEMMA HandlerKeepsEntry ==
  ASSUME IInv, NEW sess \in [Sessions -> SessionStates],
         NEW kept \in SUBSET DOMAIN runningCommands,
         EndHandler(sess, Restrict(runningCommands, kept)), MonitorsEnd(sess),
         Onward(sess),
         \A d \in DOMAIN runningCommands \ kept : MayDrop(d, sess),
         age' = age, reported' = reported, sweepTimer' \in 0 .. SweepTicks,
         sweepTimer' = sweepTimer \/ \A d \in kept : Fresh(d),
         NEW c \in Commands,
         sessionOf[c] # NoSession => sessionOf'[c] = sessionOf[c]
  PROVE  Entry(c)'
<1> USE LimitsAssumption
<1>0. /\ Entry(c) /\ TypeOK
      /\ age[c] \in Int /\ doneAge[c] \in Int /\ sweepTimer \in 0 .. SweepTicks
      /\ monitor[c] \in Waits \cup {NoMonitor}
      /\ reported'[c] = reported[c] /\ age'[c] = age[c]
  <2>1. Entry(c) /\ TypeOK
    BY DEF IInv
  <2>2. \A i \in Off .. LastAge : i \in Int
    BY DEF Off, LastAge
  <2>3. \A i \in Off .. LastDoneAge : i \in Int
    BY DEF Off, LastDoneAge
  <2> QED
    BY <2>1, <2>2, <2>3 DEF TypeOK, Waits
<1>1. DOMAIN runningCommands' = kept
  BY <1>0, HandlerTypes
<1>2. CASE age[c] = Off
  <2>1. c \notin DOMAIN runningCommands /\ monitor[c] = NoMonitor /\ reported[c] = "nothing"
    BY <1>0, <1>2 DEF Entry
  <2>2. monitor'[c] = NoMonitor /\ c \notin kept
    BY <2>1 DEF MonitorsEnd
  <2>3. doneAge'[c] = Off
    BY <1>0, <1>2, <2>2 DEF EndHandler, Entry, Restrict
  <2> QED
    BY <1>0, <1>1, <1>2, <2>1, <2>2, <2>3 DEF Entry, IsRunning, IsOver
<1>3. CASE age[c] # Off
  <2>1. sessionOf[c] \in Sessions /\ sessionOf'[c] = sessionOf[c]
    BY <1>0, <1>3, NamesAssumption DEF Entry
  <2>2. session'[sessionOf[c]] = sess[sessionOf[c]]
    BY DEF EndHandler
  <2> DEFINE open == sess[sessionOf[c]] = "open"
  <2>3. monitor'[c] = IF open THEN monitor[c] ELSE NoMonitor
    BY DEF MonitorsEnd
  <2>4. CASE c \in kept
    <3>1. Restrict(runningCommands, kept)[c] = runningCommands[c]
      BY <2>4 DEF Restrict
    <3>2. CASE IsRunning(c) /\ open
      <4>1. runningCommands'[c] = "running" /\ doneAge'[c] = doneAge[c]
        BY <2>4, <3>1, <3>2 DEF EndHandler, IsRunning, Restrict
      <4>2. monitor'[c] = monitor[c] /\ session'[sessionOf[c]] = "open"
        BY <2>2, <2>3, <3>2
      <4>3. age[c] <= StuckTicks + SweepTicks - sweepTimer'
        BY <1>0, <2>4, <3>2 DEF Entry, Fresh
      <4> QED
        BY <1>0, <1>1, <1>3, <2>1, <2>4, <3>2, <4>1, <4>2, <4>3 DEF Entry, IsRunning, IsOver
    <3>3. CASE IsRunning(c) /\ ~open
      <4>1. monitor[c] # NoMonitor
        BY <1>0, <3>3 DEF Entry
      <4>2. runningCommands'[c] = "completed" /\ doneAge'[c] = 0
        BY <2>4, <3>1, <3>3, <4>1 DEF EndHandler, IsRunning, Restrict
      <4>3. 0 # Off /\ 0 <= EvictTicks + SweepTicks - sweepTimer'
        BY DEF Off
      <4> QED
        BY <1>0, <1>1, <1>3, <2>1, <2>3, <2>4, <3>3, <4>2, <4>3 DEF Entry, IsRunning, IsOver
    <3>4. CASE ~IsRunning(c)
      <4>1. IsOver(c) /\ runningCommands'[c] = runningCommands[c] /\ doneAge'[c] = doneAge[c]
        BY <2>4, <3>1, <3>4 DEF EndHandler, IsRunning, IsOver, Restrict
      <4>2. doneAge[c] <= EvictTicks + SweepTicks - sweepTimer'
        BY <1>0, <2>4, <4>1 DEF Entry, Fresh
      <4> QED
        BY <1>0, <1>1, <1>3, <2>1, <2>2, <2>3, <2>4, <3>4, <4>1, <4>2 DEF Entry, IsRunning, IsOver
    <3> QED
      BY <3>2, <3>3, <3>4
  <2>5. CASE c \notin kept
    <3>1. doneAge'[c] = doneAge[c]
      BY <2>5 DEF EndHandler, Restrict
    <3>2. Explained(c)'
      <4>1. CASE c \in DOMAIN runningCommands
        <5>1. MayDrop(c, sess)
          BY <2>5, <4>1
        <5> QED
          BY <1>0, <2>1, <2>2, <3>1, <5>1 DEF MayDrop, Explained, Entry, Off
      <4>2. CASE c \notin DOMAIN runningCommands
        <5>1. Explained(c)
          BY <1>0, <1>3, <4>2 DEF Entry
        <5>2. session[sessionOf[c]] = "forgotten" => session'[sessionOf[c]] = "forgotten"
          BY <2>1, <2>2 DEF Onward
        <5> QED
          BY <1>0, <2>1, <3>1, <5>1, <5>2 DEF Explained
      <4> QED
        BY <4>1, <4>2
    <3> QED
      BY <1>0, <1>1, <1>3, <2>1, <2>2, <2>3, <2>5, <3>2 DEF Entry, IsRunning, IsOver
  <2> QED
    BY <2>4, <2>5
<1> QED
  BY <1>2, <1>3

(* A sweep only moves sessions onward, drops what it may drop and keeps    *)
(* what is fresh.                                                          *)
LEMMA SweptIsOnward ==
  ASSUME NEW sess \in [Sessions -> SessionStates], NEW t \in Swept(sess)
  PROVE  /\ t \in [Sessions -> SessionStates]
         /\ \A s \in Sessions : /\ sess[s] # "open" => t[s] # "open"
                                /\ sess[s] = "forgotten" => t[s] = "forgotten"
  BY DEF Swept, SessionStates

LEMMA KeptIsFresh ==
  ASSUME NEW sess
  PROVE  /\ Kept(sess) \in SUBSET DOMAIN runningCommands
         /\ \A d \in Kept(sess) : Fresh(d)
  BY DEF Kept, Fresh

LEMMA DroppedMayGo ==
  ASSUME TypeOK, NEW sess, NEW d \in DOMAIN runningCommands \ Kept(sess)
  PROVE  MayDrop(d, sess)
<1>1. d \in Commands /\ age[d] \in Int /\ doneAge[d] \in Int
  <2>1. \A i \in Off .. LastAge : i \in Int
    BY LimitsAssumption DEF Off, LastAge
  <2>2. \A i \in Off .. LastDoneAge : i \in Int
    BY LimitsAssumption DEF Off, LastDoneAge
  <2> QED
    BY <2>1, <2>2 DEF TypeOK
<1>2. ASSUME sess[sessionOf[d]] # "forgotten" PROVE MayDrop(d, sess)
  <2>1. ~((IsOver(d) => doneAge[d] <= EvictTicks) /\ (IsRunning(d) => age[d] <= StuckTicks))
    BY <1>2 DEF Kept
  <2> QED
    BY <1>1, <2>1, LimitsAssumption DEF MayDrop
<1> QED
  BY <1>2 DEF MayDrop

(* Every handler that ends sessions keeps the invariant.                   *)
LEMMA HandlerKeepsIInv ==
  ASSUME IInv, NEW sess \in [Sessions -> SessionStates],
         NEW kept \in SUBSET DOMAIN runningCommands,
         EndHandler(sess, Restrict(runningCommands, kept)), WaitsEnd(sess),
         Onward(sess),
         \A d \in DOMAIN runningCommands \ kept : MayDrop(d, sess),
         UNCHANGED <<sessionOf, remote, age, reported>>, sweepTimer' \in 0 .. SweepTicks,
         sweepTimer' = sweepTimer \/ \A d \in kept : Fresh(d)
  PROVE  IInv'
<1>1. TypeOK /\ MonitorsEnd(sess)
  BY DEF IInv, WaitsEnd
<1>2. foreground' \in [Sessions -> Commands \cup {NoCommand}]
  BY <1>1 DEF WaitsEnd, TypeOK
<1>3. TypeOK'
  <2>1. kept \subseteq Commands
    BY <1>1 DEF TypeOK
  <2> QED
    BY <1>1, <1>2, <2>1, HandlerTypes DEF TypeOK, SessionStates, Waits
<1>4. ASSUME NEW c \in Commands PROVE Entry(c)'
  BY <1>1, HandlerKeepsEntry
<1>5. ASSUME NEW s \in Sessions PROVE Foreground(s)'
  <2>1. Foreground(s) /\ session' = sess
    BY DEF IInv, EndHandler
  <2>2. foreground'[s] = IF sess[s] # "open" THEN NoCommand ELSE foreground[s]
    BY DEF WaitsEnd
  <2> QED
    BY <2>1, <2>2 DEF Foreground
<1> QED
  BY <1>3, <1>4, <1>5 DEF IInv

LEMMA SweepKeepsIInv ==
  ASSUME IInv, SweepSessions, UNCHANGED <<sessionOf, remote, age, reported>>,
         sweepTimer' \in 0 .. SweepTicks
  PROVE  IInv'
<1>1. PICK sess \in Swept(session) :
        EndHandler(sess, Restrict(runningCommands, Kept(sess))) /\ WaitsEnd(sess)
  BY DEF SweepSessions
<1>2. TypeOK /\ session \in [Sessions -> SessionStates]
  BY DEF IInv, TypeOK, SessionStates
<1>3. sess \in [Sessions -> SessionStates] /\ Onward(sess)
  <2>1. /\ sess \in [Sessions -> SessionStates]
        /\ \A x \in Sessions : /\ session[x] # "open" => sess[x] # "open"
                               /\ session[x] = "forgotten" => sess[x] = "forgotten"
    BY <1>2, SweptIsOnward
  <2> QED
    BY <2>1 DEF Onward
<1>4. \A d \in DOMAIN runningCommands \ Kept(sess) : MayDrop(d, sess)
  BY <1>2, DroppedMayGo
<1> QED
  BY <1>1, <1>3, <1>4, KeptIsFresh, HandlerKeepsIInv

LEMMA StreamClosesKeepsIInv ==
  ASSUME IInv, NEW s \in Sessions, StreamCloses(s)
  PROVE  IInv'
<1> DEFINE sess == [session EXCEPT ![s] = "closed"]
           kept == DOMAIN runningCommands
<1>1. TypeOK /\ sess \in [Sessions -> SessionStates]
  BY DEF IInv, TypeOK, SessionStates
<1>2. Onward(sess)
  BY <1>1 DEF StreamCloses, Onward, TypeOK
<1>3. Restrict(runningCommands, kept) = runningCommands
  BY <1>1 DEF Restrict, TypeOK
<1>4. EndHandler(sess, Restrict(runningCommands, kept)) /\ WaitsEnd(sess)
  BY <1>3 DEF StreamCloses
<1>5. UNCHANGED <<sessionOf, remote, age, reported>> /\ sweepTimer' = sweepTimer
      /\ sweepTimer' \in 0 .. SweepTicks
  BY <1>1 DEF StreamCloses, TypeOK
<1> HIDE DEF sess, kept
<1>6. kept \in SUBSET DOMAIN runningCommands /\ DOMAIN runningCommands \ kept = {}
  BY DEF kept
<1> QED
  BY <1>1, <1>2, <1>4, <1>5, <1>6, HandlerKeepsIInv

LEMMA SessionCloseKeepsIInv ==
  ASSUME IInv, NEW s \in Sessions, SessionClose(s)
  PROVE  IInv'
<1>1. PICK swept \in Swept(session) :
        /\ EndHandler([swept EXCEPT ![s] = "forgotten"], Restrict(runningCommands, Kept(swept)))
        /\ WaitsEnd([swept EXCEPT ![s] = "forgotten"])
        /\ UNCHANGED <<sessionOf, remote, age, sweepTimer, reported>>
  BY DEF SessionClose
<1> DEFINE sess == [swept EXCEPT ![s] = "forgotten"]
<1>2. TypeOK /\ session \in [Sessions -> SessionStates]
      /\ sweepTimer' = sweepTimer /\ sweepTimer' \in 0 .. SweepTicks
  BY <1>1 DEF IInv, TypeOK, SessionStates
<1>3. /\ swept \in [Sessions -> SessionStates]
      /\ \A x \in Sessions : /\ session[x] # "open" => swept[x] # "open"
                             /\ session[x] = "forgotten" => swept[x] = "forgotten"
  BY <1>2, SweptIsOnward
<1>4. sess \in [Sessions -> SessionStates] /\ Onward(sess)
  <2>1. sess \in [Sessions -> SessionStates]
    BY <1>3 DEF SessionStates
  <2>2. \A x \in Sessions : sess[x] = IF x = s THEN "forgotten" ELSE swept[x]
    BY <1>3
  <2> QED
    BY <1>3, <2>1, <2>2 DEF Onward
<1>5. ASSUME NEW d \in DOMAIN runningCommands \ Kept(swept) PROVE MayDrop(d, sess)
  <2>1. MayDrop(d, swept)
    BY <1>2, DroppedMayGo
  <2>2. sessionOf[d] \in Sessions
    <3>1. d \in Commands /\ Entry(d)
      BY <1>2 DEF IInv, TypeOK
    <3> QED
      BY <3>1 DEF Entry
  <2>3. swept[sessionOf[d]] = "forgotten" => sess[sessionOf[d]] = "forgotten"
    BY <1>3, <2>2
  <2> QED
    BY <2>1, <2>3 DEF MayDrop
<1>6. EndHandler(sess, Restrict(runningCommands, Kept(swept))) /\ WaitsEnd(sess)
  BY <1>1
<1> HIDE DEF sess
<1> QED
  BY <1>1, <1>2, <1>4, <1>5, <1>6, KeptIsFresh, HandlerKeepsIInv

LEMMA ViewerCloseKeepsIInv ==
  ASSUME IInv, NEW s \in Sessions, ViewerClose(s)
  PROVE  IInv'
<1>1. PICK swept \in Swept(session) : \E sess \in Swept([swept EXCEPT ![s] = "forgotten"]) :
        /\ EndHandler(sess, Restrict(runningCommands, Kept(sess))) /\ WaitsEnd(sess)
        /\ UNCHANGED <<sessionOf, remote, age, sweepTimer, reported>>
  BY DEF ViewerClose
<1> DEFINE closed == [swept EXCEPT ![s] = "forgotten"]
<1>2. PICK sess \in Swept(closed) :
        /\ EndHandler(sess, Restrict(runningCommands, Kept(sess))) /\ WaitsEnd(sess)
        /\ UNCHANGED <<sessionOf, remote, age, sweepTimer, reported>>
  BY <1>1
<1>3. TypeOK /\ session \in [Sessions -> SessionStates]
      /\ sweepTimer' = sweepTimer /\ sweepTimer' \in 0 .. SweepTicks
  BY <1>2 DEF IInv, TypeOK, SessionStates
<1>4. /\ swept \in [Sessions -> SessionStates]
      /\ \A x \in Sessions : /\ session[x] # "open" => swept[x] # "open"
                             /\ session[x] = "forgotten" => swept[x] = "forgotten"
  BY <1>3, SweptIsOnward
<1>5. /\ closed \in [Sessions -> SessionStates]
      /\ \A x \in Sessions : /\ session[x] # "open" => closed[x] # "open"
                             /\ session[x] = "forgotten" => closed[x] = "forgotten"
  BY <1>4 DEF SessionStates
<1> HIDE DEF closed
<1>6. sess \in [Sessions -> SessionStates] /\ Onward(sess)
  <2>1. /\ sess \in [Sessions -> SessionStates]
        /\ \A x \in Sessions : /\ closed[x] # "open" => sess[x] # "open"
                               /\ closed[x] = "forgotten" => sess[x] = "forgotten"
    BY <1>5, SweptIsOnward
  <2> QED
    BY <1>5, <2>1 DEF Onward
<1>7. \A d \in DOMAIN runningCommands \ Kept(sess) : MayDrop(d, sess)
  BY <1>3, DroppedMayGo
<1> QED
  BY <1>2, <1>3, <1>6, <1>7, KeptIsFresh, HandlerKeepsIInv

(* ssh-run: the new command is none of those that are tracked.             *)
LEMMA RunStartKeepsIInv ==
  ASSUME IInv, NEW s \in Sessions, NEW c \in Commands, RunStart(s, c)
  PROVE  IInv'
<1>1. PICK sess \in Swept(session) :
        /\ sessionOf[c] = NoSession /\ sess[s] = "open" /\ foreground[s] = NoCommand
        /\ sessionOf' = [sessionOf EXCEPT ![c] = s]
        /\ remote' = [remote EXCEPT ![c] = "running"]
        /\ EndHandler(sess, Restrict(runningCommands, Kept(sess))) /\ MonitorsEnd(sess)
        /\ foreground' = [t \in Sessions |->
                            CASE t = s -> c [] sess[t] # "open" -> NoCommand [] OTHER -> foreground[t]]
        /\ UNCHANGED <<age, sweepTimer, reported>>
  BY DEF RunStart
<1>2. TypeOK /\ session \in [Sessions -> SessionStates] /\ Kept(sess) \in SUBSET DOMAIN runningCommands
  BY KeptIsFresh DEF IInv, TypeOK, SessionStates
<1>3. /\ sess \in [Sessions -> SessionStates]
      /\ \A x \in Sessions : /\ session[x] # "open" => sess[x] # "open"
                             /\ session[x] = "forgotten" => sess[x] = "forgotten"
  BY <1>2, SweptIsOnward
<1>4. Onward(sess)
  BY <1>3 DEF Onward
<1>5. \A d \in DOMAIN runningCommands \ Kept(sess) : MayDrop(d, sess)
  BY <1>2, DroppedMayGo
<1>6. age[c] = Off
  BY <1>1, NamesAssumption DEF IInv, Entry
<1>7. TypeOK'
  <2>1. Kept(sess) \subseteq Commands
    BY <1>2 DEF TypeOK
  <2>2. /\ sessionOf' \in [Commands -> Sessions \cup {NoSession}]
        /\ remote' \in [Commands -> {"not started", "running", "ended"}]
        /\ age' = age /\ sweepTimer' = sweepTimer /\ reported' = reported
    BY <1>1, <1>2 DEF TypeOK
  <2>3. foreground' \in [Sessions -> Commands \cup {NoCommand}]
    <3>1. \A t \in Sessions : foreground'[t] \in {c, NoCommand, foreground[t]}
      BY <1>1
    <3>2. \A t \in Sessions : foreground'[t] \in Commands \cup {NoCommand}
      BY <1>2, <3>1 DEF TypeOK
    <3>3. foreground' = [t \in Sessions |-> foreground'[t]]
      BY <1>1
    <3> QED
      BY <3>2, <3>3
  <2>4. /\ session' \in [Sessions -> SessionStates]
        /\ DOMAIN runningCommands' = Kept(sess) /\ runningCommands' \in [Kept(sess) -> Statuses]
        /\ monitor' \in [Commands -> Waits \cup {NoMonitor}]
        /\ doneAge' \in [Commands -> Off .. LastDoneAge]
    BY <1>1, <1>2, <1>3, HandlerTypes
  <2> QED
    BY <1>2, <2>1, <2>2, <2>3, <2>4 DEF TypeOK, SessionStates, Waits
<1>8. ASSUME NEW d \in Commands PROVE Entry(d)'
  <2>1. sessionOf[d] # NoSession => sessionOf'[d] = sessionOf[d]
    BY <1>1, <1>2 DEF TypeOK
  <2>2. sweepTimer' = sweepTimer /\ sweepTimer' \in 0 .. SweepTicks
    BY <1>1, <1>2 DEF TypeOK
  <2> QED
    BY <1>1, <1>2, <1>3, <1>4, <1>5, <2>1, <2>2, HandlerKeepsEntry
<1>9. ASSUME NEW t \in Sessions PROVE Foreground(t)'
  <2>1. session' = sess /\ age' = age
    BY <1>1 DEF EndHandler
  <2>2. CASE t = s
    <3>1. foreground'[t] = c
      BY <1>1, <2>2
    <3>2. sessionOf'[c] = s
      BY <1>1, <1>2 DEF TypeOK
    <3> QED
      BY <1>1, <1>6, <2>1, <2>2, <3>1, <3>2 DEF Foreground
  <2>3. CASE t # s /\ foreground'[t] # NoCommand
    <3>1. foreground'[t] = foreground[t] /\ sess[t] = "open"
      BY <1>1, <2>3
    <3>2. /\ foreground[t] \in Commands
          /\ sessionOf[foreground[t]] = t /\ age[foreground[t]] = Off
      <4>1. foreground[t] # NoCommand /\ Foreground(t)
        BY <2>3, <3>1 DEF IInv
      <4>2. foreground[t] \in Commands
        BY <1>2, <4>1 DEF TypeOK
      <4> QED
        BY <4>1, <4>2 DEF Foreground
    <3>3. sessionOf'[foreground[t]] = t
      BY <1>1, <1>2, <3>2, NamesAssumption DEF TypeOK
    <3> QED
      BY <2>1, <3>1, <3>2, <3>3 DEF Foreground
  <2>4. CASE foreground'[t] = NoCommand
    BY <2>4 DEF Foreground
  <2> QED
    BY <2>2, <2>3, <2>4
<1> QED
  BY <1>7, <1>8, <1>9 DEF IInv

LEMMA RunReturnsKeepsIInv ==
  ASSUME IInv, NEW s \in Sessions, RunReturns(s)
  PROVE  IInv'
<1>1. TypeOK'
  BY DEF IInv, TypeOK, RunReturns
<1>2. ASSUME NEW c \in Commands PROVE Entry(c)'
  BY DEF IInv, Entry, Explained, IsRunning, IsOver, RunReturns
<1>3. ASSUME NEW t \in Sessions PROVE Foreground(t)'
  BY DEF IInv, TypeOK, Foreground, RunReturns
<1> QED
  BY <1>1, <1>2, <1>3 DEF IInv

LEMMA RunPromotedKeepsIInv ==
  ASSUME IInv, NEW s \in Sessions, RunPromoted(s)
  PROVE  IInv'
<1>0. PICK c \in Commands : c = foreground[s]
  BY DEF RunPromoted, IInv, TypeOK
<1>1. /\ c # NoCommand /\ sessionOf[c] = s /\ age[c] = Off /\ session[s] = "open"
      /\ TypeOK /\ Entry(c) /\ foreground[s] = c
  BY <1>0 DEF RunPromoted, IInv, Foreground
<1>2. /\ runningCommands' = [d \in DOMAIN runningCommands \cup {c} |->
                               IF d = c THEN "running" ELSE runningCommands[d]]
      /\ age' = [age EXCEPT ![c] = 0]
      /\ monitor' = [monitor EXCEPT ![c] = [left |-> MonitorTicks, depth |-> 0]]
      /\ foreground' = [foreground EXCEPT ![s] = NoCommand]
      /\ UNCHANGED <<session, sessionOf, remote, doneAge, sweepTimer, reported>>
  BY <1>0 DEF RunPromoted
<1>3. 0 \in Off .. LastAge /\ [left |-> MonitorTicks, depth |-> 0] \in Waits
  BY LimitsAssumption DEF Off, LastAge, Waits
<1>4. TypeOK'
  <2>1. /\ DOMAIN runningCommands' \subseteq Commands
        /\ runningCommands' \in [DOMAIN runningCommands' -> Statuses]
    BY <1>1, <1>2 DEF TypeOK, Statuses
  <2>2. age' \in [Commands -> Off .. LastAge]
    BY <1>1, <1>2, <1>3 DEF TypeOK
  <2>3. monitor' \in [Commands -> Waits \cup {NoMonitor}]
    BY <1>1, <1>2, <1>3 DEF TypeOK, Waits
  <2>4. foreground' \in [Sessions -> Commands \cup {NoCommand}]
    BY <1>1, <1>2 DEF TypeOK
  <2> QED
    BY <1>1, <1>2, <2>1, <2>2, <2>3, <2>4 DEF TypeOK, Waits
<1>5. Entry(c)'
  <2>1. /\ age'[c] = 0 /\ IsRunning(c)' /\ ~IsOver(c)' /\ doneAge'[c] = Off
        /\ session'[sessionOf'[c]] = "open" /\ sessionOf'[c] \in Sessions
        /\ reported'[c] = "nothing" /\ c \in DOMAIN runningCommands'
    <3>1. c \in DOMAIN runningCommands' /\ runningCommands'[c] = "running"
      BY <1>2
    <3>2. age'[c] = 0
      BY <1>1, <1>2 DEF TypeOK
    <3>3. doneAge[c] = Off /\ reported[c] = "nothing"
      BY <1>1 DEF Entry
    <3> QED
      BY <1>1, <1>2, <3>1, <3>2, <3>3 DEF IsRunning, IsOver
  <2>2. monitor'[c] = [left |-> MonitorTicks, depth |-> 0]
    BY <1>1, <1>2 DEF TypeOK
  <2>3. monitor'[c] # NoMonitor /\ monitor'[c].left = MonitorTicks /\ monitor'[c].depth = 0
    BY <2>2, LimitsAssumption DEF NoMonitor, Off
  <2>4. 0 # Off /\ 0 <= StuckTicks + SweepTicks - sweepTimer'
    <3>1. sweepTimer' \in 0 .. SweepTicks
      BY <1>1, <1>2 DEF TypeOK
    <3>2. SweepTicks \in Nat /\ StuckTicks \in Nat
      BY LimitsAssumption
    <3>3. 0 <= StuckTicks + SweepTicks - sweepTimer'
      BY <3>1, <3>2, Room
    <3>4. 0 # Off
      BY DEF Off
    <3> QED
      BY <3>3, <3>4
  <2>5. 0 + MonitorTicks = (0 + 1) * MonitorTicks
    BY LimitsAssumption
  <2>6. /\ age'[c] <= StuckTicks + SweepTicks - sweepTimer'
        /\ age'[c] + monitor'[c].left = (monitor'[c].depth + 1) * MonitorTicks
    BY <2>1, <2>3, <2>4, <2>5
  <2>7. age'[c] # Off
    BY <2>1, <2>4
  <2> QED
    BY <2>1, <2>3, <2>6, <2>7 DEF Entry
<1>6. ASSUME NEW d \in Commands, d # c PROVE Entry(d)'
  <2>1. /\ Entry(d) /\ age'[d] = age[d] /\ monitor'[d] = monitor[d]
        /\ d \in DOMAIN runningCommands' <=> d \in DOMAIN runningCommands
    <3>1. Entry(d)
      BY DEF IInv
    <3>2. age'[d] = age[d] /\ monitor'[d] = monitor[d]
      BY <1>1, <1>2, <1>6 DEF TypeOK
    <3>3. d \in DOMAIN runningCommands' <=> d \in DOMAIN runningCommands
      BY <1>2, <1>6
    <3> QED
      BY <3>1, <3>2, <3>3
  <2>2. d \in DOMAIN runningCommands => runningCommands'[d] = runningCommands[d]
    BY <1>2, <1>6
  <2> QED
    BY <1>2, <2>1, <2>2 DEF Entry, Explained, IsRunning, IsOver
<1>7. ASSUME NEW t \in Sessions PROVE Foreground(t)'
  <2>1. CASE t = s
    BY <1>1, <1>2, <2>1 DEF Foreground, TypeOK
  <2>2. CASE t # s /\ foreground[t] # NoCommand
    <3>1. foreground'[t] = foreground[t] /\ Foreground(t) /\ foreground[t] \in Commands
      BY <1>1, <1>2, <2>2 DEF IInv, TypeOK
    <3>2. foreground[t] # c
      BY <1>1, <2>2, <3>1 DEF Foreground
    <3> QED
      BY <1>1, <1>2, <3>1, <3>2 DEF Foreground, TypeOK
  <2>3. CASE t # s /\ foreground[t] = NoCommand
    BY <1>1, <1>2, <2>3 DEF Foreground, TypeOK
  <2> QED
    BY <2>1, <2>2, <2>3
<1>8. \A d \in Commands : Entry(d)'
  BY <1>5, <1>6
<1> QED
  BY <1>4, <1>7, <1>8 DEF IInv

(* A step that leaves a command's own state alone keeps it in order.       *)
LEMMA UntouchedEntry ==
  ASSUME NEW d \in Commands, Entry(d),
         UNCHANGED <<session, sessionOf, age, sweepTimer>>,
         monitor'[d] = monitor[d], doneAge'[d] = doneAge[d], reported'[d] = reported[d],
         d \in DOMAIN runningCommands' <=> d \in DOMAIN runningCommands,
         d \in DOMAIN runningCommands => runningCommands'[d] = runningCommands[d]
  PROVE  Entry(d)'
  BY DEF Entry, Explained, IsRunning, IsOver

LEMMA MonitorSettlesKeepsIInv ==
  ASSUME IInv, NEW c \in Commands, MonitorSettles(c)
  PROVE  IInv'
<1>1. TypeOK /\ Entry(c) /\ \A d \in Commands : Entry(d)
  BY DEF IInv
<1>2. /\ monitor[c] # NoMonitor /\ monitor' = [monitor EXCEPT ![c] = NoMonitor]
      /\ UNCHANGED <<session, sessionOf, foreground, remote, age, sweepTimer, reported>>
  BY DEF MonitorSettles
<1>3. monitor' \in [Commands -> Waits \cup {NoMonitor}] /\ monitor'[c] = NoMonitor
  BY <1>1, <1>2 DEF TypeOK, Waits
<1>4. age[c] # Off
  BY <1>1, <1>2 DEF Entry
<1>5. TypeOK' /\ Entry(c)'
  <2>1. CASE IsRunning(c)
    <3>1. /\ runningCommands' = [runningCommands EXCEPT ![c] = "completed"]
          /\ doneAge' = [doneAge EXCEPT ![c] = 0]
      BY <2>1 DEF MonitorSettles
    <3>2. 0 \in Off .. LastDoneAge
      BY LimitsAssumption DEF Off, LastDoneAge
    <3>3. TypeOK'
      BY <1>1, <1>2, <1>3, <3>1, <3>2 DEF TypeOK, Waits, Statuses
    <3>4. /\ c \in DOMAIN runningCommands' /\ runningCommands'[c] = "completed" /\ doneAge'[c] = 0
      BY <1>1, <2>1, <3>1 DEF TypeOK, IsRunning
    <3>5. 0 <= EvictTicks + SweepTicks - sweepTimer'
      <4>1. sweepTimer' \in 0 .. SweepTicks
        BY <3>3 DEF TypeOK
      <4>2. EvictTicks \in Nat /\ SweepTicks \in Nat
        BY LimitsAssumption
      <4> QED
        BY <4>1, <4>2, Room
    <3>6. 0 # Off
      BY DEF Off
    <3>7. reported[c] = "nothing"
      BY <1>1, <2>1 DEF Entry, IsRunning
    <3>8. Entry(c)'
      BY <1>1, <1>2, <1>3, <1>4, <3>4, <3>5, <3>6, <3>7 DEF Entry, IsRunning, IsOver
    <3> QED
      BY <3>3, <3>8
  <2>2. CASE ~IsRunning(c)
    <3>1. UNCHANGED <<runningCommands, doneAge>>
      BY <2>2 DEF MonitorSettles
    <3>2. TypeOK'
      BY <1>1, <1>2, <1>3, <3>1 DEF TypeOK, Waits
    <3>3. Entry(c)'
      BY <1>1, <1>2, <1>3, <1>4, <2>2, <3>1 DEF Entry, Explained, IsRunning, IsOver
    <3> QED
      BY <3>2, <3>3
  <2> QED
    BY <2>1, <2>2
<1>6. ASSUME NEW d \in Commands, d # c PROVE Entry(d)'
  <2>1. monitor'[d] = monitor[d] /\ doneAge'[d] = doneAge[d]
    BY <1>1, <1>2, <1>6 DEF MonitorSettles, TypeOK
  <2>2. /\ d \in DOMAIN runningCommands' <=> d \in DOMAIN runningCommands
        /\ d \in DOMAIN runningCommands => runningCommands'[d] = runningCommands[d]
    BY <1>1, <1>6 DEF MonitorSettles, TypeOK
  <2> QED
    BY <1>1, <1>2, <2>1, <2>2, UntouchedEntry
<1>7. \A s \in Sessions : Foreground(s)'
  BY <1>2 DEF IInv, Foreground
<1>8. \A d \in Commands : Entry(d)'
  BY <1>5, <1>6
<1> QED
  BY <1>5, <1>7, <1>8 DEF IInv

(* One more wait adds MonitorTicks to both sides of the count.             *)
LEMMA OneMoreWait ==
  ASSUME NEW a \in Int, NEW d \in Nat, NEW m \in Nat, a + 0 = (d + 1) * m
  PROVE  a + m = ((d + 1) + 1) * m
  OBVIOUS

LEMMA MonitorTimesOutKeepsIInv ==
  ASSUME IInv, NEW c \in Commands, MonitorTimesOut(c)
  PROVE  IInv'
<1>1. TypeOK /\ Entry(c) /\ \A d \in Commands : Entry(d)
  BY DEF IInv
<1>2. /\ monitor[c].left = 0
      /\ UNCHANGED <<session, sessionOf, foreground, remote, age, doneAge, sweepTimer, reported>>
  BY DEF MonitorTimesOut
<1>3. monitor[c] \in Waits
  <2>1. monitor[c] \in Waits \cup {NoMonitor}
    BY <1>1 DEF TypeOK, Waits
  <2>2. 0 # Off
    BY DEF Off
  <2> QED
    BY <1>2, <2>1, <2>2, NoMonitorIsNone
<1>4. age[c] # Off /\ monitor[c] # NoMonitor
  BY <1>1, <1>3, NoMonitorIsNone DEF Entry
<1>5. /\ monitor[c].depth \in 0 .. MaxDepth /\ age[c] \in Int
      /\ MonitorTicks \in Nat /\ MonitorTicks # 0 /\ MaxDepth \in Nat
  <2>1. \A i \in Off .. LastAge : i \in Int
    BY LimitsAssumption DEF Off, LastAge
  <2> QED
    BY <1>1, <1>3, <2>1, LimitsAssumption DEF TypeOK, Waits
<1>6. TypeOK' /\ Entry(c)'
  <2>1. CASE IsRunning(c) /\ monitor[c].depth < MaxDepth
    <3> DEFINE wait == [left |-> MonitorTicks, depth |-> monitor[c].depth + 1]
    <3>1. monitor' = [monitor EXCEPT ![c] = wait] /\ runningCommands' = runningCommands
      BY <2>1 DEF MonitorTimesOut
    <3>2. wait \in Waits /\ wait # NoMonitor
      BY <1>5, <2>1, NoMonitorIsNone DEF Waits
    <3>3. monitor'[c] = wait
      BY <1>1, <3>1 DEF TypeOK
    <3>4. monitor'[c].left = MonitorTicks /\ monitor'[c].depth = monitor[c].depth + 1
      BY <3>3
    <3> HIDE DEF wait
    <3>5. TypeOK'
      BY <1>1, <1>2, <3>1, <3>2 DEF TypeOK, Waits
    <3>6. age[c] + 0 = (monitor[c].depth + 1) * MonitorTicks
      BY <1>1, <1>2, <2>1 DEF Entry
    <3>7. age[c] + MonitorTicks = ((monitor[c].depth + 1) + 1) * MonitorTicks
      BY <1>5, <3>6, OneMoreWait
    <3>8. session[sessionOf[c]] = "open"
      BY <1>1, <1>4 DEF Entry
    <3>9. Entry(c)'
      BY <1>1, <1>2, <1>4, <2>1, <3>1, <3>2, <3>3, <3>4, <3>7, <3>8 DEF Entry, IsRunning, IsOver
    <3> QED
      BY <3>5, <3>9
  <2>2. CASE IsRunning(c) /\ ~(monitor[c].depth < MaxDepth)
    <3>1. /\ monitor' = [monitor EXCEPT ![c] = NoMonitor]
          /\ runningCommands' = Restrict(runningCommands, DOMAIN runningCommands \ {c})
      BY <2>2 DEF MonitorTimesOut
    <3>2. TypeOK'
      BY <1>1, <1>2, <3>1 DEF TypeOK, Waits, Restrict, Statuses
    <3>3. c \notin DOMAIN runningCommands' /\ monitor'[c] = NoMonitor
      BY <1>1, <3>1 DEF TypeOK, Restrict
    <3>4. monitor[c].depth = MaxDepth
      BY <1>5, <2>2
    <3>5. age[c] = (MaxDepth + 1) * MonitorTicks /\ doneAge[c] = Off
      BY <1>1, <1>2, <1>5, <2>2, <3>4 DEF Entry
    <3>6. age[c] >= (MaxDepth + 1) * MonitorTicks
      BY <1>5, <3>5
    <3>7. Explained(c)'
      BY <1>2, <3>5, <3>6 DEF Explained
    <3> QED
      BY <1>1, <1>2, <1>4, <3>2, <3>3, <3>7 DEF Entry, IsRunning, IsOver
  <2>3. CASE ~IsRunning(c)
    <3>1. monitor' = [monitor EXCEPT ![c] = NoMonitor] /\ runningCommands' = runningCommands
      BY <2>3 DEF MonitorTimesOut
    <3>2. TypeOK' /\ monitor'[c] = NoMonitor
      BY <1>1, <1>2, <3>1 DEF TypeOK, Waits
    <3> QED
      BY <1>1, <1>2, <1>4, <2>3, <3>1, <3>2 DEF Entry, Explained, IsRunning, IsOver
  <2> QED
    BY <2>1, <2>2, <2>3
<1>7. ASSUME NEW d \in Commands, d # c PROVE Entry(d)'
  <2>1. monitor'[d] = monitor[d]
    BY <1>1, <1>7 DEF MonitorTimesOut, TypeOK
  <2>2. /\ d \in DOMAIN runningCommands' <=> d \in DOMAIN runningCommands
        /\ d \in DOMAIN runningCommands => runningCommands'[d] = runningCommands[d]
    BY <1>7 DEF MonitorTimesOut, Restrict
  <2> QED
    BY <1>1, <1>2, <2>1, <2>2, UntouchedEntry
<1>8. \A s \in Sessions : Foreground(s)'
  BY <1>2 DEF IInv, Foreground
<1>9. \A d \in Commands : Entry(d)'
  BY <1>6, <1>7
<1> QED
  BY <1>6, <1>8, <1>9 DEF IInv

LEMMA CommandStatusKeepsIInv ==
  ASSUME IInv, NEW c \in Commands, CommandStatus(c)
  PROVE  IInv'
<1>1. TypeOK /\ Entry(c) /\ \A d \in Commands : Entry(d)
  BY DEF IInv
<1>2. /\ runningCommands' = Restrict(runningCommands, DOMAIN runningCommands \ {c})
      /\ UNCHANGED <<session, sessionOf, foreground, remote, monitor, age, doneAge, sweepTimer>>
      /\ c \in DOMAIN runningCommands
  BY DEF CommandStatus, IsRunning, IsOver
<1>3. PICK answer \in {"completed", "interrupted"} : reported' = [reported EXCEPT ![c] = answer]
  <2>1. CASE IsOver(c)
    BY <1>1, <2>1 DEF CommandStatus, IsOver, IsRunning, TypeOK, Statuses
  <2>2. CASE ~IsOver(c)
    BY <2>2 DEF CommandStatus
  <2> QED
    BY <2>1, <2>2
<1>4. TypeOK'
  <2>1. /\ reported' \in [Commands -> {"nothing", "completed", "interrupted"}]
    BY <1>1, <1>3 DEF TypeOK
  <2>2. /\ DOMAIN runningCommands' \subseteq Commands
        /\ runningCommands' \in [DOMAIN runningCommands' -> Statuses]
    BY <1>1, <1>2 DEF TypeOK, Restrict, Statuses
  <2> QED
    BY <1>1, <1>2, <2>1, <2>2 DEF TypeOK
<1>5. Entry(c)'
  <2>1. c \notin DOMAIN runningCommands' /\ reported'[c] # "nothing"
    BY <1>1, <1>2, <1>3 DEF Restrict, TypeOK
  <2>2. age[c] # Off
    BY <1>1, <1>2 DEF Entry
  <2> QED
    BY <1>1, <1>2, <2>1, <2>2 DEF Entry, Explained, IsRunning, IsOver
<1>6. ASSUME NEW d \in Commands, d # c PROVE Entry(d)'
  <2>1. reported'[d] = reported[d]
    BY <1>1, <1>3, <1>6 DEF TypeOK
  <2>2. /\ d \in DOMAIN runningCommands' <=> d \in DOMAIN runningCommands
        /\ d \in DOMAIN runningCommands => runningCommands'[d] = runningCommands[d]
    BY <1>2, <1>6 DEF Restrict
  <2> QED
    BY <1>1, <1>2, <2>1, <2>2, UntouchedEntry
<1>7. \A s \in Sessions : Foreground(s)'
  BY <1>2 DEF IInv, Foreground
<1>8. \A d \in Commands : Entry(d)'
  BY <1>5, <1>6
<1> QED
  BY <1>4, <1>7, <1>8 DEF IInv

LEMMA RemoteEndsKeepsIInv ==
  ASSUME IInv, NEW c \in Commands, RemoteEnds(c)
  PROVE  IInv'
<1>1. TypeOK'
  BY DEF IInv, TypeOK, RemoteEnds
<1>2. ASSUME NEW d \in Commands PROVE Entry(d)'
  BY UntouchedEntry DEF IInv, RemoteEnds
<1>3. \A s \in Sessions : Foreground(s)'
  BY DEF IInv, Foreground, RemoteEnds
<1> QED
  BY <1>1, <1>2, <1>3 DEF IInv

(* What a tick does to an age.                                             *)
LEMMA LaterIsNext ==
  ASSUME NEW last \in Nat, NEW t \in Off .. last
  PROVE  /\ Later(t, last) \in Off .. last
         /\ t = Off <=> Later(t, last) = Off
         /\ t <= Later(t, last) /\ Later(t, last) <= t + 1
         /\ t # Off /\ t < last => Later(t, last) = t + 1
  BY DEF Later, Off

LEMMA TickKeepsIInv == IInv /\ Tick => IInv'
<1> SUFFICES ASSUME IInv, Tick PROVE IInv'
  OBVIOUS
<1>1. TypeOK /\ \A c \in Commands : Entry(c)
  BY DEF IInv
<1>2. /\ LastAge \in Nat /\ LastDoneAge \in Nat
      /\ StuckTicks + SweepTicks < LastAge /\ StuckTicks \in Nat /\ EvictTicks \in Nat
      /\ SweepTicks \in Nat /\ MonitorTicks \in Nat /\ MaxDepth \in Nat
  BY LimitsAssumption DEF LastAge, LastDoneAge
<1>3. sweepTimer \in 0 .. SweepTicks /\ sweepTimer # 0 /\ sweepTimer' = sweepTimer - 1
  BY <1>1 DEF Tick, TypeOK
<1>4. /\ UNCHANGED <<session, sessionOf, foreground, remote, runningCommands, reported>>
      /\ age' = [c \in Commands |-> Later(age[c], LastAge)]
      /\ doneAge' = [c \in Commands |-> Later(doneAge[c], LastDoneAge)]
  BY DEF Tick
<1>5. ASSUME NEW c \in Commands
      PROVE  /\ age[c] \in Off .. LastAge /\ age'[c] = Later(age[c], LastAge)
             /\ doneAge[c] \in Off .. LastDoneAge /\ doneAge'[c] = Later(doneAge[c], LastDoneAge)
  BY <1>1, <1>4 DEF TypeOK
<1>6. ASSUME NEW c \in Commands
      PROVE  IF monitor[c] = NoMonitor THEN monitor'[c] = NoMonitor
             ELSE /\ monitor[c] \in Waits /\ monitor'[c] \in Waits
                  /\ monitor'[c].left = monitor[c].left - 1
                  /\ monitor'[c].depth = monitor[c].depth
  <2>1. monitor'[c] = IF monitor[c] = NoMonitor THEN NoMonitor
                      ELSE [monitor[c] EXCEPT !.left = @ - 1]
    BY DEF Tick
  <2>2. monitor[c] \in Waits \cup {NoMonitor} /\ monitor[c].left # 0
    BY <1>1 DEF Tick, TypeOK, Waits
  <2>3. CASE monitor[c] # NoMonitor
    <3>1. monitor[c] \in Waits /\ monitor[c].left \in 1 .. MonitorTicks
      BY <1>2, <2>2, <2>3 DEF Waits
    <3>2. monitor'[c] = [monitor[c] EXCEPT !.left = monitor[c].left - 1]
      BY <2>1, <2>3
    <3>3. monitor[c].left - 1 \in 0 .. MonitorTicks
      BY <1>2, <3>1
    <3> QED
      BY <2>3, <3>1, <3>2, <3>3 DEF Waits
  <2> QED
    BY <2>1, <2>3
<1>7. TypeOK'
  <2>1. age' \in [Commands -> Off .. LastAge] /\ doneAge' \in [Commands -> Off .. LastDoneAge]
    BY <1>2, <1>4, <1>5, LaterIsNext
  <2>2. monitor' \in [Commands -> Waits \cup {NoMonitor}]
    <3>1. \A c \in Commands : monitor'[c] \in Waits \cup {NoMonitor}
      BY <1>6
    <3>2. monitor' = [c \in Commands |-> monitor'[c]]
      BY DEF Tick
    <3> QED
      BY <3>1, <3>2
  <2>3. sweepTimer' \in 0 .. SweepTicks
    BY <1>2, <1>3
  <2> QED
    BY <1>1, <1>4, <2>1, <2>2, <2>3 DEF TypeOK, Waits
<1>8. ASSUME NEW c \in Commands PROVE Entry(c)'
  <2>1. /\ age'[c] \in Off .. LastAge /\ (age[c] = Off <=> age'[c] = Off)
        /\ age[c] <= age'[c] /\ age'[c] <= age[c] + 1
        /\ age[c] # Off /\ age[c] < LastAge => age'[c] = age[c] + 1
    BY <1>2, <1>5, LaterIsNext
  <2>2. /\ doneAge'[c] \in Off .. LastDoneAge /\ (doneAge[c] = Off <=> doneAge'[c] = Off)
        /\ doneAge[c] <= doneAge'[c] /\ doneAge'[c] <= doneAge[c] + 1
    BY <1>2, <1>5, LaterIsNext
  <2>3. Entry(c) /\ Off = -1 /\ age[c] \in Int /\ doneAge[c] \in Int
        /\ age'[c] \in Int /\ doneAge'[c] \in Int
    BY <1>1, <1>2, <1>5, <2>1, <2>2 DEF Off
  <2>4. CASE IsRunning(c)
    <3>1. /\ monitor[c] # NoMonitor /\ doneAge[c] = Off
          /\ age[c] <= StuckTicks + SweepTicks - sweepTimer
          /\ age[c] + monitor[c].left = (monitor[c].depth + 1) * MonitorTicks
          /\ age[c] # Off /\ sessionOf[c] \in Sessions /\ session[sessionOf[c]] = "open"
          /\ reported[c] = "nothing"
      BY <2>3, <2>4 DEF Entry, IsRunning
    <3>2. age'[c] = age[c] + 1
      BY <1>2, <1>3, <2>1, <2>3, <3>1
    <3>3. age'[c] <= StuckTicks + SweepTicks - sweepTimer'
      BY <1>2, <1>3, <2>3, <3>1, <3>2
    <3>4. /\ monitor'[c] # NoMonitor /\ monitor'[c].depth = monitor[c].depth
          /\ monitor'[c].left = monitor[c].left - 1 /\ monitor[c].left \in Int
      BY <1>6, <3>1, NoMonitorIsNone DEF Waits
    <3>5. age'[c] + monitor'[c].left = (monitor'[c].depth + 1) * MonitorTicks
      BY <2>3, <3>1, <3>2, <3>4
    <3> QED
      BY <1>4, <2>1, <2>2, <2>4, <3>1, <3>3, <3>4, <3>5 DEF Entry, IsRunning, IsOver
  <2>5. CASE IsOver(c)
    <3>1. /\ doneAge[c] # Off /\ doneAge[c] <= EvictTicks + SweepTicks - sweepTimer
          /\ age[c] # Off /\ sessionOf[c] \in Sessions /\ reported[c] = "nothing"
      BY <2>3, <2>5 DEF Entry, IsOver
    <3>2. doneAge'[c] <= EvictTicks + SweepTicks - sweepTimer'
      BY <1>2, <1>3, <2>2, <2>3, <3>1
    <3>3. monitor'[c] # NoMonitor => session[sessionOf[c]] = "open"
      BY <1>6, <2>3 DEF Entry
    <3> QED
      BY <1>4, <2>1, <2>2, <2>5, <3>1, <3>2, <3>3 DEF Entry, IsRunning, IsOver
  <2>6. CASE c \notin DOMAIN runningCommands
    <3>1. monitor'[c] # NoMonitor => monitor[c] # NoMonitor
      BY <1>6
    <3>2. ASSUME Explained(c) PROVE Explained(c)'
      <4>1. CASE reported[c] # "nothing" \/ session[sessionOf[c]] = "forgotten"
        BY <1>4, <4>1 DEF Explained
      <4>2. CASE doneAge[c] # Off /\ doneAge[c] > EvictTicks
        <5>1. doneAge'[c] # Off /\ doneAge'[c] > EvictTicks
          BY <1>2, <2>2, <2>3, <4>2
        <5> QED
          BY <5>1 DEF Explained
      <4>3. CASE doneAge[c] = Off /\ age[c] > StuckTicks
        <5>1. doneAge'[c] = Off /\ age'[c] > StuckTicks
          BY <1>2, <2>1, <2>2, <2>3, <4>3
        <5> QED
          BY <5>1 DEF Explained
      <4>4. CASE doneAge[c] = Off /\ age[c] >= (MaxDepth + 1) * MonitorTicks
        <5>1. (MaxDepth + 1) * MonitorTicks \in Int
          BY <1>2
        <5>2. doneAge'[c] = Off /\ age'[c] >= (MaxDepth + 1) * MonitorTicks
          BY <2>1, <2>2, <2>3, <4>4, <5>1
        <5> QED
          BY <5>2 DEF Explained
      <4> QED
        BY <3>2, <4>1, <4>2, <4>3, <4>4 DEF Explained
    <3>3. monitor'[c] = NoMonitor \/ session[sessionOf[c]] = "open"
      BY <2>3, <3>1 DEF Entry
    <3>4. age[c] = Off => monitor'[c] = NoMonitor
      BY <2>3, <3>1 DEF Entry
    <3> QED
      BY <1>4, <2>1, <2>2, <2>3, <2>6, <3>2, <3>3, <3>4 DEF Entry, IsRunning, IsOver
  <2> QED
    BY <2>4, <2>5, <2>6 DEF IsRunning, IsOver
<1>9. ASSUME NEW s \in Sessions PROVE Foreground(s)'
  <2>1. CASE foreground[s] # NoCommand
    <3>1. foreground[s] \in Commands /\ Foreground(s)
      BY <1>1, <2>1 DEF IInv, TypeOK
    <3>2. age'[foreground[s]] = Off
      BY <1>2, <1>5, <2>1, <3>1, LaterIsNext DEF Foreground
    <3> QED
      BY <1>4, <2>1, <3>1, <3>2 DEF Foreground
  <2>2. CASE foreground[s] = NoCommand
    BY <1>4, <2>2 DEF Foreground
  <2> QED
    BY <2>1, <2>2
<1> QED
  BY <1>7, <1>8, <1>9 DEF IInv

LEMMA IInvStep == IInv /\ [Next]_vars => IInv'
<1> SUFFICES ASSUME IInv, [Next]_vars PROVE IInv'
  OBVIOUS
<1>1. TypeOK
  BY DEF IInv
<1>2. CASE SweepTimerFires
  <2>1. sweepTimer' \in 0 .. SweepTicks
    BY <1>2, LimitsAssumption DEF SweepTimerFires
  <2> QED
    BY <1>2, <2>1, SweepKeepsIInv DEF SweepTimerFires
<1>3. CASE SweepOnRequest
  <2>1. sweepTimer' \in 0 .. SweepTicks
    BY <1>1, <1>3 DEF SweepOnRequest, TypeOK
  <2> QED
    BY <1>3, <2>1, SweepKeepsIInv DEF SweepOnRequest
<1>4. CASE Tick
  BY <1>4, TickKeepsIInv
<1>5. ASSUME NEW s \in Sessions, NEW c \in Commands, RunStart(s, c) PROVE IInv'
  BY <1>5, RunStartKeepsIInv
<1>6. ASSUME NEW s \in Sessions,
             RunReturns(s) \/ RunPromoted(s) \/ StreamCloses(s) \/ SessionClose(s) \/ ViewerClose(s)
      PROVE  IInv'
  BY <1>6, RunReturnsKeepsIInv, RunPromotedKeepsIInv, StreamClosesKeepsIInv,
     SessionCloseKeepsIInv, ViewerCloseKeepsIInv
<1>7. ASSUME NEW c \in Commands,
             MonitorTimesOut(c) \/ MonitorSettles(c) \/ CommandStatus(c) \/ RemoteEnds(c)
      PROVE  IInv'
  BY <1>7, MonitorTimesOutKeepsIInv, MonitorSettlesKeepsIInv, CommandStatusKeepsIInv,
     RemoteEndsKeepsIInv
<1>8. CASE UNCHANGED vars
  <2>1. TypeOK'
    BY <1>1, <1>8 DEF TypeOK, vars
  <2>2. \A c \in Commands : Entry(c)'
    BY <1>8 DEF IInv, Entry, Explained, IsRunning, IsOver, vars
  <2>3. \A s \in Sessions : Foreground(s)'
    BY <1>8 DEF IInv, Foreground, vars
  <2> QED
    BY <2>1, <2>2, <2>3 DEF IInv
<1> QED
  BY <1>2, <1>3, <1>4, <1>5, <1>6, <1>7, <1>8 DEF Next, TimerStep

LEMMA IInvAlways == Spec => []IInv
<1>1. Init => IInv
  BY IInvInit
<1>2. IInv /\ [Next]_vars => IInv'
  BY IInvStep
<1> QED
  BY <1>1, <1>2, PTL DEF Spec

(* Every variable keeps its type: no wait of the monitor exceeds its       *)
(* limit, no age its bound.                                                *)
THEOREM TypesKept == Spec => []TypeOK
<1>1. IInv => TypeOK
  BY DEF IInv
<1> QED
  BY <1>1, IInvAlways, PTL

(* A promoted command is unknown to ssh-command-status only for one of the *)
(* reasons there are: reported, its session forgotten, five minutes over,  *)
(* or given up while it ran.                                               *)
THEOREM UnknownAlwaysExplained == Spec => []UnknownExplained
<1>1. IInv => UnknownExplained
  BY DEF IInv, Entry, Explained, UnknownExplained
<1> QED
  BY <1>1, IInvAlways, PTL

(* A running entry always has the monitor that settles it.                 *)
THEOREM MonitorAlwaysAlive == Spec => []MonitorAlive
<1>1. IInv => MonitorAlive
  BY DEF IInv, Entry, MonitorAlive
<1> QED
  BY <1>1, IInvAlways, PTL

(* No entry outlives its limit by more than the time between two sweeps.   *)
THEOREM EntriesAlwaysBounded == Spec => []EntriesBounded
<1>1. ASSUME IInv PROVE EntriesBounded
  <2> SUFFICES ASSUME NEW c \in DOMAIN runningCommands
               PROVE  IF IsRunning(c) THEN age[c] <= StuckTicks + SweepTicks
                                      ELSE doneAge[c] <= EvictTicks + SweepTicks
    BY DEF EntriesBounded
  <2>1. TypeOK /\ c \in Commands /\ Entry(c)
    BY <1>1 DEF IInv, TypeOK
  <2>2. \A i \in Off .. LastAge : i \in Int
    BY LimitsAssumption DEF Off, LastAge
  <2>3. \A i \in Off .. LastDoneAge : i \in Int
    BY LimitsAssumption DEF Off, LastDoneAge
  <2>4. age[c] \in Int /\ doneAge[c] \in Int /\ sweepTimer \in 0 .. SweepTicks
    BY <2>1, <2>2, <2>3 DEF TypeOK
  <2>5. CASE IsRunning(c)
    <3>1. age[c] <= StuckTicks + SweepTicks - sweepTimer
      BY <2>1, <2>5 DEF Entry
    <3> QED
      BY <2>4, <2>5, <3>1, LimitsAssumption
  <2>6. CASE ~IsRunning(c)
    <3>1. doneAge[c] <= EvictTicks + SweepTicks - sweepTimer
      BY <2>1, <2>6 DEF Entry, IsRunning, IsOver
    <3> QED
      BY <2>4, <2>6, <3>1, LimitsAssumption
  <2> QED
    BY <2>5, <2>6
<1> QED
  BY <1>1, IInvAlways, PTL

(* An entry of runningCommands lives as long as the limits say, neither    *)
(* shorter nor longer, and a running one has a monitor.                    *)
THEOREM EntriesLiveAsSaid == Spec => []EntryLifetime
  BY UnknownAlwaysExplained, MonitorAlwaysAlive, EntriesAlwaysBounded, PTL DEF EntryLifetime

(* A final answer is given at most once.                                   *)
THEOREM AnsweredAtMostOnce == Spec => []AnsweredOnce
<1>1. IInv => AnsweredOnce
  BY DEF IInv, Entry, AnsweredOnce
<1> QED
  BY <1>1, IInvAlways, PTL

(* A handler's entries are among those that were there.                    *)
LEMMA HandlerAddsNone ==
  ASSUME NEW sess, NEW other, EndHandler(sess, Restrict(runningCommands, Kept(other)))
  PROVE  DOMAIN runningCommands' \subseteq DOMAIN runningCommands
  BY DEF EndHandler, Restrict, Kept

(* No step brings an entry back that was dropped.                          *)
THEOREM NothingComesBack == Spec => NoResurrection
<1> DEFINE Back == \A c \in Commands :
                     age[c] # Off /\ c \notin DOMAIN runningCommands => c \notin DOMAIN runningCommands'
<1>1. ASSUME IInv, [Next]_vars PROVE Back
  <2> SUFFICES ASSUME NEW c \in Commands, age[c] # Off, c \notin DOMAIN runningCommands
               PROVE  c \notin DOMAIN runningCommands'
    OBVIOUS
  <2>1. CASE SweepTimerFires \/ SweepOnRequest
    BY <2>1, HandlerAddsNone DEF SweepTimerFires, SweepOnRequest, SweepSessions
  <2>2. CASE Tick \/ UNCHANGED vars
    BY <2>2 DEF Tick, vars
  <2>3. ASSUME NEW s \in Sessions, NEW d \in Commands, RunStart(s, d)
        PROVE  c \notin DOMAIN runningCommands'
    BY <2>3, HandlerAddsNone DEF RunStart
  <2>4. ASSUME NEW s \in Sessions, RunReturns(s) PROVE c \notin DOMAIN runningCommands'
    BY <2>4 DEF RunReturns
  <2>5. ASSUME NEW s \in Sessions, RunPromoted(s) PROVE c \notin DOMAIN runningCommands'
    <3>1. c # foreground[s]
      BY <1>1, <2>5 DEF IInv, Foreground, RunPromoted
    <3> QED
      BY <2>5, <3>1 DEF RunPromoted
  <2>6. ASSUME NEW s \in Sessions, StreamCloses(s) PROVE c \notin DOMAIN runningCommands'
    BY <2>6 DEF StreamCloses, EndHandler
  <2>7. ASSUME NEW s \in Sessions, SessionClose(s) \/ ViewerClose(s)
        PROVE  c \notin DOMAIN runningCommands'
    BY <2>7, HandlerAddsNone DEF SessionClose, ViewerClose
  <2>8. ASSUME NEW d \in Commands, MonitorTimesOut(d) PROVE c \notin DOMAIN runningCommands'
    BY <2>8 DEF MonitorTimesOut, Restrict
  <2>9. ASSUME NEW d \in Commands, MonitorSettles(d) PROVE c \notin DOMAIN runningCommands'
    BY <2>9 DEF MonitorSettles
  <2>10. ASSUME NEW d \in Commands, CommandStatus(d) \/ RemoteEnds(d)
         PROVE  c \notin DOMAIN runningCommands'
    BY <2>10 DEF CommandStatus, RemoteEnds, Restrict
  <2> QED
    BY <1>1, <2>1, <2>2, <2>3, <2>4, <2>5, <2>6, <2>7, <2>8, <2>9, <2>10 DEF Next, TimerStep
<1>2. IInv /\ [Next]_vars => [Back]_vars
  BY <1>1
<1> QED
  BY <1>2, IInvAlways, PTL DEF Spec, NoResurrection
=============================================================================
