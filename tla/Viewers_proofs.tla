--------------------------- MODULE Viewers_proofs ---------------------------
(***************************************************************************)
(* What TLAPS proves about the viewers: of ViewerProcess, the processes    *)
(* and the files they meet in, and of ViewerClient, what they show and the *)
(* keys they send.                                                         *)
(*                                                                         *)
(* ViewerProcess, for any servers, viewers, bindings and calls: which      *)
(* server server-info.json names, and that every viewer that runs is on    *)
(* record.                                                                 *)
(*                                                                         *)
(* Neither invariant of the run is inductive.  That only one server runs   *)
(* is what keeps the info right (OneServer).  That a viewer stays on       *)
(* record through launches, saves, ends and restarts is in what a call     *)
(* under way knows (CallInv): there is one call, what it is about to write *)
(* is what the server has, and nothing runs for a binding it launches for. *)
(* Between calls file and server agree unless the last save failed         *)
(* (FileInv), so that a server may end at any time and the next one starts *)
(* from the same records.                                                  *)
(*                                                                         *)
(* ViewerClient, for any characters and any sizes of ring and page: a      *)
(* viewer shows the characters of its session in sequence, and the keys    *)
(* arrive in the order in which they were typed.                           *)
(*                                                                         *)
(* ShownInSequence says nothing of what is on its way.  Its invariant      *)
(* (Shows) is that a viewer stands between two bytes of its session: what  *)
(* it shows is made of those before, its decoders hold what has come of    *)
(* the character begun, and the chunks on their way are exactly the bytes  *)
(* behind, up to the last one that arrived.                                *)
(***************************************************************************)
EXTENDS ViewerProcess, ViewerClient, SequenceTheorems, FiniteSetTheorems, WellFoundedInduction, TLAPS


States     == {"none", "starting", "loaded", "running", "stopping", "exited", "killed"}
CallStates == {"none", "launching", "launched", "pruning", "saving", "ending"}
Record     == [pid : Nat, url : Nat]
Records    == [Bindings -> Record]
CallTypes  == [at : CallStates, on : Servers \cup {0}, binding : Bindings \cup {NoCall.binding},
               pid : Nat, snapshot : Records]

CallsTyped ==
  /\ call \in [Calls -> CallTypes]
  /\ \A c \in Calls : call[c].at # "none" => call[c].on \in Servers

Typed ==
  /\ server \in [Servers -> States]
  /\ info \in Servers \cup {0}
  /\ file \in Records
  /\ records \in [Servers -> Records]
  /\ viewers \in SUBSET [pid : Nat \ {0}, binding : Bindings \cup {NoCall.binding}]
  /\ launched \in Nat
  /\ CallsTyped
  /\ ctl \in [at : {"idle", "checked", "waiting"}, found : Servers \cup {0}]
  /\ failed \in [save : BOOLEAN, viewers : SUBSET Nat]

OneServer == \A s, t \in Servers : Running(s) /\ Running(t) => s = t

ServerInv == Typed /\ ("servers" \notin excuses => OneServer /\ InfoNamesServer)

Active(s) == server[s] \in {"loaded", "running", "stopping"}
Busy(c)   == call[c].at # "none"

(* The viewers whose launch did not fail. *)
Known == {v \in viewers : v.pid \notin failed.viewers}

(* The file has what the server has, unless the last save failed. *)
Same(s) == failed.save \/ file = records[s]

(* What a call under way knows of the records R of its server, and whether *)
(* the file is the same: k is the call.                                    *)
Knows(k, same, R) ==
  /\ k.at \in {"pruning", "saving"} => k.snapshot = R
  /\ k.at \in {"launching", "launched", "ending"} => same
  /\ k.at # "saving" => k.binding \in Bindings
  /\ k.at \in {"pruning", "launching", "launched"} => R[k.binding] = NoRecord
  /\ k.at = "ending" => k.pid = R[k.binding].pid

CallInv ==
  \A c \in Calls : Busy(c) =>
    /\ call[c].on \in Servers /\ server[call[c].on] \in {"running", "stopping"}
    /\ \A d \in Calls : Busy(d) => d = c
    /\ Knows(call[c], Same(call[c].on), records[call[c].on])

JustLaunched(v) ==
  \E c \in Calls : call[c].at = "launched" /\ call[c].pid = v.pid /\ call[c].binding = v.binding

FileInv == (\A c \in Calls : ~Busy(c)) => \A s \in Servers : Active(s) => Same(s)

ViewerInv ==
  \A v \in Known :
    /\ v.binding \in Bindings
    /\ \A s \in Servers : Active(s) => records[s][v.binding].pid = v.pid \/ JustLaunched(v)
    /\ (\A s \in Servers : ~Active(s)) => file[v.binding].pid = v.pid

RecordInv == excuses = {} => CallInv /\ FileInv /\ ViewerInv

----------------------------------------------------------------------------
(* Types, and one server                                                   *)

LEMMA ServersNotZero == Servers \subseteq Nat /\ 0 \notin Servers
  BY ViewerProcessAssumption DEF Servers

LEMMA NoRecordTypes == NoRecord \in Record /\ NoRecords \in Records /\ NoCall \in CallTypes
                       /\ NoCall.at = "none" /\ NoRecord.pid = 0
  BY DEF NoRecord, NoRecords, NoCall, Record, Records, CallTypes, CallStates

(* What ctl finds is a server, and the one of the info if that runs. *)
LEMMA FoundIs ==
  ASSUME Typed
  PROVE  /\ Found \in Servers \cup {0}
         /\ Found # 0 => Found = info \/ server[Found] = "running"
         /\ Found = 0 /\ info # 0 => ~Running(info)
<1>1. CASE info # 0 /\ Running(info)
  BY <1>1 DEF Found, Typed
<1>2. CASE ~(info # 0 /\ Running(info)) /\ info # 0 /\ fixedPort /\ \E t \in Servers : server[t] = "running"
  <2>1. Found = CHOOSE u \in Servers : server[u] = "running"
    BY <1>2 DEF Found
  <2>2. Found \in Servers /\ server[Found] = "running"
    BY <1>2, <2>1
  <2> QED BY <1>2, <2>2
<1>3. CASE ~(info # 0 /\ Running(info)) /\ ~(info # 0 /\ fixedPort /\ \E t \in Servers : server[t] = "running")
  BY <1>3, ServersNotZero DEF Found
<1> QED BY <1>1, <1>2, <1>3

(* When a server is gone its calls are, and the file is whole or cut. *)
LEMMA GoneTypes ==
  ASSUME Typed, NEW s, Gone(s)
  PROVE  CallsTyped' /\ file' \in Records
<1>1. CallsTyped'
  BY NoRecordTypes DEF Gone, Typed, CallsTyped
<1>2. \A c \in Calls : call[c].snapshot \in Records
  BY DEF Typed, CallsTyped, CallTypes
<1>3. UnderWay(s) \subseteq Calls
  BY DEF UnderWay
<1>4. file' = file \/ file' = NoRecords \/ \E c \in Calls : file' = call[c].snapshot
  BY <1>3 DEF Gone
<1> QED BY <1>1, <1>2, <1>4, NoRecordTypes DEF Typed

(* Servers that come to an end leave one that runs at most, and the info   *)
(* where it was.                                                           *)
LEMMA EndKeeps ==
  ASSUME Typed, "servers" \notin excuses => OneServer /\ InfoNamesServer,
         NEW s \in Servers, NEW state \in {"stopping", "killed"},
         Running(s), state = "stopping" => server[s] \in {"running", "stopping"},
         server' = [server EXCEPT ![s] = state], info' = info, excuses \subseteq excuses'
  PROVE  /\ server' \in [Servers -> States]
         /\ "servers" \notin excuses' => OneServer' /\ InfoNamesServer'
<1>1. server' \in [Servers -> States]
  BY DEF Typed, States
<1>2. \A t \in Servers : Running(t)' => Running(t)
  BY DEF Running, Typed
<1>3. "servers" \notin excuses' => OneServer'
  BY <1>2 DEF OneServer
<1>4. "servers" \notin excuses' => InfoNamesServer'
  BY DEF InfoNamesServer, Typed, Running
<1> QED BY <1>1, <1>3, <1>4

LEMMA KillKeeps ==
  ASSUME Typed, "servers" \notin excuses => OneServer /\ InfoNamesServer,
         NEW s \in Servers, KillPid(s), info' = info
  PROVE  /\ server' \in [Servers -> States]
         /\ CallsTyped' /\ file' \in Records
         /\ "servers" \notin excuses' => OneServer' /\ InfoNamesServer'
<1>1. CASE ~Running(s) /\ UNCHANGED <<server, file, call, excuses>>
  BY <1>1 DEF Typed, CallsTyped, OneServer, Running, InfoNamesServer
<1>2. CASE Running(s) /\ Killed(s)
  <2>1. excuses \subseteq excuses' /\ server' = [server EXCEPT ![s] = "killed"] /\ Gone(s)
    BY <1>2 DEF Killed, Gone
  <2> QED BY <1>2, <2>1, EndKeeps, GoneTypes
<1>3. CASE server[s] \in {"running", "stopping"} /\ server' = [server EXCEPT ![s] = "stopping"] /\ UNCHANGED <<file, call, excuses>>
  <2>1. Running(s)
    BY <1>3 DEF Running
  <2> QED BY <1>3, <2>1, EndKeeps DEF Typed, CallsTyped
<1> QED BY <1>1, <1>2, <1>3 DEF KillPid

LEMMA SpawnKeeps ==
  ASSUME Typed, "servers" \notin excuses => OneServer /\ InfoNamesServer,
         NEW s \in Servers, Spawned(s), info' = info
  PROVE  /\ server' \in [Servers -> States]
         /\ "servers" \notin excuses' => OneServer' /\ InfoNamesServer'
<1>1. server' = [server EXCEPT ![s] = "starting"] /\ server[s] = "none"
  BY DEF Spawned
<1>2. "servers" \notin excuses' => "servers" \notin excuses /\ \A t \in Servers : ~Running(t)
  BY DEF Spawned
<1>3. \A t \in Servers : Running(t)' => Running(t) \/ t = s
  BY <1>1 DEF Running, Typed
<1>4. "servers" \notin excuses' => OneServer'
  BY <1>2, <1>3 DEF OneServer
<1>5. "servers" \notin excuses' => InfoNamesServer'
  BY <1>1, <1>2 DEF InfoNamesServer, Typed
<1> QED BY <1>1, <1>4, <1>5 DEF Typed, States

LEMMA ServerInvInit == Init => ServerInv
<1> SUFFICES ASSUME Init PROVE ServerInv
  OBVIOUS
<1>1. Typed
  BY NoRecordTypes DEF Init, Typed, CallsTyped, States
<1>2. OneServer /\ InfoNamesServer
  BY ServersNotZero DEF Init, OneServer, InfoNamesServer, Running
<1> QED BY <1>1, <1>2 DEF ServerInv

(* The steps of a call do not touch the servers. *)
LEMMA ServersKept ==
  ASSUME "servers" \notin excuses => OneServer /\ InfoNamesServer,
         UNCHANGED <<server, info>>, excuses \subseteq excuses'
  PROVE  "servers" \notin excuses' => OneServer' /\ InfoNamesServer'
BY DEF OneServer, InfoNamesServer, Running

LEMMA CallTypesKept ==
  ASSUME Typed, NEW c \in Calls, NEW new \in CallTypes, new.at # "none" => new.on \in Servers,
         call' = [call EXCEPT ![c] = new]
  PROVE  CallsTyped'
BY DEF Typed, CallsTyped

LEMMA SavingType ==
  ASSUME NEW a \in CallStates, NEW s \in Servers \cup {0}, NEW b \in Bindings \cup {NoCall.binding},
         NEW p \in Nat, NEW R \in Records
  PROVE  Saving(a, s, b, p, R) \in CallTypes /\ Saving(a, s, b, p, R).on = s
BY DEF Saving, CallTypes

LEMMA RecordsKept ==
  ASSUME Typed, NEW s \in Servers, NEW b, NEW r \in Record, records' = [records EXCEPT ![s][b] = r]
  PROVE  records' \in [Servers -> Records] /\ records'[s] \in Records
BY DEF Typed, CallsTyped, Records

LEMMA UrlType == \A s \in Servers : Url(s) \in Nat
  BY ServersNotZero DEF Url

LEMMA ServerInvServer ==
  ASSUME ServerInv, NEW s \in Servers, Server(s)
  PROVE  ServerInv'
<1> USE DEF ServerInv
<1>1. CASE Start(s)
  BY <1>1, SpawnKeeps DEF Start, Typed, CallsTyped
<1>2. CASE Load(s)
  <2>1. Typed'
    BY <1>2 DEF Load, Typed, CallsTyped, States
  <2>2. \A t \in Servers : Running(t)' => Running(t)
    BY <1>2 DEF Load, Running, Typed, CallsTyped
  <2>3. "servers" \notin excuses' => OneServer'
    BY <1>2, <2>2 DEF Load, OneServer
  <2>4. "servers" \notin excuses' => InfoNamesServer'
    BY <1>2 DEF Load, InfoNamesServer, Typed, CallsTyped
  <2> QED BY <2>1, <2>3, <2>4
<1>3. CASE Listen(s)
  <2>1. Typed'
    BY <1>3 DEF Listen, SaveServerInfoState, Typed, CallsTyped, States
  <2>2. \A t \in Servers : Running(t)' => Running(t)
    BY <1>3 DEF Listen, Running, Typed, CallsTyped
  <2>3. "servers" \notin excuses' => OneServer'
    BY <1>3, <2>2 DEF Listen, OneServer
  <2>4. "servers" \notin excuses' => \A t \in Servers \ {s} : server[t] # "running"
    BY <1>3 DEF Listen, OneServer, Running
  <2>5. "servers" \notin excuses' => InfoNamesServer'
    BY <1>3, <2>4 DEF Listen, SaveServerInfoState, InfoNamesServer, Typed, CallsTyped
  <2> QED BY <2>1, <2>3, <2>5
<1>4. CASE Stop(s)
  <2>1. Running(s)
    BY <1>4 DEF Stop, Running
  <2> QED BY <1>4, <2>1, EndKeeps DEF Stop, Typed, CallsTyped
<1>5. CASE Exit(s)
  <2>1. server' \in [Servers -> States] /\ info' = 0 /\ excuses \subseteq excuses'
    BY <1>5 DEF Exit, RemoveServerInfoState, Gone, Typed, CallsTyped, States
  <2>2. Typed'
    BY <1>5, <2>1, GoneTypes DEF Exit, Typed, CallsTyped
  <2>3. \A t \in Servers : Running(t)' => Running(t) /\ t # s
    BY <1>5 DEF Exit, Running, Typed, CallsTyped
  <2>4. "servers" \notin excuses' => OneServer'
    BY <2>1, <2>3 DEF OneServer
  <2>5. "servers" \notin excuses' => \A t \in Servers : ~Running(t)'
    BY <1>5, <2>1, <2>3 DEF Exit, OneServer, Running
  <2>6. "servers" \notin excuses' => InfoNamesServer'
    BY <2>1, <2>5, ServersNotZero DEF InfoNamesServer, Running
  <2> QED BY <2>2, <2>4, <2>6
<1>6. CASE Crash(s)
  <2>1. excuses \subseteq excuses' /\ server' = [server EXCEPT ![s] = "killed"] /\ Gone(s)
    BY <1>6 DEF Crash, Killed, Gone
  <2> QED BY <1>6, <2>1, EndKeeps, GoneTypes DEF Crash, Typed, CallsTyped
<1>7. ASSUME NEW c \in Calls, List(s, c) PROVE ServerInv'
  <2>1. Pruned(s) \in Records
    BY NoRecordTypes DEF Pruned, Typed, CallsTyped, Records
  <2>2. records' \in [Servers -> Records] /\ records'[s] \in Records
    BY <1>7, <2>1 DEF List, Typed, CallsTyped
  <2>3. CallsTyped'
    <3>1. call[c] \in CallTypes
      BY DEF Typed, CallsTyped
    <3>2. Saving("saving", s, call[c].binding, 0, records'[s]) \in CallTypes
      BY <2>2, <3>1, SavingType DEF CallTypes, CallStates
    <3> QED BY <1>7, <3>2, SavingType, CallTypesKept DEF List, Saving
  <2>4. excuses \subseteq excuses'
    BY <1>7 DEF List, Entered
  <2> QED BY <1>7, <2>2, <2>3, <2>4, ServersKept DEF List, Typed
<1>8. ASSUME NEW c \in Calls, NEW b \in Bindings, Ensure(s, c, b) PROVE ServerInv'
  <2>1. records[s] \in Records /\ records[s][b].pid \in Nat
    BY DEF Typed, CallsTyped, Records, Record
  <2>2. records' \in [Servers -> Records] /\ records'[s] \in Records
    <3>1. records \in [Servers -> Records] /\ NoRecord \in Record
      BY NoRecordTypes DEF Typed, CallsTyped
    <3>2. records' = records \/ records' = [records EXCEPT ![s][b] = NoRecord]
      BY <1>8 DEF Ensure
    <3>3. [records[s] EXCEPT ![b] = NoRecord] \in Records
      BY <3>1 DEF Records
    <3> QED BY <3>1, <3>2, <3>3
  <2>3. \E a \in CallStates, p \in Nat, R \in Records : call' = [call EXCEPT ![c] = Saving(a, s, b, p, R)]
    BY <1>8, <2>1, <2>2, NoRecordTypes DEF Ensure, CallStates
  <2>4. CallsTyped'
    BY <2>3, SavingType, CallTypesKept DEF Saving
  <2>5. excuses \subseteq excuses'
    BY <1>8 DEF Ensure, Entered
  <2> QED BY <1>8, <2>2, <2>4, <2>5, ServersKept DEF Ensure, Typed
<1> QED BY <1>1, <1>2, <1>3, <1>4, <1>5, <1>6, <1>7, <1>8 DEF Server

LEMMA ServerInvViewer ==
  ASSUME ServerInv, Viewer
  PROVE  ServerInv'
<1> USE DEF ServerInv
<1>a. ASSUME NEW c \in Calls, call[c].at # "none"
      PROVE  /\ call[c] \in CallTypes /\ call[c].on \in Servers
             /\ call[c].binding \in Bindings \cup {NoCall.binding}
             /\ call[c].pid \in Nat /\ call[c].snapshot \in Records
  BY <1>a DEF Typed, CallsTyped, CallTypes
<1>1. ASSUME NEW c \in Calls, Terminate(c) PROVE ServerInv'
  <2> DEFINE s == call[c].on
  <2>1. call[c].at # "none"
    BY <1>1 DEF Terminate
  <2>2. records' \in [Servers -> Records] /\ records'[s] \in Records
    BY <1>1, <1>a, <2>1, RecordsKept, NoRecordTypes DEF Terminate
  <2>3. CallsTyped'
    <3>m. s \in Servers /\ call[c].binding \in Bindings \cup {NoCall.binding}
      BY <1>a, <2>1
    <3>a. "pruning" \in CallStates /\ 0 \in Nat
      BY DEF CallStates
    <3> HIDE DEF s
    <3>1. Saving("pruning", s, call[c].binding, 0, records'[s]) \in CallTypes
      BY <2>2, <3>m, <3>a, SavingType
    <3> USE DEF s
    <3> QED BY <1>1, <1>a, <2>1, <3>1, CallTypesKept DEF Terminate, Saving
  <2> QED BY <1>1, <2>2, <2>3, ServersKept DEF Terminate, Typed
<1>2. ASSUME NEW c \in Calls, Saved(c) PROVE ServerInv'
  <2>1. call[c].at # "none"
    BY <1>2 DEF Saved
  <2>2. file' \in Records
    BY <1>2, <1>a, <2>1 DEF Saved
  <2>3. CallsTyped'
    <3>m. /\ call[c].on \in Servers /\ call[c].binding \in Bindings \cup {NoCall.binding}
          /\ "launching" \in CallStates /\ 0 \in Nat
      BY <1>a, <2>1 DEF CallStates
    <3>1. Saving("launching", call[c].on, call[c].binding, 0, NoRecords) \in CallTypes
      BY <3>m, SavingType, NoRecordTypes
    <3>2. CASE call[c].at = "saving"
      BY <1>2, <3>2, CallTypesKept, NoRecordTypes DEF Saved
    <3>3. CASE call[c].at # "saving"
      BY <1>2, <1>a, <2>1, <3>1, <3>3, CallTypesKept DEF Saved, Saving
    <3> QED BY <3>2, <3>3
  <2>4. failed' \in [save : BOOLEAN, viewers : SUBSET Nat]
    BY <1>2 DEF Saved, Typed
  <2> QED BY <1>2, <2>2, <2>3, <2>4, ServersKept DEF Saved, Typed
<1>3. ASSUME NEW c \in Calls, Launch(c) PROVE ServerInv'
  <2>1. call[c].at # "none"
    BY <1>3 DEF Launch
  <2>2. launched' \in Nat \ {0}
    BY <1>3 DEF Launch, Typed
  <2>3. CallsTyped'
    <3>1. [call[c] EXCEPT !.at = "launched", !.pid = launched'] \in CallTypes
      BY <1>a, <2>1, <2>2 DEF CallTypes, CallStates
    <3>2. [call[c] EXCEPT !.at = "launched", !.pid = launched'].on \in Servers
      BY <1>a, <2>1 DEF CallTypes
    <3>3. call' = [call EXCEPT ![c] = [call[c] EXCEPT !.at = "launched", !.pid = launched']]
      BY <1>3, <1>a, <2>1 DEF Launch, Typed, CallsTyped, CallTypes
    <3> QED BY <3>1, <3>2, <3>3, CallTypesKept
  <2>4. viewers' \in SUBSET [pid : Nat \ {0}, binding : Bindings \cup {NoCall.binding}]
    <3>1. [pid |-> launched', binding |-> call[c].binding] \in [pid : Nat \ {0}, binding : Bindings \cup {NoCall.binding}]
      BY <1>a, <2>1, <2>2
    <3> QED BY <1>3, <3>1 DEF Launch, Typed
  <2> QED BY <1>3, <2>2, <2>3, <2>4, ServersKept DEF Launch, Typed
<1>4. ASSUME NEW c \in Calls, Launched(c) PROVE ServerInv'
  <2> DEFINE s == call[c].on
  <2>1. call[c].at # "none"
    BY <1>4 DEF Launched
  <2>2. [pid |-> call[c].pid, url |-> Url(s)] \in Record
    BY <1>a, <2>1, UrlType DEF Record
  <2>3. records' \in [Servers -> Records] /\ records'[s] \in Records
    BY <1>4, <1>a, <2>1, <2>2, RecordsKept DEF Launched
  <2>4. CallsTyped'
    <3>m. s \in Servers /\ call[c].binding \in Bindings \cup {NoCall.binding} /\ call[c].pid \in Nat
      BY <1>a, <2>1
    <3>a. "saving" \in CallStates
      BY DEF CallStates
    <3> HIDE DEF s
    <3>1. Saving("saving", s, call[c].binding, call[c].pid, records'[s]) \in CallTypes
      BY <2>3, <3>m, <3>a, SavingType
    <3> USE DEF s
    <3> QED BY <1>4, <1>a, <2>1, <3>1, CallTypesKept DEF Launched, Saving
  <2> QED BY <1>4, <2>3, <2>4, ServersKept DEF Launched, Typed
<1>5. ASSUME NEW c \in Calls, LaunchFails(c) PROVE ServerInv'
  <2>1. CallsTyped'
    BY <1>5, CallTypesKept, NoRecordTypes DEF LaunchFails
  <2>2. failed' \in [save : BOOLEAN, viewers : SUBSET Nat]
    <3>1. failed \in [save : BOOLEAN, viewers : SUBSET Nat] /\ call[c].pid \in Nat
      BY <1>5, <1>a DEF LaunchFails, Typed
    <3> QED BY <1>5, <3>1 DEF LaunchFails
  <2> QED BY <1>5, <2>1, <2>2, ServersKept DEF LaunchFails, Typed
<1>8. ASSUME NEW c \in Calls, TerminateFails(c) PROVE ServerInv'
  <2>1. CallsTyped'
    BY <1>8, CallTypesKept, NoRecordTypes DEF TerminateFails
  <2> QED BY <1>8, <2>1, ServersKept DEF TerminateFails, Typed
<1>9. ASSUME NEW c \in Calls, SaveFails(c) PROVE ServerInv'
  <2>1. CallsTyped'
    BY <1>9, CallTypesKept, NoRecordTypes DEF SaveFails
  <2>2. file' \in Records
    BY <1>9, <1>a, NoRecordTypes DEF SaveFails, Typed
  <2>3. failed' \in [save : BOOLEAN, viewers : SUBSET Nat]
    BY <1>9 DEF SaveFails, Typed
  <2> QED BY <1>9, <2>1, <2>2, <2>3, ServersKept DEF SaveFails, Typed
<1>6. ASSUME NEW v \in viewers, ViewerEnds(v) PROVE ServerInv'
  BY <1>6, ServersKept DEF ViewerEnds, Typed, CallsTyped
<1>7. ASSUME NEW p \in Viewers, Recycle(p) PROVE ServerInv'
  BY <1>7, ServersKept DEF Recycle, Typed, CallsTyped
<1> QED BY <1>1, <1>2, <1>3, <1>4, <1>5, <1>6, <1>7, <1>8, <1>9 DEF Viewer

LEMMA ServerInvCtl ==
  ASSUME ServerInv, Ctl
  PROVE  ServerInv'
<1> USE DEF ServerInv
<1>1. CASE CtlKill
  <2>1. Found \in Servers
    BY <1>1, FoundIs DEF CtlKill
  <2> QED BY <1>1, <2>1, KillKeeps DEF CtlKill, Typed
<1>2. CASE CtlCleanup
  <2>1. CASE Found = 0
    <3>1. server' = server /\ info' = 0 /\ file' = NoRecords /\ excuses \subseteq excuses' /\ call' = [c \in Calls |-> call[c]]
      BY <1>2, <2>1 DEF CtlCleanup
    <3>2. \A s \in Servers : info = s => server[s] # "running"
      BY <2>1, FoundIs, ServersNotZero DEF Running
    <3>3. "servers" \notin excuses' => OneServer' /\ InfoNamesServer'
      BY <3>1, <3>2, ServersNotZero DEF OneServer, Running, InfoNamesServer
    <3>4. CallsTyped'
      BY <3>1 DEF Typed, CallsTyped
    <3> QED BY <1>2, <3>1, <3>3, <3>4, NoRecordTypes DEF CtlCleanup, Typed
  <2>2. CASE Found # 0
    <3>1. Found \in Servers
      BY <2>2, FoundIs
    <3>2. /\ info' = 0 /\ file' = NoRecords /\ excuses \subseteq excuses'
          /\ \/ server' = [server EXCEPT ![Found] = "killed"]
             \/ server[Found] = "running" /\ server' = [server EXCEPT ![Found] = "stopping"]
      BY <1>2, <2>2 DEF CtlCleanup
    <3>3. server' \in [Servers -> States] /\ \A t \in Servers : Running(t)' => Running(t)
      BY <3>1, <3>2 DEF Typed, States, Running
    <3>4. "servers" \notin excuses' => OneServer'
      BY <3>2, <3>3 DEF OneServer
    <3>5. "servers" \notin excuses' => \A t \in Servers : server'[t] # "running"
      <4>1. SUFFICES ASSUME "servers" \notin excuses', NEW t \in Servers, server'[t] = "running" PROVE FALSE
        OBVIOUS
      <4>2. t # Found /\ server[t] = "running"
        BY <3>1, <3>2, <4>1 DEF Typed
      <4>3. info = t
        BY <3>2, <4>1, <4>2 DEF InfoNamesServer
      <4>4. server[Found] # "running"
        BY <3>1, <3>2, <4>1, <4>2 DEF OneServer, Running
      <4> QED BY <2>2, <4>2, <4>3, <4>4, FoundIs
    <3>6. "servers" \notin excuses' => InfoNamesServer'
      BY <3>2, <3>5, ServersNotZero DEF InfoNamesServer
    <3>7. CallsTyped'
      BY <1>2, <2>2, NoRecordTypes DEF CtlCleanup, Typed, CallsTyped
    <3> QED BY <1>2, <3>2, <3>3, <3>4, <3>6, <3>7, NoRecordTypes DEF CtlCleanup, Typed
  <2> QED BY <2>1, <2>2
<1>3. CASE CtlCheck
  BY <1>3, FoundIs, ServersKept DEF CtlCheck, Typed, CallsTyped
<1>4. CASE CtlReuse
  BY <1>4, ServersKept DEF CtlReuse, Typed, CallsTyped
<1>5. CASE CtlReplace
  <2>1. CASE ctl.found = 0
    BY <1>5, <2>1, ServersKept DEF CtlReplace, Typed, CallsTyped
  <2>2. CASE ctl.found # 0
    <3>1. ctl.found \in Servers
      BY <2>2 DEF Typed
    <3>2. KillPid(ctl.found) /\ info' = info
      BY <1>5, <2>2 DEF CtlReplace
    <3> QED BY <1>5, <3>1, <3>2, KillKeeps DEF CtlReplace, Typed
  <2> QED BY <2>1, <2>2
<1>6. CASE CtlSpawn
  <2>1. PICK s \in Servers : Spawned(s)
    BY <1>6 DEF CtlSpawn
  <2>2. server' \in [Servers -> States] /\ ("servers" \notin excuses' => OneServer' /\ InfoNamesServer')
    BY <1>6, <2>1, SpawnKeeps DEF CtlSpawn
  <2> QED BY <1>6, <2>2 DEF CtlSpawn, Typed, CallsTyped
<1> QED BY <1>1, <1>2, <1>3, <1>4, <1>5, <1>6 DEF Ctl

LEMMA ServerInvStep == ServerInv /\ [Next]_vars => ServerInv'
<1> SUFFICES ASSUME ServerInv, [Next]_vars PROVE ServerInv'
  OBVIOUS
<1>1. CASE UNCHANGED vars
  BY <1>1 DEF vars, ServerInv, Typed, CallsTyped, OneServer, Running, InfoNamesServer
<1> QED BY <1>1, ServerInvServer, ServerInvViewer, ServerInvCtl DEF Next

(* server-info.json names the server that runs and none that ended in      *)
(* order, for any number of servers and whatever their calls and the       *)
(* user's ctl commands do (saveServerInfoState, removeServerInfoState), in *)
(* a life in which no two servers overlapped.  It says nothing of one in   *)
(* which ctl launch started a server while the old one was stopping.       *)
THEOREM InfoAlwaysNamesServer == Spec => []InfoNamesServer
<1>1. ServerInv => InfoNamesServer
  BY DEF ServerInv, InfoNamesServer
<1> QED BY <1>1, ServerInvInit, ServerInvStep, PTL DEF Spec
----------------------------------------------------------------------------
(* The records                                                             *)

Settled == Typed /\ OneServer /\ CallInv /\ FileInv /\ ViewerInv

(* Without a call on the server that runs there is none at all. *)
LEMMA NobodyBusy ==
  ASSUME Settled, NEW s \in Servers, Running(s), UnderWay(s) = {} \/ server[s] = "starting"
  PROVE  \A c \in Calls : ~Busy(c)
<1> SUFFICES ASSUME NEW c \in Calls, Busy(c) PROVE FALSE
  OBVIOUS
<1>1. call[c].on \in Servers /\ server[call[c].on] \in {"running", "stopping"}
  BY DEF Settled, CallInv
<1>2. call[c].on = s
  BY <1>1 DEF Settled, OneServer, Running
<1> QED BY <1>1, <1>2 DEF UnderWay, Busy

(* A server that comes to its end between calls leaves the records in the  *)
(* file.                                                                   *)
LEMMA EndLeavesRecords ==
  ASSUME Settled, NEW s \in Servers, Running(s), Gone(s), excuses' = {},
         NEW e \in {"killed", "exited"}, server' = [server EXCEPT ![s] = e],
         UNCHANGED <<records, viewers, failed>>
  PROVE  CallInv' /\ FileInv' /\ ViewerInv'
<1>1. UnderWay(s) = {} /\ ~failed.save
  BY DEF Gone
<1>2. \A c \in Calls : ~Busy(c)
  BY <1>1, NobodyBusy
<1>3. (\A c \in Calls : call'[c] = call[c]) /\ file' = file /\ Known' = Known
  BY <1>1 DEF Gone, Known
<1>4. \A t \in Servers : ~Active(t)'
  BY DEF Settled, Typed, OneServer, Running, Active
<1>5. CallInv'
  BY <1>2, <1>3 DEF CallInv, Busy
<1>6. FileInv'
  BY <1>4 DEF FileInv
<1>7. ASSUME NEW v \in Known PROVE v.binding \in Bindings /\ file[v.binding].pid = v.pid
  <2>1. CASE Active(s)
    <3>1. ~JustLaunched(v)
      BY <1>2 DEF JustLaunched, Busy
    <3>2. file = records[s] /\ records[s][v.binding].pid = v.pid
      BY <1>1, <1>2, <2>1, <3>1 DEF Settled, FileInv, ViewerInv, Same
    <3> QED BY <3>2 DEF Settled, ViewerInv
  <2>2. CASE ~Active(s)
    <3>1. \A t \in Servers : ~Active(t)
      BY <2>2 DEF Settled, OneServer, Running, Active
    <3> QED BY <3>1 DEF Settled, ViewerInv
  <2> QED BY <2>1, <2>2
<1>8. ViewerInv'
  BY <1>3, <1>4, <1>7 DEF ViewerInv
<1> QED BY <1>5, <1>6, <1>8

(* Steps that touch neither records nor calls, and at which no server      *)
(* begins to answer or ends.                                               *)
LEMMA RecordsUntouched ==
  ASSUME CallInv, FileInv, ViewerInv, Typed, UNCHANGED <<file, records, viewers, call, failed>>,
         \A t \in Servers : Active(t)' <=> Active(t),
         \A t \in Servers : server[t] \in {"running", "stopping"} => server'[t] \in {"running", "stopping"}
  PROVE  CallInv' /\ FileInv' /\ ViewerInv'
<1>1. CallInv'
  BY DEF CallInv, Busy, Same
<1>2. FileInv'
  BY DEF FileInv, Busy, Same
<1>3. ViewerInv'
  BY DEF ViewerInv, JustLaunched, Known
<1> QED BY <1>1, <1>2, <1>3

LEMMA KillLeavesRecords ==
  ASSUME Settled, NEW s \in Servers, KillPid(s), excuses' = {}, UNCHANGED <<records, viewers, failed>>
  PROVE  CallInv' /\ FileInv' /\ ViewerInv'
<1>1. CASE ~Running(s) /\ UNCHANGED <<server, file, call, excuses>>
  BY <1>1, RecordsUntouched DEF Settled, Active
<1>2. CASE Running(s) /\ Killed(s)
  BY <1>2, EndLeavesRecords DEF Killed
<1>3. CASE server[s] \in {"running", "stopping"} /\ server' = [server EXCEPT ![s] = "stopping"] /\ UNCHANGED <<file, call, excuses>>
  <2>1. \A t \in Servers : (Active(t)' <=> Active(t)) /\ (server[t] \in {"running", "stopping"} => server'[t] \in {"running", "stopping"})
    BY <1>3 DEF Settled, Typed, Active
  <2> QED BY <1>3, <2>1, RecordsUntouched DEF Settled
<1> QED BY <1>1, <1>2, <1>3 DEF KillPid

LEMMA SpawnLeavesRecords ==
  ASSUME Settled, NEW s \in Servers, Spawned(s), UNCHANGED <<file, records, viewers, call, failed>>
  PROVE  CallInv' /\ FileInv' /\ ViewerInv'
<1>1. \A t \in Servers : (Active(t)' <=> Active(t)) /\ (server[t] \in {"running", "stopping"} => server'[t] \in {"running", "stopping"})
  BY DEF Spawned, Settled, Typed, Active
<1> QED BY <1>1, RecordsUntouched DEF Settled

(* Settled is what RecordInv says while there is no excuse. *)
LEMMA IsSettled ==
  ASSUME ServerInv, RecordInv, excuses = {}
  PROVE  Settled
BY DEF ServerInv, RecordInv, Settled

LEMMA RecordInvServer ==
  ASSUME Settled, NEW s \in Servers, excuses' = {}, OneServer',
         Start(s) \/ Load(s) \/ Listen(s) \/ Stop(s) \/ Exit(s) \/ Crash(s)
  PROVE  CallInv' /\ FileInv' /\ ViewerInv'
<1>1. CASE Start(s)
  BY <1>1, SpawnLeavesRecords DEF Start
<1>2. CASE Load(s)
  <2>1. /\ server[s] = "starting" /\ server' = [server EXCEPT ![s] = "loaded"]
        /\ records' = [records EXCEPT ![s] = file] /\ UNCHANGED <<file, viewers, call, failed>>
    BY <1>2 DEF Load
  <2>2. \A c \in Calls : ~Busy(c)
    BY <2>1, NobodyBusy DEF Running
  <2>3. \A t \in Servers : ~Active(t)
    BY <2>1 DEF Settled, OneServer, Running, Active
  <2>4. \A t \in Servers : Active(t)' => t = s /\ records'[t] = file
    BY <2>1, <2>3 DEF Settled, Typed, Active
  <2>5. CallInv'
    BY <2>1, <2>2 DEF CallInv, Busy
  <2>6. FileInv'
    BY <2>1, <2>4 DEF FileInv, Same
  <2>7. ViewerInv'
    <3>1. Active(s)'
      BY <2>1 DEF Settled, Typed, Active
    <3> QED BY <2>1, <2>3, <2>4, <3>1 DEF Settled, ViewerInv, Known
  <2> QED BY <2>5, <2>6, <2>7
<1>3. CASE Listen(s)
  <2>1. ~\E t \in Servers \ {s} : server[t] = "running"
    BY <1>3 DEF Listen, Settled, OneServer, Running
  <2>2. \A t \in Servers : (Active(t)' <=> Active(t)) /\ (server[t] \in {"running", "stopping"} => server'[t] \in {"running", "stopping"})
    BY <1>3, <2>1 DEF Listen, Settled, Typed, Active
  <2> QED BY <1>3, <2>2, RecordsUntouched DEF Listen, Settled
<1>4. CASE Stop(s)
  <2>1. \A t \in Servers : (Active(t)' <=> Active(t)) /\ (server[t] \in {"running", "stopping"} => server'[t] \in {"running", "stopping"})
    BY <1>4 DEF Stop, Settled, Typed, Active
  <2> QED BY <1>4, <2>1, RecordsUntouched DEF Stop, Settled
<1>5. CASE Exit(s)
  BY <1>5, EndLeavesRecords DEF Exit, Running
<1>6. CASE Crash(s)
  BY <1>6, EndLeavesRecords DEF Crash, Killed
<1> QED BY <1>1, <1>2, <1>3, <1>4, <1>5, <1>6
(* The viewer has its record, or the call is about to write it. *)
Recorded(v, new, R) ==
  R[v.binding].pid = v.pid \/ (new.at = "launched" /\ new.pid = v.pid /\ new.binding = v.binding)

(* A step of a call: new is the call after it. *)
LEMMA LaunchStep ==
  ASSUME Settled, NEW c \in Calls, NEW s \in Servers, server[s] \in {"running", "stopping"},
         UNCHANGED server, \A d \in Calls : Busy(d) => d = c,
         NEW new, call' = [call EXCEPT ![c] = new],
         new.at # "none" => new.on = s /\ Knows(new, Same(s)', records'[s]),
         new.at = "none" => Same(s)',
         \A v \in Known' : v.binding \in Bindings,
         \A v \in Known' : Recorded(v, new, records'[s])
  PROVE  CallInv' /\ FileInv' /\ ViewerInv'
<1>1. call'[c] = new /\ \A d \in Calls : d # c => ~Busy(d)'
  BY DEF Settled, Typed, CallsTyped, Busy
<1>2. \A t \in Servers : Active(t)' <=> t = s
  BY DEF Settled, OneServer, Running, Active
<1>3. CallInv'
  BY <1>1 DEF CallInv, Busy
<1>4. FileInv'
  BY <1>1, <1>2 DEF FileInv, Busy
<1>5. ViewerInv'
  BY <1>1, <1>2 DEF ViewerInv, JustLaunched, Recorded
<1> QED BY <1>3, <1>4, <1>5

(* One that leaves every viewer with its record. *)
LEMMA CallStep ==
  ASSUME Settled, NEW c \in Calls, NEW s \in Servers, server[s] \in {"running", "stopping"},
         UNCHANGED server, \A d \in Calls : Busy(d) => d = c,
         NEW new, call' = [call EXCEPT ![c] = new],
         new.at # "none" => new.on = s /\ Knows(new, Same(s)', records'[s]),
         new.at = "none" => Same(s)',
         \A v \in Known' : v.binding \in Bindings /\ records'[s][v.binding].pid = v.pid
  PROVE  CallInv' /\ FileInv' /\ ViewerInv'
<1>1. (\A v \in Known' : v.binding \in Bindings) /\ \A v \in Known' : Recorded(v, new, records'[s])
  BY DEF Recorded
<1> QED BY <1>1, LaunchStep

(* A call that begins is the only one, and finds every viewer on record.   *)
LEMMA Beginning ==
  ASSUME Settled, NEW s \in Servers, NEW c \in Calls, Entered(s, c), excuses' = {}
  PROVE  /\ \A d \in Calls : ~Busy(d)
         /\ Same(s)
         /\ \A v \in Known : records[s][v.binding].pid = v.pid
<1>1. Running(s) /\ Active(s) /\ UnderWay(s) = {}
  BY DEF Entered, Running, Active
<1>2. \A d \in Calls : ~Busy(d)
  BY <1>1, NobodyBusy
<1>3. Same(s)
  BY <1>1, <1>2 DEF Settled, FileInv
<1>4. \A v \in Known : ~JustLaunched(v)
  BY <1>2 DEF JustLaunched, Busy
<1> QED BY <1>1, <1>2, <1>3, <1>4 DEF Settled, ViewerInv

(* One that is under way knows that, too, up to the viewer it launched. *)
LEMMA Continuing ==
  ASSUME Settled, NEW c \in Calls, Busy(c), NEW s, call[c].on = s
  PROVE  /\ s \in Servers /\ server[s] \in {"running", "stopping"}
         /\ \A d \in Calls : Busy(d) => d = c
         /\ Knows(call[c], Same(s), records[s])
         /\ \A v \in Known :
              \/ records[s][v.binding].pid = v.pid
              \/ call[c].at = "launched" /\ call[c].pid = v.pid /\ call[c].binding = v.binding
<1>1. /\ s \in Servers /\ server[s] \in {"running", "stopping"}
      /\ \A d \in Calls : Busy(d) => d = c
      /\ Knows(call[c], Same(s), records[s])
  BY DEF Settled, CallInv
<1>2. \A v \in Known : JustLaunched(v) => call[c].at = "launched" /\ call[c].pid = v.pid /\ call[c].binding = v.binding
  BY <1>1 DEF JustLaunched, Busy
<1>3. Active(s)
  BY <1>1 DEF Active
<1> QED BY <1>1, <1>2, <1>3 DEF Settled, ViewerInv

LEMMA RecordInvCalled ==
  ASSUME Settled, NEW s \in Servers, NEW c \in Calls, excuses' = {}
  PROVE  /\ List(s, c) => CallInv' /\ FileInv' /\ ViewerInv'
         /\ \A b \in Bindings : Ensure(s, c, b) => CallInv' /\ FileInv' /\ ViewerInv'
<1>0. ASSUME Entered(s, c)
      PROVE  /\ server[s] \in {"running", "stopping"} /\ \A d \in Calls : Busy(d) => d = c
             /\ Same(s) /\ \A v \in Known : records[s][v.binding].pid = v.pid
  BY <1>0, Beginning DEF Entered
<1>t. /\ records \in [Servers -> Records] /\ records[s] \in Records
      /\ \A v \in Known : v.pid \in Nat \ {0} /\ v.binding \in Bindings
  BY DEF Settled, Typed, ViewerInv, Known
<1>1. ASSUME List(s, c) PROVE CallInv' /\ FileInv' /\ ViewerInv'
  <2> DEFINE new == Saving("saving", s, call[c].binding, 0, records'[s])
  <2>1. Entered(s, c) /\ UNCHANGED <<server, file, viewers, failed>> /\ Known' = Known
    BY <1>1 DEF List, Known
  <2>2. records'[s] = Pruned(s)
    BY <1>1, <1>t DEF List
  <2>3. \A v \in Known : Pruned(s)[v.binding].pid = v.pid
    BY <1>0, <1>t, <2>1 DEF Pruned, Alive, Known
  <2>4. new.at = "saving" /\ new.on = s /\ Knows(new, Same(s)', records'[s])
    BY DEF Saving, Knows
  <2>5. call' = [call EXCEPT ![c] = new]
    BY <1>1 DEF List
  <2>6. \A v \in Known' : v.binding \in Bindings /\ records'[s][v.binding].pid = v.pid
    BY <1>t, <2>1, <2>2, <2>3
  <2> HIDE DEF new
  <2> QED BY <1>0, <2>1, <2>4, <2>5, <2>6, CallStep
<1>2. ASSUME NEW b \in Bindings, Ensure(s, c, b) PROVE CallInv' /\ FileInv' /\ ViewerInv'
  <2> DEFINE old == records[s][b]
  <2>1. Entered(s, c) /\ UNCHANGED <<server, file, viewers, failed>> /\ Known' = Known
    BY <1>2 DEF Ensure, Known
  <2>2. old \in Record
    BY <1>t DEF Records
  <2>3. CASE old = NoRecord /\ call' = [call EXCEPT ![c] = Saving("launching", s, b, 0, NoRecords)] /\ UNCHANGED records
    <3> DEFINE new == Saving("launching", s, b, 0, NoRecords)
    <3>1. new.at = "launching" /\ new.on = s /\ Knows(new, Same(s)', records'[s])
      BY <1>0, <2>1, <2>3 DEF Saving, Knows, Same
    <3>2. call' = [call EXCEPT ![c] = new]
      BY <2>3
    <3>3. \A v \in Known' : v.binding \in Bindings /\ records'[s][v.binding].pid = v.pid
      BY <1>0, <1>t, <2>1, <2>3
    <3> HIDE DEF new
    <3> QED BY <1>0, <2>1, <3>1, <3>2, <3>3, CallStep
  <2>4. CASE /\ ~Alive(old.pid) /\ records' = [records EXCEPT ![s][b] = NoRecord]
             /\ call' = [call EXCEPT ![c] = Saving("pruning", s, b, 0, records'[s])]
    <3> DEFINE new == Saving("pruning", s, b, 0, records'[s])
    <3>1. records'[s] = [records[s] EXCEPT ![b] = NoRecord]
      BY <1>t, <2>4
    <3>2. new.at = "pruning" /\ new.on = s /\ Knows(new, Same(s)', records'[s])
      BY <1>t, <3>1 DEF Saving, Knows, Records
    <3>3. \A v \in Known : v.binding # b
      BY <1>0, <2>1, <2>4 DEF Alive, Known
    <3>4. \A v \in Known : records'[s][v.binding].pid = v.pid
      BY <1>0, <2>1, <3>1, <3>3
    <3>5. call' = [call EXCEPT ![c] = new]
      BY <2>4
    <3>6. \A v \in Known' : v.binding \in Bindings /\ records'[s][v.binding].pid = v.pid
      BY <1>t, <2>1, <3>4
    <3> HIDE DEF new
    <3> QED BY <1>0, <2>1, <3>2, <3>5, <3>6, CallStep
  <2>5. CASE call' = [call EXCEPT ![c] = Saving("saving", s, b, old.pid, records[s])] /\ UNCHANGED records
    <3> DEFINE new == Saving("saving", s, b, old.pid, records[s])
    <3>1. new.at = "saving" /\ new.on = s /\ Knows(new, Same(s)', records'[s])
      BY <2>5 DEF Saving, Knows
    <3>2. call' = [call EXCEPT ![c] = new]
      BY <2>5
    <3>3. \A v \in Known' : v.binding \in Bindings /\ records'[s][v.binding].pid = v.pid
      BY <1>0, <1>t, <2>1, <2>5
    <3> HIDE DEF new
    <3> QED BY <1>0, <2>1, <3>1, <3>2, <3>3, CallStep
  <2>6. CASE call' = [call EXCEPT ![c] = Saving("ending", s, b, old.pid, NoRecords)] /\ UNCHANGED records
    <3> DEFINE new == Saving("ending", s, b, old.pid, NoRecords)
    <3>1. new.at = "ending" /\ new.on = s /\ Knows(new, Same(s)', records'[s])
      BY <1>0, <2>1, <2>6 DEF Saving, Knows, Same
    <3>2. call' = [call EXCEPT ![c] = new]
      BY <2>6
    <3>3. \A v \in Known' : v.binding \in Bindings /\ records'[s][v.binding].pid = v.pid
      BY <1>0, <1>t, <2>1, <2>6
    <3> HIDE DEF new
    <3> QED BY <1>0, <2>1, <3>1, <3>2, <3>3, CallStep
  <2> QED BY <1>2, <2>3, <2>4, <2>5, <2>6 DEF Ensure
<1> QED BY <1>1, <1>2

(* A call that fails, with every known viewer on the server's record. *)
LEMMA CallFails ==
  ASSUME Settled, NEW c \in Calls, Busy(c), NEW s, call[c].on = s, UNCHANGED <<server, records>>,
         call' = [call EXCEPT ![c] = NoCall], Same(s)',
         \A v \in Known' : v.binding \in Bindings /\ records[s][v.binding].pid = v.pid
  PROVE  CallInv' /\ FileInv' /\ ViewerInv'
<1>1. s \in Servers /\ server[s] \in {"running", "stopping"} /\ \A d \in Calls : Busy(d) => d = c
  BY Continuing
<1>2. (\A d \in Calls : ~Busy(d)') /\ \A t \in Servers : Active(t)' <=> t = s
  BY <1>1, NoRecordTypes DEF Settled, Typed, CallsTyped, Busy, OneServer, Running, Active
<1>3. CallInv' /\ FileInv'
  BY <1>2 DEF CallInv, FileInv
<1>4. ViewerInv'
  BY <1>1, <1>2 DEF ViewerInv
<1> QED BY <1>3, <1>4

LEMMA RecordInvViewer ==
  ASSUME Settled, Viewer, excuses' = {}
  PROVE  CallInv' /\ FileInv' /\ ViewerInv'
<1>t. /\ records \in [Servers -> Records] /\ server \in [Servers -> States] /\ launched \in Nat
      /\ \A v \in Known : v.pid \in Nat \ {0} /\ v.binding \in Bindings
      /\ \A c \in Calls : call[c] \in CallTypes
  BY DEF Settled, Typed, CallsTyped, ViewerInv, Known
<1>1. ASSUME NEW c \in Calls, NEW s, call[c].on = s, Terminate(c) PROVE CallInv' /\ FileInv' /\ ViewerInv'
  <2> DEFINE b == call[c].binding  new == Saving("pruning", s, b, 0, records'[s])
  <2>1. call[c].at = "ending" /\ Busy(c) /\ UNCHANGED <<server, file>>
    BY <1>1 DEF Terminate, Busy
  <2>2. s \in Servers /\ server[s] \in {"running", "stopping"} /\ \A d \in Calls : Busy(d) => d = c
    BY <1>1, <2>1, Continuing
  <2>3. b \in Bindings /\ call[c].pid = records[s][b].pid
    BY <1>1, <2>1, Continuing DEF Knows
  <2>4. \A v \in Known : records[s][v.binding].pid = v.pid
    BY <1>1, <2>1, Continuing
  <2>5. records'[s] = [records[s] EXCEPT ![b] = NoRecord] /\ Known' = {v \in Known : v.pid # call[c].pid}
    BY <1>1, <1>t, <2>2 DEF Terminate, Known
  <2>6. \A v \in Known' : v.binding \in Bindings /\ records'[s][v.binding].pid = v.pid
    BY <1>t, <2>3, <2>4, <2>5
  <2>7. new.at = "pruning" /\ new.on = s /\ Knows(new, Same(s)', records'[s])
    BY <1>t, <2>2, <2>3, <2>5 DEF Saving, Knows, Records
  <2>8. call' = [call EXCEPT ![c] = new]
    BY <1>1 DEF Terminate
  <2> HIDE DEF new
  <2> QED BY <1>1, <2>1, <2>2, <2>6, <2>7, <2>8, CallStep
<1>2. ASSUME NEW c \in Calls, NEW s, call[c].on = s, Saved(c) PROVE CallInv' /\ FileInv' /\ ViewerInv'
  <2> DEFINE b == call[c].binding
             new == IF call[c].at = "saving" THEN NoCall ELSE Saving("launching", s, b, 0, NoRecords)
  <2>1. call[c].at \in {"pruning", "saving"} /\ Busy(c) /\ UNCHANGED <<server, records>> /\ Known' = Known
    BY <1>2 DEF Saved, Busy, Known, Settled, Typed
  <2>2. s \in Servers /\ server[s] \in {"running", "stopping"} /\ \A d \in Calls : Busy(d) => d = c
    BY <1>2, <2>1, Continuing
  <2>3. Same(s)'
    BY <1>2, <2>1, Continuing DEF Saved, Knows, Same
  <2>4. call[c].at = "pruning" => b \in Bindings /\ records[s][b] = NoRecord
    BY <1>2, <2>1, Continuing DEF Knows
  <2>5. \A v \in Known' : v.binding \in Bindings /\ records'[s][v.binding].pid = v.pid
    BY <1>2, <1>t, <2>1, Continuing
  <2>6. new.at # "none" => new.on = s /\ Knows(new, Same(s)', records'[s])
    BY <2>1, <2>3, <2>4, NoRecordTypes DEF Saving, Knows
  <2>7. call' = [call EXCEPT ![c] = new]
    BY <1>2 DEF Saved
  <2> HIDE DEF new
  <2> QED BY <1>2, <2>1, <2>2, <2>3, <2>5, <2>6, <2>7, CallStep
<1>3. ASSUME NEW c \in Calls, NEW s, call[c].on = s, Launch(c) PROVE CallInv' /\ FileInv' /\ ViewerInv'
  <2> DEFINE b == call[c].binding
             new == [call[c] EXCEPT !.at = "launched", !.pid = launched']
  <2>1. call[c].at = "launching" /\ Busy(c) /\ UNCHANGED <<server, records, file, failed>>
    BY <1>3 DEF Launch, Busy
  <2>2. s \in Servers /\ server[s] \in {"running", "stopping"} /\ \A d \in Calls : Busy(d) => d = c
    BY <1>3, <2>1, Continuing
  <2>3. b \in Bindings /\ Same(s) /\ records[s][b] = NoRecord
    BY <1>3, <2>1, Continuing DEF Knows
  <2>4. new.at = "launched" /\ new.on = s /\ new.binding = b /\ new.pid = launched'
    BY <1>3, <1>t DEF CallTypes
  <2>5. Knows(new, Same(s)', records'[s])
    BY <2>1, <2>3, <2>4 DEF Knows, Same
  <2>k. Known' \subseteq Known \cup {[pid |-> launched', binding |-> b]}
    BY <1>3, <2>1 DEF Launch, Known
  <2>6. \A v \in Known' : v.binding \in Bindings
    BY <1>t, <2>3, <2>k
  <2>7. \A v \in Known : records'[s][v.binding].pid = v.pid
    BY <1>3, <2>1, Continuing
  <2>8. \A v \in Known' : Recorded(v, new, records'[s])
    BY <2>4, <2>7, <2>k DEF Recorded
  <2>9. call' = [call EXCEPT ![c] = new]
    BY <1>3, <1>t DEF Launch, Settled, Typed, CallsTyped, CallTypes
  <2>10. new.at # "none" => new.on = s /\ Knows(new, Same(s)', records'[s])
    BY <2>4, <2>5
  <2>11. new.at = "none" => Same(s)'
    BY <2>4
  <2>12. s \in Servers /\ server[s] \in {"running", "stopping"} /\ UNCHANGED server
    BY <2>1, <2>2
  <2>13. \A d \in Calls : Busy(d) => d = c
    BY <2>2
  <2> HIDE DEF new, b
  <2> QED BY <1>3, <2>6, <2>8, <2>9, <2>10, <2>11, <2>12, <2>13, LaunchStep
<1>4. ASSUME NEW c \in Calls, NEW s, call[c].on = s, Launched(c) PROVE CallInv' /\ FileInv' /\ ViewerInv'
  <2> DEFINE b == call[c].binding
             new == Saving("saving", s, b, call[c].pid, records'[s])
  <2>1. call[c].at = "launched" /\ Busy(c) /\ UNCHANGED <<server, file>> /\ Known' = Known
    BY <1>4 DEF Launched, Busy, Known
  <2>2. s \in Servers /\ server[s] \in {"running", "stopping"} /\ \A d \in Calls : Busy(d) => d = c
    BY <1>4, <2>1, Continuing
  <2>3. b \in Bindings /\ records[s][b] = NoRecord
    BY <1>4, <2>1, Continuing DEF Knows
  <2>4. records'[s] = [records[s] EXCEPT ![b] = [pid |-> call[c].pid, url |-> Url(s)]]
    BY <1>4, <1>t, <2>2 DEF Launched
  <2>5. ASSUME NEW v \in Known PROVE v.binding \in Bindings /\ records'[s][v.binding].pid = v.pid
    <3>1. records[s][v.binding].pid = v.pid \/ (call[c].pid = v.pid /\ b = v.binding)
      BY <1>4, <2>1, Continuing
    <3>2. records[s] \in [Bindings -> Record] /\ v.pid # 0 /\ v.binding \in Bindings
      BY <1>t, <2>2 DEF Records
    <3>3. CASE v.binding = b
      <4>1. call[c].pid = v.pid
        BY <2>3, <3>1, <3>2, <3>3, NoRecordTypes
      <4> QED BY <2>4, <3>2, <3>3, <4>1
    <3>4. CASE v.binding # b
      BY <2>4, <3>1, <3>2, <3>4
    <3> QED BY <3>3, <3>4
  <2>6. new.at = "saving" /\ new.on = s /\ Knows(new, Same(s)', records'[s])
    BY DEF Saving, Knows
  <2>7. call' = [call EXCEPT ![c] = new]
    BY <1>4 DEF Launched
  <2> HIDE DEF new
  <2> QED BY <1>4, <2>1, <2>2, <2>5, <2>6, <2>7, CallStep
<1>5. ASSUME NEW c \in Calls, NEW s, call[c].on = s, LaunchFails(c) PROVE CallInv' /\ FileInv' /\ ViewerInv'
  <2>1. call[c].at \in {"launching", "launched"} /\ Busy(c) /\ UNCHANGED <<server, records, viewers, file>>
    BY <1>5 DEF LaunchFails, Busy
  <2>2. failed'.save = failed.save /\ failed.viewers \subseteq failed'.viewers
    BY <1>5 DEF LaunchFails, Settled, Typed
  <2>3. call[c].at = "launched" => call[c].pid \in failed'.viewers
    BY <1>5 DEF LaunchFails, Settled, Typed
  <2>4. Known' \subseteq Known
    BY <2>1, <2>2 DEF Known
  <2>5. \A v \in Known' : v.binding \in Bindings /\ records[s][v.binding].pid = v.pid
    <3>1. \A v \in Known' : call[c].at = "launched" => v.pid # call[c].pid
      BY <2>3 DEF Known
    <3> QED BY <1>5, <1>t, <2>1, <2>4, <3>1, Continuing
  <2>6. Same(s)'
    BY <1>5, <2>1, <2>2, Continuing DEF Knows, Same
  <2> QED BY <1>5, <2>1, <2>5, <2>6, CallFails DEF LaunchFails
<1>8. ASSUME NEW c \in Calls, NEW s, call[c].on = s, TerminateFails(c) PROVE CallInv' /\ FileInv' /\ ViewerInv'
  <2>1. call[c].at = "ending" /\ Busy(c) /\ UNCHANGED <<server, records, file, failed>> /\ Known' = Known
    BY <1>8 DEF TerminateFails, Busy, Known
  <2>2. Same(s)'
    BY <1>8, <2>1, Continuing DEF Knows, Same
  <2>3. \A v \in Known' : v.binding \in Bindings /\ records[s][v.binding].pid = v.pid
    BY <1>8, <1>t, <2>1, Continuing
  <2> QED BY <1>8, <2>1, <2>2, <2>3, CallFails DEF TerminateFails
<1>9. ASSUME NEW c \in Calls, NEW s, call[c].on = s, SaveFails(c) PROVE CallInv' /\ FileInv' /\ ViewerInv'
  <2>1. call[c].at \in {"pruning", "saving"} /\ Busy(c) /\ UNCHANGED <<server, records>>
    BY <1>9 DEF SaveFails, Busy
  <2>2. failed'.save /\ Known' = Known
    BY <1>9 DEF SaveFails, Known, Settled, Typed
  <2>3. \A v \in Known' : v.binding \in Bindings /\ records[s][v.binding].pid = v.pid
    BY <1>9, <1>t, <2>1, <2>2, Continuing
  <2>4. Same(s)'
    BY <2>2 DEF Same
  <2> QED BY <1>9, <2>1, <2>3, <2>4, CallFails DEF SaveFails
<1>6. ASSUME NEW v \in viewers, ViewerEnds(v) PROVE CallInv' /\ FileInv' /\ ViewerInv'
  <2>1. Known' \subseteq Known /\ UNCHANGED <<server, file, records, call, failed>>
    BY <1>6 DEF ViewerEnds, Known
  <2>2. CallInv' /\ FileInv'
    BY <2>1 DEF Settled, CallInv, FileInv, Busy, Active, Same
  <2>3. ViewerInv'
    BY <2>1 DEF Settled, ViewerInv, JustLaunched, Active
  <2> QED BY <2>2, <2>3
<1>7. ASSUME NEW p \in Viewers, Recycle(p) PROVE CallInv' /\ FileInv' /\ ViewerInv'
  BY <1>7, RecordsUntouched DEF Recycle, Settled, Active
<1> QED BY <1>1, <1>2, <1>3, <1>4, <1>5, <1>6, <1>7, <1>8, <1>9 DEF Viewer

LEMMA RecordInvCtl ==
  ASSUME Settled, Ctl, excuses' = {}
  PROVE  CallInv' /\ FileInv' /\ ViewerInv'
<1>1. CASE CtlKill
  <2>1. Found \in Servers
    BY <1>1, FoundIs DEF CtlKill, Settled
  <2> QED BY <1>1, <2>1, KillLeavesRecords DEF CtlKill
<1>2. CASE CtlCleanup
  BY <1>2 DEF CtlCleanup
<1>3. CASE CtlCheck \/ CtlReuse
  BY <1>3, RecordsUntouched DEF CtlCheck, CtlReuse, Settled, Active
<1>4. CASE CtlReplace
  <2>1. CASE ctl.found = 0
    BY <1>4, <2>1, RecordsUntouched DEF CtlReplace, Settled, Active
  <2>2. CASE ctl.found # 0
    <3>1. ctl.found \in Servers
      BY <2>2 DEF Settled, Typed
    <3> QED BY <1>4, <2>2, <3>1, KillLeavesRecords DEF CtlReplace
  <2> QED BY <2>1, <2>2
<1>5. CASE CtlSpawn
  BY <1>5, SpawnLeavesRecords DEF CtlSpawn
<1> QED BY <1>1, <1>2, <1>3, <1>4, <1>5 DEF Ctl

(* An excuse is not taken back. *)
LEMMA ExcusesStay == Next => excuses \subseteq excuses'
<1>1. ASSUME NEW s \in Servers, Start(s) \/ Load(s) \/ Listen(s) \/ Stop(s) \/ Exit(s) \/ Crash(s)
      PROVE  excuses \subseteq excuses'
  <2>1. Gone(s) => excuses \subseteq excuses'
    BY DEF Gone
  <2>2. CASE Start(s)
    BY <2>2 DEF Start, Spawned
  <2>3. CASE Load(s)
    BY <2>3 DEF Load
  <2>4. CASE Listen(s)
    BY <2>4 DEF Listen
  <2>5. CASE Stop(s)
    BY <2>5 DEF Stop
  <2>6. CASE Exit(s)
    BY <2>1, <2>6 DEF Exit
  <2>7. CASE Crash(s)
    BY <2>1, <2>7 DEF Crash, Killed
  <2> QED BY <1>1, <2>2, <2>3, <2>4, <2>5, <2>6, <2>7
<1>2. ASSUME NEW s \in Servers, NEW c \in Calls, List(s, c) \/ \E b \in Bindings : Ensure(s, c, b)
      PROVE  excuses \subseteq excuses'
  BY <1>2 DEF List, Ensure, Entered
<1>3. ASSUME Viewer PROVE excuses \subseteq excuses'
  BY <1>3 DEF Viewer, Terminate, TerminateFails, Saved, SaveFails, Launch, Launched, LaunchFails, ViewerEnds, Recycle
<1>4. ASSUME Ctl PROVE excuses \subseteq excuses'
  BY <1>4 DEF Ctl, CtlKill, CtlCleanup, CtlCheck, CtlReuse, CtlReplace, CtlSpawn, Spawned, Killed, KillPid, Gone
<1> QED BY <1>1, <1>2, <1>3, <1>4 DEF Next, Server

LEMMA RecordInvStep == ServerInv /\ RecordInv /\ [Next]_vars => RecordInv'
<1> SUFFICES ASSUME ServerInv, RecordInv, [Next]_vars, excuses' = {}
             PROVE  CallInv' /\ FileInv' /\ ViewerInv'
  BY DEF RecordInv
<1>1. CASE UNCHANGED vars
  <2>1. excuses = {} /\ UNCHANGED <<server, file, records, viewers, call, failed>>
    BY <1>1 DEF vars
  <2> QED BY <2>1, IsSettled, RecordsUntouched DEF Settled, Active
<1>2. CASE Next
  <2>1. Settled
    BY <1>2, ExcusesStay, IsSettled
  <2>2. OneServer'
    BY ServerInvStep DEF ServerInv
  <2>3. ASSUME NEW s \in Servers, Server(s) PROVE CallInv' /\ FileInv' /\ ViewerInv'
    BY <2>1, <2>2, <2>3, RecordInvServer, RecordInvCalled DEF Server
  <2> QED BY <1>2, <2>1, <2>3, RecordInvViewer, RecordInvCtl DEF Next
<1> QED BY <1>1, <1>2

LEMMA RecordInvInit == Init => RecordInv
<1> SUFFICES ASSUME Init PROVE CallInv /\ FileInv /\ ViewerInv
  BY DEF RecordInv
<1>1. (\A c \in Calls : ~Busy(c)) /\ (\A s \in Servers : ~Active(s)) /\ viewers = {}
  BY NoRecordTypes DEF Init, Busy, Active
<1> QED BY <1>1 DEF CallInv, FileInv, ViewerInv, Known

LEMMA RecordsTell ==
  ASSUME ServerInv, RecordInv
  PROVE  ViewersRecorded
<1> SUFFICES ASSUME excuses = {}, \A c \in Calls : call[c].at = "none", NEW v \in Known
             PROVE  InForce[v.binding].pid = v.pid
  BY DEF ViewersRecorded, Known
<1>1. Settled /\ ~JustLaunched(v)
  BY IsSettled DEF JustLaunched
<1>2. CASE \E s \in Servers : Active(s)
  <2>1. InForce = records[CHOOSE s \in Servers : Active(s)]
    BY <1>2 DEF InForce, Active
  <2>2. (CHOOSE s \in Servers : Active(s)) \in Servers /\ Active(CHOOSE s \in Servers : Active(s))
    BY <1>2
  <2> QED BY <1>1, <2>1, <2>2 DEF Settled, ViewerInv
<1>3. CASE ~\E s \in Servers : Active(s)
  BY <1>1, <1>3 DEF InForce, Active, Settled, ViewerInv
<1> QED BY <1>2, <1>3

(* A viewer that runs is on record whenever no call is under way, through  *)
(* launches, ends, restarts and crashes of the server between calls, for   *)
(* any number of servers, viewers, bindings and calls                      *)
(* (ensureViewerForSession, refreshViewerProcessState,                     *)
(* saveViewerProcessState, loadViewerProcessState), and through launches,  *)
(* saves and ends of viewers that fail: unless calls or servers            *)
(* overlapped, a server ended in the middle of a call or after its last    *)
(* save had failed, or the files were removed.  It does not speak of a     *)
(* viewer whose launch failed once it ran.                                 *)
THEOREM ViewersAlwaysRecorded == Spec => []ViewersRecorded
<1>1. ServerInv /\ RecordInv => ViewersRecorded
  BY RecordsTell
<1> QED BY <1>1, ServerInvInit, ServerInvStep, RecordInvInit, RecordInvStep, PTL DEF Spec

----------------------------------------------------------------------------
(* ViewerClient                                                            *)

Clean == reasons \ {"closed", "left"} = {}

NChars == Len(Ends)
Bytes == 0 .. ByteEnd[NChars]
Chars(s, m, n) == [i \in 1 .. n - m |-> <<s, m + i>>]
TailAt(s, b) == IF b = ByteEnd[Whole[b]] THEN NoByte ELSE BytesOf[s][b]

ClientTyped ==
  /\ limit \in Limits /\ kind \in Sockets \cup {"page", "poller"}
  /\ bound \in Sessions
  /\ arrived \in [Sessions -> Bytes]
  /\ at \in {"waiting", "asking", "open", "stopped"}
  /\ attached \in {0} \cup Sessions

(* The chunks q are the bytes of s after the b-th up to the a-th, without  *)
(* a gap; e tells where each of them ends.                                 *)
Parts(s) == {SubSeq(BytesOf[s], r[1] + 1, r[2]) : r \in Bytes \X Bytes}

Chunks(s, b, a, q) ==
  /\ q \in Seq(Parts(s))
  /\ \E e \in [0 .. Len(q) -> 0 .. a] :
       /\ e[0] = b /\ e[Len(q)] = a
       /\ \A j \in 1 .. Len(q) : e[j - 1] <= e[j] /\ q[j] = SubSeq(BytesOf[s], e[j - 1] + 1, e[j])

Decoding(s, c, b) ==
  /\ Whole[b] = c
  /\ tail = TailAt(s, b) \/ b = ByteEnd[c]
  /\ kind = "browser" => decoder = TailAt(s, b)
  /\ Chunks(s, b, arrived[s], down)

SocketShows ==
  /\ at # "open" => down = <<>>
  /\ at = "asking" =>
       /\ decoder = NoByte
       /\ offset = IF kind = "browser" /\ known > 0 THEN known ELSE NoOffset
  /\ at = "open" => attached # 0
  /\ \E c \in 0 .. NChars :
       /\ screen = Chars(attached, 0, c)
       /\ kind = "browser" => known = c
       /\ IF attached = 0 THEN c = 0 ELSE c <= Complete(attached)
       /\ at = "open" => \E b \in Bytes : Decoding(attached, c, b)

PollShows ==
  /\ at # "open" /\ down = <<>>
  /\ at = "asking" => attached # 0
  /\ IF offset = NoOffset THEN screen = <<>>
     ELSE /\ attached # 0 /\ offset \in 0 .. Complete(attached)
          /\ \E f \in 0 .. offset : screen = Chars(attached, f, offset)

Shows == (kind \in Sockets => SocketShows) /\ (kind \notin Sockets => PollShows)

ClientInv == ClientTyped /\ (Clean => Shows)

KeysInv ==
  /\ typed \in Nat /\ up \in Seq(Nat) /\ got \in Seq(Nat)
  /\ \A i \in 1 .. Len(up) : up[i] <= typed
  /\ \A i \in 1 .. Len(got) : got[i] <= typed
  /\ \A i, j \in 1 .. Len(up) : i < j => up[i] < up[j]
  /\ \A i, j \in 1 .. Len(got) : i < j => got[i] < got[j]
  /\ \A i \in 1 .. Len(got), j \in 1 .. Len(up) : got[i] < up[j]

LEMMA LeastNumber ==
  ASSUME NEW S \in SUBSET Nat, S # {}
  PROVE  \E k \in S : \A j \in S : k <= j
<1>1. PICK k \in S : \A j \in S : <<j, k>> \notin OpToRel(<, Nat)
  BY NatLessThanWellFounded, WFMin
<1>2. \A j \in S : j \in Nat /\ k \in Nat /\ ~(j < k)
  BY <1>1 DEF OpToRel
<1> QED BY <1>2

LEMMA EndsAreNumbers ==
  /\ NChars \in Nat /\ NChars > 0
  /\ ByteEnd \in [0 .. NChars -> Nat]
  /\ ByteEnd[0] = 0
  /\ \A m, n \in 0 .. NChars : m < n => ByteEnd[m] < ByteEnd[n]
  /\ Bytes \subseteq Nat
  /\ \A n \in 0 .. NChars : ByteEnd[n] \in Bytes
<1>1. /\ Ends \in Seq(Nat) /\ NChars \in Nat /\ NChars > 0
      /\ \A n \in 1 .. NChars : Ends[n] \in Nat /\ Ends[n] > 0
  <2>1. Ends \in Seq(Nat \ {0}) /\ Ends # <<>>
    BY ViewerClientAssumption
  <2>2. NChars \in Nat /\ NChars > 0
    BY <2>1, EmptySeq, LenProperties DEF NChars
  <2>3. \A n \in 1 .. NChars : Ends[n] \in Nat \ {0}
    BY <2>1, ElementOfSeq DEF NChars
  <2> QED BY <2>1, <2>2, <2>3
<1>2. \A n \in 0 .. NChars : ByteEnd[n] = IF n = 0 THEN 0 ELSE Ends[n]
  BY DEF ByteEnd, NChars
<1>3. ByteEnd \in [0 .. NChars -> Nat]
  BY <1>1 DEF ByteEnd, NChars
<1>4. \A m, n \in 1 .. NChars : m < n => Ends[m] < Ends[n]
  BY ViewerClientAssumption DEF NChars
<1>5. \A m, n \in 0 .. NChars : m < n => ByteEnd[m] < ByteEnd[n]
  <2> SUFFICES ASSUME NEW m \in 0 .. NChars, NEW n \in 0 .. NChars, m < n
               PROVE  ByteEnd[m] < ByteEnd[n]
    OBVIOUS
  <2>1. n \in 1 .. NChars /\ ByteEnd[n] = Ends[n]
    BY <1>1, <1>2
  <2>2. CASE m = 0
    BY <1>1, <1>2, <2>1, <2>2
  <2>3. CASE m # 0
    <3>1. m \in 1 .. NChars /\ ByteEnd[m] = Ends[m]
      BY <1>1, <1>2, <2>3
    <3> QED BY <1>4, <2>1, <3>1
  <2> QED BY <2>2, <2>3
<1>6. ByteEnd[0] = 0 /\ ByteEnd[NChars] \in Nat
  BY <1>1, <1>2, <1>3
<1>7. Bytes \subseteq Nat
  BY <1>6 DEF Bytes
<1>8. ASSUME NEW n \in 0 .. NChars PROVE ByteEnd[n] \in Bytes
  <2>1. ByteEnd[n] \in Nat /\ (n = NChars \/ n < NChars) /\ NChars \in 0 .. NChars
    BY <1>1, <1>3
  <2>2. ByteEnd[n] <= ByteEnd[NChars]
    BY <1>5, <1>6, <2>1
  <2> QED BY <1>6, <2>1, <2>2 DEF Bytes
<1> QED BY <1>1, <1>3, <1>5, <1>6, <1>7, <1>8

LEMMA LastBelow ==
  ASSUME NEW k \in Bytes
  PROVE  \E n \in 0 .. NChars : ByteEnd[n] <= k /\ \A m \in 0 .. NChars : ByteEnd[m] <= k => m <= n
<1> DEFINE S == {j \in 0 .. NChars : ByteEnd[NChars - j] <= k}
<1>1. S \in SUBSET Nat
  OBVIOUS
<1>2. NChars \in S
  <2>1. NChars \in 0 .. NChars /\ NChars - NChars = 0 /\ 0 <= k
    BY EndsAreNumbers
  <2> QED BY <2>1, EndsAreNumbers
<1> HIDE DEF S
<1>3. PICK j \in S : \A i \in S : j <= i
  BY <1>1, <1>2, LeastNumber
<1> DEFINE n == NChars - j
<1>4. j \in 0 .. NChars /\ n \in 0 .. NChars /\ ByteEnd[n] <= k
  BY EndsAreNumbers, <1>3 DEF S
<1>5. ASSUME NEW m \in 0 .. NChars, ByteEnd[m] <= k PROVE m <= n
  <2> DEFINE i == NChars - m
  <2>1. i \in 0 .. NChars /\ NChars - i = m
    BY EndsAreNumbers
  <2>2. i \in S
    BY <1>5, <2>1 DEF S
  <2> HIDE DEF i
  <2>3. j <= i
    BY <1>3, <2>2
  <2> QED BY <1>4, <2>1, <2>3, EndsAreNumbers
<1> QED BY <1>4, <1>5

LEMMA WholeIs ==
  ASSUME NEW k \in Bytes
  PROVE  /\ Whole[k] \in 0 .. NChars /\ ByteEnd[Whole[k]] <= k
         /\ \A m \in 0 .. NChars : ByteEnd[m] <= k => m <= Whole[k]
<1> DEFINE S == {n \in 0 .. NChars : ByteEnd[n] <= k}
<1>1. Whole[k] = CHOOSE n \in S : \A m \in S : n >= m
  BY DEF Whole, Max, NChars, Bytes
<1>2. PICK n \in 0 .. NChars : ByteEnd[n] <= k /\ \A m \in 0 .. NChars : ByteEnd[m] <= k => m <= n
  BY LastBelow
<1>3. n \in S /\ \A m \in S : n >= m
  BY <1>2
<1> HIDE DEF S
<1>4. Whole[k] \in S /\ \A m \in S : Whole[k] >= m
  BY <1>1, <1>3
<1> USE DEF S
<1> QED BY <1>4

LEMMA WholeUnique ==
  ASSUME NEW k \in Bytes, NEW n \in 0 .. NChars, ByteEnd[n] <= k,
         n = NChars \/ k < ByteEnd[n + 1]
  PROVE  Whole[k] = n
<1> DEFINE w == Whole[k]
<1>1. w \in 0 .. NChars /\ ByteEnd[w] <= k /\ n <= w
  BY WholeIs
<1> HIDE DEF w
<1>2. ASSUME n < w PROVE FALSE
  <2> DEFINE m == n + 1
  <2>1. m \in 0 .. NChars /\ (m = w \/ m < w) /\ n # NChars
    BY <1>1, <1>2, EndsAreNumbers
  <2>2. ByteEnd[m] \in Nat /\ ByteEnd[w] \in Nat /\ k \in Nat
    BY <1>1, <2>1, EndsAreNumbers
  <2>3. k < ByteEnd[m]
    BY <2>1
  <2> HIDE DEF m
  <2>4. ByteEnd[m] <= ByteEnd[w]
    BY <1>1, <2>1, <2>2, EndsAreNumbers
  <2> QED BY <1>1, <2>2, <2>3, <2>4
<1>3. w = n
  BY <1>1, <1>2, EndsAreNumbers
<1> QED BY <1>3 DEF w

LEMMA WholeMonotone ==
  ASSUME NEW j \in Bytes, NEW k \in Bytes, j <= k
  PROVE  Whole[j] \in 0 .. NChars /\ Whole[k] \in 0 .. NChars /\ Whole[j] <= Whole[k]
<1> DEFINE w == Whole[j]
<1>1. w \in 0 .. NChars /\ ByteEnd[w] <= j
  BY WholeIs
<1> HIDE DEF w
<1>2. ByteEnd[w] <= k
  BY <1>1, EndsAreNumbers
<1>3. w <= Whole[k] /\ Whole[k] \in 0 .. NChars
  BY <1>1, <1>2, WholeIs
<1> QED BY <1>1, <1>3 DEF w

LEMMA WholeOfEnd ==
  ASSUME NEW n \in 0 .. NChars
  PROVE  Whole[ByteEnd[n]] = n
<1> DEFINE k == ByteEnd[n]
<1>1. k \in Bytes /\ ByteEnd[n] <= k
  BY EndsAreNumbers
<1>2. n = NChars \/ k < ByteEnd[n + 1]
  <2> SUFFICES ASSUME n # NChars PROVE k < ByteEnd[n + 1]
    OBVIOUS
  <2>1. n + 1 \in 0 .. NChars /\ n < n + 1
    BY EndsAreNumbers
  <2> QED BY <2>1, EndsAreNumbers
<1> HIDE DEF k
<1>3. Whole[k] = n
  BY <1>1, <1>2, WholeUnique
<1> QED BY <1>3 DEF k

(* The k-th byte of a session, and what a decoder has kept of those before *)
(* it.                                                                     *)
LEMMA NextByte ==
  ASSUME NEW s \in Sessions, NEW k \in 1 .. ByteEnd[NChars]
  PROVE  LET n == Whole[k - 1] + 1
             p == k - ByteEnd[n - 1] IN
         /\ k - 1 \in Bytes /\ k \in Bytes /\ n \in 1 .. NChars /\ p \in Nat /\ p > 0
         /\ n - 1 = Whole[k - 1]
         /\ BytesOf[s][k] = <<s, n, p>>
         /\ p = 1 <=> k - 1 = ByteEnd[n - 1]
         /\ p = ByteEnd[n] - ByteEnd[n - 1] <=> k = ByteEnd[n]
         /\ Whole[k] = IF k = ByteEnd[n] THEN n ELSE n - 1
         /\ k - 1 # ByteEnd[n - 1] => TailAt(s, k - 1) = <<s, n, p - 1>>
         /\ k # ByteEnd[n] => TailAt(s, k) = <<s, n, p>>
<1> DEFINE j == k - 1
           w == Whole[j]
           n == w + 1
           p == k - ByteEnd[n - 1]
           E == ByteEnd[NChars]
<1>1. k \in Nat /\ j \in Nat /\ j < k /\ j \in Bytes /\ k \in Bytes /\ E \in Nat /\ k <= E /\ NChars \in Nat
  BY EndsAreNumbers DEF Bytes
<1> HIDE DEF E
<1>2. w \in 0 .. NChars /\ ByteEnd[w] <= j /\ \A m \in 0 .. NChars : ByteEnd[m] <= j => m <= w
  BY <1>1, WholeIs
<1> HIDE DEF w
<1>3. w # NChars
  BY <1>1, <1>2 DEF E
<1>4. w \in Nat /\ n \in 1 .. NChars /\ n - 1 = w /\ n \in 0 .. NChars /\ w < n /\ n # w
  BY <1>1, <1>2, <1>3
<1>5. BytesOf[s][k] = <<s, n, p>>
  <2>1. k \in 1 .. ByteEnd[Len(Ends)]
    BY DEF NChars
  <2>2. BytesOf[s][k] = ByteAt(s, k)
    BY <2>1 DEF BytesOf
  <2>3. p = k - ByteEnd[w]
    BY <1>4
  <2> HIDE DEF p, n
  <2>4. ByteAt(s, k) = <<s, w + 1, k - ByteEnd[w]>>
    BY DEF ByteAt, w, j
  <2> QED BY <2>2, <2>3, <2>4 DEF n
<1>6. ByteEnd[w] \in Nat /\ ByteEnd[n] \in Nat
  BY <1>2, <1>4, EndsAreNumbers
<1>7. p = k - ByteEnd[w]
  BY <1>4
<1>8. k <= ByteEnd[n]
  <2>1. ~(ByteEnd[n] <= j)
    BY <1>2, <1>4
  <2> QED BY <1>1, <1>6, <2>1
<1> HIDE DEF p, n
<1>9. p \in Nat /\ p > 0 /\ (p = 1 <=> j = ByteEnd[w]) /\ (p = ByteEnd[n] - ByteEnd[w] <=> k = ByteEnd[n])
  BY <1>1, <1>2, <1>6, <1>7
<1>10. Whole[k] = IF k = ByteEnd[n] THEN n ELSE w
  <2>1. CASE k = ByteEnd[n]
    BY <1>4, <2>1, WholeOfEnd
  <2>2. CASE k # ByteEnd[n]
    <3>1. k < ByteEnd[w + 1] /\ ByteEnd[w] <= k
      BY <1>1, <1>2, <1>6, <1>8, <2>2 DEF n
    <3>2. Whole[k] = w
      BY <1>1, <1>2, <3>1, WholeUnique
    <3> QED BY <2>2, <3>2
  <2> QED BY <2>1, <2>2
<1>11. k # ByteEnd[n] => TailAt(s, k) = <<s, n, p>>
  <2> SUFFICES ASSUME k # ByteEnd[n] PROVE TailAt(s, k) = <<s, n, p>>
    OBVIOUS
  <2>1. Whole[k] = w /\ k # ByteEnd[w]
    BY <1>1, <1>2, <1>6, <1>10
  <2> QED BY <1>5, <2>1 DEF TailAt
<1>12. j # ByteEnd[w] => TailAt(s, j) = <<s, n, p - 1>>
  <2> SUFFICES ASSUME j # ByteEnd[w] PROVE TailAt(s, j) = <<s, n, p - 1>>
    OBVIOUS
  <2>1. TailAt(s, j) = BytesOf[s][j]
    BY DEF TailAt, w
  <2>2. j \in 1 .. ByteEnd[Len(Ends)] /\ j \in 1 .. E
    BY <1>1, <1>2, <1>6 DEF E, NChars
  <2>3. BytesOf[s][j] = ByteAt(s, j)
    BY <2>2 DEF BytesOf
  <2> DEFINE i == j - 1
  <2>4. i \in Bytes /\ i \in Nat /\ i < j
    BY <1>1, <2>2 DEF Bytes, E
  <2>5. ByteEnd[w] <= i
    BY <1>1, <1>2, <1>6, <2>4
  <2>6. i < ByteEnd[w + 1]
    BY <1>1, <1>6, <1>8, <2>4 DEF n
  <2>7. Whole[i] = w
    BY <1>2, <2>4, <2>5, <2>6, WholeUnique
  <2>8. ByteAt(s, j) = <<s, w + 1, j - ByteEnd[w]>>
    BY <2>7 DEF ByteAt
  <2>9. j - ByteEnd[w] = p - 1
    BY <1>1, <1>6, <1>7
  <2> QED BY <2>1, <2>3, <2>8, <2>9 DEF n
<1>13. n = Whole[k - 1] + 1 /\ j = k - 1 /\ ByteEnd[n - 1] = ByteEnd[w] /\ w = n - 1
  BY <1>4 DEF n, w, j
<1>14. w = Whole[k - 1]
  BY DEF w, j
<1> QED BY <1>1, <1>4, <1>5, <1>9, <1>10, <1>11, <1>12, <1>13, <1>14 DEF n, p

(* One more byte of a session: a decoder that holds what was begun of its  *)
(* character, or stands between two characters.                            *)
LEMMA FedNext ==
  ASSUME NEW s \in Sessions, NEW k \in 1 .. ByteEnd[NChars], NEW d, d.bad \in Nat,
         d.tail = TailAt(s, k - 1) \/ k - 1 = ByteEnd[Whole[k - 1]]
  PROVE  /\ Fed(d, BytesOf[s][k]).tail = TailAt(s, k)
         /\ Fed(d, BytesOf[s][k]).chars =
              IF Whole[k] = Whole[k - 1] THEN d.chars ELSE Append(d.chars, <<s, Whole[k]>>)
         /\ Fed(d, BytesOf[s][k]).bad = d.bad + (IF d.tail = TailAt(s, k - 1) THEN 0 ELSE 1)
         /\ Fed(d, BytesOf[s][k]) = [tail  |-> Fed(d, BytesOf[s][k]).tail,
                                     chars |-> Fed(d, BytesOf[s][k]).chars,
                                     bad   |-> Fed(d, BytesOf[s][k]).bad]
<1> DEFINE n == Whole[k - 1] + 1
           p == k - ByteEnd[n - 1]
           b == BytesOf[s][k]
           w == n - 1
<1>1. /\ k - 1 \in Bytes /\ k \in Bytes /\ n \in 1 .. NChars /\ p \in Nat /\ p > 0
      /\ w = Whole[k - 1]
      /\ b = <<s, n, p>>
      /\ p = 1 <=> k - 1 = ByteEnd[w]
      /\ p = ByteEnd[n] - ByteEnd[w] <=> k = ByteEnd[n]
      /\ Whole[k] = IF k = ByteEnd[n] THEN n ELSE w
      /\ k - 1 # ByteEnd[w] => TailAt(s, k - 1) = <<s, n, p - 1>>
      /\ k # ByteEnd[n] => TailAt(s, k) = <<s, n, p>>
  BY NextByte
<1>2. w # n
  BY <1>1, EndsAreNumbers
<1>3. k = ByteEnd[n] => TailAt(s, k) = NoByte
  BY <1>1 DEF TailAt
<1>4. k - 1 = ByteEnd[w] => TailAt(s, k - 1) = NoByte
  BY <1>1 DEF TailAt
<1>w. ByteEnd[n - 1] = ByteEnd[w]
  OBVIOUS
<1> HIDE DEF n, p, w
<1>5. b[1] = s /\ b[2] = n /\ b[3] = p
  BY <1>1
<1> DEFINE fits == b[3] = 1 \/ d.tail = <<b[1], b[2], b[3] - 1>>
           cut  == d.tail # NoByte /\ (b[3] = 1 \/ ~fits)
           done == fits /\ b[3] = ByteEnd[b[2]] - ByteEnd[b[2] - 1]
<1>6. Fed(d, b) = [tail  |-> IF fits /\ ~done THEN b ELSE NoByte,
                   chars |-> IF done THEN Append(d.chars, <<b[1], b[2]>>) ELSE d.chars,
                   bad   |-> d.bad + (IF cut THEN 1 ELSE 0) + (IF fits THEN 0 ELSE 1)]
  BY DEF Fed
<1>7. fits
  BY <1>1, <1>5
<1>8. done <=> k = ByteEnd[n]
  <2>1. b[2] - 1 = w
    BY <1>5 DEF w
  <2> QED BY <1>1, <1>5, <1>7, <2>1
<1>9. cut <=> d.tail # TailAt(s, k - 1)
  <2>1. cut <=> d.tail # NoByte /\ p = 1
    BY <1>5, <1>7
  <2> HIDE DEF cut, fits, done
  <2>2. CASE p = 1
    BY <1>1, <1>4, <2>1, <2>2
  <2>3. CASE p # 1
    <3>1. d.tail = TailAt(s, k - 1)
      BY <1>1, <2>3 DEF w
    <3> QED BY <2>1, <2>3, <3>1
  <2> QED BY <2>2, <2>3
<1>10. done => Whole[k] = n /\ Whole[k] # Whole[k - 1]
  BY <1>1, <1>2, <1>8
<1>11. ~done => Whole[k] = Whole[k - 1]
  BY <1>1, <1>8
<1> HIDE DEF fits, cut, done
<1>12. Fed(d, b).tail = TailAt(s, k)
  BY <1>1, <1>3, <1>6, <1>7, <1>8
<1>13. Fed(d, b).chars = IF Whole[k] = Whole[k - 1] THEN d.chars ELSE Append(d.chars, <<s, Whole[k]>>)
  <2>1. Fed(d, b).chars = IF done THEN Append(d.chars, <<b[1], b[2]>>) ELSE d.chars
    BY <1>6
  <2>2. <<b[1], b[2]>> = <<s, n>>
    BY <1>5
  <2> HIDE DEF b
  <2>3. CASE done
    BY <1>10, <2>1, <2>2, <2>3
  <2>4. CASE ~done
    BY <1>11, <2>1, <2>4
  <2> QED BY <2>3, <2>4
<1>14. Fed(d, b).bad = d.bad + (IF d.tail = TailAt(s, k - 1) THEN 0 ELSE 1)
  <2>1. Fed(d, b).bad = d.bad + (IF cut THEN 1 ELSE 0) + (IF fits THEN 0 ELSE 1)
    BY <1>6
  <2> QED BY <1>7, <1>9, <2>1
<1>15. Fed(d, b) = [tail |-> Fed(d, b).tail, chars |-> Fed(d, b).chars, bad |-> Fed(d, b).bad]
  BY <1>6
<1> HIDE DEF b
<1> QED BY <1>12, <1>13, <1>14, <1>15 DEF b

(* What a decoder makes of a chunk is what its bytes make one by one.      *)
OneByOne(W, last, chunk) ==
  /\ W = [i \in 0 .. Len(chunk) |-> W[i]]
  /\ W[0] = [tail |-> last, chars |-> <<>>, bad |-> 0]
  /\ \A i \in 1 .. Len(chunk) : W[i] = Fed(W[i - 1], chunk[i])

LEMMA DecodedIs ==
  ASSUME NEW last, NEW chunk, Len(chunk) \in Nat, NEW W, OneByOne(W, last, chunk)
  PROVE  Decoded(last, chunk) = W[Len(chunk)]
<1> DEFINE n == Len(chunk)
           start == [tail |-> last, chars |-> <<>>, bad |-> 0]
           After(f) == f = [i \in 0 .. n |-> IF i = 0 THEN start ELSE Fed(f[i - 1], chunk[i])]
           after == CHOOSE f : After(f)
<1>1. Decoded(last, chunk) = after[n]
  BY Zenon DEF Decoded
<1> HIDE DEF start, n
<1>2. \A i \in 0 .. n : W[i] = IF i = 0 THEN start ELSE Fed(W[i - 1], chunk[i])
  <2> SUFFICES ASSUME NEW i \in 0 .. n PROVE W[i] = IF i = 0 THEN start ELSE Fed(W[i - 1], chunk[i])
    OBVIOUS
  <2>1. i # 0 => i \in 1 .. n
    BY DEF n
  <2> QED BY <2>1 DEF start, n, OneByOne
<1>3. After(W)
  BY <1>2 DEF n, OneByOne
<1>4. After(after)
  BY <1>3
<1> HIDE DEF after
<1>5. \A i \in 0 .. n : after[i] = IF i = 0 THEN start ELSE Fed(after[i - 1], chunk[i])
  BY <1>4
<1> DEFINE Bad == {i \in 0 .. n : after[i] # W[i]}
<1>6. Bad = {}
  <2> SUFFICES ASSUME Bad # {} PROVE FALSE
    OBVIOUS
  <2>0. Bad \in SUBSET Nat
    OBVIOUS
  <2> HIDE DEF Bad
  <2>1. PICK m \in Bad : \A j \in Bad : m <= j
    BY <2>0, LeastNumber
  <2> USE DEF Bad
  <2>2. m \in 0 .. n /\ m # 0
    BY <1>2, <1>5, <2>1
  <2> DEFINE j == m - 1
  <2>3. j \in 0 .. n /\ j \notin Bad
    BY <2>1, <2>2 DEF n
  <2>4. after[m] = Fed(after[j], chunk[m]) /\ W[m] = Fed(W[j], chunk[m])
    BY <1>2, <1>5, <2>2
  <2> HIDE DEF j
  <2>5. after[j] = W[j]
    BY <2>3
  <2> QED BY <2>1, <2>4, <2>5
<1>7. n \in 0 .. n
  BY DEF n
<1> QED BY <1>1, <1>6, <1>7 DEF n

LEMMA FunctionIsSeq ==
  ASSUME NEW T, NEW n \in Nat, NEW f \in [1 .. n -> T]
  PROVE  f \in Seq(T) /\ Len(f) = n
<1>1. f \in Seq(T)
  BY SeqDef
<1> QED BY <1>1, LenProperties

(* Characters that follow one another.                                     *)
LEMMA CharsMeet ==
  ASSUME NEW s, NEW l \in Nat, NEW m \in Nat, NEW n \in Nat, l <= m, m <= n
  PROVE  Chars(s, l, m) \o Chars(s, m, n) = Chars(s, l, n)
<1> DEFINE A == Chars(s, l, m)
           B == Chars(s, m, n)
           C == Chars(s, l, n)
           T == {<<s, i>> : i \in Nat}
<1>1. m - l \in Nat /\ n - m \in Nat /\ n - l \in Nat /\ (m - l) + (n - m) = n - l
  OBVIOUS
<1>2. A = [i \in 1 .. m - l |-> <<s, l + i>>] /\ B = [i \in 1 .. n - m |-> <<s, m + i>>]
      /\ C = [i \in 1 .. n - l |-> <<s, l + i>>]
  BY DEF Chars
<1> HIDE DEF A, B, C
<1>3. /\ A \in [1 .. m - l -> T] /\ \A i \in 1 .. m - l : A[i] = <<s, l + i>>
      /\ B \in [1 .. n - m -> T] /\ \A i \in 1 .. n - m : B[i] = <<s, m + i>>
      /\ C \in [1 .. n - l -> T] /\ \A i \in 1 .. n - l : C[i] = <<s, l + i>>
  <2>1. \A i \in Nat : <<s, i>> \in T
    OBVIOUS
  <2>2. \A i \in 1 .. m - l : l + i \in Nat
    OBVIOUS
  <2>3. \A i \in 1 .. n - m : m + i \in Nat
    OBVIOUS
  <2>4. \A i \in 1 .. n - l : l + i \in Nat
    OBVIOUS
  <2> HIDE DEF T
  <2> QED BY <1>2, <2>1, <2>2, <2>3, <2>4
<1> HIDE DEF T
<1>4. /\ A \in Seq(T) /\ Len(A) = m - l
      /\ B \in Seq(T) /\ Len(B) = n - m
      /\ C \in Seq(T) /\ Len(C) = n - l
  BY <1>1, <1>3, FunctionIsSeq
<1>5. /\ A \o B \in Seq(T) /\ Len(A \o B) = n - l
      /\ \A i \in 1 .. n - l : (A \o B)[i] = IF i <= m - l THEN A[i] ELSE B[i - (m - l)]
  <2>1. /\ A \o B \in Seq(T) /\ Len(A \o B) = Len(A) + Len(B)
        /\ \A i \in 1 .. Len(A) + Len(B) : (A \o B)[i] = IF i <= Len(A) THEN A[i] ELSE B[i - Len(A)]
    BY <1>4, ConcatProperties
  <2>2. Len(A) + Len(B) = n - l
    BY <1>1, <1>4
  <2> QED BY <1>4, <2>1, <2>2
<1>6. ASSUME NEW i \in 1 .. n - l PROVE (A \o B)[i] = C[i]
  <2>1. CASE i <= m - l
    <3>1. i \in 1 .. m - l
      BY <1>1, <2>1
    <3> QED BY <1>3, <1>5, <2>1, <3>1
  <2>2. CASE ~(i <= m - l)
    <3> DEFINE j == i - (m - l)
    <3>1. j \in 1 .. n - m /\ m + j = l + i
      BY <1>1, <2>2
    <3>2. (A \o B)[i] = B[j]
      BY <1>5, <2>2
    <3> HIDE DEF j
    <3> QED BY <1>3, <3>1, <3>2
  <2> QED BY <2>1, <2>2
<1>7. A \o B = C
  BY <1>4, <1>5, <1>6, SeqEqual
<1> QED BY <1>7 DEF A, B, C

LEMMA CharsLength ==
  ASSUME NEW s, NEW l \in Nat, NEW m \in Nat, l <= m
  PROVE  /\ Len(Chars(s, l, m)) = m - l
         /\ \A i \in 1 .. m - l : Chars(s, l, m)[i] = <<s, l + i>>
<1>1. m - l \in Nat
  OBVIOUS
<1>2. Chars(s, l, m) = [i \in 1 .. m - l |-> <<s, l + i>>]
  BY DEF Chars
<1> DEFINE A == Chars(s, l, m)
           n == m - l
<1>3. A \in [1 .. n -> {A[i] : i \in 1 .. n}] /\ \A i \in 1 .. n : A[i] = <<s, l + i>>
  <2> HIDE DEF n
  <2>1. A = [i \in 1 .. n |-> <<s, l + i>>]
    BY <1>2 DEF n
  <2> HIDE DEF A
  <2> QED BY <2>1
<1> HIDE DEF A, n
<1>4. n \in Nat
  BY <1>1 DEF n
<1>5. Len(A) = n
  BY <1>3, <1>4, FunctionIsSeq
<1> QED BY <1>3, <1>5 DEF A, n

LEMMA CharsAppend ==
  ASSUME NEW s, NEW m \in Nat, NEW n \in Nat, m <= n
  PROVE  Append(Chars(s, m, n), <<s, n + 1>>) = Chars(s, m, n + 1)
<1> DEFINE A == Chars(s, m, n)
           C == Chars(s, m, n + 1)
           T == {<<s, i>> : i \in Nat}
           x == <<s, n + 1>>
<1>1. n - m \in Nat /\ n + 1 - m \in Nat /\ n + 1 - m = (n - m) + 1
  OBVIOUS
<1>2. A = [i \in 1 .. n - m |-> <<s, m + i>>] /\ C = [i \in 1 .. n + 1 - m |-> <<s, m + i>>]
  BY DEF Chars
<1> HIDE DEF A, C
<1>3. /\ A \in [1 .. n - m -> T] /\ \A i \in 1 .. n - m : A[i] = <<s, m + i>>
      /\ C \in [1 .. n + 1 - m -> T] /\ \A i \in 1 .. n + 1 - m : C[i] = <<s, m + i>>
      /\ x \in T
  <2>1. \A i \in Nat : <<s, i>> \in T
    OBVIOUS
  <2>2. \A i \in 1 .. n + 1 - m : m + i \in Nat
    OBVIOUS
  <2>3. \A i \in 1 .. n - m : m + i \in Nat
    OBVIOUS
  <2>4. n + 1 \in Nat
    OBVIOUS
  <2> HIDE DEF T
  <2> QED BY <1>2, <2>1, <2>2, <2>3, <2>4
<1>4. x = <<s, m + (n - m + 1)>>
  <2>1. m + (n - m + 1) = n + 1
    OBVIOUS
  <2> QED BY <2>1
<1> HIDE DEF T, x
<1>5. A \in Seq(T) /\ Len(A) = n - m /\ C \in Seq(T) /\ Len(C) = n + 1 - m
  BY <1>1, <1>3, FunctionIsSeq
<1>6. /\ Append(A, x) \in Seq(T) /\ Len(Append(A, x)) = n - m + 1
      /\ \A i \in 1 .. n - m : Append(A, x)[i] = A[i]
      /\ Append(A, x)[n - m + 1] = x
  BY <1>3, <1>5, AppendProperties
<1>7. ASSUME NEW i \in 1 .. n - m + 1 PROVE Append(A, x)[i] = C[i]
  <2>1. CASE i = n - m + 1
    BY <1>1, <1>3, <1>4, <1>6, <2>1
  <2>2. CASE i # n - m + 1
    <3>1. i \in 1 .. n - m /\ i \in 1 .. n + 1 - m
      BY <1>1, <2>2
    <3> QED BY <1>3, <1>6, <3>1
  <2> QED BY <2>1, <2>2
<1>8. Append(A, x) = C
  BY <1>1, <1>5, <1>6, <1>7, SeqEqual
<1> QED BY <1>8 DEF A, C, x

(* The bytes after the b-th up to the e-th.                                *)
LEMMA PartIs ==
  ASSUME NEW s \in Sessions, NEW b \in Bytes, NEW e \in Bytes, b <= e
  PROVE  /\ Len(SubSeq(BytesOf[s], b + 1, e)) = e - b
         /\ \A i \in 1 .. e - b : SubSeq(BytesOf[s], b + 1, e)[i] = BytesOf[s][b + i]
<1> DEFINE all == BytesOf[s]
           chunk == SubSeq(all, b + 1, e)
           n == e - b
<1>1. b \in Nat /\ e \in Nat /\ n \in Nat /\ b + n = e /\ e <= ByteEnd[NChars] /\ ByteEnd[NChars] \in Nat
  BY EndsAreNumbers DEF Bytes
<1>2. Len(chunk) = n /\ \A i \in 1 .. n : chunk[i] = all[b + i]
  <2> DEFINE T == {all[k] : k \in 1 .. ByteEnd[NChars]}
  <2>1. all \in [1 .. ByteEnd[NChars] -> T]
    <3>1. all = [k \in 1 .. ByteEnd[NChars] |-> all[k]]
      BY DEF BytesOf, NChars
    <3> HIDE DEF all
    <3> QED BY <3>1
  <2>2. \A k \in 1 .. ByteEnd[NChars] : all[k] \in T
    OBVIOUS
  <2> HIDE DEF T, all
  <2>3. all \in Seq(T) /\ Len(all) = ByteEnd[NChars]
    BY <1>1, <2>1, FunctionIsSeq
  <2>4. b + 1 \in 1 .. Len(all) + 1 /\ e \in b .. Len(all)
    BY <1>1, <2>3
  <2>5. \A i \in b + 1 .. e : all[i] \in T
    BY <1>1, <2>2
  <2>6. Len(chunk) = IF b + 1 <= e THEN e - (b + 1) + 1 ELSE 0
    BY <1>1, <2>3, <2>4, <2>5, SubSeqProperties
  <2>7. \A i \in 1 .. e - (b + 1) + 1 : chunk[i] = all[(b + 1) + i - 1]
    BY <1>1, <2>3, <2>4, <2>5, SubSeqProperties
  <2>8. \A i \in 1 .. n : i \in 1 .. e - (b + 1) + 1 /\ (b + 1) + i - 1 = b + i
    BY <1>1
  <2> QED BY <1>1, <2>6, <2>7, <2>8
<1> QED BY <1>2

(* What a decoder makes of the bytes after the b-th up to the e-th.        *)
LEMMA DecodedChunk ==
  ASSUME NEW s \in Sessions, NEW b \in Bytes, NEW e \in Bytes, b <= e, NEW t,
         t = TailAt(s, b) \/ b = ByteEnd[Whole[b]]
  PROVE  LET d == Decoded(t, SubSeq(BytesOf[s], b + 1, e)) IN
         /\ d.chars = Chars(s, Whole[b], Whole[e])
         /\ d.tail = TailAt(s, e) \/ e = ByteEnd[Whole[e]]
         /\ t = TailAt(s, b) => d.tail = TailAt(s, e) /\ d.bad = 0
<1> DEFINE all == BytesOf[s]
           chunk == SubSeq(all, b + 1, e)
           n == e - b
           W == [i \in 0 .. n |->
                   [tail  |-> IF i = 0 THEN t ELSE TailAt(s, b + i),
                    chars |-> Chars(s, Whole[b], Whole[b + i]),
                    bad   |-> IF i = 0 \/ t = TailAt(s, b) THEN 0 ELSE 1]]
<1>1. b \in Nat /\ e \in Nat /\ n \in Nat /\ b + n = e /\ e <= ByteEnd[NChars] /\ ByteEnd[NChars] \in Nat
  BY EndsAreNumbers DEF Bytes
<1>2. Len(chunk) = n /\ \A i \in 1 .. n : chunk[i] = all[b + i]
  BY PartIs
<1>3. \A i \in 0 .. n : b + i \in Bytes
  BY <1>1 DEF Bytes
<1>4. Whole[b] \in Nat /\ \A i \in 0 .. n : Whole[b + i] \in Nat /\ Whole[b] <= Whole[b + i]
  <2> SUFFICES ASSUME NEW i \in 0 .. n
               PROVE  Whole[b] \in Nat /\ Whole[b + i] \in Nat /\ Whole[b] <= Whole[b + i]
    BY <1>1
  <2>1. b <= b + i
    BY <1>1
  <2> QED BY <1>3, <2>1, WholeMonotone
<1> HIDE DEF chunk, all
<1>5. /\ W[0] = [tail |-> t, chars |-> <<>>, bad |-> 0]
      /\ W[n].chars = Chars(s, Whole[b], Whole[e])
      /\ W[n].tail = IF n = 0 THEN t ELSE TailAt(s, e)
      /\ t = TailAt(s, b) => W[n].bad = 0
  <2>1. b + 0 = b /\ Chars(s, Whole[b], Whole[b]) = <<>> /\ 0 \in 0 .. n /\ n \in 0 .. n
    <3>1. Whole[b] - Whole[b] = 0
      BY <1>4
    <3>2. Chars(s, Whole[b], Whole[b]) = [i \in {} |-> <<s, Whole[b] + i>>]
      BY <3>1 DEF Chars
    <3> QED BY <1>1, <3>2
  <2>2. W[0] = [tail |-> t, chars |-> Chars(s, Whole[b], Whole[b]), bad |-> 0]
    BY <2>1
  <2>3. W[n].chars = Chars(s, Whole[b], Whole[e]) /\ W[n].tail = IF n = 0 THEN t ELSE TailAt(s, e)
    BY <1>1, <2>1
  <2>4. t = TailAt(s, b) => W[n].bad = 0
    BY <2>1
  <2> HIDE DEF W
  <2> QED BY <2>1, <2>2, <2>3, <2>4
<1>6. ASSUME NEW i \in 1 .. n PROVE W[i] = Fed(W[i - 1], chunk[i])
  <2> DEFINE k == b + i
             d == W[i - 1]
             f == Fed(d, all[k])
  <2>1. k \in 1 .. ByteEnd[NChars] /\ k - 1 = b + (i - 1) /\ i - 1 \in 0 .. n /\ i \in 0 .. n /\ i # 0
    BY <1>1
  <2>2. d.tail = (IF i - 1 = 0 THEN t ELSE TailAt(s, k - 1)) /\ d.chars = Chars(s, Whole[b], Whole[k - 1])
    BY <2>1
  <2>3. d.tail = TailAt(s, k - 1) \/ k - 1 = ByteEnd[Whole[k - 1]]
    BY <1>1, <2>1, <2>2
  <2>4. d.bad = IF i - 1 = 0 \/ t = TailAt(s, b) THEN 0 ELSE 1
    BY <2>1
  <2>5. W[i].tail = TailAt(s, k) /\ W[i].chars = Chars(s, Whole[b], Whole[k])
    BY <2>1
  <2>6. W[i].bad = IF t = TailAt(s, b) THEN 0 ELSE 1
    BY <2>1
  <2>7. W[i] = [tail |-> W[i].tail, chars |-> W[i].chars, bad |-> W[i].bad]
    BY <2>1
  <2>8. chunk[i] = all[k]
    BY <1>2
  <2> DEFINE v == W[i]
  <2> HIDE DEF W, d
  <2>9. /\ f.tail = TailAt(s, k)
        /\ f.chars = IF Whole[k] = Whole[k - 1] THEN d.chars ELSE Append(d.chars, <<s, Whole[k]>>)
        /\ f.bad = d.bad + (IF d.tail = TailAt(s, k - 1) THEN 0 ELSE 1)
        /\ f = [tail |-> f.tail, chars |-> f.chars, bad |-> f.bad]
    <3>1. d.bad \in Nat
      BY <2>4
    <3> HIDE DEF k
    <3> QED BY <2>1, <2>3, <3>1, FedNext DEF all
  <2> HIDE DEF f
  <2>10. f.bad = v.bad
    <3>1. CASE i - 1 = 0
      <4>1. k - 1 = b
        BY <1>1, <2>1, <3>1
      <4> QED BY <2>2, <2>4, <2>6, <2>9, <3>1, <4>1
    <3>2. CASE i - 1 # 0
      BY <2>2, <2>4, <2>6, <2>9, <3>2
    <3> QED BY <3>1, <3>2
  <2>11. f.chars = v.chars
    <3>1. k - 1 \in Bytes /\ k \in Bytes /\ (Whole[k] = Whole[k - 1] \/ Whole[k] = Whole[k - 1] + 1)
      BY <2>1, NextByte
    <3> DEFINE w == Whole[k - 1]
    <3>2. w \in Nat /\ Whole[b] \in Nat /\ Whole[b] <= w
      BY <1>4, <2>1
    <3>3. CASE Whole[k] = w
      BY <2>2, <2>5, <2>9, <3>3
    <3>4. CASE Whole[k] # w
      <4>1. Whole[k] = w + 1
        BY <3>1, <3>4
      <4> HIDE DEF w
      <4>2. Append(Chars(s, Whole[b], w), <<s, w + 1>>) = Chars(s, Whole[b], w + 1)
        BY <3>2, CharsAppend
      <4>3. f.chars = Append(d.chars, <<s, w + 1>>) /\ d.chars = Chars(s, Whole[b], w)
        BY <2>2, <2>9, <3>4, <4>1 DEF w
      <4> QED BY <2>5, <4>1, <4>2, <4>3
    <3> QED BY <3>3, <3>4
  <2>12. f = v
    <3>1. f.tail = v.tail
      BY <2>5, <2>9
    <3> HIDE DEF v
    <3> QED BY <2>7, <2>9, <2>10, <2>11, <3>1 DEF v
  <2> QED BY <2>8, <2>12 DEF f, d
<1> DEFINE D == Decoded(t, chunk)
<1>7. D = W[n]
  <2>1. Len(chunk) \in Nat
    BY <1>1, <1>2
  <2>2. W = [i \in 0 .. n |-> W[i]]
    OBVIOUS
  <2> HIDE DEF W, n
  <2>3. \A i \in 1 .. Len(chunk) : W[i] = Fed(W[i - 1], chunk[i])
    BY <1>2, <1>6
  <2>4. W = [i \in 0 .. Len(chunk) |-> W[i]]
    BY <1>2, <2>2
  <2>5. OneByOne(W, t, chunk)
    BY <1>5, <2>3, <2>4 DEF OneByOne
  <2>6. D = W[Len(chunk)]
    BY <2>1, <2>5, DecodedIs
  <2> QED BY <1>2, <2>6
<1>8. n = 0 => e = b
  BY <1>1
<1> HIDE DEF W, D, n
<1>9. D.tail = TailAt(s, e) \/ e = ByteEnd[Whole[e]]
  BY <1>5, <1>7, <1>8
<1>10. t = TailAt(s, b) => D.tail = TailAt(s, e) /\ D.bad = 0
  BY <1>5, <1>7, <1>8
<1> QED BY <1>5, <1>7, <1>9, <1>10 DEF D, chunk, all

----------------------------------------------------------------------------
USE DEF served, shown, keys, given

LEMMA ClientInvInit == ClientInit => ClientInv
<1> SUFFICES ASSUME ClientInit PROVE ClientInv
  OBVIOUS
<1>1. ClientTyped
  <2>1. 0 \in Bytes
    BY EndsAreNumbers DEF Bytes
  <2> QED BY <2>1 DEF ClientInit, ClientTyped, Sessions, Sockets
<1>2. Chars(attached, 0, 0) = <<>>
  BY DEF Chars
<1>3. kind \in Sockets => SocketShows
  <2>1. 0 \in 0 .. NChars
    BY EndsAreNumbers
  <2> QED BY <1>2, <2>1 DEF ClientInit, SocketShows
<1>4. kind \notin Sockets => PollShows
  BY DEF ClientInit, PollShows
<1> QED BY <1>1, <1>3, <1>4 DEF ClientInv, Shows

LEMMA ReasonsStay == ClientNext => (Clean' => Clean)
<1> SUFFICES ASSUME ClientNext PROVE reasons \subseteq reasons'
  BY DEF Clean
<1>1. ASSUME SessionNext PROVE reasons \subseteq reasons'
  BY <1>1 DEF SessionNext, Close, Forget, Output, Move, Excused
<1>2. CASE Connect
  BY <1>2 DEF Connect
<1>3. CASE Attach
  BY <1>3 DEF Attach, Excused
<1>4. CASE Refused \/ Receive \/ Drop
  BY <1>4 DEF Refused, Receive, Drop
<1>5. CASE Poll \/ Answer \/ Fail
  BY <1>5 DEF Poll, Answer, Fail, Excused
<1>6. CASE Type \/ TypeQueued
  BY <1>6 DEF Type, TypeQueued, Typing
<1>7. CASE \E i \in Sent : Deliver(i)
  BY <1>7 DEF Deliver
<1>8. CASE Leave
  BY <1>8 DEF Leave, Excused
<1> QED BY <1>1, <1>2, <1>3, <1>4, <1>5, <1>6, <1>7, <1>8 DEF ClientNext, ViewerNext

(* What a step that is not one of the session's bytes leaves alone.        *)
LEMMA NothingArrives ==
  ASSUME ClientTyped, UNCHANGED <<limit, kind, arrived>>, bound' \in Sessions,
         at' \in {"waiting", "asking", "open", "stopped"}, attached' \in {0} \cup Sessions
  PROVE  ClientTyped'
  BY DEF ClientTyped

LEMMA TargetIsSession == ClientTyped => Target \in Sessions
  BY DEF ClientTyped, Target, Sessions

LEMMA ClientTypedStep == ClientTyped /\ ClientNext => ClientTyped'
<1> SUFFICES ASSUME ClientTyped, ClientNext PROVE ClientTyped'
  OBVIOUS
<1> DEFINE Ats == {"waiting", "asking", "open", "stopped"}
<1>0. at \in Ats /\ attached \in {0} \cup Sessions /\ bound \in Sessions
  BY DEF ClientTyped
<1>1. ASSUME NEW s \in Sessions, Close(s) \/ Forget(s) PROVE ClientTyped'
  BY <1>1, <1>0, NothingArrives DEF Close, Forget
<1>2. ASSUME NEW s \in Sessions, NEW n \in 1 .. limit.bytes - arrived[s], Output(s, n) PROVE ClientTyped'
  <2>1. /\ arrived[s] \in Bytes /\ arrived[s] \in Nat /\ limit.bytes \in 0 .. ByteEnd[NChars]
        /\ ByteEnd[NChars] \in Nat
    <3>1. limit.bytes \in 0 .. Ends[Len(Ends)]
      BY ViewerClientAssumption DEF ClientTyped
    <3>2. ByteEnd[NChars] = Ends[Len(Ends)]
      BY EndsAreNumbers DEF ByteEnd, NChars
    <3>3. arrived[s] \in Bytes
      BY DEF ClientTyped
    <3>4. 0 \in 0 .. NChars /\ NChars \in 0 .. NChars
      BY EndsAreNumbers
    <3>5. arrived[s] \in Nat /\ ByteEnd[NChars] \in Nat
      BY <3>3, <3>4, EndsAreNumbers
    <3> QED BY <3>1, <3>2, <3>3, <3>5
  <2>2. arrived[s] + n \in Bytes
    BY <2>1 DEF Bytes
  <2>3. arrived' \in [Sessions -> Bytes]
    BY <1>2, <2>2 DEF Output, ClientTyped
  <2>4. UNCHANGED <<limit, kind, bound, at, attached>>
    BY <1>2 DEF Output
  <2> QED BY <2>3, <2>4 DEF ClientTyped
<1>3. CASE Move
  <2>1. bound' \in Sessions
    BY <1>3 DEF Move, Sessions
  <2> QED BY <1>3, <1>0, <2>1, NothingArrives DEF Move
<1>4. CASE Connect
  BY <1>4, <1>0, NothingArrives DEF Connect
<1>5. CASE Attach
  BY <1>5, <1>0, NothingArrives, TargetIsSession DEF Attach
<1>6. CASE Refused
  BY <1>6, <1>0, NothingArrives DEF Refused
<1>7. CASE Receive
  BY <1>7, <1>0, NothingArrives DEF Receive
<1>8. CASE Drop
  BY <1>8, <1>0, NothingArrives DEF Drop, Dropped
<1>9. CASE Poll
  BY <1>9, <1>0, NothingArrives, TargetIsSession DEF Poll
<1>10. CASE Answer
  <2>1. at' \in Ats /\ UNCHANGED <<limit, kind, bound, arrived, attached>>
    BY <1>10 DEF Answer
  <2> QED BY <1>0, <2>1, NothingArrives
<1>11. CASE Fail
  <2>1. at' \in Ats
    BY <1>11 DEF Fail
  <2> QED BY <1>11, <1>0, <2>1, NothingArrives DEF Fail
<1>12. CASE Type \/ TypeQueued
  BY <1>12, <1>0, NothingArrives DEF Type, TypeQueued, Typing
<1>13. ASSUME NEW i \in Sent, Deliver(i) PROVE ClientTyped'
  BY <1>13, <1>0, NothingArrives DEF Deliver
<1>14. CASE Leave
  BY <1>14, <1>0, NothingArrives DEF Leave
<1> QED BY <1>1, <1>2, <1>3, <1>4, <1>5, <1>6, <1>7, <1>8, <1>9, <1>10, <1>11, <1>12, <1>13, <1>14
        DEF ClientNext, SessionNext, ViewerNext

(* The step leaves what is shown and where the viewer stands.              *)
LEMMA ShowsKept ==
  ASSUME Shows, UNCHANGED <<kind, arrived, at, attached, offset, known, decoder, tail, screen, down>>
  PROVE  Shows'
<1>1. SocketShows => SocketShows'
  BY DEF SocketShows, Decoding, Chunks, Complete
<1>2. PollShows => PollShows'
  BY DEF PollShows, Complete
<1> QED BY <1>1, <1>2 DEF Shows

LEMMA ArrivedIs ==
  ASSUME ClientTyped, NEW s \in Sessions
  PROVE  /\ arrived[s] \in Bytes /\ arrived[s] \in Nat /\ arrived[s] <= ByteEnd[NChars]
         /\ Complete(s) \in 0 .. NChars /\ ByteEnd[Complete(s)] \in Nat /\ ByteEnd[Complete(s)] <= arrived[s]
<1>1. arrived[s] \in Bytes /\ arrived[s] \in Nat /\ arrived[s] <= ByteEnd[NChars]
  BY EndsAreNumbers DEF ClientTyped, Bytes
<1>2. Whole[arrived[s]] \in 0 .. NChars /\ ByteEnd[Whole[arrived[s]]] <= arrived[s]
  BY <1>1, WholeIs
<1> QED BY <1>1, <1>2, EndsAreNumbers DEF Complete

(* More bytes of a session.                                                *)
LEMMA OutputGrows ==
  ASSUME ClientTyped, ClientTyped', NEW s \in Sessions, NEW n \in 1 .. limit.bytes - arrived[s], Output(s, n),
         limit.bytes \in Nat
  PROVE  /\ arrived[s]' = arrived[s] + n
         /\ \A t \in Sessions : t # s => arrived[t]' = arrived[t]
         /\ \A t \in Sessions : Complete(t) <= Complete(t)'
<1>1. /\ arrived[s] \in Nat /\ arrived' = [arrived EXCEPT ![s] = @ + n]
      /\ arrived \in [Sessions -> Bytes]
  BY ArrivedIs DEF Output, ClientTyped
<1>2. arrived[s]' = arrived[s] + n /\ \A t \in Sessions : t # s => arrived[t]' = arrived[t]
  BY <1>1
<1>3. ASSUME NEW t \in Sessions PROVE Complete(t) <= Complete(t)'
  <2>1. arrived[t] \in Bytes /\ arrived[t]' \in Bytes /\ arrived[t] \in Nat /\ arrived[t] <= arrived[t]'
    <3>1. arrived[t] \in Nat /\ arrived[t] \in Bytes
      BY ArrivedIs
    <3>2. arrived[t]' \in Bytes
      BY DEF ClientTyped
    <3>3. t = s => arrived[t] <= arrived[t]'
      BY <1>1, <1>2
    <3>4. t # s => arrived[t] <= arrived[t]'
      BY <1>2, <3>1
    <3> QED BY <3>1, <3>2, <3>3, <3>4
  <2> DEFINE a == arrived[t]
             b == arrived[t]'
  <2>2. Complete(t) = Whole[a] /\ Complete(t)' = Whole[b]
    BY DEF Complete
  <2> HIDE DEF a, b
  <2>3. Whole[a] <= Whole[b]
    BY <2>1, WholeMonotone DEF a, b
  <2> QED BY <2>2, <2>3
<1> QED BY <1>2, <1>3

(* The chunks on their way: one more behind them, only one, the first one  *)
(* taken.                                                                  *)
LEMMA PartIn ==
  ASSUME NEW s, NEW b \in Bytes, NEW a \in Bytes
  PROVE  SubSeq(BytesOf[s], b + 1, a) \in Parts(s)
<1>1. <<b, a>> \in Bytes \X Bytes /\ <<b, a>>[1] = b /\ <<b, a>>[2] = a
  OBVIOUS
<1> QED BY <1>1 DEF Parts

LEMMA ChunksAppend ==
  ASSUME NEW s \in Sessions, NEW b \in Bytes, NEW old \in Bytes, NEW q, Chunks(s, b, old, q),
         NEW a \in Bytes, old <= a
  PROVE  Chunks(s, b, a, Append(q, SubSeq(BytesOf[s], old + 1, a)))
<1> DEFINE n == Len(q)
           x == SubSeq(BytesOf[s], old + 1, a)
           d2 == Append(q, x)
<1>1. PICK e \in [0 .. n -> 0 .. old] :
        /\ e[0] = b /\ e[n] = old
        /\ \A j \in 1 .. n : e[j - 1] <= e[j] /\ q[j] = SubSeq(BytesOf[s], e[j - 1] + 1, e[j])
  BY DEF Chunks
<1>2. old \in Nat /\ a \in Nat /\ old <= a /\ n \in Nat /\ q \in Seq(Parts(s))
  BY EndsAreNumbers, LenProperties DEF Chunks
<1>3. x \in Parts(s)
  BY PartIn
<1> HIDE DEF x
<1>4. /\ d2 \in Seq(Parts(s)) /\ Len(d2) = n + 1
      /\ \A j \in 1 .. n : d2[j] = q[j]
      /\ d2[n + 1] = x
  BY <1>2, <1>3, AppendProperties
<1> DEFINE f == [j \in 0 .. n + 1 |-> IF j = n + 1 THEN a ELSE e[j]]
<1> HIDE DEF n, d2
<1>5. f \in [0 .. n + 1 -> 0 .. a] /\ f[n + 1] = a /\ \A j \in 0 .. n : f[j] = e[j]
  <2>1. \A j \in 0 .. n : e[j] \in 0 .. a
    BY <1>1, <1>2
  <2>2. \A j \in 0 .. n + 1 : j # n + 1 => j \in 0 .. n
    BY <1>2
  <2>3. n + 1 \in 0 .. n + 1 /\ a \in 0 .. a /\ \A j \in 0 .. n : j \in 0 .. n + 1 /\ j # n + 1
    BY <1>2
  <2> QED BY <2>1, <2>2, <2>3
<1> HIDE DEF f
<1>6. ASSUME NEW j \in 1 .. n + 1
      PROVE  f[j - 1] <= f[j] /\ d2[j] = SubSeq(BytesOf[s], f[j - 1] + 1, f[j])
  <2>1. CASE j = n + 1
    <3>1. f[j] = a /\ j - 1 = n /\ f[j - 1] = e[n]
      BY <1>2, <1>5, <2>1
    <3> QED BY <1>1, <1>2, <1>4, <2>1, <3>1 DEF x
  <2>2. CASE j # n + 1
    <3>1. j \in 1 .. n /\ j - 1 \in 0 .. n /\ j \in 0 .. n
      BY <1>2, <2>2
    <3>2. f[j] = e[j] /\ f[j - 1] = e[j - 1]
      BY <1>5, <3>1
    <3> QED BY <1>1, <1>4, <3>1, <3>2
  <2> QED BY <2>1, <2>2
<1>7. f[0] = b
  BY <1>1, <1>2, <1>5
<1>8. /\ f \in [0 .. Len(d2) -> 0 .. a] /\ f[0] = b /\ f[Len(d2)] = a
      /\ \A j \in 1 .. Len(d2) : f[j - 1] <= f[j] /\ d2[j] = SubSeq(BytesOf[s], f[j - 1] + 1, f[j])
  BY <1>4, <1>5, <1>6, <1>7
<1>9. Chunks(s, b, a, d2)
  BY <1>4, <1>8 DEF Chunks
<1> QED BY <1>9 DEF d2, x

LEMMA NoChunks ==
  ASSUME NEW s \in Sessions, NEW a \in Bytes
  PROVE  Chunks(s, a, a, <<>>)
<1> DEFINE e == [j \in 0 .. 0 |-> a]
<1>1. a \in Nat /\ Len(<<>>) = 0 /\ <<>> \in Seq(Parts(s))
  BY EndsAreNumbers
<1>2. e \in [0 .. 0 -> 0 .. a] /\ e[0] = a
  BY <1>1
<1> HIDE DEF e
<1>3. e \in [0 .. Len(<<>>) -> 0 .. a] /\ e[Len(<<>>)] = a /\ \A j \in 1 .. Len(<<>>) : FALSE
  BY <1>1, <1>2
<1> QED BY <1>1, <1>2, <1>3 DEF Chunks

LEMMA OneChunk ==
  ASSUME NEW s \in Sessions, NEW b \in Bytes, NEW a \in Bytes, b <= a
  PROVE  Chunks(s, b, a, <<SubSeq(BytesOf[s], b + 1, a)>>)
<1> DEFINE x == SubSeq(BytesOf[s], b + 1, a)
<1>1. Chunks(s, b, a, Append(<<>>, x))
  BY NoChunks, ChunksAppend
<1> HIDE DEF x
<1>2. Append(<<>>, x) = <<x>>
  OBVIOUS
<1> QED BY <1>1, <1>2 DEF x

LEMMA ChunksTail ==
  ASSUME NEW s \in Sessions, NEW b \in Bytes, NEW a \in Bytes, NEW q, Chunks(s, b, a, q), q # <<>>
  PROVE  \E r \in Bytes : b <= r /\ r <= a /\ Head(q) = SubSeq(BytesOf[s], b + 1, r) /\ Chunks(s, r, a, Tail(q))
<1> DEFINE n == Len(q)
           rest == Tail(q)
           m == n - 1
<1>1. PICK e \in [0 .. n -> 0 .. a] :
        /\ e[0] = b /\ e[n] = a
        /\ \A j \in 1 .. n : e[j - 1] <= e[j] /\ q[j] = SubSeq(BytesOf[s], e[j - 1] + 1, e[j])
  BY DEF Chunks
<1>2. q \in Seq(Parts(s)) /\ n \in Nat /\ n > 0 /\ a \in Nat
  BY EmptySeq, LenProperties, EndsAreNumbers DEF Chunks
<1>3. /\ Head(q) = q[1] /\ rest \in Seq(Parts(s)) /\ Len(rest) = m
      /\ \A i \in 1 .. m : rest[i] = q[i + 1]
  BY <1>2, HeadTailProperties
<1>4. m \in Nat /\ m + 1 = n /\ 1 \in 1 .. n /\ 1 - 1 = 0 /\ 1 \in 0 .. n
  BY <1>2
<1> DEFINE f == [j \in 0 .. m |-> e[j + 1]]
<1> HIDE DEF n, m, rest
<1>5. f \in [0 .. m -> 0 .. a] /\ \A j \in 0 .. m : f[j] = e[j + 1]
  <2>1. \A j \in 0 .. m : j + 1 \in 0 .. n
    BY <1>2, <1>4
  <2>2. \A j \in 0 .. m : e[j + 1] \in 0 .. a
    BY <1>1, <2>1
  <2> QED BY <2>2
<1> HIDE DEF f
<1> DEFINE r == e[1]
<1>6. r \in 0 .. a /\ b <= r /\ q[1] = SubSeq(BytesOf[s], b + 1, r)
  BY <1>1, <1>4
<1>7. r \in Bytes
  BY <1>6, EndsAreNumbers DEF Bytes
<1>8. f[0] = r /\ f[m] = a
  <2>1. 0 \in 0 .. m /\ m \in 0 .. m /\ 0 + 1 = 1
    BY <1>4
  <2> QED BY <1>1, <1>4, <1>5, <2>1
<1>9. ASSUME NEW j \in 1 .. m
      PROVE  f[j - 1] <= f[j] /\ rest[j] = SubSeq(BytesOf[s], f[j - 1] + 1, f[j])
  <2> DEFINE i == j + 1
  <2>1. i \in 1 .. n /\ i - 1 = j /\ j \in 0 .. m /\ j - 1 \in 0 .. m /\ (j - 1) + 1 = j
    BY <1>2, <1>4
  <2>2. e[i - 1] <= e[i] /\ q[i] = SubSeq(BytesOf[s], e[i - 1] + 1, e[i])
    BY <1>1, <2>1
  <2>3. f[j] = e[i] /\ f[j - 1] = e[j] /\ rest[j] = q[i]
    BY <1>3, <1>5, <2>1
  <2> HIDE DEF i
  <2> QED BY <2>1, <2>2, <2>3
<1> HIDE DEF r
<1>10. /\ f \in [0 .. Len(rest) -> 0 .. a] /\ f[0] = r /\ f[Len(rest)] = a
       /\ \A j \in 1 .. Len(rest) : f[j - 1] <= f[j] /\ rest[j] = SubSeq(BytesOf[s], f[j - 1] + 1, f[j])
  BY <1>3, <1>5, <1>8, <1>9
<1>11. Chunks(s, r, a, rest)
  BY <1>3, <1>10 DEF Chunks
<1>12. r <= a
  BY <1>2, <1>6
<1> QED BY <1>3, <1>6, <1>7, <1>11, <1>12 DEF rest

LEMMA ShowsOutput ==
  ASSUME ClientTyped, ClientTyped', Shows, Clean', NEW s \in Sessions, limit.bytes \in Nat,
         NEW n \in 1 .. limit.bytes - arrived[s], Output(s, n)
  PROVE  Shows'
<1>1. /\ arrived[s]' = arrived[s] + n
      /\ \A t \in Sessions : t # s => arrived[t]' = arrived[t]
      /\ \A t \in Sessions : Complete(t) <= Complete(t)'
  BY OutputGrows
<1>2. /\ UNCHANGED <<kind, at, attached, offset, known, decoder, tail, screen>>
      /\ attached \in {0} \cup Sessions
  BY DEF Output, ClientTyped
<1>3. \A t \in Sessions : Complete(t) \in Nat /\ Complete(t)' \in Nat
  <2>1. ASSUME NEW t \in Sessions PROVE Complete(t) \in Nat /\ Complete(t)' \in Nat
    <3>1. Complete(t) \in 0 .. NChars
      BY ArrivedIs
    <3>2. arrived[t]' \in Bytes
      BY DEF ClientTyped
    <3>3. Complete(t)' = Whole[arrived[t]']
      BY DEF Complete
    <3> DEFINE a == arrived[t]'
    <3> HIDE DEF a
    <3>4. Whole[a] \in 0 .. NChars
      BY <3>2, WholeIs DEF a
    <3> QED BY <3>1, <3>3, <3>4, EndsAreNumbers DEF a
  <2> QED BY <2>1
<1>4. CASE kind \notin Sockets
  <2>1. down' = down
    BY <1>4 DEF Output, Following
  <2>2. PollShows
    BY <1>4 DEF Shows
  <2>3. attached # 0 /\ offset \in 0 .. Complete(attached) => offset \in 0 .. Complete(attached)'
    BY <1>1, <1>2, <1>3
  <2>4. PollShows'
    BY <1>2, <2>1, <2>2, <2>3 DEF PollShows
  <2> QED BY <1>2, <1>4, <2>4 DEF Shows
<1>5. CASE kind \in Sockets
  <2> DEFINE a == attached
             chunk == SubSeq(BytesOf[s], arrived[s] + 1, arrived[s] + n)
             chars == Whole[arrived[s] + n] - Complete(s)
  <2>1. SocketShows
    BY <1>5 DEF Shows
  <2>2. PICK c \in 0 .. NChars :
          /\ screen = Chars(a, 0, c)
          /\ kind = "browser" => known = c
          /\ IF a = 0 THEN c = 0 ELSE c <= Complete(a)
          /\ at = "open" => \E b \in Bytes : Decoding(a, c, b)
    BY <2>1 DEF SocketShows
  <2>3. a # 0 => c <= Complete(a)'
    <3> SUFFICES ASSUME a # 0 PROVE c <= Complete(a)'
      OBVIOUS
    <3>1. a \in Sessions
      BY <1>2
    <3>2. Complete(a) <= Complete(a)' /\ Complete(a) \in Nat /\ Complete(a)' \in Nat /\ c \in Nat
      BY <1>1, <1>2, <1>3, <3>1
    <3>3. c <= Complete(a)
      BY <2>2
    <3> QED BY <3>2, <3>3
  <2>4. at # "open" => down' = down
    BY DEF Output, Following
  <2>5. ASSUME at = "open", NEW b \in Bytes, Decoding(a, c, b) PROVE Decoding(a, c, b)'
    <3>1. a \in Sessions
      BY <1>2, <2>1, <2>5 DEF SocketShows
    <3>0. Chunks(a, b, arrived[a], down)
      BY <2>5 DEF Decoding
    <3>2. Chunks(a, b, arrived'[a], down')
      <4>1. CASE a = s
        <5>1. Following(s)
          BY <1>5, <2>5, <4>1 DEF Following
        <5>2. chars > 0
          <6>1. Whole[arrived[s] + n] = Complete(s)'
            BY <1>1 DEF Complete
          <6>2. chars \in Nat
            BY <1>1, <1>3, <6>1
          <6>3. chars = 0 => "split" \in reasons'
            BY <5>1 DEF Output, Excused, When
          <6>4. "split" \notin reasons'
            BY DEF Clean
          <6> QED BY <6>2, <6>3, <6>4
        <5>3. down' = Append(down, chunk)
          BY <5>1, <5>2 DEF Output
        <5> DEFINE z == arrived[s] + n
                   y == arrived[s]
        <5>4. y \in Bytes /\ z \in Bytes /\ y <= z
          <6>1. arrived[s] \in Nat /\ arrived[s] \in Bytes
            BY ArrivedIs
          <6>2. arrived[s]' \in Bytes
            BY DEF ClientTyped
          <6> QED BY <1>1, <6>1, <6>2
        <5>5. Chunks(s, b, y, down) /\ arrived'[a] = z /\ down' = Append(down, SubSeq(BytesOf[s], y + 1, z))
          BY <1>1, <3>0, <4>1, <5>3
        <5> HIDE DEF y, z
        <5>6. Chunks(s, b, z, Append(down, SubSeq(BytesOf[s], y + 1, z)))
          BY <5>4, <5>5, ChunksAppend
        <5> QED BY <4>1, <5>5, <5>6
      <4>2. CASE a # s
        <5>1. down' = down
          BY <4>2 DEF Output, Following
        <5>2. arrived'[a] = arrived[a]
          BY <1>1, <3>1, <4>2
        <5> QED BY <3>0, <5>1, <5>2
      <4> QED BY <4>1, <4>2
    <3> QED BY <2>5, <1>2, <3>2 DEF Decoding, TailAt
  <2>6. SocketShows'
    <3>1. /\ at' # "open" => down' = <<>>
          /\ at' = "asking" => /\ decoder' = NoByte
                               /\ offset' = IF kind' = "browser" /\ known' > 0 THEN known' ELSE NoOffset
          /\ at' = "open" => attached' # 0
      BY <1>2, <2>1, <2>4 DEF SocketShows
    <3>2. /\ screen' = Chars(attached', 0, c)
          /\ kind' = "browser" => known' = c
          /\ IF attached' = 0 THEN c = 0 ELSE c <= Complete(attached)'
      BY <1>2, <2>2, <2>3
    <3>3. at' = "open" => \E b \in Bytes : Decoding(attached, c, b)'
      BY <1>2, <2>2, <2>5
    <3> QED BY <3>1, <3>2, <3>3 DEF SocketShows
  <2> QED BY <1>2, <1>5, <2>6 DEF Shows
<1> QED BY <1>4, <1>5

(* Connecting, losing the connection and leaving: nothing is on its way    *)
(* any more, or not yet.                                                   *)
LEMMA ShowsConnect ==
  ASSUME Shows, Connect
  PROVE  Shows'
<1>1. SocketShows /\ kind \in Sockets /\ at = "waiting"
  BY DEF Shows, Connect
<1>2. /\ UNCHANGED <<kind, arrived, attached, known, tail, screen, down>> /\ at' = "asking"
      /\ decoder' = NoByte
      /\ offset' = IF kind = "browser" /\ known > 0 THEN known ELSE NoOffset
  BY DEF Connect
<1>3. SocketShows'
  BY <1>1, <1>2 DEF SocketShows, Complete
<1> QED BY <1>1, <1>2, <1>3 DEF Shows

LEMMA ShowsLost ==
  ASSUME Shows, UNCHANGED <<kind, arrived, attached, offset, known, decoder, tail, screen>>,
         at' \notin {"asking", "open"}, down' = <<>>
  PROVE  Shows'
<1>1. SocketShows => SocketShows'
  BY DEF SocketShows, Complete
<1>2. PollShows => PollShows'
  BY DEF PollShows, Complete
<1> QED BY <1>1, <1>2 DEF Shows

(* A step that is clean adds none of the reasons to be unclean.            *)
LEMMA NoReason ==
  ASSUME Clean', NEW p \in BOOLEAN, NEW why, why \notin {"closed", "left"}, When(p, why) \subseteq reasons'
  PROVE  ~p
  BY DEF Clean, When

LEMMA ShowsAttach ==
  ASSUME ClientTyped, Shows, Clean', Attach
  PROVE  Shows'
<1>0. PICK a \in Sessions : a = Target
  BY TargetIsSession
<1>00. PICK A \in Bytes : A = arrived[a]
  BY ArrivedIs
<1> DEFINE C == Whole[A]
<1>1. SocketShows /\ kind \in Sockets /\ at = "asking"
  BY DEF Shows, Attach
<1>2. PICK c \in 0 .. NChars :
        /\ screen = Chars(attached, 0, c)
        /\ kind = "browser" => known = c
        /\ IF attached = 0 THEN c = 0 ELSE c <= Complete(attached)
  BY <1>1 DEF SocketShows
<1>3. /\ UNCHANGED <<kind, arrived, offset, known, decoder, tail, screen>> /\ at' = "open" /\ attached' = a
      /\ down' = IF Replay(a, offset) = <<>> THEN <<>> ELSE <<Replay(a, offset)>>
  BY <1>0 DEF Attach
<1>4. a # 0 /\ Complete(a) = C
  BY <1>00 DEF Sessions, Complete
<1>5. /\ ~(offset < RingStart(a) /\ RingStart(a) > 0)
      /\ Between(a)
      /\ attached \in {0, a}
      /\ ~(kind = "terminal" /\ attached # 0)
  <2> DEFINE P1 == offset < RingStart(a) /\ RingStart(a) > 0
             P2 == ~Between(a)
             P3 == attached \notin {0, a}
             P4 == kind = "terminal" /\ attached # 0
  <2>1. reasons' = reasons \cup (When(P1, "trimmed") \cup When(P2, "split")
                                 \cup When(P3, "moved") \cup When(P4, "again"))
    BY <1>0 DEF Attach, Excused
  <2>2. P1 \in BOOLEAN /\ P2 \in BOOLEAN /\ P3 \in BOOLEAN /\ P4 \in BOOLEAN
    BY DEF Between
  <2> HIDE DEF P1, P2, P3, P4
  <2>3. When(P1, "trimmed") \subseteq reasons'
    BY <2>1
  <2>4. When(P2, "split") \subseteq reasons'
    BY <2>1
  <2>5. When(P3, "moved") \subseteq reasons'
    BY <2>1
  <2>6. When(P4, "again") \subseteq reasons'
    BY <2>1
  <2>7. ~P1
    BY <2>2, <2>3, NoReason
  <2>8. ~P2
    BY <2>2, <2>4, NoReason
  <2>9. ~P3
    BY <2>2, <2>5, NoReason
  <2>10. ~P4
    BY <2>2, <2>6, NoReason
  <2> QED BY <2>7, <2>8, <2>9, <2>10 DEF P1, P2, P3, P4
<1>6. /\ A \in Bytes /\ A \in Nat /\ C \in 0 .. NChars /\ C \in Nat /\ c \in Nat
      /\ A = ByteEnd[C] /\ RingStart(a) \in Nat
  <2>1. A \in Bytes /\ A \in Nat /\ C \in 0 .. NChars
    BY <1>00, <1>4, ArrivedIs
  <2>2. RingStart(a) \in Nat
    <3>1. C \in Nat /\ MaxBufferChars \in Nat
      BY <2>1, EndsAreNumbers, ViewerClientAssumption
    <3> HIDE DEF C
    <3> QED BY <1>4, <3>1 DEF RingStart, Larger
  <2> QED BY <1>00, <1>4, <1>5, <2>1, <2>2, EndsAreNumbers DEF Between
<1>7. c <= C
  BY <1>2, <1>4, <1>5, <1>6
<1>8. (offset = c /\ c > 0) \/ (offset = NoOffset /\ c = 0)
  <2>1. offset = IF kind = "browser" /\ known > 0 THEN known ELSE NoOffset
    BY <1>1 DEF SocketShows
  <2>2. kind = "browser" \/ attached = 0
    BY <1>1, <1>5 DEF Sockets
  <2>3. CASE kind = "browser"
    <3>1. known = c
      BY <1>2, <2>3
    <3>2. c > 0 \/ c = 0
      BY <1>6
    <3>3. CASE c > 0
      BY <2>1, <2>3, <3>1, <3>3
    <3>4. CASE c = 0
      BY <2>1, <2>3, <3>1, <3>4
    <3> QED BY <3>2, <3>3, <3>4
  <2>4. CASE kind # "browser"
    BY <1>2, <2>1, <2>2, <2>4
  <2> QED BY <2>3, <2>4
<1> DEFINE b == ByteEnd[c]
           X == SubSeq(BytesOf[a], b + 1, A)
           R == Replay(a, offset)
<1>9. R = X \/ (c = C /\ R = <<>>)
  <2>1. RingBytes(a, c) = X
    BY <1>4, <1>6 DEF RingBytes
  <2>2. CASE offset = NoOffset /\ c = 0
    <3>1. RingStart(a) = 0 /\ ~(offset >= RingStart(a))
      BY <1>5, <1>6, <2>2 DEF NoOffset
    <3>2. R = RingBytes(a, 0)
      BY <3>1 DEF Replay
    <3> HIDE DEF R, X
    <3> QED BY <2>1, <2>2, <3>2
  <2>3. CASE offset = c /\ c > 0
    <3>1. offset >= RingStart(a)
      BY <1>5, <1>6, <2>3
    <3>2. R = IF c < C THEN RingBytes(a, c) ELSE <<>>
      BY <1>4, <2>3, <3>1 DEF Replay
    <3> HIDE DEF R, X, C
    <3> QED BY <1>6, <1>7, <2>1, <3>2
  <2> QED BY <1>8, <2>2, <2>3
<1>10. b \in Bytes /\ b \in Nat /\ b <= A /\ Whole[b] = c
  <2>1. b \in Bytes /\ Whole[b] = c /\ b \in Nat /\ (c = C \/ c < C)
    BY <1>2, <1>6, <1>7, EndsAreNumbers, WholeOfEnd
  <2>2. c < C => ByteEnd[c] < ByteEnd[C]
    BY <1>2, <1>6, EndsAreNumbers
  <2>3. b <= A
    BY <1>6, <2>1, <2>2
  <2> QED BY <2>1, <2>3
<1>11. Chunks(a, b, A, down')
  <2>1. Len(X) = A - b /\ Chunks(a, b, A, <<X>>)
    BY <1>10, PartIs, OneChunk
  <2>2. R = <<>> => A = b
    <3> SUFFICES ASSUME R = <<>> PROVE A = b
      OBVIOUS
    <3>1. CASE c = C
      BY <1>6, <3>1
    <3>2. CASE c # C
      <4>1. X = <<>>
        BY <1>9, <3>2
      <4> HIDE DEF X, b
      <4>2. A - b = 0
        BY <2>1, <4>1
      <4> QED BY <1>6, <1>10, <4>2
    <3> QED BY <3>1, <3>2
  <2>3. CASE R = <<>>
    <3>1. down' = <<>> /\ b = A
      BY <1>3, <2>2, <2>3
    <3> HIDE DEF b
    <3> QED BY <3>1, NoChunks
  <2>4. CASE R # <<>>
    <3>1. CASE R = X
      BY <1>3, <2>1, <2>4, <3>1
    <3>2. CASE R # X
      BY <1>9, <2>4, <3>2
    <3> QED BY <3>1, <3>2
  <2> QED BY <2>3, <2>4
<1>12. Chars(attached, 0, c) = Chars(a, 0, c)
  <2>1. CASE attached = 0
    <3>1. c = 0 /\ 1 .. 0 - 0 = {}
      BY <1>2, <2>1
    <3> QED BY <3>1 DEF Chars
  <2>2. CASE attached # 0
    BY <1>5, <2>2
  <2> QED BY <2>1, <2>2
<1>13. Decoding(a, c, b)'
  <2>1. Whole[b] = c /\ b = ByteEnd[c]
    BY <1>10
  <2>2. kind' = "browser" => decoder' = TailAt(a, b)
    <3>1. TailAt(a, b) = NoByte
      BY <1>10 DEF TailAt
    <3> QED BY <1>1, <1>3, <3>1 DEF SocketShows
  <2>3. arrived'[a] = A
    BY <1>00, <1>3
  <2> HIDE DEF b
  <2>4. TailAt(a, b)' = TailAt(a, b)
    BY DEF TailAt
  <2> QED BY <1>11, <2>1, <2>2, <2>3, <2>4 DEF Decoding
<1>14. /\ at' = "open" /\ attached' # 0
       /\ screen' = Chars(attached', 0, c)
       /\ kind' = "browser" => known' = c
       /\ c <= Complete(attached)'
  <2>1. Complete(attached)' = C
    BY <1>00, <1>3 DEF Complete
  <2> QED BY <1>2, <1>3, <1>4, <1>7, <1>12, <2>1
<1>15. \E k \in Bytes : Decoding(attached, c, k)'
  BY <1>3, <1>10, <1>13 DEF Decoding
<1> HIDE DEF b, C
<1>16. SocketShows'
  BY <1>14, <1>15 DEF SocketShows
<1> QED BY <1>1, <1>3, <1>16 DEF Shows

LEMMA ShowsReceive ==
  ASSUME ClientTyped, Shows, Receive
  PROVE  Shows'
<1>1. down # <<>> /\ down' = Tail(down)
  BY DEF Receive
<1>2. /\ UNCHANGED <<kind, arrived, at, attached, offset>>
      /\ kind \notin Sockets => ~PollShows
  BY <1>1 DEF Receive, PollShows
<1>3. kind \in Sockets /\ SocketShows
  BY <1>2 DEF Shows
<1>4. at = "open" /\ attached \in Sessions /\ attached # 0
  BY <1>1, <1>3 DEF SocketShows, ClientTyped
<1>5. PICK a \in Sessions : a = attached /\ a # 0
  BY <1>4
<1>6. PICK A \in Bytes : A = arrived[a]
  BY ArrivedIs
<1>7. PICK c \in 0 .. NChars, b \in Bytes :
        /\ screen = Chars(a, 0, c)
        /\ kind = "browser" => known = c
        /\ c <= Whole[A]
        /\ Decoding(a, c, b)
  BY <1>3, <1>4, <1>5, <1>6 DEF SocketShows, Complete
<1>8. /\ Whole[b] = c
      /\ tail = TailAt(a, b) \/ b = ByteEnd[Whole[b]]
      /\ kind = "browser" => decoder = TailAt(a, b)
      /\ Chunks(a, b, A, down)
  BY <1>6, <1>7 DEF Decoding
<1>9. PICK e \in Bytes :
        /\ b <= e /\ e <= A /\ Head(down) = SubSeq(BytesOf[a], b + 1, e)
        /\ Chunks(a, e, A, Tail(down))
  BY <1>1, <1>8, ChunksTail
<1> DEFINE d == Whole[e]
           page == Decoded(decoder, Head(down))
           term == Decoded(tail, Head(down))
<1>10. /\ c \in Nat /\ d \in 0 .. NChars /\ d \in Nat /\ c <= d /\ d <= Whole[A] /\ Whole[A] \in Nat
  <2>1. c <= d /\ d \in 0 .. NChars
    BY <1>8, <1>9, WholeMonotone
  <2>2. d <= Whole[A] /\ Whole[A] \in 0 .. NChars
    BY <1>9, WholeMonotone
  <2> HIDE DEF d
  <2> QED BY <2>1, <2>2, EndsAreNumbers
<1>11. term.chars = Chars(a, c, d) /\ (term.tail = TailAt(a, e) \/ e = ByteEnd[d])
  <2> DEFINE x == Decoded(tail, SubSeq(BytesOf[a], b + 1, e))
  <2>1. x.chars = Chars(a, Whole[b], Whole[e]) /\ (x.tail = TailAt(a, e) \/ e = ByteEnd[Whole[e]])
    BY <1>8, <1>9, DecodedChunk
  <2>2. x = term
    BY <1>9
  <2> HIDE DEF x, term
  <2> QED BY <1>8, <2>1, <2>2
<1>12. kind = "browser" => page.chars = Chars(a, c, d) /\ page.tail = TailAt(a, e) /\ page.bad = 0
  <2> SUFFICES ASSUME kind = "browser"
               PROVE  page.chars = Chars(a, c, d) /\ page.tail = TailAt(a, e) /\ page.bad = 0
    OBVIOUS
  <2> DEFINE x == Decoded(decoder, SubSeq(BytesOf[a], b + 1, e))
  <2>1. decoder = TailAt(a, b)
    BY <1>8
  <2>2. x.chars = Chars(a, Whole[b], Whole[e]) /\ x.tail = TailAt(a, e) /\ x.bad = 0
    BY <1>9, <2>1, DecodedChunk
  <2>3. x = page
    BY <1>9
  <2> HIDE DEF x, page
  <2> QED BY <1>8, <2>2, <2>3
<1>13. /\ screen' = screen \o term.chars /\ tail' = term.tail
       /\ kind = "browser" => known' = known + Len(page.chars) + page.bad /\ decoder' = page.tail
  BY DEF Receive
<1> HIDE DEF page, term, d
<1>14. screen' = Chars(a, 0, d)
  <2>1. Chars(a, 0, c) \o Chars(a, c, d) = Chars(a, 0, d)
    <3>1. 0 \in Nat /\ 0 <= c
      BY <1>10
    <3> QED BY <1>10, <3>1, CharsMeet
  <2> QED BY <1>7, <1>11, <1>13, <2>1
<1>15. kind = "browser" => known' = d /\ decoder' = TailAt(a, e)
  <2> SUFFICES ASSUME kind = "browser" PROVE known' = d /\ decoder' = TailAt(a, e)
    OBVIOUS
  <2>1. Len(Chars(a, c, d)) = d - c
    BY <1>10, CharsLength
  <2>2. known' = c + (d - c) + 0
    BY <1>7, <1>12, <1>13, <2>1
  <2> QED BY <1>10, <1>12, <1>13, <2>2
<1>16. Decoding(a, d, e)'
  <2>1. TailAt(a, e)' = TailAt(a, e)
    BY DEF TailAt
  <2>2. arrived'[a] = A /\ kind' = kind
    BY <1>2, <1>6
  <2>3. Whole[e] = d
    BY DEF d
  <2>4. tail' = TailAt(a, e) \/ e = ByteEnd[d]
    BY <1>11, <1>13
  <2>5. Chunks(a, e, A, down')
    BY <1>1, <1>9
  <2> QED BY <1>15, <2>1, <2>2, <2>3, <2>4, <2>5 DEF Decoding
<1>17. /\ at' = "open" /\ attached' = a
       /\ screen' = Chars(attached', 0, d)
       /\ kind' = "browser" => known' = d
       /\ d <= Complete(attached)'
  <2>1. Complete(attached)' = Whole[A]
    BY <1>2, <1>5, <1>6 DEF Complete
  <2> QED BY <1>2, <1>4, <1>5, <1>10, <1>14, <1>15, <2>1
<1>18. \E k \in Bytes : Decoding(attached, d, k)'
  BY <1>16, <1>17 DEF Decoding
<1>19. SocketShows'
  BY <1>5, <1>10, <1>17, <1>18 DEF SocketShows
<1> QED BY <1>2, <1>3, <1>19 DEF Shows

(* The characters from one place to another of those that follow one       *)
(* another.                                                                *)
Cuts(s, k, l, m, n) == SubSeq(Chars(s, k, n), l - k + 1, m - k) = Chars(s, l, m)

LEMMA CharsPart ==
  ASSUME NEW s, NEW k \in Nat, NEW l \in Nat, NEW m \in Nat, NEW n \in Nat, k <= l, l <= m, m <= n
  PROVE  Cuts(s, k, l, m, n)
<1> DEFINE A == Chars(s, k, n)
           p == l - k + 1
           q == m - k
           B == SubSeq(A, p, q)
           C == Chars(s, l, m)
           T == {<<s, i>> : i \in Nat}
<1>1. /\ n - k \in Nat /\ m - l \in Nat /\ p \in 1 .. n - k + 1 /\ q \in p - 1 .. n - k
      /\ (IF p <= q THEN q - p + 1 ELSE 0) = m - l /\ q - p + 1 = m - l
  OBVIOUS
<1>2. A = [i \in 1 .. n - k |-> <<s, k + i>>] /\ C = [i \in 1 .. m - l |-> <<s, l + i>>]
  BY DEF Chars
<1> HIDE DEF A, C
<1>3. /\ A \in [1 .. n - k -> T] /\ \A i \in 1 .. n - k : A[i] = <<s, k + i>> /\ A[i] \in T
      /\ C \in [1 .. m - l -> T] /\ \A i \in 1 .. m - l : C[i] = <<s, l + i>>
  <2>1. \A i \in Nat : <<s, i>> \in T
    OBVIOUS
  <2>2. \A i \in 1 .. n - k : k + i \in Nat
    OBVIOUS
  <2>3. \A i \in 1 .. m - l : l + i \in Nat
    OBVIOUS
  <2> HIDE DEF T
  <2> QED BY <1>2, <2>1, <2>2, <2>3
<1> HIDE DEF T
<1>4. A \in Seq(T) /\ Len(A) = n - k /\ C \in Seq(T) /\ Len(C) = m - l
  BY <1>1, <1>3, FunctionIsSeq
<1>w. \A i \in 1 .. m - l : p + i - 1 \in 1 .. n - k /\ k + (p + i - 1) = l + i
  OBVIOUS
<1>x. \A i \in p .. q : i \in 1 .. n - k
  OBVIOUS
<1> HIDE DEF p, q
<1>5. B \in Seq(T) /\ Len(B) = m - l /\ \A i \in 1 .. m - l : B[i] = A[p + i - 1]
  <2>1. \A i \in p .. q : A[i] \in T
    BY <1>3, <1>x
  <2>2. /\ B \in Seq(T) /\ Len(B) = (IF p <= q THEN q - p + 1 ELSE 0)
        /\ \A i \in 1 .. q - p + 1 : B[i] = A[p + i - 1]
    BY <1>1, <1>4, <2>1, SubSeqProperties
  <2> QED BY <1>1, <2>2
<1> HIDE DEF B
<1>6. ASSUME NEW i \in 1 .. m - l PROVE B[i] = C[i]
  BY <1>3, <1>5, <1>w
<1>7. B = C
  BY <1>4, <1>5, <1>6, SeqEqual
<1> QED BY <1>7 DEF Cuts, A, B, C, p, q

(* The page that a viewer is given, of the ring that ends with the last    *)
(* complete character.                                                     *)
LEMMA PageOfRing ==
  ASSUME ClientTyped, NEW a \in Sessions, NEW o \in Nat \cup {NoOffset},
         o # NoOffset => o <= Complete(a) /\ RingStart(a) <= o
  PROVE  LET page == Snapshot(RingStart(a), Ring(a), o, PageChars) IN
         \E l \in Nat, m \in Nat :
           /\ l <= m /\ m <= Complete(a)
           /\ o # NoOffset => l = o
           /\ page.output = Chars(a, l, m) /\ page.nextOffset = m
<1> DEFINE r == RingStart(a)
           C == Complete(a)
           R == Ring(a)
           page == Snapshot(r, R, o, PageChars)
           size == PageSize(PageChars)
<1>1. C \in Nat /\ MaxBufferChars \in Nat /\ PageChars \in Nat /\ DefaultReadChars \in Nat \ {0}
  BY ArrivedIs, EndsAreNumbers, ViewerClientAssumption, DefaultAssumption
<1>2. r \in Nat /\ r <= C
  <2> HIDE DEF C
  <2> QED BY <1>1 DEF RingStart, Larger, C
<1>3. R = Chars(a, r, C)
  BY DEF Ring, Chars
<1>4. size \in Nat /\ size > 0
  BY <1>1 DEF PageSize
<1>5. Len(R) = C - r
  BY <1>1, <1>2, <1>3, CharsLength
<1> DEFINE end == r + Len(R)
           first == EffectiveOffset(r, end, o, size)
           last == Smaller(first + size, end)
<1>6. page.output = SubSeq(R, first - r + 1, last - r) /\ page.nextOffset = last
  BY DEF Snapshot
<1> HIDE DEF r, C, R, page, size
<1>7. end = C
  BY <1>1, <1>2, <1>5
<1> HIDE DEF end
<1>8. /\ first \in Nat /\ r <= first /\ first <= C
      /\ o # NoOffset => first = o
  BY <1>1, <1>2, <1>4, <1>7 DEF EffectiveOffset, Larger, Smaller, r, C, NoOffset
<1> HIDE DEF first
<1>9. last \in Nat /\ first <= last /\ last <= C
  BY <1>1, <1>4, <1>7, <1>8 DEF Smaller
<1> HIDE DEF last
<1>10. SubSeq(R, first - r + 1, last - r) = Chars(a, first, last)
  <2>1. Cuts(a, r, first, last, C)
    BY <1>1, <1>2, <1>8, <1>9, CharsPart
  <2> QED BY <1>3, <2>1 DEF Cuts
<1> QED BY <1>6, <1>8, <1>9, <1>10 DEF page, r, C, R

LEMMA ShowsPoll ==
  ASSUME ClientTyped, Shows, Clean', Poll
  PROVE  Shows'
<1>1. PollShows /\ kind \notin Sockets
  BY DEF Shows, Poll
<1>2. /\ UNCHANGED <<kind, arrived, offset, screen, down>> /\ at' = "asking" /\ attached' = Target
      /\ Target \in Sessions /\ Target # 0
  BY TargetIsSession DEF Poll, Sessions
<1>3. attached \in {0, Target}
  <2> DEFINE P == attached \notin {0, Target}
  <2>1. When(P, "moved") \subseteq reasons'
    BY DEF Poll, Excused
  <2>2. P \in BOOLEAN
    OBVIOUS
  <2> HIDE DEF P
  <2>3. ~P
    BY <2>1, <2>2, NoReason
  <2> QED BY <2>3 DEF P
<1>4. attached # 0 => attached' = attached
  BY <1>2, <1>3
<1>5. PollShows'
  <2>1. CASE attached # 0
    BY <1>1, <1>2, <1>4, <2>1 DEF PollShows, Complete
  <2>2. CASE attached = 0
    BY <1>1, <1>2, <2>2 DEF PollShows
  <2> QED BY <2>1, <2>2
<1> QED BY <1>1, <1>2, <1>5 DEF Shows

LEMMA ShowsAnswer ==
  ASSUME ClientTyped, Shows, Clean', Answer
  PROVE  Shows'
<1>1. PollShows /\ kind \notin Sockets /\ at = "asking" /\ attached \in Sessions
  BY DEF Shows, Answer, PollShows, ClientTyped
<1>2. PICK a \in Sessions : a = attached /\ a # 0
  BY <1>1 DEF Sessions
<1> DEFINE page == Snapshot(RingStart(a), Ring(a), offset, PageChars)
<1>3. /\ UNCHANGED <<kind, arrived, attached, down>> /\ at' \in {"waiting", "stopped"}
      /\ screen' = screen \o page.output /\ offset' = page.nextOffset
  BY <1>2 DEF Answer, NextOffset
<1>4. offset # NoOffset => ~page.truncatedBefore
  <2> DEFINE P == offset # NoOffset /\ page.truncatedBefore
             Q == When((PageEnds(session[attached] # "open") \/ PollerEnds(session[attached] # "open"))
                         /\ page.truncatedAfter, "closed")
  <2>1. reasons' = reasons \cup (When(P, "trimmed") \cup Q)
    BY <1>2 DEF Answer, Excused
  <2>2. P \in BOOLEAN
    <3> HIDE DEF page
    <3> QED OBVIOUS
  <2> HIDE DEF P, Q, page
  <2>3. When(P, "trimmed") \subseteq reasons'
    BY <2>1
  <2>4. ~P
    BY <2>2, <2>3, NoReason
  <2> QED BY <2>4 DEF P
<1>5. /\ Complete(a) \in Nat /\ RingStart(a) \in Nat
      /\ offset \in Nat \cup {NoOffset}
      /\ offset # NoOffset => offset <= Complete(a) /\ RingStart(a) <= offset
  <2>1. Complete(a) \in Nat
    BY ArrivedIs, EndsAreNumbers
  <2>2. RingStart(a) \in Nat
    <3> DEFINE C == Complete(a)
    <3> HIDE DEF C
    <3>1. C \in Nat /\ MaxBufferChars \in Nat
      BY <2>1, ViewerClientAssumption DEF C
    <3> QED BY <3>1 DEF RingStart, Larger, C
  <2>3. offset # NoOffset => offset \in 0 .. Complete(a)
    BY <1>1, <1>2 DEF PollShows
  <2>4. offset # NoOffset => ~(offset < RingStart(a))
    BY <1>4 DEF Snapshot
  <2> QED BY <2>1, <2>2, <2>3, <2>4
<1>6. PICK l \in Nat, m \in Nat :
        /\ l <= m /\ m <= Complete(a)
        /\ offset # NoOffset => l = offset
        /\ page.output = Chars(a, l, m) /\ page.nextOffset = m
  BY <1>5, PageOfRing
<1> HIDE DEF page
<1>7. \E f \in 0 .. m : screen' = Chars(a, f, m)
  <2>1. CASE offset = NoOffset
    <3>1. screen = <<>>
      BY <1>1, <2>1 DEF PollShows
    <3>2. Chars(a, l, l) \o Chars(a, l, m) = Chars(a, l, m)
      <4>1. l <= l
        OBVIOUS
      <4> QED BY <1>6, <4>1, CharsMeet
    <3>3. Chars(a, l, l) = <<>>
      <4>1. 1 .. l - l = {}
        OBVIOUS
      <4> QED BY <4>1 DEF Chars
    <3> QED BY <1>3, <1>6, <3>1, <3>2, <3>3
  <2>2. CASE offset # NoOffset
    <3>1. PICK f \in 0 .. offset : screen = Chars(a, f, offset)
      BY <1>1, <1>2, <2>2 DEF PollShows
    <3>2. offset = l /\ f \in Nat /\ f <= l /\ f \in 0 .. m
      BY <1>5, <1>6, <2>2, <3>1
    <3>3. Chars(a, f, l) \o Chars(a, l, m) = Chars(a, f, m)
      BY <1>6, <3>2, CharsMeet
    <3> QED BY <1>3, <1>6, <3>1, <3>2, <3>3
  <2> QED BY <2>1, <2>2
<1>8. offset' = m /\ m # NoOffset /\ m \in 0 .. Complete(a)
  BY <1>3, <1>5, <1>6 DEF NoOffset
<1>9. Complete(attached)' = Complete(a)
  BY <1>2, <1>3 DEF Complete
<1>10. PollShows'
  BY <1>1, <1>2, <1>3, <1>7, <1>8, <1>9 DEF PollShows
<1> QED BY <1>1, <1>3, <1>10 DEF Shows

LEMMA ShowsFail ==
  ASSUME Shows, Fail
  PROVE  Shows'
<1>1. PollShows /\ kind \notin Sockets
  BY DEF Shows, Fail
<1>2. /\ UNCHANGED <<kind, arrived, attached, offset, screen, down>> /\ at' \in {"waiting", "stopped"}
  BY DEF Fail
<1>3. PollShows'
  BY <1>1, <1>2 DEF PollShows, Complete
<1> QED BY <1>1, <1>2, <1>3 DEF Shows

LEMMA ShowsStep ==
  ASSUME ClientTyped, ClientTyped', Shows, Clean', ClientNext
  PROVE  Shows'
<1>0. limit.bytes \in Nat
  BY ViewerClientAssumption DEF ClientTyped
<1>1. ASSUME NEW s \in Sessions, Close(s) \/ Forget(s) PROVE Shows'
  <2>1. UNCHANGED <<kind, arrived, at, attached, offset, known, decoder, tail, screen, down>>
    BY <1>1 DEF Close, Forget
  <2> QED BY <2>1, ShowsKept
<1>2. ASSUME NEW s \in Sessions, NEW n \in 1 .. limit.bytes - arrived[s], Output(s, n) PROVE Shows'
  BY <1>0, <1>2, ShowsOutput
<1>3. CASE Move
  <2>1. UNCHANGED <<kind, arrived, at, attached, offset, known, decoder, tail, screen, down>>
    BY <1>3 DEF Move
  <2> QED BY <2>1, ShowsKept
<1>4. CASE Connect
  BY <1>4, ShowsConnect
<1>5. CASE Attach
  BY <1>5, ShowsAttach
<1>6. CASE Refused
  <2>1. kind \in Sockets /\ at = "asking"
    BY <1>6 DEF Refused
  <2>2. down = <<>>
    BY <2>1 DEF Shows, SocketShows
  <2>3. /\ UNCHANGED <<kind, arrived, attached, offset, known, decoder, tail, screen>>
        /\ at' \notin {"asking", "open"} /\ down' = <<>>
    BY <1>6, <2>2 DEF Refused
  <2> QED BY <2>3, ShowsLost
<1>7. CASE Receive
  BY <1>7, ShowsReceive
<1>8. CASE Drop
  <2>1. /\ UNCHANGED <<kind, arrived, attached, offset, known, decoder, tail, screen>>
        /\ at' \notin {"asking", "open"} /\ down' = <<>>
    BY <1>8 DEF Drop, Dropped
  <2> QED BY <2>1, ShowsLost
<1>9. CASE Poll
  BY <1>9, ShowsPoll
<1>10. CASE Answer
  BY <1>10, ShowsAnswer
<1>11. CASE Fail
  BY <1>11, ShowsFail
<1>12. CASE Type \/ TypeQueued
  <2>1. UNCHANGED <<kind, arrived, at, attached, offset, known, decoder, tail, screen, down>>
    BY <1>12 DEF Type, TypeQueued, Typing
  <2> QED BY <2>1, ShowsKept
<1>13. ASSUME NEW i \in Sent, Deliver(i) PROVE Shows'
  <2>1. UNCHANGED <<kind, arrived, at, attached, offset, known, decoder, tail, screen, down>>
    BY <1>13 DEF Deliver
  <2> QED BY <2>1, ShowsKept
<1>14. CASE Leave
  <2>1. /\ UNCHANGED <<kind, arrived, attached, offset, known, decoder, tail, screen>>
        /\ at' \notin {"asking", "open"} /\ down' = <<>>
    BY <1>14 DEF Leave
  <2> QED BY <2>1, ShowsLost
<1> QED BY <1>1, <1>2, <1>3, <1>4, <1>5, <1>6, <1>7, <1>8, <1>9, <1>10, <1>11, <1>12, <1>13, <1>14
        DEF ClientNext, SessionNext, ViewerNext

LEMMA ClientInvStep == ClientInv /\ [ClientNext]_clientVars => ClientInv'
<1> SUFFICES ASSUME ClientInv, [ClientNext]_clientVars PROVE ClientInv'
  OBVIOUS
<1>1. CASE ClientNext
  <2>1. ClientTyped /\ ClientTyped'
    BY <1>1, ClientTypedStep DEF ClientInv
  <2>2. Clean' => Shows
    BY <1>1, ReasonsStay DEF ClientInv
  <2>3. Clean' => Shows'
    BY <1>1, <2>1, <2>2, ShowsStep
  <2> QED BY <2>1, <2>3 DEF ClientInv
<1>2. CASE UNCHANGED clientVars
  <2>1. /\ UNCHANGED <<limit, kind, bound, reasons>>
        /\ UNCHANGED <<kind, arrived, at, attached, offset, known, decoder, tail, screen, down>>
    BY <1>2 DEF clientVars
  <2>2. ClientTyped'
    BY <2>1 DEF ClientInv, ClientTyped
  <2>3. Clean' => Shows'
    BY <2>1, ShowsKept DEF ClientInv, Clean
  <2> QED BY <2>2, <2>3 DEF ClientInv
<1> QED BY <1>1, <1>2

LEMMA ClientInvShows == ClientInv => ShownInSequence
<1> SUFFICES ASSUME ClientInv, Clean, NEW i \in 1 .. Len(screen) - 1
             PROVE  screen[i + 1] = <<screen[i][1], screen[i][2] + 1>>
  BY DEF ShownInSequence, Clean
<1>1. \E m \in Nat, n \in Nat : m <= n /\ screen = Chars(attached, m, n)
  <2>1. CASE kind \in Sockets
    <3>1. PICK c \in 0 .. NChars : screen = Chars(attached, 0, c)
      BY <2>1 DEF ClientInv, Shows, SocketShows
    <3>2. c \in Nat /\ 0 <= c
      BY EndsAreNumbers
    <3> QED BY <3>1, <3>2
  <2>2. CASE kind \notin Sockets
    <3>1. PollShows
      BY <2>2 DEF ClientInv, Shows
    <3>2. CASE offset = NoOffset
      <4>1. screen = <<>>
        BY <3>1, <3>2 DEF PollShows
      <4>2. Chars(attached, 0, 0) = <<>>
        BY DEF Chars
      <4> QED BY <4>1, <4>2
    <3>3. CASE offset # NoOffset
      <4>1. PICK f \in 0 .. offset : screen = Chars(attached, f, offset)
        BY <3>1, <3>3 DEF PollShows
      <4>2. attached \in Sessions
        BY <3>1, <3>3 DEF ClientInv, ClientTyped, PollShows
      <4>3. Complete(attached) \in Nat
        BY <4>2, ArrivedIs, EndsAreNumbers DEF ClientInv
      <4>4. offset \in Nat
        BY <3>1, <3>3, <4>3 DEF PollShows
      <4>5. f \in Nat /\ f <= offset
        BY <4>4
      <4> QED BY <4>1, <4>4, <4>5
    <3> QED BY <3>2, <3>3
  <2> QED BY <2>1, <2>2
<1>2. PICK m \in Nat, n \in Nat : m <= n /\ screen = Chars(attached, m, n)
  BY <1>1
<1>3. Len(screen) = n - m /\ \A k \in 1 .. n - m : screen[k] = <<attached, m + k>>
  BY <1>2, CharsLength
<1>4. i \in 1 .. n - m /\ i + 1 \in 1 .. n - m /\ m + (i + 1) = (m + i) + 1
  BY <1>3
<1>5. screen[i] = <<attached, m + i>> /\ screen[i + 1] = <<attached, m + (i + 1)>>
  BY <1>3, <1>4
<1> QED BY <1>4, <1>5

(* A viewer shows the characters of its session one after the other, none  *)
(* twice and none left out, through every loss of its connection, for any  *)
(* number of characters and of losses and any sizes of ring and page,      *)
(* unless one of the reasons that ShownInSequence names has come up        *)
(* (knownRawChars, rawOffset, replayRawBuffer; nextOutputOffset).          *)
THEOREM AlwaysShownInSequence == ClientSpec => []ShownInSequence
<1>1. ClientInit => ClientInv
  BY ClientInvInit
<1>2. ClientInv /\ [ClientNext]_clientVars => ClientInv'
  BY ClientInvStep
<1>3. ClientInv => ShownInSequence
  BY ClientInvShows
<1> QED BY <1>1, <1>2, <1>3, PTL DEF ClientSpec

----------------------------------------------------------------------------
LEMMA KeysInvInit == ClientInit => KeysInv
  BY DEF ClientInit, KeysInv

LEMMA KeysInvTyping ==
  ASSUME KeysInv, Typing, got' = got, up' = up \/ up' = Append(up, typed')
  PROVE  KeysInv'
<1>1. typed' = typed + 1 /\ typed \in Nat /\ up \in Seq(Nat) /\ got \in Seq(Nat)
  BY DEF Typing, KeysInv
<1>2. CASE up' = up
  <2>1. \A i \in 1 .. Len(up) : up[i] \in Nat
    BY <1>1, ElementOfSeq
  <2>2. \A i \in 1 .. Len(got) : got[i] \in Nat
    BY <1>1, ElementOfSeq
  <2>3. typed' \in Nat
    BY <1>1
  <2>4. \A i \in 1 .. Len(up) : up[i] <= typed'
    BY <1>1, <2>1 DEF KeysInv
  <2>5. \A i \in 1 .. Len(got) : got[i] <= typed'
    BY <1>1, <2>2 DEF KeysInv
  <2> QED BY <1>2, <2>3, <2>4, <2>5 DEF KeysInv
<1>3. CASE up' = Append(up, typed')
  <2> DEFINE n == Len(up)
             u == up'
             t == typed'
  <2>1. /\ n \in Nat /\ t \in Nat /\ t = typed + 1 /\ u = Append(up, t)
    BY <1>1, <1>3, LenProperties
  <2> HIDE DEF t, u
  <2>2. /\ u \in Seq(Nat) /\ Len(u) = n + 1 /\ u[n + 1] = t
        /\ \A i \in 1 .. n : u[i] = up[i]
    BY <1>1, <2>1, AppendProperties
  <2>3. \A i \in 1 .. n : up[i] \in Nat /\ up[i] <= typed
    BY <1>1, ElementOfSeq DEF KeysInv
  <2>4. \A i \in 1 .. Len(got) : got[i] \in Nat /\ got[i] <= typed
    BY <1>1, ElementOfSeq DEF KeysInv
  <2> HIDE DEF n
  <2>5. \A i \in 1 .. n + 1 : i = n + 1 \/ i \in 1 .. n
    BY <2>1
  <2>6. \A i \in 1 .. n + 1 : u[i] \in Nat /\ u[i] <= t
    BY <1>1, <2>1, <2>2, <2>3, <2>5
  <2>7. \A i \in 1 .. Len(got) : got[i] <= t
    BY <1>1, <2>1, <2>4
  <2>8. \A i, j \in 1 .. n : i < j => up[i] < up[j]
    BY DEF KeysInv, n
  <2>9. ASSUME NEW i \in 1 .. n + 1, NEW j \in 1 .. n + 1, i < j PROVE u[i] < u[j]
    <3>1. i \in 1 .. n
      BY <2>1, <2>9
    <3>2. CASE j = n + 1
      BY <1>1, <2>1, <2>2, <2>3, <3>1, <3>2
    <3>3. CASE j # n + 1
      <4>1. j \in 1 .. n
        BY <2>5, <3>3
      <4> QED BY <2>2, <2>8, <2>9, <3>1, <4>1
    <3> QED BY <3>2, <3>3
  <2>10. \A i \in 1 .. Len(got), j \in 1 .. n : got[i] < up[j]
    BY DEF KeysInv, n
  <2>11. ASSUME NEW i \in 1 .. Len(got), NEW j \in 1 .. n + 1 PROVE got[i] < u[j]
    <3>1. CASE j = n + 1
      BY <1>1, <2>1, <2>2, <2>4, <3>1
    <3>2. CASE j # n + 1
      BY <2>2, <2>5, <2>10, <3>2
    <3> QED BY <3>1, <3>2
  <2>12. \A i, j \in 1 .. Len(got) : i < j => got[i] < got[j]
    BY DEF KeysInv
  <2>13. got' = got /\ Len(u) = n + 1 /\ u = up' /\ t = typed'
    BY <2>2 DEF u, t
  <2> QED BY <1>1, <2>1, <2>2, <2>6, <2>7, <2>9, <2>11, <2>12, <2>13 DEF KeysInv
<1> QED BY <1>2, <1>3

(* The first of the keys on their way is taken, or all are lost.           *)
LEMMA KeysInvFewer ==
  ASSUME KeysInv, typed' = typed, up # <<>>, up' = Tail(up), got' = got \/ got' = Append(got, up[1])
  PROVE  KeysInv'
<1> DEFINE n == Len(up)
           m == n - 1
           u == up'
           k == Len(got)
           x == up[1]
           g == got'
<1>1. up \in Seq(Nat) /\ got \in Seq(Nat) /\ typed \in Nat /\ k \in Nat /\ n \in Nat /\ n > 0 /\ m \in Nat /\ m + 1 = n
  <2>1. up \in Seq(Nat) /\ got \in Seq(Nat) /\ typed \in Nat
    BY DEF KeysInv
  <2>2. k \in Nat /\ n \in Nat /\ n > 0
    BY <2>1, EmptySeq, LenProperties
  <2> HIDE DEF n
  <2> QED BY <2>1, <2>2
<1>2. u \in Seq(Nat) /\ Len(u) = m /\ \A i \in 1 .. m : u[i] = up[i + 1]
  <2> HIDE DEF m
  <2>1. u = Tail(up)
    OBVIOUS
  <2> HIDE DEF u
  <2> QED BY <1>1, <2>1, HeadTailProperties DEF m
<1>3. x \in Nat /\ x <= typed /\ 1 \in 1 .. n /\ \A i \in 1 .. n : up[i] \in Nat
  <2>1. \A i \in 1 .. n : up[i] \in Nat /\ up[i] <= typed
    BY <1>1, ElementOfSeq DEF KeysInv
  <2>2. 1 \in 1 .. n
    BY <1>1
  <2> HIDE DEF n
  <2> QED BY <2>1, <2>2
<1>4. /\ \A i, j \in 1 .. n : i < j => up[i] < up[j]
      /\ \A i \in 1 .. n : up[i] <= typed
      /\ \A i \in 1 .. k : got[i] <= typed /\ got[i] \in Nat
      /\ \A i, j \in 1 .. k : i < j => got[i] < got[j]
      /\ \A i \in 1 .. k, j \in 1 .. n : got[i] < up[j]
  BY <1>1, ElementOfSeq DEF KeysInv
<1>5. g = got \/ g = Append(got, x)
  OBVIOUS
<1>6. \A i \in 1 .. m : i + 1 \in 1 .. n /\ 1 < i + 1
  BY <1>1
<1> HIDE DEF n, m, u, k, x, g
<1>7. /\ \A i \in 1 .. m : u[i] <= typed /\ x < u[i]
      /\ \A i, j \in 1 .. m : i < j => u[i] < u[j]
      /\ \A i \in 1 .. k, j \in 1 .. m : got[i] < u[j]
  <2>1. ASSUME NEW i \in 1 .. m PROVE u[i] <= typed /\ x < u[i]
    BY <1>2, <1>3, <1>4, <1>6 DEF x
  <2>2. ASSUME NEW i \in 1 .. m, NEW j \in 1 .. m, i < j PROVE u[i] < u[j]
    <3>1. i + 1 < j + 1 /\ i + 1 \in 1 .. n /\ j + 1 \in 1 .. n
      BY <1>6, <2>2
    <3> QED BY <1>2, <1>4, <3>1
  <2>3. ASSUME NEW i \in 1 .. k, NEW j \in 1 .. m PROVE got[i] < u[j]
    BY <1>2, <1>4, <1>6
  <2> QED BY <2>1, <2>2, <2>3
<1>8. /\ g \in Seq(Nat)
      /\ \A i \in 1 .. Len(g) : g[i] <= typed
      /\ \A i, j \in 1 .. Len(g) : i < j => g[i] < g[j]
      /\ \A i \in 1 .. Len(g), j \in 1 .. m : g[i] < u[j]
  <2>1. CASE g = got
    BY <1>1, <1>4, <1>7, <2>1 DEF k
  <2>2. CASE g = Append(got, x)
    <3>1. g \in Seq(Nat) /\ Len(g) = k + 1 /\ g[k + 1] = x /\ \A i \in 1 .. k : g[i] = got[i]
      BY <1>1, <1>3, <2>2, AppendProperties DEF k
    <3>2. \A i \in 1 .. k + 1 : i = k + 1 \/ i \in 1 .. k
      BY <1>1
    <3>3. \A i \in 1 .. k : got[i] < x
      BY <1>3, <1>4 DEF x
    <3>4. \A i \in 1 .. k + 1 : g[i] <= typed
      BY <1>3, <1>4, <3>1, <3>2
    <3>5. ASSUME NEW i \in 1 .. k + 1, NEW j \in 1 .. k + 1, i < j PROVE g[i] < g[j]
      <4>1. i \in 1 .. k
        BY <1>1, <3>5
      <4>2. CASE j = k + 1
        BY <3>1, <3>3, <4>1, <4>2
      <4>3. CASE j # k + 1
        BY <1>4, <3>1, <3>2, <3>5, <4>1, <4>3
      <4> QED BY <4>2, <4>3
    <3>6. ASSUME NEW i \in 1 .. k + 1, NEW j \in 1 .. m PROVE g[i] < u[j]
      <4>1. CASE i = k + 1
        BY <1>7, <3>1, <4>1
      <4>2. CASE i # k + 1
        BY <1>7, <3>1, <3>2, <4>2
      <4> QED BY <4>1, <4>2
    <3> QED BY <3>1, <3>4, <3>5, <3>6
  <2> QED BY <1>5, <2>1, <2>2
<1>9. typed' \in Nat /\ typed' = typed /\ u = up' /\ g = got'
  BY <1>1 DEF u, g
<1> QED BY <1>1, <1>2, <1>7, <1>8, <1>9 DEF KeysInv

LEMMA KeysInvStep == KeysInv /\ [ClientNext]_clientVars => KeysInv'
<1> SUFFICES ASSUME KeysInv, [ClientNext]_clientVars PROVE KeysInv'
  OBVIOUS
<1>1. ASSUME UNCHANGED <<typed, up, got>> PROVE KeysInv'
  BY <1>1 DEF KeysInv
<1>2. CASE SessionNext
  <2>1. UNCHANGED <<typed, up, got>>
    BY <1>2 DEF SessionNext, Close, Forget, Output, Move
  <2> QED BY <1>1, <2>1
<1>3. CASE Connect \/ Attach \/ Refused \/ Receive
  <2>1. UNCHANGED <<typed, up, got>>
    BY <1>3 DEF Connect, Attach, Refused, Receive
  <2> QED BY <1>1, <2>1
<1>4. CASE Drop
  <2>1. UNCHANGED <<typed, got>> /\ up' = <<>>
    BY <1>4 DEF Drop
  <2> QED BY <2>1 DEF KeysInv
<1>5. CASE Poll \/ Answer \/ Fail
  <2>1. UNCHANGED <<typed, up, got>>
    BY <1>5 DEF Poll, Answer, Fail
  <2> QED BY <1>1, <2>1
<1>6. CASE Type
  BY <1>6, KeysInvTyping DEF Type, Typing
<1>7. CASE TypeQueued
  BY <1>7, KeysInvTyping DEF TypeQueued, Typing
<1>8. ASSUME NEW i \in Sent, Deliver(i) PROVE KeysInv'
  <2>1. up # <<>> /\ i = 1
    BY DEF Sent
  <2>2. up' = Tail(up)
    <3>1. up' = SubSeq(up, 1, 1 - 1) \o SubSeq(up, 1 + 1, Len(up))
      BY <1>8, <2>1 DEF Deliver, RemoveAt
    <3>2. up \in Seq(Nat)
      BY DEF KeysInv
    <3>3. Tail(up) = SubSeq(up, 2, Len(up)) /\ Tail(up) \in Seq(Nat)
      BY <2>1, <3>2, HeadTailProperties
    <3>4. SubSeq(up, 1, 0) = <<>>
      BY <3>2
    <3>5. <<>> \o Tail(up) = Tail(up)
      BY <3>3, ConcatEmptySeq
    <3> QED BY <3>1, <3>3, <3>4, <3>5
  <2>3. typed' = typed /\ (got' = got \/ got' = Append(got, up[1]))
    BY <1>8, <2>1 DEF Deliver
  <2> QED BY <2>1, <2>2, <2>3, KeysInvFewer
<1>9. CASE Leave
  <2>1. UNCHANGED <<typed, got>> /\ up' \in {up, SubSeq(up, 1, Smaller(1, Len(up)))}
    BY <1>9 DEF Leave
  <2>2. CASE up' = up
    BY <1>1, <2>1, <2>2
  <2>3. CASE up' = SubSeq(up, 1, Smaller(1, Len(up)))
    <3> DEFINE n == Len(up)
               m == Smaller(1, n)
               u == up'
    <3>1. up \in Seq(Nat) /\ n \in Nat
      BY LenProperties DEF KeysInv
    <3> HIDE DEF n
    <3>2. m \in Nat /\ m <= n
      BY <3>1 DEF Smaller
    <3>3. u = SubSeq(up, 1, m)
      BY <2>3 DEF n
    <3> HIDE DEF m, u
    <3>4. \A i \in 1 .. m : i \in 1 .. n /\ up[i] \in Nat
      <4>1. \A i \in 1 .. m : i \in 1 .. n
        BY <3>1, <3>2
      <4> QED BY <3>1, <4>1, ElementOfSeq DEF n
    <3>5. u \in Seq(Nat) /\ Len(u) = m /\ \A i \in 1 .. m : u[i] = up[i]
      <4>1. 1 \in 1 .. n + 1 /\ m \in 1 - 1 .. n /\ m - 1 + 1 = m
        BY <3>1, <3>2
      <4>2. /\ u \in Seq(Nat) /\ Len(u) = (IF 1 <= m THEN m - 1 + 1 ELSE 0)
            /\ \A i \in 1 .. m - 1 + 1 : u[i] = up[1 + i - 1]
        BY <3>1, <3>3, <3>4, <4>1, SubSeqProperties DEF n
      <4>3. \A i \in 1 .. m : 1 + i - 1 = i
        BY <3>2
      <4> QED BY <3>2, <4>1, <4>2, <4>3
    <3>6. u = up' /\ UNCHANGED <<typed, got>>
      BY <2>1 DEF u
    <3>7. /\ \A i \in 1 .. m : u[i] <= typed
          /\ \A i, j \in 1 .. m : i < j => u[i] < u[j]
          /\ \A i \in 1 .. Len(got), j \in 1 .. m : got[i] < u[j]
      BY <3>4, <3>5 DEF KeysInv, n
    <3> QED BY <3>5, <3>6, <3>7 DEF KeysInv
  <2> QED BY <2>1, <2>2, <2>3
<1>10. CASE UNCHANGED clientVars
  BY <1>1, <1>10 DEF clientVars
<1> QED BY <1>2, <1>3, <1>4, <1>5, <1>6, <1>7, <1>8, <1>9, <1>10 DEF ClientNext, ViewerNext

(* Keys reach a session in the order in which they were typed and none     *)
(* twice, however many are typed and whatever is lost (sendQueue,          *)
(* writeQueue).                                                            *)
THEOREM KeysAlwaysInOrder == ClientSpec => []KeysInOrder
<1>1. KeysInv => KeysInOrder
  BY DEF KeysInv, KeysInOrder
<1> QED BY KeysInvInit, KeysInvStep, <1>1, PTL DEF ClientSpec
=============================================================================
