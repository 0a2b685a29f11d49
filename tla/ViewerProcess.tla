--------------------------- MODULE ViewerProcess ---------------------------
(* The processes of one instance and the files they meet in: servers, the  *)
(* terminal viewers they launch (ssh-viewer-ensure, ssh-viewer-list) and   *)
(* the ctl script, with server-info.json and .viewer-processes.json.       *)
(*                                                                         *)
(* Processes are numbered in the order of their start; the number is the   *)
(* pid.  The pid of a viewer that ended may become that of a process of    *)
(* somebody else.  Saving is a step that takes the records and one that    *)
(* writes them.                                                            *)
EXTENDS Integers, FiniteSets

CONSTANTS
  NServers,     \* bound: servers started
  NViewers,     \* bound: viewers launched
  Bindings, Calls,
  MaxRecycled   \* bound: pids of viewers that others get

ASSUME ViewerProcessAssumption == NServers \in Nat /\ NViewers \in Nat /\ MaxRecycled \in Nat

VARIABLES
  fixedPort,   \* the viewer's port is configured, or else drawn anew by every server
  server,      \* "none", "starting", "loaded", "running", "stopping", "exited", "killed"
  info,        \* server-info.json: the server it names, 0 when there is none
  file,        \* .viewer-processes.json
  records,     \* viewerProcesses of each server
  viewers,     \* the viewer processes that run, and the binding each shows
  launched,    \* how many were launched
  strangers,   \* pids of ended viewers that belong to other processes
  call,        \* the calls of ssh-viewer-ensure and ssh-viewer-list under way
  ctl,         \* what a ctl launch found and does
  failed,      \* ghost: whether the last save failed; viewers whose launch failed once they ran
  excuses      \* ghost: "servers" overlapped, or what else may leave the "records" wrong

vars == <<fixedPort, server, info, file, records, viewers, launched, strangers, call, ctl, failed, excuses>>

Servers == 1 .. NServers
Viewers == 1 .. NViewers
NoRecord == [pid |-> 0, url |-> 0]
NoRecords == [b \in Bindings |-> NoRecord]
NoCall == [at |-> "none", on |-> 0, binding |-> CHOOSE b \in Bindings : TRUE, pid |-> 0, snapshot |-> NoRecords]

Url(s) == IF fixedPort THEN 0 ELSE s

(* viewerProcessAlive: any process with that pid. *)
Alive(p) == p \in strangers \/ \E v \in viewers : v.pid = p

Running(s) == server[s] \in {"starting", "loaded", "running", "stopping"}

UnderWay(s) == {c \in Calls : call[c].at # "none" /\ call[c].on = s}

----------------------------------------------------------------------------
(* Servers                                                                 *)

Spawned(s) ==
  /\ server[s] = "none" /\ \A t \in 1 .. s - 1 : server[t] # "none"
  /\ server' = [server EXCEPT ![s] = "starting"]
  /\ excuses' = excuses \cup (IF \E t \in Servers : Running(t) THEN {"servers"} ELSE {})

(* An MCP client starts a server. *)
Start(s) ==
  /\ Spawned(s)
  /\ UNCHANGED <<fixedPort, info, file, records, viewers, launched, strangers, call, ctl, failed>>

(* loadViewerProcessState *)
Load(s) ==
  /\ server[s] = "starting"
  /\ server' = [server EXCEPT ![s] = "loaded"]
  /\ records' = [records EXCEPT ![s] = file]
  /\ UNCHANGED <<fixedPort, info, file, viewers, launched, strangers, call, ctl, failed, excuses>>

SaveServerInfoState(s) == info' = s

(* Whichever server the file names. *)
RemoveServerInfoState == info' = 0

(* startViewerServer and saveServerInfoState; listening fails when another *)
(* server has the port, and the exit handler may remove that one's info.   *)
Listen(s) ==
  /\ server[s] = "loaded"
  /\ IF fixedPort /\ \E t \in Servers \ {s} : server[t] = "running"
     THEN server' = [server EXCEPT ![s] = "exited"] /\ info' \in {info, 0}
     ELSE server' = [server EXCEPT ![s] = "running"] /\ SaveServerInfoState(s)
  /\ UNCHANGED <<fixedPort, file, records, viewers, launched, strangers, call, ctl, failed, excuses>>

(* A signal; cleanup closes the viewer server first. *)
Stop(s) ==
  /\ server[s] = "running"
  /\ server' = [server EXCEPT ![s] = "stopping"]
  /\ UNCHANGED <<fixedPort, info, file, records, viewers, launched, strangers, call, ctl, failed, excuses>>

(* The process of s is gone, with its calls; a file that was being written *)
(* may have been cut short, which reads as no records.                     *)
Gone(s) ==
  /\ call' = [c \in Calls |-> IF c \in UnderWay(s) THEN NoCall ELSE call[c]]
  /\ file' \in {file} \cup UNION {{NoRecords, call[c].snapshot} : c \in {d \in UnderWay(s) : call[d].at \in {"saving", "pruning"}}}
  /\ excuses' = excuses \cup (IF UnderWay(s) # {} THEN {"records"} ELSE {})
                       \cup (IF failed.save THEN {"records"} ELSE {})

(* Mutant: the server leaves its info behind. *)
Exit_InfoKept(s) ==
  /\ server[s] = "stopping"
  /\ server' = [server EXCEPT ![s] = "exited"]
  /\ Gone(s)
  /\ UNCHANGED <<fixedPort, info, records, viewers, launched, strangers, ctl, failed>>

Exit(s) ==
  /\ server[s] = "stopping"
  /\ server' = [server EXCEPT ![s] = "exited"]
  /\ RemoveServerInfoState
  /\ Gone(s)
  /\ UNCHANGED <<fixedPort, records, viewers, launched, strangers, ctl, failed>>

Killed(s) ==
  /\ server' = [server EXCEPT ![s] = "killed"]
  /\ Gone(s)

Crash(s) ==
  /\ Running(s)
  /\ Killed(s)
  /\ UNCHANGED <<fixedPort, info, records, viewers, launched, strangers, ctl, failed>>

----------------------------------------------------------------------------
(* Viewers                                                                 *)

Entered(s, c) ==
  /\ server[s] = "running" /\ call[c].at = "none"
  /\ excuses' = excuses \cup (IF UnderWay(s) # {} THEN {"records"} ELSE {})

Pruned(s) ==
  [b \in Bindings |-> IF Alive(records[s][b].pid) THEN records[s][b] ELSE NoRecord]

(* saveViewerProcessState takes the records as they are now. *)
Saving(at, s, b, p, R) == [at |-> at, on |-> s, binding |-> b, pid |-> p, snapshot |-> R]

(* ensureViewerForSession and refreshViewerProcessState up to the first    *)
(* await: no record; one of a viewer that ended; one to use again; one     *)
(* with the address of an earlier server.                                  *)
Ensure(s, c, b) ==
  LET old == records[s][b] IN
  /\ Entered(s, c)
  /\ \/ /\ old = NoRecord
        /\ call' = [call EXCEPT ![c] = Saving("launching", s, b, 0, NoRecords)]
        /\ UNCHANGED records
     \/ /\ old # NoRecord /\ ~Alive(old.pid)
        /\ records' = [records EXCEPT ![s][b] = NoRecord]
        /\ call' = [call EXCEPT ![c] = Saving("pruning", s, b, 0, records'[s])]
     \/ /\ Alive(old.pid) /\ old.url = Url(s)
        /\ call' = [call EXCEPT ![c] = Saving("saving", s, b, old.pid, records[s])]
        /\ UNCHANGED records
     \/ /\ Alive(old.pid) /\ old.url # Url(s)
        /\ call' = [call EXCEPT ![c] = Saving("ending", s, b, old.pid, NoRecords)]
        /\ UNCHANGED records
  /\ UNCHANGED <<fixedPort, server, info, file, viewers, launched, strangers, ctl, failed>>

(* Mutant: the viewer of the earlier server is left running. *)
Terminate_Left(c) ==
  LET s == call[c].on IN
  /\ call[c].at = "ending"
  /\ records' = [records EXCEPT ![s][call[c].binding] = NoRecord]
  /\ call' = [call EXCEPT ![c] = Saving("pruning", s, @.binding, 0, records'[s])]
  /\ UNCHANGED <<fixedPort, server, info, file, viewers, strangers, launched, ctl, failed, excuses>>

(* terminateViewerProcess: whatever has the pid is ended. *)
Terminate(c) ==
  LET s == call[c].on IN
  /\ call[c].at = "ending"
  /\ viewers' = {v \in viewers : v.pid # call[c].pid}
  /\ strangers' = strangers \ {call[c].pid}
  /\ records' = [records EXCEPT ![s][call[c].binding] = NoRecord]
  /\ call' = [call EXCEPT ![c] = Saving("pruning", s, @.binding, 0, records'[s])]
  /\ UNCHANGED <<fixedPort, server, info, file, launched, ctl, failed, excuses>>

(* On Windows ending it may fail, and with it the call. *)
TerminateFails(c) ==
  /\ call[c].at = "ending"
  /\ call' = [call EXCEPT ![c] = NoCall]
  /\ UNCHANGED <<fixedPort, server, info, file, records, viewers, launched, strangers, ctl, failed, excuses>>

(* A save ends: the file has what it took. *)
Saved(c) ==
  /\ call[c].at \in {"pruning", "saving"}
  /\ file' = call[c].snapshot
  /\ call' = [call EXCEPT ![c] =
       IF @.at = "saving" THEN NoCall ELSE Saving("launching", @.on, @.binding, 0, NoRecords)]
  /\ failed' = [failed EXCEPT !.save = FALSE]
  /\ UNCHANGED <<fixedPort, server, info, records, viewers, launched, strangers, ctl, excuses>>

(* Or it fails, and with it the call: the file is as it was, cut short or  *)
(* written.                                                                *)
SaveFails(c) ==
  /\ call[c].at \in {"pruning", "saving"}
  /\ file' \in {file, NoRecords, call[c].snapshot}
  /\ call' = [call EXCEPT ![c] = NoCall]
  /\ failed' = [failed EXCEPT !.save = TRUE]
  /\ UNCHANGED <<fixedPort, server, info, records, viewers, launched, strangers, ctl, excuses>>

(* launchTerminalViewer: PowerShell starts the viewer ... *)
Launch(c) ==
  /\ call[c].at = "launching" /\ launched < NViewers
  /\ launched' = launched + 1
  /\ viewers' = viewers \cup {[pid |-> launched', binding |-> call[c].binding]}
  /\ call' = [call EXCEPT ![c].at = "launched", ![c].pid = launched']
  /\ UNCHANGED <<fixedPort, server, info, file, records, strangers, ctl, failed, excuses>>

(* ... and reports its pid. *)
Launched(c) ==
  LET s == call[c].on IN
  /\ call[c].at = "launched"
  /\ records' = [records EXCEPT ![s][call[c].binding] = [pid |-> call[c].pid, url |-> Url(s)]]
  /\ call' = [call EXCEPT ![c] = Saving("saving", s, @.binding, @.pid, records'[s])]
  /\ UNCHANGED <<fixedPort, server, info, file, viewers, launched, strangers, ctl, failed, excuses>>

(* Or the launch fails: PowerShell does, perhaps when the viewer runs, or  *)
(* no pid can be read from what it prints.                                 *)
LaunchFails(c) ==
  /\ call[c].at \in {"launching", "launched"}
  /\ call' = [call EXCEPT ![c] = NoCall]
  /\ failed' = [failed EXCEPT !.viewers = IF call[c].at = "launched" THEN @ \cup {call[c].pid} ELSE @]
  /\ UNCHANGED <<fixedPort, server, info, file, records, viewers, launched, strangers, ctl, excuses>>

(* ssh-viewer-list *)
List(s, c) ==
  /\ Entered(s, c) /\ Pruned(s) # records[s]
  /\ records' = [records EXCEPT ![s] = Pruned(s)]
  /\ call' = [call EXCEPT ![c] = Saving("saving", s, @.binding, 0, records'[s])]
  /\ UNCHANGED <<fixedPort, server, info, file, viewers, launched, strangers, ctl, failed>>

(* A user closes a viewer. *)
ViewerEnds(v) ==
  /\ viewers' = viewers \ {v}
  /\ UNCHANGED <<fixedPort, server, info, file, records, launched, strangers, call, ctl, failed, excuses>>

Recycle(p) ==
  /\ p <= launched /\ ~Alive(p) /\ Cardinality(strangers) < MaxRecycled
  /\ strangers' = strangers \cup {p}
  /\ UNCHANGED <<fixedPort, server, info, file, records, viewers, launched, call, ctl, failed, excuses>>

----------------------------------------------------------------------------
(* scripts/ctl.mjs                                                         *)

(* The server that the info names, or the one that has its port. *)
Found ==
  IF info # 0 /\ Running(info) THEN info
  ELSE IF info # 0 /\ fixedPort /\ \E t \in Servers : server[t] = "running"
  THEN CHOOSE t \in Servers : server[t] = "running" ELSE 0

(* killPid: a signal, or on Windows the end. *)
KillPid(s) ==
  \/ ~Running(s) /\ UNCHANGED <<server, file, call, excuses>>
  \/ Running(s) /\ Killed(s)
  \/ /\ server[s] \in {"running", "stopping"}
     /\ server' = [server EXCEPT ![s] = "stopping"]
     /\ UNCHANGED <<file, call, excuses>>

CtlKill ==
  /\ Found # 0 /\ KillPid(Found)
  /\ UNCHANGED <<fixedPort, info, records, viewers, launched, strangers, ctl, failed>>

(* cleanup: kill, and remove both files at once. *)
CtlCleanup ==
  /\ server' \in IF Found = 0 THEN {server}
                ELSE {[server EXCEPT ![Found] = "killed"]} \cup
                     (IF server[Found] = "running" THEN {[server EXCEPT ![Found] = "stopping"]} ELSE {})
  /\ call' = [c \in Calls |-> IF Found # 0 /\ server'[Found] = "killed" /\ c \in UnderWay(Found) THEN NoCall ELSE call[c]]
  /\ info' = 0 /\ file' = NoRecords
  /\ excuses' = excuses \cup {"records"}
  /\ UNCHANGED <<fixedPort, records, viewers, launched, strangers, ctl, failed>>

(* launch: look for a server and ask it for its sessions.  One that has a  *)
(* fitting session is used.                                                *)
CtlCheck ==
  /\ ctl.at = "idle"
  /\ ctl' = [at |-> "checked", found |-> Found]
  /\ UNCHANGED <<fixedPort, server, info, file, records, viewers, launched, strangers, call, failed, excuses>>

CtlReuse ==
  /\ ctl.at = "checked" /\ ctl.found # 0
  /\ ctl' = [at |-> "idle", found |-> 0]
  /\ UNCHANGED <<fixedPort, server, info, file, records, viewers, launched, strangers, call, failed, excuses>>

(* Any other is ended, and a new one started 800 ms later. *)
CtlReplace ==
  /\ ctl.at = "checked"
  /\ IF ctl.found = 0 THEN UNCHANGED <<server, file, call, excuses>> ELSE KillPid(ctl.found)
  /\ ctl' = [at |-> "waiting", found |-> 0]
  /\ UNCHANGED <<fixedPort, info, records, viewers, launched, strangers, failed>>

CtlSpawn ==
  /\ ctl.at = "waiting"
  /\ \E s \in Servers : Spawned(s)
  /\ ctl' = [at |-> "idle", found |-> 0]
  /\ UNCHANGED <<fixedPort, info, file, records, viewers, launched, strangers, call, failed>>

Init ==
  /\ fixedPort \in BOOLEAN
  /\ server = [s \in Servers |-> "none"]
  /\ info = 0 /\ file = NoRecords
  /\ records = [s \in Servers |-> NoRecords]
  /\ viewers = {} /\ launched = 0 /\ strangers = {}
  /\ call = [c \in Calls |-> NoCall]
  /\ ctl = [at |-> "idle", found |-> 0]
  /\ failed = [save |-> FALSE, viewers |-> {}] /\ excuses = {}

Server(s) ==
  \/ Start(s) \/ Load(s) \/ Listen(s) \/ Stop(s) \/ Exit(s) \/ Crash(s)
  \/ \E c \in Calls : List(s, c) \/ \E b \in Bindings : Ensure(s, c, b)

Viewer ==
  \/ \E c \in Calls :
       \/ Terminate(c) \/ TerminateFails(c) \/ Saved(c) \/ SaveFails(c)
       \/ Launch(c) \/ Launched(c) \/ LaunchFails(c)
  \/ \E v \in viewers : ViewerEnds(v)
  \/ \E p \in Viewers : Recycle(p)

Ctl == CtlKill \/ CtlCleanup \/ CtlCheck \/ CtlReuse \/ CtlReplace \/ CtlSpawn

Next == (\E s \in Servers : Server(s)) \/ Viewer \/ Ctl

Spec == Init /\ [][Next]_vars

----------------------------------------------------------------------------
(* Properties                                                              *)

(* The records in force: those of the server that runs, or the file that   *)
(* the next one loads.                                                     *)
InForce ==
  IF \E s \in Servers : server[s] \in {"loaded", "running", "stopping"}
  THEN records[CHOOSE s \in Servers : server[s] \in {"loaded", "running", "stopping"}] ELSE file

(* A viewer that runs is on record while no call is under way, also after  *)
(* the server was stopped, killed or replaced, so that the next call uses  *)
(* it or ends it (ensureViewerForSession, saveViewerProcessState,          *)
(* loadViewerProcessState): unless calls or servers overlapped, a server   *)
(* ended in the middle of a call or after its last save had failed, or the *)
(* files were removed.  A viewer whose launch failed once it ran is on     *)
(* nobody's record, but takes no other off it.                             *)
ViewersRecorded ==
  excuses = {} /\ (\A c \in Calls : call[c].at = "none")
    => \A v \in viewers : v.pid \notin failed.viewers => InForce[v.binding].pid = v.pid

(* server-info.json names the server that runs and no server that ended in *)
(* order, unless two servers overlapped (saveServerInfoState,              *)
(* removeServerInfoState): a server that is slow to stop removes the info  *)
(* of its successor.                                                       *)
InfoNamesServer ==
  "servers" \notin excuses
    => \A s \in Servers :
         /\ server[s] = "running" => info = s
         /\ info = s => server[s] \in {"running", "stopping", "killed"}

(* Description of ssh-viewer-ensure: "Terminal mode is singleton-scoped    *)
(* and will reuse a running viewer instead of opening duplicates."         *)
SingletonScoped ==
  "servers" \notin excuses => \A v, w \in viewers : v.binding = w.binding => v = w
=============================================================================
