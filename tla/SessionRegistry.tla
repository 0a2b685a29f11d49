-------------------------- MODULE SessionRegistry --------------------------
(* The sessions a server knows, the default target and the SSH connections *)
(* behind them: opening (ssh-session-open, ssh-quick-connect), closing,    *)
(* the sweep, selection of a default and resolution of a session argument. *)
(*                                                                         *)
(* A session id stands for the call that opens it, as every open draws a   *)
(* new one.  Connection number 1 is "main", number n is "main-n".  Time is *)
(* left out: a sweep may find any open session idle and any closed one     *)
(* past its retention.                                                     *)
EXTENDS Integers, FiniteSets, TLC

CONSTANTS
  Sessions,      \* session ids
  Devices,       \* device profiles
  Names,         \* session names
  DefaultName,   \* the name of a session without profile and name
  Requested,     \* connection numbers a caller may ask for
  MaxSwept,      \* bound: sessions one sweep closes or drops
  NoSession, NoDevice, NoName

ASSUME NamesAssumption ==
  /\ DefaultName \in Names /\ NoSession \notin Sessions
  /\ NoDevice \notin Devices /\ NoName \notin Names
ASSUME NumbersAssumption == IsFiniteSet(Sessions) /\ Requested \subseteq Nat \ {0} /\ MaxSwept \in Nat

VARIABLES
  reg,     \* what the server holds: sessions, default target, connections
  call,    \* the progress of the call that opens a session
  meta,    \* device, connection and name a session was given
  seen     \* ghost: the open sessions the checks of an opening call saw

vars == <<reg, call, meta, seen>>

Conns == 1 .. Cardinality(Sessions) \cup Requested
NoMeta == [device |-> NoDevice, conn |-> 0, name |-> NoName]
Metas == [device : Devices \cup {NoDevice}, conn : {0} \cup Conns, name : Names \cup {NoName}]

----------------------------------------------------------------------------
(* The registry as a value: tracked is the map of sessions, open those of  *)
(* them that are not closed, later the order of their last updates         *)
(* (<<s, t>>: t was updated after s), clients the live SSH connections.    *)

MostRecent(S, later) == CHOOSE s \in S : \A t \in S : <<s, t>> \notin later

MostRecentOpen(R) == IF R.open = {} THEN NoSession ELSE MostRecent(R.open, R.later)

Updated(R, s) ==
  [R EXCEPT !.open = @ \cup {s},
            !.later = {p \in @ : s \notin {p[1], p[2]}} \cup ((R.open \ {s}) \X {s})]

Closing(R, S) ==
  [R EXCEPT !.open = @ \ S,
            !.later = {p \in @ : p[1] \notin S /\ p[2] \notin S},
            !.clients = @ \ S]

Finalize(R, s) == Closing(R, {s})

Forget(R, s) == [R EXCEPT !.tracked = @ \ {s}]

Remember(R, s) == [Updated(R, s) EXCEPT !.tracked = @ \cup {s}, !.active = s]

(* refreshActiveSession: the default target is the selected session, or    *)
(* the one updated last.                                                   *)
Refresh(R) == [R EXCEPT !.active = IF @ \in R.open THEN @ ELSE MostRecentOpen(R)]

Swept(R, idle, expired) ==
  [Closing(R, idle) EXCEPT !.tracked = @ \ expired,
                           !.active = IF @ \in expired THEN NoSession ELSE @]

Sweeps(R) ==
  {Swept(R, ended \cap R.open, ended \ R.open) :
     ended \in {S \in SUBSET R.tracked : Cardinality(S) <= MaxSwept}}

----------------------------------------------------------------------------
(* Resolution of a session argument                                        *)

Ref(s) ==
  IF meta[s].device # NoDevice THEN <<"connection", meta[s].device, meta[s].conn>>
  ELSE IF meta[s].name # NoName THEN <<"name", meta[s].name>> ELSE <<"id", s>>

Refs ==
  {<<"id", s>> : s \in Sessions} \cup {<<"name", n>> : n \in Names}
    \cup {<<"connection", d, c>> : d \in Devices, c \in Conns}

Matching(S, r) == {s \in S : Ref(s) = r \/ <<"name", meta[s].name>> = r}

Only(S) == IF Cardinality(S) = 1 THEN CHOOSE s \in S : TRUE ELSE NoSession

(* Mutant: an ambiguous argument names the session updated last. *)
Resolve_MostRecent(R, r) ==
  LET opened == {s \in R.open : s \in Matching({s}, r) \/ r = <<"id", s>>}
  IN IF opened # {} THEN MostRecent(opened, R.later) ELSE Only(Matching(R.tracked, r))

(* resolveSession with an argument; NoSession is an error. *)
Resolve(R, r) ==
  LET ids == {s \in R.tracked : r = <<"id", s>>}
      opened == Matching(R.open, r)
  IN IF ids # {} THEN Only(ids)
     ELSE IF opened # {} THEN Only(opened) ELSE Only(Matching(R.tracked, r))

----------------------------------------------------------------------------
(* Opening a session: checks, connection, shell, registration              *)

NameFree(R, n) == \A s \in R.open : n = NoName \/ meta[s].name # n

UsedConns(R, d) == {meta[s].conn : s \in {t \in R.open : meta[t].device = d}}

AllocatedConn(R, d, c) ==
  IF c # 0 THEN c
  ELSE CHOOSE n \in Conns : n \notin UsedConns(R, d) /\ \A m \in 1 .. n - 1 : m \in UsedConns(R, d)

Begin(R, s, d, c, n) ==
  /\ call[s] = "unused"
  /\ reg' = R
  /\ call' = [call EXCEPT ![s] = "connecting"]
  /\ meta' = [meta EXCEPT ![s] = [device |-> d, conn |-> c, name |-> n]]
  /\ seen' = [seen EXCEPT ![s] = R.open]

(* ssh-session-open up to its first await. *)
OpenStart(s, d, c, n) ==
  \E R \in IF n = NoName THEN {reg} ELSE Sweeps(reg) :
    /\ d = NoDevice => c = 0
    /\ NameFree(R, n)
    /\ c \notin UsedConns(R, d) \/ c = 0
    /\ Begin(R, s, d, IF d = NoDevice THEN 0 ELSE AllocatedConn(R, d, c), n)

QuickConn(d, c) == IF d = NoDevice THEN 0 ELSE IF c = 0 THEN 1 ELSE c
QuickName(d, n) == IF d = NoDevice /\ n = NoName THEN DefaultName ELSE n

(* The open sessions ssh-quick-connect would rather use than a new one. *)
Reusable(R, d, c, n) ==
  {s \in R.open : IF d = NoDevice THEN meta[s].name = QuickName(d, n)
                   ELSE meta[s].device = d /\ meta[s].conn = QuickConn(d, c)}

QuickReuse(d, c, n) ==
  \E R \in Sweeps(reg) : \E s \in Reusable(R, d, c, n) :
    /\ d = NoDevice => c = 0
    /\ reg' = [R EXCEPT !.active = s]
    /\ UNCHANGED <<call, meta, seen>>

(* Mutant: ssh-quick-connect does not check the name it was given. *)
QuickStart_NameUnchecked(s, d, c, n) ==
  \E R \in Sweeps(reg) :
    /\ d = NoDevice => c = 0
    /\ Reusable(R, d, c, n) = {}
    /\ Begin(R, s, d, QuickConn(d, c), QuickName(d, n))


QuickStart(s, d, c, n) ==
  \E R \in Sweeps(reg) :
    /\ d = NoDevice => c = 0
    /\ Reusable(R, d, c, n) = {}
    /\ NameFree(R, QuickName(d, n))
    /\ Begin(R, s, d, QuickConn(d, c), QuickName(d, n))

Progress(s, from, to) == call[s] = from /\ call' = [call EXCEPT ![s] = to]

ConnReady(s) ==
  /\ Progress(s, "connecting", "shell")
  /\ reg' = [reg EXCEPT !.clients = @ \cup {s}]
  /\ UNCHANGED <<meta, seen>>

(* The error callback, or the connect timeout, which always comes. *)
ConnFails(s) == Progress(s, "connecting", "failed") /\ UNCHANGED <<reg, meta, seen>>

(* The close callback of a connection that was up. *)
ClientDrops(s) ==
  /\ s \in reg.clients
  /\ reg' = [reg EXCEPT !.clients = @ \ {s}]
  /\ UNCHANGED <<call, meta, seen>>

(* Mutant: the connection stays up when its shell cannot be opened. *)
ShellFails_NotClosed(s) ==
  Progress(s, "shell", "failed") /\ UNCHANGED <<reg, meta, seen>>


ShellFails(s) ==
  /\ Progress(s, "shell", "failed")
  /\ reg' = [reg EXCEPT !.clients = @ \ {s}]
  /\ UNCHANGED <<meta, seen>>

(* The shell callback and the rest of the call: rememberSession and        *)
(* setActiveSession follow without an await between them.                  *)
ShellOpens(s) ==
  /\ s \in reg.clients
  /\ Progress(s, "shell", "open")
  /\ reg' = Remember(reg, s)
  /\ UNCHANGED <<meta, seen>>

----------------------------------------------------------------------------
(* Use, selection and end of sessions                                      *)

Quiet == UNCHANGED <<call, meta, seen>>

(* Output or a record of an open session: updatedAt. *)
Activity(s) ==
  /\ s \in reg.open
  /\ reg' = Updated(reg, s)
  /\ Quiet

ChannelEnds(s) == s \in reg.open /\ reg' = Finalize(reg, s) /\ Quiet

SweepTimer == reg' \in Sweeps(reg) /\ Quiet

(* Every tool called without a session argument; s is what it acts on.     *)
UseDefault(s) ==
  \E R \in Sweeps(reg) : reg' = Refresh(R) /\ reg'.active = s /\ Quiet

(* ssh-session-set-active, and the viewer's button. *)
SetActive(r) ==
  \E R \in Sweeps(reg) :
    /\ Resolve(R, r) # NoSession
    /\ reg' = [R EXCEPT !.active = Resolve(R, r)]
    /\ Quiet

ClearActive == reg' = [reg EXCEPT !.active = NoSession] /\ Quiet

(* Mutant: every close makes a new choice. *)
Closed_Always(R, s) ==
  Refresh([Forget(Finalize(R, s), s) EXCEPT !.active = NoSession])

(* The end of ssh-session-close: only a default that was closed moves. *)
Closed(R, s) ==
  LET rest == Forget(Finalize(R, s), s)
  IN IF rest.active = s THEN Refresh([rest EXCEPT !.active = NoSession]) ELSE rest

SessionClose(r) ==
  \E R \in Sweeps(reg) :
    /\ Resolve(R, r) # NoSession
    /\ reg' = Closed(R, Resolve(R, r))
    /\ Quiet

CloseDefault ==
  \E R \in Sweeps(reg) :
    /\ Refresh(R).active # NoSession
    /\ reg' = Closed(Refresh(R), Refresh(R).active)
    /\ Quiet

(* The viewer's close: the default target is left as it is. *)
ViewerClose(r) ==
  \E R \in Sweeps(reg) :
    LET s == Resolve(R, r)
    IN s # NoSession /\ reg' \in Sweeps(Forget(Finalize(R, s), s)) /\ Quiet

----------------------------------------------------------------------------

Init ==
  /\ reg = [tracked |-> {}, open |-> {}, later |-> {}, active |-> NoSession, clients |-> {}]
  /\ call = [s \in Sessions |-> "unused"]
  /\ meta = [s \in Sessions |-> NoMeta]
  /\ seen = [s \in Sessions |-> {}]

Next ==
  \/ \E d \in Devices \cup {NoDevice}, c \in {0} \cup Requested, n \in Names \cup {NoName} :
       \/ QuickReuse(d, c, n)
       \/ \E s \in Sessions : OpenStart(s, d, c, n) \/ QuickStart(s, d, c, n)
  \/ \E s \in Sessions :
       \/ ConnReady(s) \/ ConnFails(s) \/ ClientDrops(s)
       \/ ShellFails(s) \/ ShellOpens(s)
       \/ Activity(s) \/ ChannelEnds(s) \/ UseDefault(s)
  \/ \E r \in Refs : SetActive(r) \/ SessionClose(r) \/ ViewerClose(r)
  \/ UseDefault(NoSession) \/ ClearActive \/ CloseDefault \/ SweepTimer

Spec == Init /\ [][Next]_vars

----------------------------------------------------------------------------

(* The variables hold what their declarations say; the last updates of the *)
(* open sessions are in a total order.                                     *)
Ordered(S, later) ==
  /\ later \subseteq S \X S
  /\ \A s \in S : <<s, s>> \notin later
  /\ \A s, t \in S : s # t => <<s, t>> \in later \/ <<t, s>> \in later
  /\ \A s, t, u \in S : <<s, t>> \in later /\ <<t, u>> \in later => <<s, u>> \in later
TypeOK ==
  /\ reg \in [tracked : SUBSET Sessions, open : SUBSET Sessions, later : SUBSET (Sessions \X Sessions),
              active : Sessions \cup {NoSession}, clients : SUBSET Sessions]
  /\ Ordered(reg.open, reg.later)
  /\ call \in [Sessions -> {"unused", "connecting", "shell", "open", "failed"}]
  /\ meta \in [Sessions -> Metas]
  /\ seen \in [Sessions -> SUBSET Sessions]

(* Nothing runs that the server has lost sight of: a session that is open  *)
(* can be found, and a connection that is up belongs to a session that is  *)
(* open or to a call that still opens one (the connection.close() of every *)
(* error path and of finalize).                                            *)
NothingStray ==
  /\ reg.open \subseteq reg.tracked
  /\ \A s \in reg.clients : s \in reg.open \/ call[s] = "shell"

(* Two open sessions have a name or a profile connection in common only    *)
(* when they were being opened at the same time: neither was there when    *)
(* the other one's name was checked (ensureUniqueSessionName,              *)
(* findOpenProfileSession, allocateConnectionName).                        *)
SameTarget(s, t) ==
  \/ meta[s].name # NoName /\ meta[s].name = meta[t].name
  \/ /\ meta[s].device # NoDevice
     /\ meta[s].device = meta[t].device /\ meta[s].conn = meta[t].conn
DuplicatesOverlapped ==
  \A s, t \in reg.open : s # t /\ SameTarget(s, t) => s \notin seen[t]

(* Sessions that end, however they end, never move a default target that   *)
(* is still open (the condition in ssh-session-close, the sweep).          *)
End ==
  \/ \E r \in Refs : SessionClose(r) \/ ViewerClose(r)
  \/ \E s \in Sessions : ChannelEnds(s)
  \/ CloseDefault \/ SweepTimer
DefaultKept == [][reg'.active # reg.active /\ reg.active \in reg'.open => ~End]_vars

(* Explicit session targeting is stable: as long as the open session an    *)
(* argument named stays open, the argument names it or is refused, it      *)
(* never comes to name another one (resolveSession).                       *)
Arguments(s) == {<<"id", s>>, Ref(s), <<"name", meta[s].name>>}
ExplicitStable ==
  [][reg'.tracked # reg.tracked \/ reg'.open # reg.open \/ reg'.later # reg.later =>
       \A s \in reg.open \cap reg'.open : \A r \in Arguments(s) :
         Resolve(reg, r) = s => Resolve(reg, r)' \in {s, NoSession}]_vars

(* docs/acceptance-scenarios.md, ambiguous-active-session-blocks-default-  *)
(* targeting: while several sessions are open and none of them is selected *)
(* a tool without a session argument would be refused.                     *)
AmbiguityRefused ==
  reg.active \notin reg.open /\ Cardinality(reg.open) > 1
    => Refresh(reg).active = NoSession

=============================================================================
