----------------------- MODULE SessionRegistry_proofs -----------------------
(* Proofs about SessionRegistry, for any sessions, profiles and names: the *)
(* registry and the live connections belong together, duplicates need      *)
(* opens that overlap, an end does not move the default target, and an     *)
(* argument keeps its meaning.                                             *)
EXTENDS SessionRegistry, FiniteSetTheorems, WellFoundedInduction, TLAPS

(* A set of numbers has a least one. *)
LEMMA LeastNumber ==
  ASSUME NEW T \in SUBSET Nat, T # {}
  PROVE  \E n \in T : \A m \in T : n <= m
<1>1. PICK n \in T : \A m \in T : ~ <<m, n>> \in OpToRel(<, Nat)
  BY NatLessThanWellFounded, WFMin
<1>2. \A m \in T : ~ m < n
  BY <1>1 DEF OpToRel
<1> QED BY <1>2

-----------------------------------------------------------------------------
(* The registry as a value                                                 *)

Registry ==
  [tracked : SUBSET Sessions, open : SUBSET Sessions, later : SUBSET (Sessions \X Sessions),
   active : Sessions \cup {NoSession}, clients : SUBSET Sessions]

WellFormed(R) == R \in Registry /\ Ordered(R.open, R.later) /\ R.open \subseteq R.tracked

(* Q is what is left of R: of a session it closed no connection is up.     *)
Within(Q, R) ==
  /\ WellFormed(Q)
  /\ Q.open \subseteq R.open /\ Q.tracked \subseteq R.tracked /\ Q.clients \subseteq R.clients
  /\ \A s \in Q.clients : s \in R.open => s \in Q.open

LEMMA WithinTransitive ==
  ASSUME NEW P, NEW Q, NEW R, Within(P, Q), Within(Q, R)
  PROVE  Within(P, R)
BY DEF Within

(* The session with the fewest later ones has none.                        *)
LEMMA MostRecentExists ==
  ASSUME NEW S, IsFiniteSet(S), S # {}, NEW later, Ordered(S, later)
  PROVE  MostRecent(S, later) \in S
<1> DEFINE after(s) == {t \in S : <<s, t>> \in later}
           sizes == {Cardinality(after(s)) : s \in S}
<1>1. \A s \in S : IsFiniteSet(after(s)) /\ Cardinality(after(s)) \in Nat
  BY FS_Subset, FS_CardinalityType
<1>2. sizes \in SUBSET Nat /\ sizes # {}
  BY <1>1
<1>3. PICK s \in S : \A t \in S : Cardinality(after(s)) <= Cardinality(after(t))
  <2> HIDE DEF after
  <2>1. PICK n \in sizes : \A m \in sizes : n <= m
    BY <1>2, LeastNumber
  <2> QED BY <2>1
<1>4. ASSUME NEW t \in S, <<s, t>> \in later PROVE FALSE
  <2>1. after(t) \subseteq after(s) /\ t \in after(s) /\ t \notin after(t)
    BY <1>4 DEF Ordered
  <2> HIDE DEF after
  <2>2. Cardinality(after(t)) <= Cardinality(after(s)) /\ Cardinality(after(s)) # Cardinality(after(t))
    BY <1>1, <2>1, FS_Subset
  <2> QED BY <1>1, <1>3, <2>2
<1> QED BY <1>4 DEF MostRecent

LEMMA SubsetsFinite == \A S \in SUBSET Sessions : IsFiniteSet(S)
  BY NumbersAssumption, FS_Subset

LEMMA OnlyIsMember ==
  ASSUME NEW S \in SUBSET Sessions
  PROVE  /\ Only(S) \in S \cup {NoSession}
         /\ \A s \in S : Only(S) \in {s, NoSession}
         /\ \A s : S = {s} => Only(S) = s
<1>1. IsFiniteSet(S)
  BY SubsetsFinite
<1>2. CASE Cardinality(S) = 1
  <2>1. PICK x : S = {x}
    BY <1>1, <1>2, FS_Singleton
  <2> QED BY <1>2, <2>1 DEF Only
<1>3. CASE Cardinality(S) # 1
  <2>1. \A s : S # {s}
    BY <1>3, FS_Singleton
  <2> QED BY <1>3, <2>1 DEF Only
<1> QED BY <1>2, <1>3

LEMMA ResolveIsTracked ==
  ASSUME NEW R, WellFormed(R), NEW r
  PROVE  Resolve(R, r) \in R.tracked \cup {NoSession}
<1> DEFINE ids == {s \in R.tracked : r = <<"id", s>>}
           opened == Matching(R.open, r)
           all == Matching(R.tracked, r)
<1>1. ids \in SUBSET Sessions /\ opened \in SUBSET Sessions /\ all \in SUBSET Sessions
  BY DEF WellFormed, Registry, Matching
<1>2. ids \subseteq R.tracked /\ opened \subseteq R.tracked /\ all \subseteq R.tracked
  BY DEF WellFormed, Matching
<1> HIDE DEF ids, opened, all
<1>3. /\ Only(ids) \in ids \cup {NoSession} /\ Only(opened) \in opened \cup {NoSession}
      /\ Only(all) \in all \cup {NoSession}
  BY <1>1, OnlyIsMember
<1>4. Resolve(R, r) \in {Only(ids), Only(opened), Only(all)}
  BY DEF Resolve, ids, opened, all
<1> QED BY <1>2, <1>3, <1>4

-----------------------------------------------------------------------------
(* What closing, dropping and choosing leave                               *)

LEMMA ClosingWithin ==
  ASSUME NEW R, WellFormed(R), NEW S
  PROVE  /\ Within(Closing(R, S), R)
         /\ Closing(R, S).open = R.open \ S /\ Closing(R, S).clients = R.clients \ S
         /\ Closing(R, S).tracked = R.tracked /\ Closing(R, S).active = R.active
<1> DEFINE Q == Closing(R, S)
<1>0. R \in Registry
  BY DEF WellFormed
<1>1. /\ Q.open = R.open \ S /\ Q.clients = R.clients \ S
      /\ Q.later = {p \in R.later : p[1] \notin S /\ p[2] \notin S}
      /\ Q.tracked = R.tracked /\ Q.active = R.active
  BY <1>0 DEF Closing, Registry
<1>2. Q \in Registry
  BY <1>0, <1>1 DEF Closing, Registry
<1>3. \A s, t : <<s, t>> \in Q.later <=> <<s, t>> \in R.later /\ s \notin S /\ t \notin S
  BY <1>1
<1>4. Q.later \subseteq Q.open \X Q.open
  BY <1>1 DEF WellFormed, Ordered
<1> HIDE DEF Q
<1>5. Ordered(Q.open, Q.later)
  BY <1>1, <1>3, <1>4 DEF WellFormed, Ordered
<1>6. WellFormed(Q)
  BY <1>1, <1>2, <1>5 DEF WellFormed
<1>7. Within(Q, R)
  BY <1>1, <1>6 DEF Within
<1> QED BY <1>1, <1>7 DEF Q

LEMMA SetActiveWithin ==
  ASSUME NEW R, WellFormed(R), NEW a \in Sessions \cup {NoSession}
  PROVE  /\ Within([R EXCEPT !.active = a], R)
         /\ [R EXCEPT !.active = a].active = a
         /\ [R EXCEPT !.active = a].open = R.open
<1> DEFINE Q == [R EXCEPT !.active = a]
<1>1. /\ Q \in Registry /\ Q.active = a /\ Q.open = R.open
      /\ Q.later = R.later /\ Q.tracked = R.tracked /\ Q.clients = R.clients
  BY DEF WellFormed, Registry
<1> HIDE DEF Q
<1>2. WellFormed(Q)
  BY <1>1 DEF WellFormed
<1>3. Within(Q, R)
  BY <1>1, <1>2 DEF Within
<1> QED BY <1>1, <1>3 DEF Q

(* A sweep closes some open sessions and drops some closed ones. *)
LEMMA SweepsWithin ==
  ASSUME NEW R, WellFormed(R), NEW Q \in Sweeps(R)
  PROVE  /\ Within(Q, R)
         /\ Q.active \in {R.active, NoSession}
         /\ R.active \in Q.open => Q.active = R.active
<1>1. PICK ended \in SUBSET R.tracked : Q = Swept(R, ended \cap R.open, ended \ R.open)
  BY DEF Sweeps
<1> DEFINE P == Closing(R, ended \cap R.open)
           expired == ended \ R.open
<1>2. /\ Within(P, R) /\ P.open = R.open \ ended /\ P.tracked = R.tracked /\ P.active = R.active
  <2>1. R.open \ (ended \cap R.open) = R.open \ ended
    OBVIOUS
  <2> QED BY <2>1, ClosingWithin
<1>3. Q = [P EXCEPT !.tracked = @ \ expired, !.active = IF @ \in expired THEN NoSession ELSE @]
  BY <1>1 DEF Swept
<1> HIDE DEF P
<1>4. /\ Q \in Registry /\ Q.open = P.open /\ Q.later = P.later /\ Q.clients = P.clients
      /\ Q.tracked = P.tracked \ expired
      /\ Q.active = IF P.active \in expired THEN NoSession ELSE P.active
  BY <1>2, <1>3 DEF Within, WellFormed, Registry
<1>5. WellFormed(Q)
  BY <1>2, <1>4 DEF Within, WellFormed
<1>6. Within(Q, R)
  BY <1>2, <1>4, <1>5 DEF Within
<1> QED BY <1>2, <1>4, <1>6

LEMMA ForgetWithin ==
  ASSUME NEW R, WellFormed(R), NEW s
  PROVE  /\ Within(Forget(Finalize(R, s), s), R)
         /\ Forget(Finalize(R, s), s).active = R.active
         /\ Forget(Finalize(R, s), s).open = R.open \ {s}
<1> DEFINE P == Finalize(R, s)
           Q == Forget(P, s)
<1>1. /\ Within(P, R) /\ P.open = R.open \ {s} /\ P.tracked = R.tracked /\ P.active = R.active
  BY ClosingWithin DEF Finalize
<1> HIDE DEF P
<1>2. /\ Q \in Registry /\ Q.open = P.open /\ Q.later = P.later /\ Q.clients = P.clients
      /\ Q.tracked = P.tracked \ {s} /\ Q.active = P.active
  BY <1>1 DEF Within, WellFormed, Registry, Forget
<1> HIDE DEF Q
<1>3. WellFormed(Q)
  BY <1>1, <1>2 DEF Within, WellFormed
<1>4. Within(Q, R)
  BY <1>1, <1>2, <1>3 DEF Within
<1> QED BY <1>1, <1>2, <1>4 DEF P, Q

LEMMA RefreshWithin ==
  ASSUME NEW R, WellFormed(R)
  PROVE  /\ Within(Refresh(R), R)
         /\ Refresh(R).open = R.open
         /\ Refresh(R).active \in R.open \cup {NoSession}
         /\ R.active \in R.open => Refresh(R).active = R.active
<1> DEFINE a == IF R.active \in R.open THEN R.active ELSE MostRecentOpen(R)
<1>1. R.open \in SUBSET Sessions /\ IsFiniteSet(R.open) /\ Ordered(R.open, R.later)
  BY SubsetsFinite DEF WellFormed, Registry
<1>2. MostRecentOpen(R) \in R.open \cup {NoSession}
  BY <1>1, MostRecentExists DEF MostRecentOpen
<1>3. a \in R.open \cup {NoSession} /\ (R.active \in R.open => a = R.active)
  BY <1>2
<1>4. Refresh(R) = [R EXCEPT !.active = a]
  BY DEF WellFormed, Registry, Refresh
<1> HIDE DEF a
<1>5. a \in Sessions \cup {NoSession}
  BY <1>1, <1>3
<1> QED BY <1>3, <1>4, <1>5, SetActiveWithin

(* ssh-session-close leaves a default that is still open. *)
LEMMA ClosedWithin ==
  ASSUME NEW R, WellFormed(R), NEW s \in Sessions
  PROVE  /\ Within(Closed(R, s), R)
         /\ R.active \in Closed(R, s).open => Closed(R, s).active = R.active
<1> DEFINE rest == Forget(Finalize(R, s), s)
           none == [rest EXCEPT !.active = NoSession]
<1>1. Within(rest, R) /\ rest.active = R.active /\ rest.open = R.open \ {s}
  BY ForgetWithin
<1> HIDE DEF rest
<1>2. WellFormed(rest)
  BY <1>1 DEF Within
<1>3. Within(none, rest) /\ WellFormed(none) /\ none.open = rest.open
  BY <1>2, SetActiveWithin DEF Within
<1> HIDE DEF none
<1>4. Within(Refresh(none), none) /\ Refresh(none).open = rest.open
  BY <1>3, RefreshWithin
<1>5. Within(Refresh(none), R)
  BY <1>1, <1>3, <1>4, WithinTransitive
<1>6. Closed(R, s) = IF rest.active = s THEN Refresh(none) ELSE rest
  BY DEF Closed, rest, none
<1> QED BY <1>1, <1>4, <1>5, <1>6

-----------------------------------------------------------------------------
(* What using and registering a session add                                *)

LEMMA UpdatedWellFormed ==
  ASSUME NEW R \in Registry, Ordered(R.open, R.later), NEW s \in Sessions
  PROVE  /\ Updated(R, s) \in Registry
         /\ Ordered(Updated(R, s).open, Updated(R, s).later)
         /\ Updated(R, s).open = R.open \cup {s}
         /\ Updated(R, s).tracked = R.tracked /\ Updated(R, s).clients = R.clients
         /\ Updated(R, s).active = R.active
<1> DEFINE Q == Updated(R, s)
<1>1. /\ Q.open = R.open \cup {s}
      /\ Q.later = {p \in R.later : s \notin {p[1], p[2]}} \cup ((R.open \ {s}) \X {s})
      /\ Q.tracked = R.tracked /\ Q.clients = R.clients /\ Q.active = R.active
  BY DEF Updated, Registry
<1>2. \A t, u : <<t, u>> \in Q.later <=>
                   \/ <<t, u>> \in R.later /\ t # s /\ u # s
                   \/ t \in R.open /\ t # s /\ u = s
  BY <1>1
<1>3. Q.later \subseteq Q.open \X Q.open
  BY <1>1 DEF Ordered
<1>4. Q \in Registry
  <2>1. Q.later \subseteq Sessions \X Sessions /\ Q.open \subseteq Sessions
    BY <1>1, <1>3 DEF Registry
  <2> QED BY <1>1, <2>1 DEF Updated, Registry
<1> HIDE DEF Q
<1>5. Ordered(Q.open, Q.later)
  <2>1. \A t \in Q.open : <<t, t>> \notin Q.later
    BY <1>1, <1>2 DEF Ordered
  <2>2. \A t, u \in Q.open : t # u => <<t, u>> \in Q.later \/ <<u, t>> \in Q.later
    BY <1>1, <1>2 DEF Ordered
  <2>3. \A t, u, v \in Q.open : <<t, u>> \in Q.later /\ <<u, v>> \in Q.later => <<t, v>> \in Q.later
    BY <1>1, <1>2 DEF Ordered
  <2> QED BY <1>3, <2>1, <2>2, <2>3 DEF Ordered
<1> QED BY <1>1, <1>4, <1>5 DEF Q

LEMMA RememberWellFormed ==
  ASSUME NEW R, WellFormed(R), NEW s \in Sessions
  PROVE  /\ WellFormed(Remember(R, s))
         /\ Remember(R, s).open = R.open \cup {s}
         /\ Remember(R, s).tracked = R.tracked \cup {s}
         /\ Remember(R, s).clients = R.clients
<1> DEFINE P == Updated(R, s)
           Q == Remember(R, s)
<1>1. /\ P \in Registry /\ Ordered(P.open, P.later) /\ P.open = R.open \cup {s}
      /\ P.tracked = R.tracked /\ P.clients = R.clients
  BY UpdatedWellFormed DEF WellFormed
<1>2. Q = [P EXCEPT !.tracked = @ \cup {s}, !.active = s]
  BY DEF Remember
<1> HIDE DEF P, Q
<1>3. /\ Q \in Registry /\ Q.open = P.open /\ Q.later = P.later /\ Q.clients = P.clients
      /\ Q.tracked = P.tracked \cup {s}
  BY <1>1, <1>2 DEF Registry
<1>4. WellFormed(Q)
  BY <1>1, <1>3 DEF WellFormed
<1> QED BY <1>1, <1>3, <1>4 DEF Q

(* A number is always free: fewer sessions are open than there are.        *)
LEMMA AllocatedIsFree ==
  ASSUME NEW R, WellFormed(R), NEW s \in Sessions \ R.open, NEW d
  PROVE  AllocatedConn(R, d, 0) \in Conns \ UsedConns(R, d)
<1> DEFINE N == Cardinality(Sessions)
           holders == {t \in R.open : meta[t].device = d}
           used == UsedConns(R, d)
           free == (1 .. N) \ used
<1>1. IsFiniteSet(Sessions) /\ N \in Nat
  BY NumbersAssumption, FS_CardinalityType
<1>2. holders \subseteq Sessions \ {s}
  BY DEF WellFormed, Registry
<1>3. IsFiniteSet(Sessions \ {s}) /\ Cardinality(Sessions \ {s}) = N - 1
  BY <1>1, FS_RemoveElement
<1>4. IsFiniteSet(holders) /\ Cardinality(holders) <= N - 1
  BY <1>2, <1>3, FS_Subset
<1>5. used = {meta[t].conn : t \in holders}
  BY DEF UsedConns
<1>6. IsFiniteSet(used) /\ Cardinality(used) <= Cardinality(holders)
  <2> DEFINE f == [t \in holders |-> meta[t].conn]
  <2>1. f \in Surjection(holders, used)
    BY <1>5 DEF Surjection
  <2> QED BY <1>4, <2>1, FS_Surjection
<1>7. free # {}
  <2> SUFFICES ASSUME 1 .. N \subseteq used PROVE FALSE
    OBVIOUS
  <2>1. Cardinality(1 .. N) = N
    BY <1>1, FS_Interval
  <2>2. Cardinality(1 .. N) <= Cardinality(used)
    BY <1>6, FS_Subset
  <2>3. Cardinality(used) \in Nat /\ Cardinality(holders) \in Nat
    BY <1>4, <1>6, FS_CardinalityType
  <2> HIDE DEF N, holders, used
  <2> QED BY <1>1, <1>4, <1>6, <2>1, <2>2, <2>3
<1> HIDE DEF N, used
<1>f. free \in SUBSET Nat
  BY <1>1
<1>8. PICK n \in free : \A m \in free : n <= m
  <2> HIDE DEF free
  <2> QED BY <1>7, <1>f, LeastNumber
<1>9. \A m \in 1 .. n - 1 : m \in used
  BY <1>1, <1>8
<1>10. n \in Conns /\ n \notin used
  BY <1>8 DEF Conns, N
<1>11. AllocatedConn(R, d, 0)
         = CHOOSE k \in Conns : k \notin used /\ \A m \in 1 .. k - 1 : m \in used
  BY DEF AllocatedConn, used
<1> QED BY <1>9, <1>10, <1>11 DEF used

-----------------------------------------------------------------------------
(* The inductive invariant                                                 *)

Calls == {"unused", "connecting", "shell", "open", "failed"}

(* What the server holds was opened by a call that has ended, or is the    *)
(* connection of one that waits for its shell.                             *)
Owned ==
  /\ \A s \in reg.tracked : call[s] = "open"
  /\ \A s \in reg.clients : s \in reg.open \/ call[s] = "shell"

(* The checks of a call found no session with the name and the connection  *)
(* that it takes: this outlives the sessions.                              *)
Checked ==
  \A t \in Sessions : \A s \in seen[t] :
    call[s] = "open" /\ call[t] # "unused" /\ ~SameTarget(s, t)

Inv == TypeOK /\ WellFormed(reg) /\ Owned /\ Checked

LEMMA InvInit == Init => Inv
<1> SUFFICES ASSUME Init PROVE Inv
  OBVIOUS
<1>1. WellFormed(reg)
  BY DEF Init, WellFormed, Registry, Ordered
<1>2. NoMeta \in Metas
  BY DEF NoMeta, Metas
<1>3. TypeOK
  BY <1>1, <1>2 DEF Init, TypeOK, WellFormed, Registry
<1> QED BY <1>1, <1>3 DEF Init, Inv, Owned, Checked

(* A step that only takes from the registry. *)
LEMMA WithinStep ==
  ASSUME Inv, Within(reg', reg), UNCHANGED <<call, meta, seen>>
  PROVE  Inv'
<1>1. WellFormed(reg)'
  BY DEF Within, WellFormed, Registry, Ordered
<1>2. TypeOK'
  BY <1>1 DEF Inv, TypeOK, WellFormed, Registry
<1>3. Owned'
  BY DEF Inv, Owned, Within
<1>4. Checked'
  BY DEF Inv, Checked, SameTarget
<1> QED BY <1>1, <1>2, <1>3, <1>4 DEF Inv

(* A call begins: it takes what no session that its checks saw has.        *)
LEMMA BeginStep ==
  ASSUME Inv, NEW R \in Sweeps(reg) \cup {reg}, NEW s \in Sessions,
         NEW d \in Devices \cup {NoDevice}, NEW c \in {0} \cup Conns, NEW n \in Names \cup {NoName},
         NameFree(R, n), d # NoDevice => c \notin UsedConns(R, d),
         Begin(R, s, d, c, n)
  PROVE  Inv'
<1>1. WellFormed(reg) /\ Within(R, reg)
  <2>1. Within(reg, reg)
    BY DEF Inv, Within
  <2> QED BY <2>1, SweepsWithin DEF Inv
<1>2. /\ call[s] = "unused" /\ reg' = R
      /\ call' = [call EXCEPT ![s] = "connecting"]
      /\ meta' = [meta EXCEPT ![s] = [device |-> d, conn |-> c, name |-> n]]
      /\ seen' = [seen EXCEPT ![s] = R.open]
  BY DEF Begin
<1>3. WellFormed(reg)'
  BY <1>1, <1>2 DEF Within, WellFormed, Registry, Ordered
<1>4. [device |-> d, conn |-> c, name |-> n] \in Metas
  BY DEF Metas
<1>5. TypeOK'
  <2>1. reg' \in Registry /\ Ordered(reg'.open, reg'.later) /\ R.open \in SUBSET Sessions
    BY <1>2, <1>3 DEF WellFormed, Registry, Ordered
  <2>2. call' \in [Sessions -> Calls] /\ meta' \in [Sessions -> Metas] /\ seen' \in [Sessions -> SUBSET Sessions]
    BY <1>2, <1>4, <2>1 DEF Inv, TypeOK, Calls
  <2> QED BY <2>1, <2>2 DEF TypeOK, Registry, Calls, Ordered
<1>6. \A t \in Sessions : call[t] # "unused" => call'[t] = call[t] /\ meta'[t] = meta[t] /\ seen'[t] = seen[t]
  BY <1>2 DEF Inv, TypeOK
<1>7. Owned'
  BY <1>1, <1>2, <1>6 DEF Inv, Owned, Within, WellFormed, Registry
<1>8. Checked'
  <2> SUFFICES ASSUME NEW t \in Sessions, NEW u \in seen'[t]
               PROVE  call'[u] = "open" /\ call'[t] # "unused" /\ ~SameTarget(u, t)'
    BY DEF Checked
  <2>1. CASE t # s
    <3>1. u \in seen[t]
      BY <1>2, <2>1 DEF Inv, TypeOK
    <3>2. u \in Sessions /\ call[u] = "open" /\ call[t] # "unused" /\ ~SameTarget(u, t)
      BY <3>1 DEF Inv, Checked, TypeOK
    <3> QED BY <1>6, <3>2 DEF SameTarget
  <2>2. CASE t = s
    <3>1. u \in R.open /\ meta'[t] = [device |-> d, conn |-> c, name |-> n] /\ call'[t] = "connecting"
      BY <1>2, <2>2 DEF Inv, TypeOK
    <3>2. u \in reg.open /\ u \in Sessions /\ call[u] = "open"
      BY <1>1, <3>1 DEF Inv, Owned, Within, WellFormed, Registry
    <3>3. call'[u] = "open" /\ meta'[u] = meta[u]
      BY <1>6, <3>2
    <3>4. n # NoName => meta[u].name # n
      BY <3>1 DEF NameFree
    <3>5. d # NoDevice => ~(meta[u].device = d /\ meta[u].conn = c)
      BY <3>1 DEF UsedConns
    <3> QED BY <3>1, <3>3, <3>4, <3>5 DEF SameTarget
  <2> QED BY <2>1, <2>2
<1> QED BY <1>3, <1>5, <1>7, <1>8 DEF Inv

(* What the registry gains is what the call s has come to.                 *)
Belongs(s, to) ==
  /\ \A t \in reg'.tracked : t \in reg.tracked \/ (t = s /\ to = "open")
  /\ \A t \in reg'.clients :
       \/ t \in reg.clients /\ t # s /\ (t \in reg.open => t \in reg'.open)
       \/ t = s /\ (s \in reg'.open \/ to = "shell")

(* A call goes on: only its own state changes. *)
LEMMA ProgressStep ==
  ASSUME Inv, NEW s \in Sessions, NEW from \in Calls \ {"unused", "open"}, NEW to \in Calls \ {"unused"},
         Progress(s, from, to), UNCHANGED <<meta, seen>>, WellFormed(reg'),
         Belongs(s, to)
  PROVE  Inv'
<1>1. WellFormed(reg)'
  BY DEF WellFormed, Registry, Ordered
<1>2. call[s] = from /\ call' = [call EXCEPT ![s] = to]
  BY DEF Progress
<1>3. TypeOK'
  <2>1. call' \in [Sessions -> Calls]
    BY <1>2 DEF Inv, TypeOK, Calls
  <2>2. reg' \in Registry /\ Ordered(reg'.open, reg'.later)
    BY DEF WellFormed
  <2> QED BY <2>1, <2>2 DEF Inv, TypeOK, Registry, Calls, Ordered
<1>4. \A t \in Sessions : call'[t] = IF t = s THEN to ELSE call[t]
  BY <1>2 DEF Inv, TypeOK
<1>5. Owned'
  <2>1. reg'.tracked \subseteq Sessions /\ reg'.clients \subseteq Sessions
    BY DEF WellFormed, Registry
  <2>2. s \notin reg.tracked
    BY <1>2 DEF Inv, Owned, Calls
  <2>3. \A t \in reg'.tracked : call'[t] = "open"
    BY <1>4, <2>1, <2>2 DEF Inv, Owned, Belongs
  <2>4. \A t \in reg'.clients : t \in reg'.open \/ call'[t] = "shell"
    BY <1>4, <2>1 DEF Inv, Owned, Belongs
  <2> QED BY <2>3, <2>4 DEF Owned
<1>6. Checked'
  <2>1. \A t \in Sessions : \A u \in seen[t] : u \in Sessions /\ u # s
    BY <1>2 DEF Inv, Checked, TypeOK, Calls
  <2> QED BY <1>4, <2>1 DEF Inv, Checked, SameTarget, Calls
<1> QED BY <1>1, <1>3, <1>5, <1>6 DEF Inv

Given(d, c, n) ==
  d \in Devices \cup {NoDevice} /\ c \in {0} \cup Requested /\ n \in Names \cup {NoName}

LEMMA OpenStartStep ==
  ASSUME Inv, NEW s \in Sessions, NEW d, NEW c, NEW n, Given(d, c, n), OpenStart(s, d, c, n)
  PROVE  Inv'
<1> DEFINE k(R) == IF d = NoDevice THEN 0 ELSE AllocatedConn(R, d, c)
<1>1. PICK R \in {reg} \cup Sweeps(reg) :
         /\ NameFree(R, n) /\ (c \notin UsedConns(R, d) \/ c = 0)
         /\ Begin(R, s, d, k(R), n)
  BY DEF OpenStart
<1>2. WellFormed(R) /\ R.open \subseteq reg.open
  BY <1>1, SweepsWithin DEF Inv, Within
<1>3. s \notin R.open
  BY <1>1, <1>2 DEF Begin, Inv, Owned, WellFormed
<1>4. AllocatedConn(R, d, c) \in Conns \ UsedConns(R, d)
  <2>1. CASE c = 0
    BY <1>2, <1>3, <2>1, AllocatedIsFree
  <2>2. CASE c # 0
    BY <1>1, <2>2 DEF AllocatedConn, Given, Conns
  <2> QED BY <2>1, <2>2
<1>5. k(R) \in {0} \cup Conns /\ (d # NoDevice => k(R) \notin UsedConns(R, d))
  BY <1>4
<1> HIDE DEF k
<1> QED BY <1>1, <1>5, BeginStep DEF Given

LEMMA QuickStartStep ==
  ASSUME Inv, NEW s \in Sessions, NEW d, NEW c, NEW n, Given(d, c, n), QuickStart(s, d, c, n)
  PROVE  Inv'
<1> DEFINE k == QuickConn(d, c)
           m == QuickName(d, n)
<1>1. PICK R \in Sweeps(reg) : Reusable(R, d, c, n) = {} /\ NameFree(R, m) /\ Begin(R, s, d, k, m)
  BY DEF QuickStart
<1>2. m \in Names \cup {NoName}
  BY NamesAssumption DEF QuickName, Given
<1>3. k \in {0} \cup Conns
  <2>1. Cardinality(Sessions) \in Nat /\ Cardinality(Sessions) # 0
    BY NumbersAssumption, FS_CardinalityType, FS_EmptySet
  <2> QED BY <2>1 DEF QuickConn, Given, Conns
<1>4. d # NoDevice => k \notin UsedConns(R, d)
  BY <1>1 DEF Reusable, UsedConns
<1> HIDE DEF k, m
<1> QED BY <1>1, <1>2, <1>3, <1>4, BeginStep DEF Given

LEMMA WithinSelf == ASSUME NEW R, WellFormed(R) PROVE Within(R, R)
  BY DEF Within

LEMMA ConnectionStep ==
  ASSUME Inv, NEW s \in Sessions,
         ConnReady(s) \/ ConnFails(s) \/ ClientDrops(s) \/ ShellFails(s) \/ ShellOpens(s)
  PROVE  Inv'
<1>0. reg \in Registry /\ WellFormed(reg) /\ \A t \in reg.open : t \in reg.tracked /\ call[t] = "open"
  BY DEF Inv, Owned, WellFormed
<1>c. ASSUME NEW S \in SUBSET Sessions, reg' = [reg EXCEPT !.clients = S]
      PROVE  WellFormed(reg') /\ reg'.tracked = reg.tracked /\ reg'.open = reg.open /\ reg'.clients = S
  BY <1>0, <1>c DEF WellFormed, Registry
<1>d. reg.clients \in SUBSET Sessions /\ \A t \in reg.clients : call[t] \in {"open", "shell"}
  BY <1>0 DEF Inv, Owned, WellFormed, Registry
<1>1. CASE ConnReady(s)
  <2>1. /\ WellFormed(reg') /\ reg'.tracked = reg.tracked /\ reg'.open = reg.open
        /\ reg'.clients = reg.clients \cup {s}
    BY <1>1, <1>c, <1>d DEF ConnReady
  <2>2. Progress(s, "connecting", "shell") /\ UNCHANGED <<meta, seen>> /\ Belongs(s, "shell")
    BY <1>1, <2>1 DEF ConnReady, Belongs
  <2> QED BY <2>1, <2>2, ProgressStep DEF Calls
<1>2. CASE ConnFails(s)
  <2>1. s \notin reg.clients
    BY <1>2, <1>d DEF ConnFails, Progress
  <2>2. Progress(s, "connecting", "failed") /\ UNCHANGED <<meta, seen>> /\ WellFormed(reg')
    BY <1>0, <1>2 DEF ConnFails
  <2>3. Belongs(s, "failed")
    BY <1>2, <2>1 DEF ConnFails, Belongs
  <2> QED BY <2>2, <2>3, ProgressStep DEF Calls
<1>3. CASE ClientDrops(s)
  <2>1. /\ WellFormed(reg') /\ reg'.tracked = reg.tracked /\ reg'.open = reg.open
        /\ reg'.clients = reg.clients \ {s}
    BY <1>3, <1>c, <1>d DEF ClientDrops
  <2>2. Within(reg', reg)
    BY <2>1 DEF Within
  <2> QED BY <1>3, <2>2, WithinStep DEF ClientDrops
<1>4. CASE ShellFails(s)
  <2>1. /\ WellFormed(reg') /\ reg'.tracked = reg.tracked /\ reg'.open = reg.open
        /\ reg'.clients = reg.clients \ {s}
    BY <1>4, <1>c, <1>d DEF ShellFails
  <2>2. Progress(s, "shell", "failed") /\ UNCHANGED <<meta, seen>> /\ Belongs(s, "failed")
    BY <1>4, <2>1 DEF ShellFails, Belongs
  <2> QED BY <2>1, <2>2, ProgressStep DEF Calls
<1>5. CASE ShellOpens(s)
  <2>1. /\ WellFormed(reg') /\ reg'.tracked = reg.tracked \cup {s} /\ reg'.open = reg.open \cup {s}
        /\ reg'.clients = reg.clients
    BY <1>0, <1>5, RememberWellFormed DEF ShellOpens
  <2>2. Progress(s, "shell", "open") /\ UNCHANGED <<meta, seen>> /\ Belongs(s, "open")
    BY <1>5, <1>d, <2>1 DEF ShellOpens, Belongs
  <2> QED BY <2>1, <2>2, ProgressStep DEF Calls
<1> QED BY <1>1, <1>2, <1>3, <1>4, <1>5

LEMMA ActivityStep ==
  ASSUME Inv, NEW s \in Sessions, Activity(s)
  PROVE  Inv'
<1>1. WellFormed(reg) /\ s \in reg.open
  BY DEF Inv, Activity
<1>2. /\ reg' \in Registry /\ Ordered(reg'.open, reg'.later) /\ reg'.open = reg.open \cup {s}
      /\ reg'.tracked = reg.tracked /\ reg'.clients = reg.clients
  BY <1>1, UpdatedWellFormed DEF Activity, WellFormed
<1>3. reg'.open = reg.open
  BY <1>1, <1>2
<1>4. Within(reg', reg)
  BY <1>1, <1>2, <1>3 DEF Within, WellFormed
<1> QED BY <1>4, WithinStep DEF Activity, Quiet

(* Every step of a call without an await only takes from the registry,     *)
(* whichever sessions its sweep finds.                                     *)
LEMMA TakingSteps ==
  ASSUME WellFormed(reg), TypeOK,
         \/ \E d \in Devices \cup {NoDevice}, c \in {0} \cup Requested, n \in Names \cup {NoName} : QuickReuse(d, c, n)
         \/ \E s \in Sessions : ChannelEnds(s) \/ UseDefault(s)
         \/ \E r \in Refs : SetActive(r) \/ SessionClose(r) \/ ViewerClose(r)
         \/ UseDefault(NoSession) \/ ClearActive \/ CloseDefault \/ SweepTimer
  PROVE  Within(reg', reg) /\ UNCHANGED <<call, meta, seen>>
<1>0. ASSUME NEW R \in Sweeps(reg) PROVE Within(R, reg) /\ WellFormed(R) /\ R.tracked \subseteq Sessions
  BY <1>0, SweepsWithin DEF Within, WellFormed, Registry
<1>a. ASSUME NEW R, WellFormed(R), NEW r, Resolve(R, r) # NoSession PROVE Resolve(R, r) \in Sessions
  BY <1>a, ResolveIsTracked DEF WellFormed, Registry
<1>1. ASSUME NEW d, NEW c, NEW n, QuickReuse(d, c, n) PROVE Within(reg', reg) /\ UNCHANGED <<call, meta, seen>>
  <2>1. PICK R \in Sweeps(reg) : \E s \in Reusable(R, d, c, n) : reg' = [R EXCEPT !.active = s]
    BY <1>1 DEF QuickReuse
  <2>2. PICK s \in Reusable(R, d, c, n) : reg' = [R EXCEPT !.active = s]
    BY <2>1
  <2>3. s \in Sessions
    BY <1>0 DEF Reusable, WellFormed, Registry
  <2>4. Within(reg', R)
    BY <1>0, <2>2, <2>3, SetActiveWithin
  <2> QED BY <1>0, <1>1, <2>4, WithinTransitive DEF QuickReuse
<1>2. ASSUME NEW s, ChannelEnds(s) PROVE Within(reg', reg) /\ UNCHANGED <<call, meta, seen>>
  BY <1>2, ClosingWithin DEF ChannelEnds, Finalize, Quiet
<1>3. ASSUME NEW s, UseDefault(s) PROVE Within(reg', reg) /\ UNCHANGED <<call, meta, seen>>
  <2>1. PICK R \in Sweeps(reg) : reg' = Refresh(R)
    BY <1>3 DEF UseDefault
  <2>2. Within(reg', R)
    BY <1>0, <2>1, RefreshWithin
  <2> QED BY <1>0, <1>3, <2>2, WithinTransitive DEF UseDefault, Quiet
<1>4. ASSUME NEW r, SetActive(r) PROVE Within(reg', reg) /\ UNCHANGED <<call, meta, seen>>
  <2>1. PICK R \in Sweeps(reg) : Resolve(R, r) # NoSession /\ reg' = [R EXCEPT !.active = Resolve(R, r)]
    BY <1>4 DEF SetActive
  <2>2. Within(reg', R)
    BY <1>0, <1>a, <2>1, SetActiveWithin
  <2> QED BY <1>0, <1>4, <2>2, WithinTransitive DEF SetActive, Quiet
<1>5. ASSUME NEW r, SessionClose(r) PROVE Within(reg', reg) /\ UNCHANGED <<call, meta, seen>>
  <2>1. PICK R \in Sweeps(reg) : Resolve(R, r) # NoSession /\ reg' = Closed(R, Resolve(R, r))
    BY <1>5 DEF SessionClose
  <2>2. Within(reg', R)
    BY <1>0, <1>a, <2>1, ClosedWithin
  <2> QED BY <1>0, <1>5, <2>2, WithinTransitive DEF SessionClose, Quiet
<1>6. ASSUME NEW r, ViewerClose(r) PROVE Within(reg', reg) /\ UNCHANGED <<call, meta, seen>>
  <2>1. PICK R \in Sweeps(reg) : reg' \in Sweeps(Forget(Finalize(R, Resolve(R, r)), Resolve(R, r)))
    BY <1>6 DEF ViewerClose
  <2> DEFINE P == Forget(Finalize(R, Resolve(R, r)), Resolve(R, r))
  <2>2. Within(P, R) /\ WellFormed(P)
    BY <1>0, ForgetWithin DEF Within
  <2> HIDE DEF P
  <2>3. Within(reg', P)
    BY <2>1, <2>2, SweepsWithin DEF P
  <2> QED BY <1>0, <1>6, <2>2, <2>3, WithinTransitive DEF ViewerClose, Quiet
<1>7. CASE ClearActive
  BY <1>7, SetActiveWithin DEF ClearActive, Quiet
<1>8. CASE CloseDefault
  <2>1. PICK R \in Sweeps(reg) : Refresh(R).active # NoSession /\ reg' = Closed(Refresh(R), Refresh(R).active)
    BY <1>8 DEF CloseDefault
  <2>2. Within(Refresh(R), R) /\ WellFormed(Refresh(R)) /\ Refresh(R).active \in Sessions
    BY <1>0, <2>1, RefreshWithin DEF Within, WellFormed, Registry
  <2>3. Within(reg', Refresh(R))
    BY <2>1, <2>2, ClosedWithin
  <2> QED BY <1>0, <1>8, <2>2, <2>3, WithinTransitive DEF CloseDefault, Quiet
<1>9. CASE SweepTimer
  BY <1>0, <1>9 DEF SweepTimer, Quiet
<1> QED BY <1>1, <1>2, <1>3, <1>4, <1>5, <1>6, <1>7, <1>8, <1>9

LEMMA InvStep == Inv /\ [Next]_vars => Inv'
<1> SUFFICES ASSUME Inv, [Next]_vars PROVE Inv'
  OBVIOUS
<1>1. CASE UNCHANGED vars
  <2>1. WellFormed(reg) /\ UNCHANGED <<reg, call, meta, seen>>
    BY <1>1 DEF Inv, vars
  <2> QED BY <2>1, WithinSelf, WithinStep
<1>2. ASSUME NEW d \in Devices \cup {NoDevice}, NEW c \in {0} \cup Requested, NEW n \in Names \cup {NoName},
             NEW s \in Sessions, OpenStart(s, d, c, n) \/ QuickStart(s, d, c, n)
      PROVE  Inv'
  BY <1>2, OpenStartStep, QuickStartStep DEF Given
<1>3. ASSUME WellFormed(reg), TypeOK,
         \/ \E d \in Devices \cup {NoDevice}, c \in {0} \cup Requested, n \in Names \cup {NoName} : QuickReuse(d, c, n)
         \/ \E s \in Sessions : ChannelEnds(s) \/ UseDefault(s)
         \/ \E r \in Refs : SetActive(r) \/ SessionClose(r) \/ ViewerClose(r)
         \/ UseDefault(NoSession) \/ ClearActive \/ CloseDefault \/ SweepTimer
      PROVE Inv'
  BY <1>3, TakingSteps, WithinStep
<1> QED BY <1>1, <1>2, <1>3, ConnectionStep, ActivityStep DEF Next, Inv

LEMMA Invariant == Spec => []Inv
<1>1. Init => Inv
  BY InvInit
<1>2. Inv /\ [Next]_vars => Inv'
  BY InvStep
<1> QED BY <1>1, <1>2, PTL DEF Spec

(* The variables hold what their declarations say, and the last updates of *)
(* the open sessions are in a total order; so there is a most recent one   *)
(* (pickMostRecentOpenSession), and a free number for every profile        *)
(* connection (allocateConnectionName).                                    *)
THEOREM RegistryTyped == Spec => []TypeOK
<1>1. Inv => TypeOK
  BY DEF Inv
<1> QED BY <1>1, Invariant, PTL

(* No session is open that the server cannot find and no connection is up  *)
(* that nobody will close, whatever fails on the way to a session.         *)
THEOREM NothingLost == Spec => []NothingStray
<1>1. Inv => NothingStray
  BY DEF Inv, Owned, WellFormed, NothingStray
<1> QED BY <1>1, Invariant, PTL

(* Sessions of the same name, or on the same connection of a profile, were *)
(* opened by calls that overlapped.                                        *)
THEOREM DuplicatesNeedOverlap == Spec => []DuplicatesOverlapped
<1>1. Inv => DuplicatesOverlapped
  BY DEF Inv, Checked, WellFormed, Registry, DuplicatesOverlapped
<1> QED BY <1>1, Invariant, PTL

-----------------------------------------------------------------------------
(* The default target                                                      *)

(* Q has the default target of R, unless that is not open any more.        *)
SameDefault(Q, R) == R.active \in Q.open => Q.active = R.active

LEMMA SameDefaultTransitive ==
  ASSUME NEW P, NEW Q, NEW R, Within(P, Q), SameDefault(P, Q), SameDefault(Q, R)
  PROVE  SameDefault(P, R)
BY DEF Within, SameDefault

(* Every way for sessions to end keeps the default.                        *)
LEMMA EndKeepsDefault == Inv /\ End => SameDefault(reg', reg)
<1> SUFFICES ASSUME Inv, End PROVE SameDefault(reg', reg)
  OBVIOUS
<1>0. ASSUME NEW R \in Sweeps(reg) PROVE SameDefault(R, reg) /\ WellFormed(R)
  BY <1>0, SweepsWithin DEF Within, SameDefault, Inv
<1>a. ASSUME NEW R, WellFormed(R), NEW r, Resolve(R, r) # NoSession PROVE Resolve(R, r) \in Sessions
  BY <1>a, ResolveIsTracked DEF WellFormed, Registry
<1>1. ASSUME NEW r, SessionClose(r) PROVE SameDefault(reg', reg)
  <2>1. PICK R \in Sweeps(reg) : Resolve(R, r) # NoSession /\ reg' = Closed(R, Resolve(R, r))
    BY <1>1 DEF SessionClose
  <2>2. Within(reg', R) /\ SameDefault(reg', R)
    BY <1>0, <1>a, <2>1, ClosedWithin DEF SameDefault
  <2> QED BY <1>0, <2>2, SameDefaultTransitive
<1>2. ASSUME NEW r, ViewerClose(r) PROVE SameDefault(reg', reg)
  <2>1. PICK R \in Sweeps(reg) : reg' \in Sweeps(Forget(Finalize(R, Resolve(R, r)), Resolve(R, r)))
    BY <1>2 DEF ViewerClose
  <2> DEFINE P == Forget(Finalize(R, Resolve(R, r)), Resolve(R, r))
  <2>2. Within(P, R) /\ WellFormed(P) /\ SameDefault(P, R)
    BY <1>0, ForgetWithin DEF Within, SameDefault
  <2> HIDE DEF P
  <2>3. Within(reg', P) /\ SameDefault(reg', P)
    BY <2>1, <2>2, SweepsWithin DEF P, SameDefault
  <2>4. SameDefault(reg', R)
    BY <2>2, <2>3, SameDefaultTransitive
  <2>5. Within(reg', R)
    BY <2>2, <2>3, WithinTransitive
  <2> QED BY <1>0, <2>4, <2>5, SameDefaultTransitive
<1>3. ASSUME NEW s, ChannelEnds(s) PROVE SameDefault(reg', reg)
  BY <1>3, ClosingWithin DEF ChannelEnds, Finalize, SameDefault, Inv
<1>4. CASE CloseDefault
  <2>1. PICK R \in Sweeps(reg) : Refresh(R).active # NoSession /\ reg' = Closed(Refresh(R), Refresh(R).active)
    BY <1>4 DEF CloseDefault
  <2> DEFINE P == Refresh(R)
  <2>2. Within(P, R) /\ WellFormed(P) /\ P.active \in Sessions /\ SameDefault(P, R)
    BY <1>0, <2>1, RefreshWithin DEF Within, WellFormed, Registry, SameDefault
  <2>3. Within(reg', P) /\ SameDefault(reg', P)
    BY <2>1, <2>2, ClosedWithin DEF SameDefault
  <2> HIDE DEF P
  <2>4. SameDefault(reg', R) /\ Within(reg', R)
    BY <2>2, <2>3, SameDefaultTransitive, WithinTransitive
  <2> QED BY <1>0, <2>4, SameDefaultTransitive
<1>5. CASE SweepTimer
  BY <1>0, <1>5 DEF SweepTimer
<1> QED BY <1>1, <1>2, <1>3, <1>4, <1>5 DEF End

(* The end of other sessions never moves the default target (the test in   *)
(* ssh-session-close, sweepSessions, the viewer's close).                  *)
THEOREM DefaultStays == Spec => DefaultKept
<1>1. Inv /\ [Next]_vars => [reg'.active # reg.active /\ reg.active \in reg'.open => ~End]_vars
  BY EndKeepsDefault DEF SameDefault
<1> QED BY <1>1, Invariant, PTL DEF Spec, DefaultKept

-----------------------------------------------------------------------------
(* Session arguments                                                       *)

(* Only the call that opens a session names it, before it is open.         *)
LEMMA NamesStay == Inv /\ [Next]_vars => \A s \in reg.open : meta'[s] = meta[s]
<1> SUFFICES ASSUME Inv, [Next]_vars, NEW s \in reg.open PROVE meta'[s] = meta[s]
  OBVIOUS
<1>1. s \in Sessions /\ call[s] = "open"
  BY DEF Inv, Owned, WellFormed, Registry
<1>2. ASSUME NEW R, NEW t, NEW d, NEW c, NEW n, Begin(R, t, d, c, n) PROVE meta'[s] = meta[s]
  BY <1>1, <1>2 DEF Begin, Inv, TypeOK
<1>3. ASSUME NEW d, NEW c, NEW n, NEW t, OpenStart(t, d, c, n) \/ QuickStart(t, d, c, n) PROVE meta'[s] = meta[s]
  BY <1>2, <1>3 DEF OpenStart, QuickStart
<1>4. CASE UNCHANGED vars
  BY <1>4 DEF vars
<1>5. ASSUME NEW t, \/ ConnReady(t) \/ ConnFails(t) \/ ClientDrops(t) \/ ShellFails(t) \/ ShellOpens(t)
                    \/ Activity(t)
      PROVE  UNCHANGED meta
  BY <1>5 DEF ConnReady, ConnFails, ClientDrops, ShellFails, ShellOpens, Activity, Quiet
<1>6. ASSUME WellFormed(reg), TypeOK,
         \/ \E d \in Devices \cup {NoDevice}, c \in {0} \cup Requested, n \in Names \cup {NoName} : QuickReuse(d, c, n)
         \/ \E t \in Sessions : ChannelEnds(t) \/ UseDefault(t)
         \/ \E r \in Refs : SetActive(r) \/ SessionClose(r) \/ ViewerClose(r)
         \/ UseDefault(NoSession) \/ ClearActive \/ CloseDefault \/ SweepTimer
      PROVE UNCHANGED meta
  BY <1>6, TakingSteps
<1> QED BY <1>3, <1>4, <1>5, <1>6 DEF Next, Inv

(* What an argument of an open session names: that session, or an error.   *)
Named == \A s \in reg.open : \A r \in Arguments(s) : Resolve(reg, r) \in {s, NoSession}

LEMMA ArgumentsName == Inv => Named
<1> DEFINE R == reg
<1> SUFFICES ASSUME WellFormed(R), NEW s \in R.open, NEW r \in Arguments(s)
             PROVE  Resolve(R, r) \in {s, NoSession}
  BY DEF Inv, Named
<1> HIDE DEF R
<1> DEFINE ids == {t \in R.tracked : r = <<"id", t>>}
           opened == Matching(R.open, r)
<1>1. R.open \in SUBSET Sessions /\ R.open \subseteq R.tracked /\ R.tracked \in SUBSET Sessions
  BY DEF WellFormed, Registry
<1>2. CASE r = <<"id", s>>
  <2>1. ids = {s}
    BY <1>1, <1>2
  <2>2. Only(ids) = s
    BY <1>1, <2>1, OnlyIsMember
  <2> QED BY <2>1, <2>2 DEF Resolve
<1>3. CASE r # <<"id", s>>
  <2>1. r \in {Ref(s), <<"name", meta[s].name>>}
    BY <1>3 DEF Arguments
  <2>2. r[1] # "id"
    BY <1>3, <2>1 DEF Ref
  <2>3. ids = {}
    BY <2>2
  <2>4. s \in opened /\ opened \in SUBSET Sessions
    BY <1>1, <2>1 DEF Matching
  <2>5. Only(opened) \in {s, NoSession}
    BY <2>4, OnlyIsMember
  <2> QED BY <2>3, <2>4, <2>5 DEF Resolve
<1> QED BY <1>2, <1>3

(* An argument that names a session names no other one while it is open    *)
(* (resolveSession; the names and numbers are those of buildSessionMetadata). *)
THEOREM ArgumentsStable == Spec => ExplicitStable
<1>1. Inv /\ [Next]_vars /\ Named' =>
        [reg'.tracked # reg.tracked \/ reg'.open # reg.open \/ reg'.later # reg.later =>
           \A s \in reg.open \cap reg'.open : \A r \in Arguments(s) :
             Resolve(reg, r) = s => Resolve(reg, r)' \in {s, NoSession}]_vars
  <2> SUFFICES ASSUME Inv, [Next]_vars, Named', NEW s \in reg.open \cap reg'.open, NEW r \in Arguments(s)
               PROVE  Resolve(reg, r)' \in {s, NoSession}
    OBVIOUS
  <2>1. meta'[s] = meta[s]
    BY NamesStay
  <2>2. r \in Arguments(s)'
    BY <2>1 DEF Arguments, Ref
  <2> QED BY <2>2 DEF Named
<1> QED BY <1>1, ArgumentsName, Invariant, PTL DEF Spec, ExplicitStable
=============================================================================
