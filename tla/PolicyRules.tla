---------------------------- MODULE PolicyRules ----------------------------
(* The custom policy rules of one session and those who change them: the   *)
(* config CLI, which edits the two configuration files that the defaults   *)
(* come from (config-cli.ts, profiles.ts), the ssh-session-policy tools    *)
(* (tools.ts, session.ts) and the rule editor of the home page, which      *)
(* fetches the rules, lets the user edit them and sends all of them back   *)
(* (home-page.ts, viewer-http-handler.ts).  What a command is told by the  *)
(* rules is validateCommand (validation.ts).                               *)
(*                                                                         *)
(* The page refreshes itself by a timer while the user edits: its scripts  *)
(* run from one await to the next, and that is a step.  The list of rules  *)
(* of a session is sorted by priority and id, so it is kept as a set; the  *)
(* rows of the page are a sequence, whose order is their priority.  The    *)
(* requests under way are a set: two that are the same are one.            *)
EXTENDS Integers, Sequences, FiniteSets, SequencesExt, FiniteSetsExt

CONSTANTS
  Installed,     \* the rules in the files at first, by scope
  ConfigWrites,  \* <<scope, flags>> that the CLI is called with
  ToolRules,     \* rules that ssh-session-policy-upsert is called with
  Edits,         \* [field, value] that the user gives a row
  NewId,         \* id of the rule that "Add Rule" makes, once at a time
  LongIds,       \* ids of more than 40 characters
  MaxRefreshes,  \* bound: refreshes under way at a time
  MaxEvents      \* bound: calls of the CLI and the tools, clicks and failures

Scopes == {"global", "workspace"}
OperationModes == {"safe", "full"}
Commands == {"fatal", "risky", "plain"}
NoId == 0

NormalAction == [error |-> "error", block |-> "error", warning |-> "warning", warn |-> "warning", log |-> "log"]
PageActions == {"error", "warning", "log"}
FieldValues == [
  id |-> Nat, enabled |-> BOOLEAN, mode |-> OperationModes \cup {"both"}, pattern |-> Commands \cup {"any"},
  action |-> DOMAIN NormalAction, priority |-> Nat]

(* A rule as the files and the tools give it, and a row of the page. *)
Rules == [id : Nat \ {NoId}, enabled : BOOLEAN, mode : FieldValues.mode, pattern : FieldValues.pattern,
          action : DOMAIN NormalAction, priority : Nat]
Rows == [id : Nat, enabled : BOOLEAN, mode : FieldValues.mode, pattern : FieldValues.pattern,
         action : PageActions]

OnePerId(rules) == \A r, s \in rules : r.id = s.id => r = s

(* Of two rules with one id a file has the last (mergeConfigs), flags are  *)
(* fields of a rule, and the page offers its own names of actions.         *)
ASSUME PolicyRulesAssumption ==
  /\ Installed \in [Scopes -> SUBSET Rules]
  /\ \A scope \in Scopes : IsFiniteSet(Installed[scope]) /\ OnePerId(Installed[scope])
  /\ \A w \in ConfigWrites :
       /\ w[1] \in Scopes /\ "id" \in DOMAIN w[2] /\ w[2].id # NoId
       /\ \A field \in DOMAIN w[2] : field \in DOMAIN FieldValues /\ w[2][field] \in FieldValues[field]
  /\ ToolRules \subseteq Rules
  /\ \A e \in Edits : /\ e.field \in DOMAIN FieldValues \ {"priority"} /\ e.value \in FieldValues[e.field]
                      /\ e.field = "action" => e.value \in PageActions
  /\ NewId \in Nat \ {NoId} /\ MaxEvents \in Nat

VARIABLES
  files,     \* rules of the global and the workspace configuration
  defaults,  \* defaultPolicyRules
  active,    \* policyRules
  open,      \* the details are open (dataset.open)
  dirty,     \* detailState.dirty
  rows,      \* sessionRules
  screen,    \* the rows shown, <<>> while nothing is loaded
  fetches,   \* requests of the page
  events,    \* how many of those there were
  edited,      \* ghost: the screen has an edit that is not saved
  overwritten  \* ghost: an answer overwrote an edit made since the request

session == <<defaults, active>>
ghosts == <<edited, overwritten>>
page == <<open, dirty, rows, screen, fetches, ghosts>>
rulesVars == <<files, session, page, events>>

NoRule == [id |-> NoId]
NoAnswer == {NoRule}

Ids(rules) == {r.id : r \in rules}
Others(rules, id) == {r \in rules : r.id # id}
Counted == events < MaxEvents /\ events' = events + 1
From(source, r) ==
  [source |-> source, id |-> r.id, enabled |-> r.enabled, mode |-> r.mode, pattern |-> r.pattern,
   action |-> r.action, priority |-> r.priority]

----------------------------------------------------------------------------
(* validateCommand                                                         *)

Severity == [error |-> 3, warning |-> 2, log |-> 1]
(* What the CLI and the tools make of a rule that they are given. *)
Normal(r) == [r EXCEPT !.action = NormalAction[@]]

Rank(r) == Severity[NormalAction[r.action]]

CustomRuleApplies(r, command, mode) ==
  r.enabled /\ r.mode \in {"both", mode} /\ r.pattern \in {"any", command}

(* The order within a level, and the one of the evaluation. *)
Earlier(r, s) == r.priority < s.priority \/ (r.priority = s.priority /\ r.id < s.id)

(* Mutant: the priority is forgotten. *)
EvaluatedBefore_ById(r, s) == Rank(r) > Rank(s) \/ (Rank(r) = Rank(s) /\ r.id < s.id)

EvaluatedBefore(r, s) == Rank(r) > Rank(s) \/ (Rank(r) = Rank(s) /\ Earlier(r, s))

MatchCustomRule(command, mode, rules) ==
  LET fit == {r \in rules : CustomRuleApplies(r, command, mode)} IN
  IF fit = {} THEN NoRule ELSE CHOOSE r \in fit : \A s \in fit \ {r} : EvaluatedBefore(r, s)

(* Always blocked, else as the first custom rule says, else built-in. *)
Validate(command, mode, rules) ==
  LET match == MatchCustomRule(command, mode, rules) IN
  IF command = "fatal" THEN [allowed |-> FALSE, rule |-> NoId]
  ELSE IF match # NoRule THEN [allowed |-> NormalAction[match.action] # "error", rule |-> match.id]
  ELSE [allowed |-> command = "plain" \/ mode = "full", rule |-> NoId]

----------------------------------------------------------------------------
(* The configuration: a rule of the workspace replaces the global one.     *)

Configured == files["workspace"] \cup {r \in files["global"] : r.id \notin Ids(files["workspace"])}

(* buildConfiguredSessionPolicyRules *)
Inherited == {From("default", r) : r \in Configured}

(* buildPolicyRuleFromFlags: what is not given stays as it was; a rule     *)
(* that is new needs a pattern and an action.                              *)
Complete(existing, flags) == existing # {} \/ {"pattern", "action"} \subseteq DOMAIN flags

FromFlags(existing, flags) ==
  LET Given(field, default) ==
        IF field \in DOMAIN flags THEN flags[field]
        ELSE IF existing = {} THEN default ELSE (CHOOSE r \in existing : TRUE)[field] IN
  [id |-> flags.id, enabled |-> Given("enabled", TRUE), mode |-> Given("mode", "safe"),
   pattern |-> Given("pattern", ""), action |-> Given("action", ""), priority |-> Given("priority", 1000)]

ConfigSet(scope, flags) ==
  LET existing == {old \in files[scope] : old.id = flags.id}
      r == FromFlags(existing, flags) IN
  /\ Counted
  /\ Complete(existing, flags)
  /\ files' = [files EXCEPT ![scope] = Others(@, r.id) \cup {Normal(r)}]
  /\ UNCHANGED <<session, page>>

ConfigRemove(scope, id) ==
  /\ Counted
  /\ files' = [files EXCEPT ![scope] = Others(@, id)]
  /\ UNCHANGED <<session, page>>

----------------------------------------------------------------------------
(* The rules of the session                                                *)

SetInherited(rules) == defaults' = rules /\ active' = rules

Upserted(rules, r) == Others(rules, r.id) \cup {From("session", r)}

(* Mutant: the default that a rule had replaced does not come back. *)
Removed_Gone(id) == Others(active, id)

(* removePolicyRule, of a rule of the session *)
Removed(id) == Others(active, id) \cup {r \in defaults : r.id = id}

ToolUpsert(r) ==
  /\ Counted
  /\ active' = Upserted(active, Normal(r))
  /\ UNCHANGED <<files, defaults, page>>

(* A rule that the configuration gave is protected. *)
ToolRemove(id) ==
  /\ Counted
  /\ \E r \in active : r.id = id /\ r.source = "session"
  /\ active' = Removed(id)
  /\ UNCHANGED <<files, defaults, page>>

ToolReset ==
  /\ Counted
  /\ SetInherited(Inherited)
  /\ UNCHANGED <<files, page>>

(* Mutant: the rows are given no priority. *)
PriorityOf_Same(i) == 1000

PriorityOf(i) == i

RuleOf(row, i) ==
  [id |-> row.id, enabled |-> row.enabled, mode |-> row.mode, pattern |-> row.pattern,
   action |-> row.action, priority |-> PriorityOf(i)]

(* handleSessionPolicyRequest, POST: the defaults, and over them every row *)
(* that has an id; one whose id is too long ends the request there.        *)
Posted(sent) ==
  LET bad   == {i \in 1 .. Len(sent) : sent[i].id \in LongIds}
      n     == Min({Len(sent)} \cup {i - 1 : i \in bad})
      put[i \in 0 .. n] ==
        IF i = 0 THEN defaults
        ELSE IF sent[i].id = NoId THEN put[i - 1] ELSE Upserted(put[i - 1], RuleOf(sent[i], i)) IN
  [rules |-> put[n], ok |-> bad = {}]

----------------------------------------------------------------------------
(* The page                                                                *)

(* normalizeRule: what it does not know is an error. *)
Row(r) ==
  [id |-> r.id, enabled |-> r.enabled, mode |-> r.mode, pattern |-> r.pattern,
   action |-> IF r.action \in {"warning", "log"} THEN r.action ELSE "error"]

(* sortRules, of the rules that the server has *)
RowBefore(r, s) ==
  LET level(x) == Severity[Row(x).action] IN
  level(r) > level(s) \/ (level(r) = level(s) /\ Earlier(r, s))

Listed(rules) ==
  LET Nth(i) == CHOOSE r \in rules : Cardinality({s \in rules : RowBefore(s, r)}) = i - 1 IN
  [i \in 1 .. Cardinality(rules) |-> Row(Nth(i))]

(* sortRules, of rows, whose priority is their position *)
Level(list, n) ==
  LET kept[i \in 0 .. Len(list)] ==
        IF i = 0 THEN <<>>
        ELSE IF Severity[list[i].action] = n THEN Append(kept[i - 1], list[i]) ELSE kept[i - 1] IN
  kept[Len(list)]

SortRules(list) == Level(list, 3) \o Level(list, 2) \o Level(list, 1)

Asked(what, sent) == [for |-> what, sent |-> sent, answer |-> NoAnswer, touched |-> FALSE]
Touched == {[f EXCEPT !.touched = TRUE] : f \in fetches}
Under(what) == {f \in fetches : f.for = what}

(* openDetails *)
OpenDetails ==
  /\ Counted /\ ~open /\ Under("open") = {}
  /\ open' = TRUE /\ dirty' = FALSE /\ screen' = <<>>
  /\ fetches' = fetches \cup {Asked("open", <<>>)}
  /\ edited' = FALSE
  /\ UNCHANGED <<files, session, rows, overwritten>>

CloseDetails ==
  /\ Counted /\ open
  /\ open' = FALSE /\ dirty' = FALSE /\ screen' = <<>>
  /\ edited' = FALSE
  /\ UNCHANGED <<files, session, rows, fetches, overwritten>>

Editing(list) ==
  /\ Counted /\ screen # <<>>
  /\ dirty' = TRUE /\ edited' = TRUE
  /\ rows' = list /\ fetches' = Touched
  /\ UNCHANGED <<files, session, open, overwritten>>

Edited(row, e) ==
  LET Field(name, old) == IF e.field = name THEN e.value ELSE old IN
  [id |-> Field("id", row.id), enabled |-> Field("enabled", row.enabled), mode |-> Field("mode", row.mode),
   pattern |-> Field("pattern", row.pattern), action |-> Field("action", row.action)]

(* updateRuleField: the row shown and the rule with its index *)
UpdateRuleField(i, e) ==
  /\ i \in 1 .. Len(rows)
  /\ Editing([rows EXCEPT ![i] = Edited(rows[i], e)])
  /\ screen' = [screen EXCEPT ![i] = Edited(screen[i], e)]

NewRow(id) == [id |-> id, enabled |-> TRUE, mode |-> "safe", pattern |-> "any", action |-> "error"]

AddRule ==
  /\ \A i \in 1 .. Len(rows) : rows[i].id # NewId
  /\ Editing(SortRules(Append(rows, NewRow(NewId))))
  /\ screen' = rows'

(* The list may have become shorter than what is shown (Saved). *)
Without(i) == IF i \in 1 .. Len(rows) THEN RemoveAt(rows, i) ELSE rows

DeleteRule(i) ==
  /\ Editing(Without(i))
  /\ screen' = rows'

(* The drop of a row that was dragged: a row that the list no longer has   *)
(* becomes one without an id.                                              *)
MoveRule(i, j) ==
  /\ LET moved == IF i \in 1 .. Len(rows) THEN rows[i] ELSE NewRow(NoId) IN
     Editing(InsertAt(Without(i), Min({j, Len(Without(i)) + 1}), moved))
  /\ screen' = rows'

(* saveRules *)
Save ==
  /\ Counted /\ screen # <<>> /\ Under("save") \cup Under("saved") = {}
  /\ fetches' = fetches \cup {Asked("save", SortRules(rows))}
  /\ UNCHANGED <<files, session, open, dirty, rows, screen, ghosts>>

(* Mutant: details that are loaded are not fetched again. *)
MayRefresh_Once == open /\ ~dirty /\ screen = <<>>

MayRefresh == open /\ ~dirty

(* refreshAll, refreshOpenDetails: by the timer, or after something else   *)
(* the user did; not while the keyboard is in the editor.                  *)
Refresh ==
  /\ MayRefresh /\ Cardinality(Under("refresh")) < MaxRefreshes
  /\ fetches' = fetches \cup {Asked("refresh", <<>>)}
  /\ UNCHANGED <<files, session, open, dirty, rows, screen, ghosts, events>>

(* The server takes the request. *)
Serve(f) ==
  LET posted == Posted(f.sent) IN
  /\ f \in fetches /\ f.answer = NoAnswer
  /\ IF f.for = "save"
     THEN /\ active' = posted.rules
          /\ fetches' = (fetches \ {f}) \cup IF posted.ok THEN {[f EXCEPT !.answer = posted.rules]} ELSE {}
     ELSE /\ fetches' = (fetches \ {f}) \cup {[f EXCEPT !.answer = active]}
          /\ UNCHANGED active
  /\ UNCHANGED <<files, defaults, open, dirty, rows, screen, ghosts, events>>

(* An edit that came after the request is lost. *)
Overwrite(f) == edited' = FALSE /\ overwritten' = (overwritten \/ (edited /\ f.touched))

(* The answer to the POST: the page asks again before it shows it. *)
Saved(f) ==
  /\ f \in fetches /\ f.for = "save" /\ f.answer # NoAnswer
  /\ rows' = Listed(f.answer) /\ dirty' = FALSE
  /\ fetches' = (fetches \ {f}) \cup {Asked("saved", <<>>)}
  /\ Overwrite(f)
  /\ UNCHANGED <<files, session, open, screen, events>>

(* The answer to a GET.  A refresh opens the details that were open when   *)
(* it began.                                                               *)
Loaded(f) ==
  /\ f \in fetches /\ f.for # "save" /\ f.answer # NoAnswer
  /\ rows' = Listed(f.answer) /\ screen' = rows'
  /\ open' = (open \/ f.for # "open")
  /\ fetches' = fetches \ {f}
  /\ Overwrite(f)
  /\ UNCHANGED <<files, session, dirty, events>>

(* A request fails; the page keeps what it has. *)
Fail(f) ==
  /\ Counted /\ f \in fetches
  /\ fetches' = fetches \ {f}
  /\ UNCHANGED <<files, session, open, dirty, rows, screen, ghosts>>

RulesInit ==
  /\ files = Installed
  /\ defaults = Inherited /\ active = defaults
  /\ open = FALSE /\ dirty = FALSE /\ rows = <<>> /\ screen = <<>> /\ fetches = {}
  /\ events = 0
  /\ edited = FALSE /\ overwritten = FALSE

ServerNext ==
  \/ \E w \in ConfigWrites : ConfigSet(w[1], w[2])
  \/ \E scope \in Scopes : \E id \in Ids(files[scope]) : ConfigRemove(scope, id)
  \/ \E r \in ToolRules : ToolUpsert(r)
  \/ \E id \in Ids(active) : ToolRemove(id)
  \/ ToolReset

PageNext ==
  \/ OpenDetails \/ CloseDetails \/ AddRule \/ Save \/ Refresh
  \/ \E i \in 1 .. Len(screen) :
       \/ DeleteRule(i)
       \/ \E e \in Edits : UpdateRuleField(i, e)
       \/ \E j \in 1 .. Len(screen) : MoveRule(i, j)
  \/ \E f \in fetches : Serve(f) \/ Saved(f) \/ Loaded(f) \/ Fail(f)

RulesNext == ServerNext \/ PageNext

(* The refresh timer goes off, each request comes to the server, and each  *)
(* answer to the page.                                                     *)
RulesFairness ==
  /\ WF_rulesVars(Refresh)
  /\ \A what \in {"open", "refresh", "save", "saved"} :
       /\ WF_rulesVars(\E f \in Under(what) : Serve(f))
       /\ WF_rulesVars(\E f \in Under(what) : Saved(f) \/ Loaded(f))

RulesSpec == RulesInit /\ [][RulesNext]_rulesVars /\ RulesFairness

----------------------------------------------------------------------------
(* Properties                                                              *)

(* However rules are replaced, removed, reset and sent back by the page,   *)
(* the session has a rule for every id that it inherited, its own or the   *)
(* default (removePolicyRule restores it, a POST starts from the           *)
(* defaults), and no two for one id.                                       *)
DefaultsCovered ==
  /\ Ids(defaults) \subseteq Ids(active)
  /\ OnePerId(active)

(* What the rows say: "Order: error > warning > log. Within the same       *)
(* level, upper rows win" (home-page.ts:310).                              *)
FirstRow(command, mode) ==
  LET fit  == {i \in 1 .. Len(screen) : CustomRuleApplies(screen[i], command, mode)}
      Wins(i, j) == Rank(screen[i]) > Rank(screen[j]) \/ (Rank(screen[i]) = Rank(screen[j]) /\ i <= j) IN
  IF fit = {} THEN NoRule ELSE screen[CHOOSE i \in fit : \A j \in fit : Wins(i, j)]

(* When the page shows the rules that the session has, a command is judged *)
(* as a reader of the page expects: by the row that wins there, in every   *)
(* mode.                                                                   *)
VerdictAsShown ==
  screen # <<>> /\ screen = Listed(active)
    => \A command \in Commands \ {"fatal"}, mode \in OperationModes :
         LET row == FirstRow(command, mode)
             verdict == Validate(command, mode, active) IN
         /\ verdict.rule = row.id
         /\ row # NoRule => verdict.allowed = (row.action # "error")

(* The rows that a save sends come back as they were and in their order,   *)
(* but for those without an id and those that a later row with their id    *)
(* replaces, however they were dragged and edited.                         *)
KeptRows(sent) ==
  {i \in DOMAIN sent : sent[i].id # NoId /\ \A j \in DOMAIN sent : j > i => sent[j].id # sent[i].id}

SavedAsSent ==
  [][\A f \in Under("save") :
       f.answer = NoAnswer /\ (\E g \in fetches' : g.for = "save" /\ g.answer # NoAnswer)
         => LET list == Listed(active')
                kept == KeptRows(f.sent) IN
            /\ \A i \in kept : \E p \in DOMAIN list : list[p] = f.sent[i]
            /\ \A i, j \in kept, p, q \in DOMAIN list :
                 i < j /\ list[p] = f.sent[i] /\ list[q] = f.sent[j] => p < q]_rulesVars

(* When nobody changes anything any more, details that stay open end up    *)
(* with the rules of the session on the screen, whatever the tools wrote   *)
(* and in whichever order the answers came: unless there is an edit to be  *)
(* saved, or one was made while an answer was under way, after which the   *)
(* page takes the rules of the server for an edit.                         *)
FollowsServer == <>[](~open \/ edited \/ overwritten \/ screen = Listed(active))
=============================================================================
