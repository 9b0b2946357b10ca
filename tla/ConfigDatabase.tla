---------------------------- MODULE ConfigDatabase ----------------------------
(***************************************************************************)
(* The configuration tables of the hub's SQLite file and everybody who     *)
(* edits them: the hub's CDC thread (cdc.rs: set_config, factory_reset,    *)
(* get_config) and the desktop applications control and settings (their    *)
(* db.rs).  Each has a connection of its own.  A save of several           *)
(* statements is BEGIN IMMEDIATE, the statements, COMMIT, or ROLLBACK when *)
(* a statement fails; a save of one statement commits by itself.           *)
(*                                                                         *)
(* SQLite is no code of the repository.  It is modelled by what its        *)
(* rollback journal grants: one connection at a time may write (`lock'),   *)
(* only that connection sees its uncommitted `draft', a constraint is      *)
(* checked by the statement that would break it, and a COMMIT that fails   *)
(* either rolls the transaction back (disk full, I/O error) or leaves it   *)
(* open (SQLITE_BUSY, when a reader outlasts the busy timeout).            *)
(***************************************************************************)
EXTENDS Naturals, Sequences, Functions

CONSTANTS
  Family, ActionId, StateType,
  None,       \* target_family_id is NULL
  Cdc,        \* the hub's CDC thread
  App,        \* desktop applications
  Free,       \* nobody holds the write lock
  NoRequest,
  Configs,    \* ParentConfig values set_config may carry
  SavedRows   \* action rows an application may save

Writer  == App \cup {Cdc}
Target  == [type : {"FAMILY", "COMMON"}, family : Family \cup {None}]
Row     == [target : Target, changes : SUBSET StateType, targets : SUBSET Family]

ASSUME DatabaseAssumption ==
  /\ Cdc \notin App /\ Free \notin Writer /\ None \notin Family
  /\ SavedRows \subseteq Row
  /\ \A c \in Configs : /\ Range(c.families) \subseteq Family
                       /\ \A i \in DOMAIN c.actions : c.actions[i].id \in ActionId

------------------------------------------------------------------------------
(* Tables *)

\* families, actions with their state changes and notification targets, and
\* the families that have a notification destination; a family is given one at
\* most, which stands for the row's id.
NoTables == [families |-> {}, actions |-> [a \in {} |-> NoRequest], destinations |-> {}]

\* CHECK of the actions table: a FAMILY action names a family, a COMMON none.
TargetOk(target) == (target.type = "FAMILY") <=> (target.family # None)

\* CHECK and FOREIGN KEY clauses.
WellFormed(t) ==
  /\ \A a \in DOMAIN t.actions :
       /\ TargetOk(t.actions[a].target)
       /\ t.actions[a].target.family \in t.families \cup {None}
       /\ t.actions[a].targets \subseteq t.families
  /\ t.destinations \subseteq t.families

\* A ParentConfig of set_config is made of lists, which may repeat themselves.
Ids(c) == [i \in DOMAIN c.actions |-> c.actions[i].id]

\* The rows save_config inserts into the emptied tables.
Stored(c) ==
  [families |-> Range(c.families),
   actions |-> [a \in Range(Ids(c)) |->
     LET action == c.actions[CHOOSE i \in DOMAIN c.actions : c.actions[i].id = a]
     IN  [target |-> action.target,
          changes |-> Range(action.changes),
          targets |-> Range(action.targets)]],
   destinations |-> Range(c.destinations)]

\* validate_config.  It does not look for repeated notification targets.
Validate(c) ==
  /\ IsInjective(c.families) /\ IsInjective(Ids(c))
  /\ \A i \in DOMAIN c.actions : IsInjective(c.actions[i].changes)
  /\ WellFormed(Stored(c))

\* PRIMARY KEY clauses: what the INSERTs refuse beside WellFormed.
KeysDistinct(c) ==
  /\ IsInjective(c.families) /\ IsInjective(Ids(c))
  /\ \A i \in DOMAIN c.actions :
       IsInjective(c.actions[i].changes) /\ IsInjective(c.actions[i].targets)

DefaultConfig == [families |-> <<>>, actions |-> <<>>, destinations |-> <<>>]

------------------------------------------------------------------------------
(* Requests *)

SetConfig(c)       == [op |-> "set_config", config |-> c]
GetConfig          == [op |-> "get_config"]
SaveAction(a, row) == [op |-> "save_action", action |-> a, row |-> row]

\* factory_reset is save_config of the default.
CdcRequests == {SetConfig(c) : c \in Configs \cup {DefaultConfig}} \cup {GetConfig}

AppRequests ==
  {SaveAction(a, row) : a \in ActionId, row \in SavedRows}
    \cup [op : {"delete_action"}, action : ActionId]
    \cup [op : {"save_family", "delete_family", "save_destination", "delete_destination"},
          family : Family]
    \cup [op : {"update_destination"}, family : Family, to : Family]

Requests(w) == IF w = Cdc THEN CdcRequests ELSE AppRequests

\* Requests that are one transaction of several statements.
Transactional(r) == r.op \in {"set_config", "save_action"}

\* Refused before the database is touched.
Accepted(r) ==
  CASE r.op = "set_config"  -> Validate(r.config)
    [] r.op = "save_action" -> TargetOk(r.row.target)
    [] OTHER                -> TRUE

\* What a request makes of the tables, its cascades included.
Outcome(r, t) ==
  CASE r.op = "set_config"    -> Stored(r.config)
    [] r.op = "save_action"   ->
         [t EXCEPT !.actions =
            [a \in DOMAIN @ \cup {r.action} |-> IF a = r.action THEN r.row ELSE @[a]]]
    [] r.op = "delete_action" ->
         [t EXCEPT !.actions = [a \in DOMAIN @ \ {r.action} |-> @[a]]]
    [] r.op = "save_family"   -> [t EXCEPT !.families = @ \cup {r.family}]
    [] r.op = "delete_family" ->
         [families |-> t.families \ {r.family},
          actions |-> [a \in DOMAIN t.actions |->
                         [t.actions[a] EXCEPT !.targets = @ \ {r.family}]],
          destinations |-> t.destinations \ {r.family}]
    [] r.op = "save_destination"   -> [t EXCEPT !.destinations = @ \cup {r.family}]
    [] r.op = "update_destination" ->     \* no row of that id: no error either
         [t EXCEPT !.destinations = IF r.family \in @ THEN (@ \ {r.family}) \cup {r.to} ELSE @]
    [] r.op = "delete_destination" -> [t EXCEPT !.destinations = @ \ {r.family}]

\* Every constraint of the schema is met, statement by statement.
Permitted(r, t) ==
  /\ WellFormed(Outcome(r, t))
  /\ r.op = "set_config" => KeysDistinct(r.config)

------------------------------------------------------------------------------
VARIABLES
  committed,  \* the tables every other connection sees
  lock,       \* connection inside a write transaction, or Free
  draft,      \* the tables as that connection sees them
  leftOpen,   \* history variable: that transaction outlived its request
  pc,         \* per writer: next statement, or idle
  request,    \* per writer: request being handled
  answer,     \* history variable: what the last step answered, if anything
  loaded,     \* what get_config has read so far
  todo,       \* rows get_config still reads one by one
  disturbed   \* history variable: something was committed since get_config began

vars == <<committed, lock, draft, leftOpen, pc, request, answer, loaded, todo, disturbed>>
reading == <<loaded, todo>>

Reading == {"families", "actions", "details", "destinations"}
Saving  == {"begin", "write", "commit", "statement"}

TypeOK ==
  /\ WellFormed(committed) /\ WellFormed(draft)
  /\ lock \in Writer \cup {Free}
  /\ lock = Free => draft = NoTables /\ ~ leftOpen
  /\ leftOpen \in BOOLEAN
  /\ pc \in [Writer -> Saving \cup Reading \cup {"idle"}]
  /\ \A w \in Writer : request[w] \in Requests(w) \cup {NoRequest}
  /\ answer \in {"none", "ok", "error", "config"}
  /\ todo \subseteq (ActionId \X {"changes", "targets"}) \cup Family
  /\ disturbed \in BOOLEAN

Init ==
  /\ committed = NoTables
  /\ lock = Free /\ draft = NoTables /\ leftOpen = FALSE
  /\ pc = [w \in Writer |-> "idle"]
  /\ request = [w \in Writer |-> NoRequest]
  /\ answer = "none"
  /\ loaded = NoTables /\ todo = {}
  /\ disturbed = FALSE

\* The tables as a connection sees them: its own uncommitted changes included.
Seen(w) == IF lock = w THEN draft ELSE committed

ReadNothing == loaded' = NoTables /\ todo' = {}

Release == lock' = Free /\ draft' = NoTables /\ leftOpen' = FALSE

KeepLock == UNCHANGED <<lock, draft, leftOpen>>

Reply(w, result) ==
  /\ pc' = [pc EXCEPT ![w] = "idle"]
  /\ request' = [request EXCEPT ![w] = NoRequest]
  /\ answer' = result

Continue(w, label) ==
  pc' = [pc EXCEPT ![w] = label] /\ UNCHANGED request /\ answer' = "none"

------------------------------------------------------------------------------
(* Requests and saves *)

\* A line arrives at the CDC thread, or the user presses a button.
Ask(w, r) ==
  /\ pc[w] = "idle"
  /\ \/ /\ Accepted(r)
        /\ pc' = [pc EXCEPT ![w] = CASE Transactional(r) -> "begin"
                                     [] r = GetConfig    -> "families"
                                     [] OTHER            -> "statement"]
        /\ request' = [request EXCEPT ![w] = r]
        /\ answer' = "none"
     \/ ~ Accepted(r) /\ Reply(w, "error")
  /\ KeepLock /\ UNCHANGED <<committed, reading>>

\* mistake: an open transaction is taken for the one just asked for.
BeginOrJoin(w) ==
  /\ pc[w] = "begin"
  /\ \/ /\ lock = Free
        /\ lock' = w /\ draft' = committed /\ UNCHANGED leftOpen
        /\ Continue(w, "write")
     \/ lock = w /\ KeepLock /\ Continue(w, "write")
     \/ Reply(w, "error") /\ KeepLock
  /\ UNCHANGED <<committed, reading>>

\* BEGIN IMMEDIATE.  It fails while another connection writes, and within a
\* transaction of this connection.
Begin(w) ==
  /\ pc[w] = "begin"
  /\ \/ /\ lock = Free
        /\ lock' = w /\ draft' = committed /\ UNCHANGED leftOpen
        /\ Continue(w, "write")
     \/ Reply(w, "error") /\ KeepLock
  /\ UNCHANGED <<committed, reading>>

\* The statements of the transaction, which nobody else sees; ROLLBACK when one
\* of them fails.
Write(w) ==
  /\ pc[w] = "write"
  /\ \/ /\ Permitted(request[w], draft)
        /\ draft' = Outcome(request[w], draft)
        /\ Continue(w, "commit") /\ UNCHANGED <<lock, leftOpen>>
     \/ Reply(w, "error") /\ Release
  /\ UNCHANGED <<committed, reading>>

\* mistake: the result of COMMIT is ignored.
CommitUnchecked(w) ==
  /\ pc[w] = "commit" /\ lock = w
  /\ Reply(w, "ok")
  /\ \/ committed' = draft /\ Release
     \/ Release /\ UNCHANGED committed
  /\ UNCHANGED reading

\* COMMIT.  When it fails the error is returned as it is: no ROLLBACK follows.
Commit(w) ==
  /\ pc[w] = "commit"
  /\ \/ committed' = draft /\ Release /\ Reply(w, "ok")
     \/ UNCHANGED committed /\ Release /\ Reply(w, "error")
     \/ UNCHANGED <<committed, lock, draft>> /\ leftOpen' = TRUE /\ Reply(w, "error")
  /\ UNCHANGED reading

\* A save of one statement.  On a connection whose transaction was left open it
\* joins that transaction.
Statement(w) ==
  /\ pc[w] = "statement"
  /\ \/ /\ lock = Free /\ Permitted(request[w], committed)
        /\ committed' = Outcome(request[w], committed)
        /\ KeepLock /\ Reply(w, "ok")
     \/ /\ lock = w /\ Permitted(request[w], draft)
        /\ draft' = Outcome(request[w], draft)
        /\ UNCHANGED <<committed, lock, leftOpen>> /\ Reply(w, "ok")
     \/ Reply(w, "error") /\ KeepLock /\ UNCHANGED committed
  /\ UNCHANGED reading

------------------------------------------------------------------------------
(* get_config: one SELECT after the other, outside any transaction *)

NoDetails(row) == [target |-> row.target, changes |-> {}, targets |-> {}]

\* list_families.
ReadFamilies(w) ==
  /\ pc[w] = "families"
  /\ loaded' = [loaded EXCEPT !.families = Seen(w).families]
  /\ Continue(w, "actions")
  /\ UNCHANGED todo

\* list_actions; then load_action for each of them.
ReadActions(w) ==
  /\ pc[w] = "actions"
  /\ loaded' = [loaded EXCEPT !.actions =
       [a \in DOMAIN Seen(w).actions |-> NoDetails(Seen(w).actions[a])]]
  /\ todo' = (DOMAIN Seen(w).actions) \X {"changes", "targets"}
  /\ Continue(w, "details")

\* list_action_state_changes and list_notification_targets of one action: no
\* rows when the action has gone meanwhile.
ReadDetail(w, a, column) ==
  /\ pc[w] = "details" /\ <<a, column>> \in todo
  /\ todo' = todo \ {<<a, column>>}
  /\ loaded' = [loaded EXCEPT !.actions[a][column] =
       IF a \in DOMAIN Seen(w).actions THEN Seen(w).actions[a][column] ELSE {}]
  /\ UNCHANGED <<pc, request>> /\ answer' = "none"

\* mistake: the loop over the families stops one short.
DetailsDoneShort(w) ==
  /\ pc[w] = "details" /\ todo = {}
  /\ \E f \in loaded.families \cup {None} : todo' = loaded.families \ {f}
  /\ UNCHANGED loaded
  /\ Continue(w, "destinations")

\* The actions are read; list_family_notification_destinations for each family.
DetailsDone(w) ==
  /\ pc[w] = "details" /\ todo = {}
  /\ todo' = loaded.families
  /\ UNCHANGED loaded
  /\ Continue(w, "destinations")

ReadDestinations(w, f) ==
  /\ pc[w] = "destinations" /\ f \in todo
  /\ todo' = todo \ {f}
  /\ loaded' = [loaded EXCEPT !.destinations =
       IF f \in Seen(w).destinations THEN @ \cup {f} ELSE @]
  /\ UNCHANGED <<pc, request>> /\ answer' = "none"

ReplyConfig(w) ==
  /\ pc[w] = "destinations" /\ todo = {}
  /\ Reply(w, "config") /\ ReadNothing

\* A SELECT fails.
ReadFails(w) == pc[w] \in Reading /\ Reply(w, "error") /\ ReadNothing

Read(w) ==
  /\ \/ ReadFamilies(w) \/ ReadActions(w) \/ DetailsDone(w)
     \/ \E a \in ActionId, column \in {"changes", "targets"} : ReadDetail(w, a, column)
     \/ \E f \in Family : ReadDestinations(w, f)
     \/ ReplyConfig(w) \/ ReadFails(w)
  /\ KeepLock /\ UNCHANGED committed

\* The hub or the application is stopped and started again: SQLite rolls back
\* what was open.  A COMMIT under way may have taken effect.
Restart(w) ==
  /\ committed' \in {committed} \cup (IF pc[w] = "commit" THEN {draft} ELSE {})
  /\ IF lock = w THEN Release ELSE KeepLock
  /\ Reply(w, "none")
  /\ IF w = Cdc THEN ReadNothing ELSE UNCHANGED reading

Step(w) ==
  \/ \E r \in Requests(w) : Ask(w, r)
  \/ Begin(w) \/ Write(w) \/ Commit(w) \/ Statement(w)
  \/ Read(w)
  \/ Restart(w)

Watch == disturbed' = (pc'[Cdc] \in Reading /\ pc[Cdc] # "idle"
                         /\ (disturbed \/ committed' # committed))

Next == (\E w \in Writer : Step(w)) /\ Watch

Spec == Init /\ [][Next]_vars

------------------------------------------------------------------------------
(* Properties *)

\* The write lock is held by a save under way and by nobody else, unless a
\* COMMIT failed and left its transaction open.
LockOnlyWhileSaving ==
  \A w \in Writer :
    /\ pc[w] \in {"write", "commit"} => lock = w /\ ~ leftOpen
    /\ lock = w => pc[w] \in {"write", "commit"} \/ leftOpen

\* The tables others see change by one whole request at a time, made on the
\* tables as they were, and never by a request that was answered with an error,
\* whoever else saved, failed or was restarted in between.
EveryChangeIsOneRequest ==
  [][committed' # committed =>
       \E w \in Writer : /\ pc[w] \in Saving /\ answer' # "error"
                         /\ committed' = Outcome(request[w], committed)]_vars

\* A request comes to an end, on a connection that has nothing left open.
Ends(w) == request[w] # NoRequest /\ request'[w] = NoRequest /\ ~ (leftOpen /\ lock = w)

\* A save answered ok is committed with its answer, on every connection that
\* has no transaction left open.
OkMeansCommitted ==
  [][\A w \in Writer : Ends(w) /\ answer' = "ok" =>
       committed' = Outcome(request[w], committed)]_vars

\* get_config answers the configuration as it is committed, if nobody commits
\* while it reads its six tables and the CDC connection has nothing left open.
UndisturbedGetConfig ==
  [][pc[Cdc] = "destinations" /\ answer' = "config" /\ ~ disturbed /\ lock # Cdc
       => loaded = committed]_vars

\* cdc.rs:96 "The worker opens its own SQLite connection so the UDP loop and CDC
\* requests can safely operate concurrently": once a CDC request is answered the
\* UDP loop can write its event again, as far as the CDC thread is concerned.
CdcLeavesNoLock == pc[Cdc] = "idle" => lock # Cdc
==============================================================================
