------------------------ MODULE ConfigDatabase_proofs ------------------------
(* Proofs about ConfigDatabase, for any writers, configurations and rows.  *)
EXTENDS ConfigDatabase, TLAPS

ControlOK ==
  /\ lock \in Writer \cup {Free}
  /\ leftOpen \in BOOLEAN
  /\ pc \in [Writer -> Saving \cup Reading \cup {"idle"}]
  /\ DOMAIN request = Writer

\* A transaction left open belongs to somebody.
LeftOpenHeld == leftOpen => lock # Free

\* Inside its transaction a writer works on the tables as they are committed:
\* nobody else commits before it is done.
DraftFollows ==
  \A w \in Writer :
    /\ pc[w] = "write"  => draft = committed
    /\ pc[w] = "commit" => draft = Outcome(request[w], committed)

SaveInv == ControlOK /\ LeftOpenHeld /\ LockOnlyWhileSaving /\ DraftFollows

\* No writer is in a transaction when the processes start.
LEMMA InitSaves == Init => SaveInv
BY DatabaseAssumption
DEF Init, SaveInv, ControlOK, LeftOpenHeld, LockOnlyWhileSaving, DraftFollows, Saving,
    Reading, Writer

\* At most one writer is inside a transaction.
LEMMA OneTransaction ==
  ASSUME SaveInv, NEW w \in Writer, NEW u \in Writer, u # w, lock \in {w, Free}
  PROVE  pc[u] \notin {"write", "commit"}
BY DatabaseAssumption DEF SaveInv, LockOnlyWhileSaving, Writer

\* Steps that leave the database alone: reads and requests refused.
LEMMA ReadKeepsSaves ==
  ASSUME SaveInv, NEW w \in Writer, Read(w)
  PROVE  SaveInv'
<1>1. /\ pc[w] \in Reading /\ UNCHANGED <<committed, lock, draft, leftOpen>>
      /\ \/ \E label \in Reading \cup {"idle"} : pc' = [pc EXCEPT ![w] = label]
         \/ pc' = pc
      /\ DOMAIN request' = Writer /\ \A u \in Writer \ {w} : request'[u] = request[u]
  BY DEF Read, ReadFamilies, ReadActions, DetailsDone, ReadDetail, ReadDestinations,
     ReplyConfig, ReadFails, Reply, Continue, KeepLock, Reading, SaveInv, ControlOK
<1>2. ControlOK'
  BY <1>1 DEF SaveInv, ControlOK
<1>3. \A u \in Writer : u # w => pc'[u] = pc[u]
  BY <1>1 DEF SaveInv, ControlOK
<1>4. pc'[w] \in Reading \cup {"idle"}
  BY <1>1 DEF SaveInv, ControlOK
<1>5. LeftOpenHeld' /\ LockOnlyWhileSaving'
  BY <1>1, <1>3, <1>4 DEF SaveInv, LeftOpenHeld, LockOnlyWhileSaving, Reading
<1>6. DraftFollows'
  BY <1>1, <1>3, <1>4 DEF SaveInv, DraftFollows, Reading
<1> QED BY <1>2, <1>5, <1>6 DEF SaveInv

\* Every step of every writer keeps SaveInv.
LEMMA StepKeepsSaves == SaveInv /\ [Next]_vars => SaveInv'
<1> SUFFICES ASSUME SaveInv, [Next]_vars PROVE SaveInv'
  OBVIOUS
<1>1. ASSUME NEW w \in Writer, NEW r \in Requests(w), Ask(w, r) PROVE SaveInv'
  <2>1. \E label \in {"begin", "families", "statement", "idle"} : pc' = [pc EXCEPT ![w] = label]
    BY <1>1 DEF Ask, Reply
  <2>2. /\ pc[w] = "idle" /\ UNCHANGED <<committed, lock, draft, leftOpen>>
        /\ DOMAIN request' = Writer /\ \A u \in Writer \ {w} : request'[u] = request[u]
    BY <1>1 DEF Ask, Reply, KeepLock, SaveInv, ControlOK
  <2>3. ControlOK'
    BY <2>1, <2>2 DEF SaveInv, ControlOK, Saving, Reading
  <2>4. LeftOpenHeld' /\ LockOnlyWhileSaving'
    BY <2>1, <2>2 DEF SaveInv, ControlOK, LeftOpenHeld, LockOnlyWhileSaving
  <2>5. DraftFollows'
    BY <2>1, <2>2 DEF SaveInv, ControlOK, DraftFollows
  <2> QED BY <2>3, <2>4, <2>5 DEF SaveInv
<1>2. ASSUME NEW w \in Writer, Begin(w) PROVE SaveInv'
  <2>1. CASE lock = Free /\ lock' = w /\ draft' = committed /\ Continue(w, "write")
    <3>1. \A u \in Writer : u # w => pc[u] \notin {"write", "commit"}
      BY <2>1, OneTransaction
    <3>2. ~ leftOpen
      BY <2>1 DEF SaveInv, LeftOpenHeld
    <3> QED
      BY <1>2, <2>1, <3>1, <3>2, DatabaseAssumption
      DEF Begin, Continue, Reply, SaveInv, ControlOK, LeftOpenHeld, LockOnlyWhileSaving,
          DraftFollows, Saving, Writer, KeepLock
  <2>2. CASE Reply(w, "error") /\ KeepLock
    BY <1>2, <2>2
    DEF Begin, Reply, KeepLock, SaveInv, ControlOK, LeftOpenHeld, LockOnlyWhileSaving,
        DraftFollows
  <2> QED BY <1>2, <2>1, <2>2 DEF Begin
<1>3. ASSUME NEW w \in Writer, Write(w) PROVE SaveInv'
  <2>1. lock = w /\ ~ leftOpen /\ draft = committed
    BY <1>3 DEF Write, SaveInv, LockOnlyWhileSaving, DraftFollows
  <2>2. \A u \in Writer : u # w => pc[u] \notin {"write", "commit"}
    BY <2>1, OneTransaction
  <2>3. CASE /\ Continue(w, "commit") /\ UNCHANGED <<committed, lock, leftOpen>>
             /\ draft' = Outcome(request[w], draft)
    BY <2>1, <2>2, <2>3
    DEF Continue, SaveInv, ControlOK, LeftOpenHeld, LockOnlyWhileSaving, DraftFollows, Saving
  <2>4. CASE Reply(w, "error") /\ Release /\ UNCHANGED committed
    <3>1. ControlOK'
      BY <2>4 DEF Reply, Release, SaveInv, ControlOK
    <3>2. \A u \in Writer : pc'[u] \notin {"write", "commit"}
      BY <2>4, <2>2 DEF Reply, SaveInv, ControlOK
    <3> QED
      BY <2>4, <3>1, <3>2, DatabaseAssumption
      DEF Release, SaveInv, LeftOpenHeld, LockOnlyWhileSaving, DraftFollows
  <2> QED BY <1>3, <2>3, <2>4 DEF Write
<1>4. ASSUME NEW w \in Writer, Commit(w) PROVE SaveInv'
  <2>1. lock = w /\ ~ leftOpen
    BY <1>4 DEF Commit, SaveInv, LockOnlyWhileSaving
  <2>2. \A u \in Writer : u # w => pc[u] \notin {"write", "commit"}
    BY <2>1, OneTransaction
  <2> QED
    BY <1>4, <2>1, <2>2, DatabaseAssumption
    DEF Commit, Reply, Release, SaveInv, ControlOK, LeftOpenHeld, LockOnlyWhileSaving,
        DraftFollows, Writer
<1>5. ASSUME NEW w \in Writer, Statement(w) PROVE SaveInv'
  <2>1. lock \in {w, Free} \/ UNCHANGED <<committed, lock, draft, leftOpen>>
    BY <1>5 DEF Statement, KeepLock
  <2>2. /\ pc[w] = "statement" /\ pc' = [pc EXCEPT ![w] = "idle"]
        /\ request' = [request EXCEPT ![w] = NoRequest] /\ UNCHANGED <<lock, leftOpen>>
    BY <1>5 DEF Statement, Reply, KeepLock
  <2>3. ControlOK' /\ LeftOpenHeld' /\ LockOnlyWhileSaving'
    BY <2>2 DEF SaveInv, ControlOK, LeftOpenHeld, LockOnlyWhileSaving
  <2>4. DraftFollows'
    <3>1. CASE lock \in {w, Free}
      <4>1. \A u \in Writer : u # w => pc[u] \notin {"write", "commit"}
        BY <3>1, OneTransaction
      <4> QED BY <2>2, <4>1 DEF SaveInv, ControlOK, DraftFollows
    <3>2. CASE UNCHANGED <<committed, lock, draft, leftOpen>>
      BY <2>2, <3>2 DEF SaveInv, ControlOK, DraftFollows
    <3> QED BY <2>1, <3>1, <3>2
  <2> QED BY <2>3, <2>4 DEF SaveInv
<1>6. ASSUME NEW w \in Writer, Restart(w) PROVE SaveInv'
  <2>1. /\ pc' = [pc EXCEPT ![w] = "idle"] /\ request' = [request EXCEPT ![w] = NoRequest]
        /\ \/ lock = w /\ lock' = Free /\ leftOpen' = FALSE
           \/ lock # w /\ UNCHANGED <<lock, draft, leftOpen>>
        /\ committed' = committed \/ pc[w] = "commit"
    BY <1>6 DEF Restart, Reply, Release, KeepLock
  <2>2. ControlOK' /\ LeftOpenHeld' /\ LockOnlyWhileSaving'
    <3>1. ControlOK'
      BY <2>1 DEF SaveInv, ControlOK
    <3>2. CASE lock = w
      <4>1. \A u \in Writer : pc'[u] \notin {"write", "commit"}
        BY <2>1, <3>2, OneTransaction DEF SaveInv, ControlOK
      <4> QED
        BY <2>1, <3>1, <3>2, <4>1, DatabaseAssumption DEF LeftOpenHeld, LockOnlyWhileSaving
    <3>3. CASE lock # w
      BY <2>1, <3>1, <3>3 DEF SaveInv, ControlOK, LeftOpenHeld, LockOnlyWhileSaving
    <3> QED BY <3>2, <3>3, <3>1
  <2>3. DraftFollows'
    <3>1. CASE lock = w
      <4>1. \A u \in Writer : u # w => pc[u] \notin {"write", "commit"}
        BY <3>1, OneTransaction
      <4> QED BY <2>1, <4>1 DEF SaveInv, ControlOK, DraftFollows
    <3>2. CASE lock # w
      <4>1. pc[w] # "commit"
        BY <3>2 DEF SaveInv, LockOnlyWhileSaving
      <4> QED BY <2>1, <3>2, <4>1 DEF SaveInv, ControlOK, DraftFollows
    <3> QED BY <3>1, <3>2
  <2> QED BY <2>2, <2>3 DEF SaveInv
<1>7. ASSUME UNCHANGED vars PROVE SaveInv'
  BY <1>7 DEF vars, SaveInv, ControlOK, LeftOpenHeld, LockOnlyWhileSaving, DraftFollows
<1> QED
  BY <1>1, <1>2, <1>3, <1>4, <1>5, <1>6, <1>7, ReadKeepsSaves DEF Next, Step

\* In every reachable state a writer inside its transaction holds the lock and works on
\* the tables as they are committed.
THEOREM SavesInvariant == Spec => []SaveInv
<1> QED BY InitSaves, StepKeepsSaves, PTL DEF Spec

\* Only a save under way, or one whose COMMIT failed, holds the write lock
\* (save_config and the applications' save_action).
THEOREM LockOnlyWhileSavingCorrect == Spec => []LockOnlyWhileSaving
<1>1. SaveInv => LockOnlyWhileSaving
  BY DEF SaveInv
<1> QED BY <1>1, SavesInvariant, PTL

\* A step that changes the committed tables is made of one request's outcome.
LEMMA ChangeIsOneRequest ==
  ASSUME SaveInv, [Next]_vars, committed' # committed
  PROVE  \E w \in Writer : /\ pc[w] \in Saving /\ answer' # "error"
                           /\ committed' = Outcome(request[w], committed)
<1>1. PICK w \in Writer : Step(w)
  BY DEF Next, vars
<1>2. Commit(w) \/ Statement(w) \/ Restart(w)
  BY <1>1 DEF Step, Ask, Begin, Write, Read
<1>3. CASE Commit(w)
  BY <1>3 DEF Commit, Reply, SaveInv, DraftFollows, Saving
<1>4. CASE Statement(w)
  BY <1>4 DEF Statement, Reply, Saving
<1>5. CASE Restart(w)
  BY <1>5 DEF Restart, Reply, SaveInv, DraftFollows, Saving
<1> QED BY <1>2, <1>3, <1>4, <1>5

\* Saves are atomic whatever fails and whoever else saves (save_config,
\* save_action and the saves of one statement).
THEOREM EveryChangeIsOneRequestCorrect == Spec => EveryChangeIsOneRequest
<1>1. SaveInv /\ [Next]_vars =>
        [committed' # committed =>
           \E w \in Writer : /\ pc[w] \in Saving /\ answer' # "error"
                             /\ committed' = Outcome(request[w], committed)]_vars
  BY ChangeIsOneRequest
<1> QED BY <1>1, SavesInvariant, PTL DEF Spec, EveryChangeIsOneRequest

\* When a save ends with the answer ok, the committed tables are its outcome.
LEMMA OkIsCommitted ==
  ASSUME SaveInv, [Next]_vars, NEW w \in Writer, Ends(w), answer' = "ok"
  PROVE  committed' = Outcome(request[w], committed)
<1>1. PICK u \in Writer : Step(u)
  BY DEF Next, vars, Ends
<1>2. Commit(u) \/ Statement(u)
  BY <1>1 DEF Step, Ask, Begin, Write, Read, Restart, Reply, Continue, ReadFamilies,
     ReadActions, DetailsDone, ReadDetail, ReadDestinations, ReplyConfig, ReadFails
<1>3. u = w
  BY <1>2 DEF Commit, Statement, Reply, Ends, SaveInv, ControlOK
<1>4. CASE Commit(w)
  BY <1>4 DEF Commit, Reply, SaveInv, DraftFollows
<1>5. CASE Statement(w)
  <2>1. ~ (lock = w)
    BY <1>5 DEF Statement, Ends, SaveInv, LockOnlyWhileSaving
  <2> QED BY <1>5, <2>1 DEF Statement, Reply
<1> QED BY <1>2, <1>3, <1>4, <1>5

\* A save that is answered ok is committed as a whole when it is answered
\* (cdc.rs save_config, db.rs of control and settings).
THEOREM OkMeansCommittedCorrect == Spec => OkMeansCommitted
<1>1. SaveInv /\ [Next]_vars =>
        [\A w \in Writer : Ends(w) /\ answer' = "ok" =>
           committed' = Outcome(request[w], committed)]_vars
  BY OkIsCommitted
<1> QED BY <1>1, SavesInvariant, PTL DEF Spec, OkMeansCommitted

-------------------------------------------------------------------------------
(* Types, constraints and get_config *)

\* Tables with the columns of the schema.
Shaped(t) ==
  /\ t = [families |-> t.families, actions |-> t.actions, destinations |-> t.destinations]
  /\ t.actions = [a \in DOMAIN t.actions |-> t.actions[a]]
  /\ DOMAIN t.actions \subseteq ActionId /\ t.families \subseteq Family
  /\ \A a \in DOMAIN t.actions :
       t.actions[a] = [target |-> t.actions[a].target, changes |-> t.actions[a].changes,
                       targets |-> t.actions[a].targets]

SaveRequests(w) == Requests(w) \ {GetConfig}

\* Empty tables are in order.
LEMMA NoTablesShaped == Shaped(NoTables) /\ WellFormed(NoTables)
BY DEF Shaped, WellFormed, NoTables

\* What set_config stores has the columns of the schema,
LEMMA StoredShaped ==
  ASSUME NEW c \in Configs \cup {DefaultConfig}
  PROVE  Shaped(Stored(c))
<1>1. Range(c.families) \subseteq Family /\ \A i \in DOMAIN c.actions : c.actions[i].id \in ActionId
  BY DatabaseAssumption DEF DefaultConfig, Range
<1>2. Range(Ids(c)) \subseteq ActionId
  BY <1>1 DEF Range, Ids
<1> HIDE DEF Range
<1> DEFINE row(a) == LET action == c.actions[CHOOSE i \in DOMAIN c.actions : c.actions[i].id = a]
                     IN  [target |-> action.target, changes |-> Range(action.changes),
                          targets |-> Range(action.targets)]
<1>3. Stored(c) = [families |-> Range(c.families), actions |-> [a \in Range(Ids(c)) |-> row(a)],
                   destinations |-> Range(c.destinations)]
  BY DEF Stored
<1>4. \A a : row(a) = [target |-> row(a).target, changes |-> row(a).changes,
                       targets |-> row(a).targets]
  OBVIOUS
<1> HIDE DEF row
<1> QED BY <1>1, <1>2, <1>3, <1>4 DEF Shaped

\* ... and so has what any save makes of such tables.
LEMMA OutcomeShaped ==
  ASSUME NEW w \in Writer, NEW r \in SaveRequests(w), NEW t, Shaped(t)
  PROVE  Shaped(Outcome(r, t))
<1>1. CASE r \in {SetConfig(c) : c \in Configs \cup {DefaultConfig}}
  <2>1. PICK c \in Configs \cup {DefaultConfig} : r = SetConfig(c)
    BY <1>1
  <2>2. Outcome(r, t) = Stored(c)
    BY <2>1 DEF Outcome, SetConfig
  <2> QED BY <2>2, StoredShaped
<1>2. CASE r \in {SaveAction(a, row) : a \in ActionId, row \in SavedRows}
  <2>1. PICK a \in ActionId, row \in SavedRows : r = SaveAction(a, row)
    BY <1>2
  <2>2. row = [target |-> row.target, changes |-> row.changes, targets |-> row.targets]
    BY DatabaseAssumption DEF Row
  <2>3. Outcome(r, t) = [t EXCEPT !.actions =
          [b \in DOMAIN t.actions \cup {a} |-> IF b = a THEN row ELSE t.actions[b]]]
    BY <2>1 DEF Outcome, SaveAction
  <2> QED BY <2>2, <2>3 DEF Shaped
<1>3. CASE r \in [op : {"delete_action"}, action : ActionId]
  <2>1. Outcome(r, t) = [t EXCEPT !.actions = [a \in DOMAIN t.actions \ {r.action} |-> t.actions[a]]]
    BY <1>3 DEF Outcome
  <2> QED BY <2>1 DEF Shaped
<1>4. CASE r \in [op : {"save_family", "delete_family", "save_destination", "delete_destination"},
                  family : Family]
  <2>1. CASE r.op = "delete_family"
    <3> DEFINE rows == [a \in DOMAIN t.actions |-> [t.actions[a] EXCEPT !.targets = @ \ {r.family}]]
    <3>1. Outcome(r, t) = [families |-> t.families \ {r.family}, actions |-> rows,
                           destinations |-> t.destinations \ {r.family}]
      BY <2>1 DEF Outcome
    <3>2. ASSUME NEW a \in DOMAIN t.actions
          PROVE  rows[a] = [target |-> rows[a].target, changes |-> rows[a].changes,
                            targets |-> rows[a].targets]
      <4>1. t.actions[a] = [target |-> t.actions[a].target, changes |-> t.actions[a].changes,
                            targets |-> t.actions[a].targets]
        BY DEF Shaped
      <4>2. rows[a] = [t.actions[a] EXCEPT !.targets = t.actions[a].targets \ {r.family}]
        OBVIOUS
      <4> HIDE DEF rows
      <4> QED BY <4>1, <4>2
    <3>3. DOMAIN rows = DOMAIN t.actions /\ rows = [a \in DOMAIN t.actions |-> rows[a]]
      OBVIOUS
    <3> HIDE DEF rows
    <3> QED BY <3>1, <3>2, <3>3 DEF Shaped
  <2>2. CASE r.op = "save_family"
    BY <1>4, <2>2 DEF Outcome, Shaped
  <2>3. CASE r.op = "save_destination"
    <3>1. Outcome(r, t) = [t EXCEPT !.destinations = t.destinations \cup {r.family}]
      BY <2>3 DEF Outcome
    <3> QED BY <3>1 DEF Shaped
  <2>4. CASE r.op = "delete_destination"
    <3>1. Outcome(r, t) = [t EXCEPT !.destinations = t.destinations \ {r.family}]
      BY <2>4 DEF Outcome
    <3> QED BY <3>1 DEF Shaped
  <2> QED BY <1>4, <2>1, <2>2, <2>3, <2>4
<1>5. CASE r \in [op : {"update_destination"}, family : Family, to : Family]
  BY ZenonT(30), <1>5 DEF Outcome, Shaped
<1> QED
  BY <1>1, <1>2, <1>3, <1>4, <1>5 DEF SaveRequests, Requests, CdcRequests, AppRequests

\* Requests are of those who ask, only the CDC thread reads, and the tables have their
\* columns and meet the constraints, those of the transaction under way included.
TablesInv ==
  /\ \A w \in Writer : /\ request[w] \in Requests(w) \cup {NoRequest}
                       /\ pc[w] \in Saving => request[w] \in SaveRequests(w)
  /\ \A w \in App : pc[w] \notin Reading
  /\ Shaped(committed) /\ WellFormed(committed)
  /\ Shaped(draft) /\ WellFormed(draft)
  /\ lock = Free => draft = NoTables /\ ~ leftOpen
  /\ answer \in {"none", "ok", "error", "config"} /\ disturbed \in BOOLEAN

\* TablesInv holds when the processes start.
LEMMA InitTables == Init => TablesInv
BY NoTablesShaped DEF Init, TablesInv, Saving, Reading, Writer

\* get_config is not a save, nor a request of an application.
LEMMA GetConfigApart ==
  /\ \A r \in AppRequests : r # GetConfig
  /\ \A r : r.op = "get_config" => ~ Transactional(r)
  /\ ~ Transactional(GetConfig)
<1>1. GetConfig.op = "get_config"
  BY DEF GetConfig
<1>2. \A r \in AppRequests : r.op # "get_config"
  BY DEF AppRequests, SaveAction
<1>3. \A r : r.op = "get_config" => ~ Transactional(r)
  BY DEF Transactional
<1> QED BY <1>1, <1>2, <1>3

\* A request that is asked for keeps TablesInv.
LEMMA AskTables ==
  ASSUME SaveInv, TablesInv, NEW w \in Writer, NEW r \in Requests(w), Ask(w, r), Watch
  PROVE  TablesInv'
<1>1. /\ UNCHANGED <<committed, lock, draft, leftOpen>> /\ answer' \in {"none", "error"}
      /\ disturbed' \in BOOLEAN
  BY DEF Ask, Reply, KeepLock, Watch
<1>2. CASE Reply(w, "error")
  BY <1>1, <1>2 DEF Reply, SaveInv, ControlOK, TablesInv, Saving, Reading
<1>3. CASE /\ request' = [request EXCEPT ![w] = r]
           /\ pc' = [pc EXCEPT ![w] = CASE Transactional(r) -> "begin"
                                        [] r = GetConfig    -> "families"
                                        [] OTHER            -> "statement"]
  <2>1. \A u \in Writer \ {w} : pc'[u] = pc[u] /\ request'[u] = request[u]
    BY <1>3 DEF SaveInv, ControlOK
  <2>2. request'[w] = r
    BY <1>3 DEF SaveInv, ControlOK
  <2>3. pc'[w] \in Saving => r # GetConfig
    BY <1>3, GetConfigApart DEF SaveInv, ControlOK, Saving
  <2>4. w \in App => pc'[w] \notin Reading
    <3>1. w \in App => r # GetConfig
      BY GetConfigApart, DatabaseAssumption DEF Requests
    <3> QED BY <1>3, <3>1 DEF SaveInv, ControlOK, Reading
  <2> QED BY <1>1, <2>1, <2>2, <2>3, <2>4 DEF TablesInv, SaveRequests, Writer
<1> QED BY <1>2, <1>3 DEF Ask

\* A step of a writer that finishes its request, or goes on with it without asking.
Proceeds(w) ==
  \/ \E result \in {"none", "ok", "error", "config"} : Reply(w, result)
  \/ pc[w] \in Saving /\ \E label \in Saving : Continue(w, label)
  \/ w = Cdc /\ pc[w] \in Reading /\ \E label \in Reading : Continue(w, label)
  \/ w = Cdc /\ pc[w] \in Reading /\ UNCHANGED <<pc, request>> /\ answer' = "none"

\* Such a step keeps TablesInv if the tables stay in order.
LEMMA ProceedTables ==
  ASSUME SaveInv, TablesInv, NEW w \in Writer, Proceeds(w), Watch,
         Shaped(committed'), WellFormed(committed'), Shaped(draft'), WellFormed(draft'),
         lock' = Free => draft' = NoTables /\ ~ leftOpen'
  PROVE  TablesInv'
<1>1. \A u \in Writer \ {w} : pc'[u] = pc[u] /\ request'[u] = request[u]
  BY DEF Proceeds, Reply, Continue, SaveInv, ControlOK
<1>2. request'[w] \in Requests(w) \cup {NoRequest}
  BY DEF Proceeds, Reply, Continue, SaveInv, ControlOK, TablesInv
<1>3. pc'[w] \in Saving => request'[w] \in SaveRequests(w)
  BY DEF Proceeds, Reply, Continue, SaveInv, ControlOK, TablesInv, Saving, Reading
<1>4. w \in App => pc'[w] \notin Reading
  BY DatabaseAssumption DEF Proceeds, Reply, Continue, SaveInv, ControlOK, Saving, Reading
<1>5. answer' \in {"none", "ok", "error", "config"} /\ disturbed' \in BOOLEAN
  BY DEF Proceeds, Reply, Continue, Watch
<1> QED BY <1>1, <1>2, <1>3, <1>4, <1>5 DEF TablesInv, Writer

\* Who reads is the CDC thread.
LEMMA OnlyCdcReads ==
  ASSUME TablesInv, NEW w \in Writer, pc[w] \in Reading
  PROVE  w = Cdc
BY DEF TablesInv, Writer

\* A permitted outcome of tables in order is in order.
LEMMA PermittedTables ==
  ASSUME NEW w \in Writer, NEW r \in SaveRequests(w), NEW t, Shaped(t), Permitted(r, t)
  PROVE  Shaped(Outcome(r, t)) /\ WellFormed(Outcome(r, t))
BY OutcomeShaped DEF Permitted

\* Every step of every writer keeps TablesInv.
LEMMA StepTables ==
  ASSUME SaveInv, TablesInv, NEW w \in Writer, Step(w), Watch
  PROVE  TablesInv'
<1>1. CASE \E r \in Requests(w) : Ask(w, r)
  BY <1>1, AskTables
<1>2. CASE Begin(w)
  <2>1. Proceeds(w)
    BY <1>2 DEF Begin, Proceeds, Saving
  <2>2. CASE lock' = w /\ draft' = committed
    BY <1>2, <2>1, <2>2, ProceedTables, DatabaseAssumption DEF Begin, TablesInv
  <2>3. CASE KeepLock
    BY <1>2, <2>1, <2>3, ProceedTables DEF Begin, KeepLock, TablesInv
  <2> QED BY <1>2, <2>2, <2>3 DEF Begin
<1>3. CASE Write(w)
  <2>1. Proceeds(w) /\ pc[w] \in Saving /\ UNCHANGED committed
    BY <1>3 DEF Write, Proceeds, Saving
  <2>2. lock # Free
    BY <1>3, DatabaseAssumption DEF Write, SaveInv, LockOnlyWhileSaving
  <2>3. CASE Release
    BY <2>1, <2>3, ProceedTables, NoTablesShaped DEF Release, TablesInv
  <2>4. CASE /\ Permitted(request[w], draft) /\ draft' = Outcome(request[w], draft)
             /\ UNCHANGED lock
    <3>1. Shaped(draft') /\ WellFormed(draft')
      BY <2>1, <2>4, PermittedTables DEF TablesInv
    <3> QED BY <2>1, <2>2, <2>4, <3>1, ProceedTables DEF TablesInv
  <2> QED BY <1>3, <2>3, <2>4 DEF Write
<1>4. CASE Commit(w)
  <2>1. Proceeds(w)
    BY <1>4 DEF Commit, Proceeds
  <2>2. lock # Free
    BY <1>4, DatabaseAssumption DEF Commit, SaveInv, LockOnlyWhileSaving
  <2>3. CASE Release
    BY <1>4, <2>1, <2>3, ProceedTables, NoTablesShaped DEF Commit, Release, TablesInv
  <2>4. CASE UNCHANGED <<committed, lock, draft>>
    BY <2>1, <2>2, <2>4, ProceedTables DEF TablesInv
  <2> QED BY <1>4, <2>3, <2>4 DEF Commit
<1>5. CASE Statement(w)
  <2>1. Proceeds(w) /\ pc[w] \in Saving
    BY <1>5 DEF Statement, Proceeds, Saving
  <2>2. CASE Permitted(request[w], committed) /\ committed' = Outcome(request[w], committed) /\ KeepLock
    <3>1. Shaped(committed') /\ WellFormed(committed')
      BY <2>1, <2>2, PermittedTables DEF TablesInv
    <3> QED BY <2>1, <2>2, <3>1, ProceedTables DEF KeepLock, TablesInv
  <2>3. CASE /\ lock = w /\ Permitted(request[w], draft) /\ draft' = Outcome(request[w], draft)
             /\ UNCHANGED <<committed, lock>>
    <3>1. Shaped(draft') /\ WellFormed(draft')
      BY <2>1, <2>3, PermittedTables DEF TablesInv
    <3> QED BY <2>1, <2>3, <3>1, ProceedTables, DatabaseAssumption DEF TablesInv
  <2>4. CASE KeepLock /\ UNCHANGED committed
    BY <2>1, <2>4, ProceedTables DEF KeepLock, TablesInv
  <2> QED BY <1>5, <2>2, <2>3, <2>4 DEF Statement
<1>6. CASE Read(w)
  <2>1. pc[w] \in Reading
    BY <1>6 DEF Read, ReadFamilies, ReadActions, DetailsDone, ReadDetail, ReadDestinations,
       ReplyConfig, ReadFails, Reading
  <2>2. Proceeds(w)
    BY <1>6, <2>1, OnlyCdcReads DEF Proceeds, Read, ReadFamilies, ReadActions, DetailsDone,
       ReadDetail, ReadDestinations, ReplyConfig, ReadFails, Reading
  <2> QED BY <1>6, <2>2, ProceedTables DEF Read, KeepLock, TablesInv
<1>7. CASE Restart(w)
  <2>1. Proceeds(w) /\ committed' \in {committed, draft}
    BY <1>7 DEF Restart, Proceeds
  <2>2. CASE Release
    BY <2>1, <2>2, ProceedTables, NoTablesShaped DEF Release, TablesInv
  <2>3. CASE KeepLock
    BY <2>1, <2>3, ProceedTables DEF KeepLock, TablesInv
  <2> QED BY <1>7, <2>2, <2>3 DEF Restart
<1> QED BY <1>1, <1>2, <1>3, <1>4, <1>5, <1>6, <1>7 DEF Step

\* The reads of get_config, whatever others write meanwhile.
LoadedInv ==
  /\ loaded = [families |-> loaded.families, actions |-> loaded.actions,
               destinations |-> loaded.destinations]
  /\ loaded.families \subseteq Family
  /\ todo \subseteq (ActionId \X {"changes", "targets"}) \cup Family
  /\ pc[Cdc] \notin {"actions", "details", "destinations"} => loaded = NoTables /\ todo = {}

\* An action of which some columns are still to be read.
PartRead(a) ==
  [target  |-> committed.actions[a].target,
   changes |-> IF <<a, "changes">> \in todo THEN {} ELSE committed.actions[a].changes,
   targets |-> IF <<a, "targets">> \in todo THEN {} ELSE committed.actions[a].targets]

\* Undisturbed, get_config has read of the committed tables what is no longer to do.
ReadSoFar ==
  /\ pc[Cdc] = "actions" => loaded.families = committed.families /\ loaded.destinations = {}
  /\ pc[Cdc] = "details" =>
       /\ loaded.families = committed.families /\ loaded.destinations = {}
       /\ loaded.actions = [a \in DOMAIN committed.actions |-> PartRead(a)]
  /\ pc[Cdc] = "destinations" =>
       /\ loaded.families = committed.families /\ loaded.actions = committed.actions
       /\ loaded.destinations = committed.destinations \ todo

Undisturbed == pc[Cdc] \in Reading /\ ~ disturbed /\ lock # Cdc
ReadInv == LoadedInv /\ (Undisturbed => ReadSoFar)

\* Nothing has been read when the processes start.
LEMMA InitReads == Init => ReadInv
<1> SUFFICES ASSUME Init PROVE ReadInv
  OBVIOUS
<1>1. pc[Cdc] = "idle" /\ loaded = NoTables /\ todo = {}
  BY DEF Init, Writer
<1>2. LoadedInv
  BY <1>1 DEF LoadedInv, NoTables
<1> QED BY <1>1, <1>2 DEF ReadInv, Undisturbed, Reading

\* A step of another writer leaves the reads alone, or disturbs them.
LEMMA OthersKeepReads ==
  ASSUME SaveInv, TablesInv, ReadInv, NEW w \in Writer, w # Cdc, Step(w), Watch
  PROVE  ReadInv'
<1>1. UNCHANGED <<loaded, todo>> /\ pc'[Cdc] = pc[Cdc]
  <2>1. ~ Read(w)
    BY OnlyCdcReads DEF Read, ReadFamilies, ReadActions, DetailsDone, ReadDetail,
       ReadDestinations, ReplyConfig, ReadFails, Reading
  <2>2. Cdc \in Writer /\ pc = [u \in Writer |-> pc[u]]
    BY DEF Writer, SaveInv, ControlOK
  <2>3. UNCHANGED <<loaded, todo>>
    BY <2>1 DEF Step, Ask, Begin, Write, Commit, Statement, Restart, reading
  <2>4. \E label : pc' = [pc EXCEPT ![w] = label]
    BY <2>1 DEF Step, Ask, Begin, Write, Commit, Statement, Restart, Reply, Continue
  <2> QED BY <2>2, <2>3, <2>4
<1>2. lock = Cdc => lock' = Cdc
  BY DatabaseAssumption
  DEF Step, Ask, Begin, Write, Commit, Statement, Read, Restart, KeepLock, SaveInv,
      LockOnlyWhileSaving, Writer
<1>3. LoadedInv'
  BY <1>1 DEF ReadInv, LoadedInv
<1>4. Undisturbed' => Undisturbed /\ committed' = committed
  BY <1>1, <1>2 DEF Undisturbed, Watch, Reading
<1>5. Undisturbed' => ReadSoFar'
  <2>1. ASSUME Undisturbed' PROVE ReadSoFar'
    <3>1. ReadSoFar /\ committed' = committed
      BY <1>4, <2>1 DEF ReadInv
    <3>2. \A a : PartRead(a)' = PartRead(a)
      BY <1>1, <3>1 DEF PartRead
    <3> QED BY <1>1, <3>1, <3>2 DEF ReadSoFar
  <2> QED BY <2>1
<1> QED BY <1>3, <1>5 DEF ReadInv

\* The CDC thread between two requests.
LEMMA NothingRead ==
  ASSUME pc'[Cdc] \notin {"actions", "details", "destinations"}, loaded' = NoTables, todo' = {}
  PROVE  ReadInv'
<1>1. LoadedInv'
  BY DEF LoadedInv, NoTables
<1>2. ReadSoFar'
  BY DEF ReadSoFar
<1> QED BY <1>1, <1>2 DEF ReadInv

\* The five reads.
LEMMA ReadKeepsReads ==
  ASSUME SaveInv, TablesInv, ReadInv, Read(Cdc), Watch
  PROVE  ReadInv'
<1>1. Cdc \in Writer /\ UNCHANGED <<committed, lock>>
  BY DEF Read, KeepLock, Writer
<1>2. CASE ReadFamilies(Cdc)
  <2>1. pc[Cdc] = "families" /\ pc'[Cdc] = "actions" /\ todo' = todo
    BY <1>1, <1>2 DEF ReadFamilies, Continue, SaveInv, ControlOK
  <2>2. loaded = NoTables /\ todo = {}
    BY <2>1 DEF ReadInv, LoadedInv
  <2>3. loaded' = [families |-> Seen(Cdc).families, actions |-> loaded.actions, destinations |-> {}]
    BY <1>2, <2>2 DEF ReadFamilies, NoTables
  <2>4. Seen(Cdc).families \subseteq Family
    BY DEF Seen, TablesInv, Shaped
  <2>5. LoadedInv'
    BY <2>1, <2>2, <2>3, <2>4 DEF LoadedInv
  <2>6. lock # Cdc => ReadSoFar'
    BY <1>1, <2>1, <2>3 DEF ReadSoFar, Seen
  <2> QED BY <1>1, <2>5, <2>6 DEF ReadInv, Undisturbed
<1>3. CASE ReadActions(Cdc)
  <2> DEFINE t == Seen(Cdc)
  <2>1. pc[Cdc] = "actions" /\ pc'[Cdc] = "details"
    BY <1>1, <1>3 DEF ReadActions, Continue, SaveInv, ControlOK
  <2>2. Shaped(t)
    BY DEF Seen, TablesInv
  <2>3. loaded' = [families |-> loaded.families,
                   actions |-> [a \in DOMAIN t.actions |-> NoDetails(t.actions[a])],
                   destinations |-> loaded.destinations]
    BY <1>3 DEF ReadActions, ReadInv, LoadedInv
  <2>4. todo' = (DOMAIN t.actions) \X {"changes", "targets"}
    BY <1>3 DEF ReadActions
  <2>5. LoadedInv'
    BY <2>1, <2>2, <2>3, <2>4 DEF ReadInv, LoadedInv, Shaped
  <2>6. ASSUME Undisturbed' PROVE ReadSoFar'
    <3>1. t = committed /\ ReadSoFar
      BY <1>1, <2>1, <2>6 DEF Undisturbed, Watch, Seen, ReadInv, Reading
    <3>2. ASSUME NEW a \in DOMAIN committed.actions
          PROVE  NoDetails(committed.actions[a]) = PartRead(a)'
      <4>1. PICK x, y, z : committed.actions[a] = [target |-> x, changes |-> y, targets |-> z]
        <5>1. committed.actions[a] = [target |-> committed.actions[a].target,
                changes |-> committed.actions[a].changes, targets |-> committed.actions[a].targets]
          BY DEF TablesInv, Shaped
        <5> QED BY <5>1
      <4>2. NoDetails(committed.actions[a]) = [target |-> x, changes |-> {}, targets |-> {}]
        BY <4>1 DEF NoDetails
      <4>3. <<a, "changes">> \in todo' /\ <<a, "targets">> \in todo'
        BY <2>4, <3>1
      <4> QED BY <1>1, <4>1, <4>2, <4>3 DEF PartRead
    <3>3. loaded'.actions = [a \in DOMAIN committed'.actions |-> PartRead(a)']
      BY <1>1, <2>3, <3>1, <3>2
    <3> QED BY <1>1, <2>1, <2>3, <3>1, <3>3 DEF ReadSoFar
  <2> QED BY <2>5, <2>6 DEF ReadInv
<1>4. ASSUME NEW b \in ActionId, NEW column \in {"changes", "targets"}, ReadDetail(Cdc, b, column)
      PROVE  ReadInv'
  <2>1. pc[Cdc] = "details" /\ pc'[Cdc] = "details" /\ todo' = todo \ {<<b, column>>}
    BY <1>4 DEF ReadDetail
  <2> DEFINE new == IF b \in DOMAIN Seen(Cdc).actions THEN Seen(Cdc).actions[b][column] ELSE {}
             rows == [loaded.actions EXCEPT ![b][column] = new]
  <2>2. loaded' = [families |-> loaded.families, actions |-> rows, destinations |-> loaded.destinations]
    BY <1>4 DEF ReadDetail, ReadInv, LoadedInv
  <2>3. LoadedInv'
    <3> HIDE DEF rows
    <3> QED BY <2>1, <2>2 DEF ReadInv, LoadedInv
  <2>4. ASSUME Undisturbed' PROVE ReadSoFar'
    <3>1. Seen(Cdc) = committed /\ ReadSoFar
      BY <1>1, <2>1, <2>4 DEF Undisturbed, Watch, Seen, ReadInv, Reading
    <3>2. loaded.actions = [a \in DOMAIN committed.actions |-> PartRead(a)]
      BY <2>1, <3>1 DEF ReadSoFar
    <3>3. rows = [a \in DOMAIN committed.actions |-> PartRead(a)']
      <4>1. rows = [a \in DOMAIN committed.actions |->
                      IF a = b THEN [PartRead(b) EXCEPT ![column] = new] ELSE PartRead(a)]
        <5> HIDE DEF PartRead, new
        <5> QED BY <3>2
      <4>2. ASSUME NEW a \in DOMAIN committed.actions, a # b PROVE PartRead(a)' = PartRead(a)
        BY <1>1, <2>1, <4>2 DEF PartRead
      <4>3. ASSUME b \in DOMAIN committed.actions
            PROVE  PartRead(b)' = [PartRead(b) EXCEPT ![column] = new]
        <5>1. new = committed.actions[b][column]
          BY <3>1, <4>3
        <5> HIDE DEF new
        <5>2. CASE column = "changes"
          <6>1. [PartRead(b) EXCEPT !["changes"] = new] =
                  [target |-> committed.actions[b].target, changes |-> committed.actions[b].changes,
                   targets |-> IF <<b, "targets">> \in todo THEN {} ELSE committed.actions[b].targets]
            BY <5>1, <5>2 DEF PartRead
          <6>2. <<b, "changes">> \notin todo' /\ (<<b, "targets">> \in todo' <=> <<b, "targets">> \in todo)
            BY <2>1, <5>2
          <6> QED BY <1>1, <5>2, <6>1, <6>2 DEF PartRead
        <5>3. CASE column = "targets"
          <6>1. [PartRead(b) EXCEPT !["targets"] = new] =
                  [target |-> committed.actions[b].target,
                   changes |-> IF <<b, "changes">> \in todo THEN {} ELSE committed.actions[b].changes,
                   targets |-> committed.actions[b].targets]
            BY <5>1, <5>3 DEF PartRead
          <6>2. <<b, "targets">> \notin todo' /\ (<<b, "changes">> \in todo' <=> <<b, "changes">> \in todo)
            BY <2>1, <5>3
          <6> QED BY <1>1, <5>3, <6>1, <6>2 DEF PartRead
        <5> QED BY <5>2, <5>3
      <4> HIDE DEF rows, new
      <4> QED BY <4>1, <4>2, <4>3
    <3> HIDE DEF rows
    <3> QED BY <1>1, <2>1, <2>2, <3>1, <3>3 DEF ReadSoFar
  <2> QED BY <2>3, <2>4 DEF ReadInv
<1>5. CASE DetailsDone(Cdc)
  <2>1. pc[Cdc] = "details" /\ pc'[Cdc] = "destinations"
    BY <1>1, <1>5 DEF DetailsDone, Continue, SaveInv, ControlOK
  <2>2. todo = {} /\ todo' = loaded.families /\ loaded' = loaded
    BY <1>5 DEF DetailsDone
  <2>3. LoadedInv'
    BY <2>1, <2>2 DEF ReadInv, LoadedInv
  <2>4. ASSUME Undisturbed' PROVE ReadSoFar'
    <3>1. ReadSoFar
      BY <1>1, <2>1, <2>4 DEF Undisturbed, Watch, ReadInv, Reading
    <3>2. ASSUME NEW a \in DOMAIN committed.actions PROVE PartRead(a) = committed.actions[a]
      BY <2>2 DEF PartRead, TablesInv, Shaped
    <3>3. loaded.actions = committed.actions
      <4>1. committed.actions = [a \in DOMAIN committed.actions |-> committed.actions[a]]
        BY DEF TablesInv, Shaped
      <4> QED BY <2>1, <3>1, <3>2, <4>1 DEF ReadSoFar
    <3>4. committed.destinations \subseteq committed.families
      BY DEF TablesInv, WellFormed
    <3> QED BY <1>1, <2>1, <2>2, <3>1, <3>3, <3>4 DEF ReadSoFar
  <2> QED BY <2>3, <2>4 DEF ReadInv
<1>6. ASSUME NEW f \in Family, ReadDestinations(Cdc, f) PROVE ReadInv'
  <2>1. /\ pc[Cdc] = "destinations" /\ pc'[Cdc] = "destinations"
        /\ f \in todo /\ todo' = todo \ {f}
    BY <1>6 DEF ReadDestinations
  <2>2. loaded' = [families |-> loaded.families, actions |-> loaded.actions,
                   destinations |-> IF f \in Seen(Cdc).destinations
                                    THEN loaded.destinations \cup {f} ELSE loaded.destinations]
    BY <1>6 DEF ReadDestinations, ReadInv, LoadedInv
  <2>3. LoadedInv'
    BY <2>1, <2>2 DEF ReadInv, LoadedInv
  <2>4. ASSUME Undisturbed' PROVE ReadSoFar'
    <3>1. Seen(Cdc) = committed /\ ReadSoFar
      BY <1>1, <2>1, <2>4 DEF Undisturbed, Watch, Seen, ReadInv, Reading
    <3> QED BY <1>1, <2>1, <2>2, <3>1 DEF ReadSoFar
  <2> QED BY <2>3, <2>4 DEF ReadInv
<1>7. CASE ReplyConfig(Cdc) \/ ReadFails(Cdc)
  <2>1. pc'[Cdc] = "idle" /\ ReadNothing
    BY <1>1, <1>7 DEF ReplyConfig, ReadFails, Reply, SaveInv, ControlOK
  <2> QED BY <2>1, NothingRead DEF ReadNothing
<1> QED BY <1>2, <1>3, <1>4, <1>5, <1>6, <1>7 DEF Read

\* Every other step of the CDC thread starts or ends a request, or is part of a save.
LEMMA CdcKeepsReads ==
  ASSUME SaveInv, TablesInv, ReadInv, Step(Cdc), Watch
  PROVE  ReadInv'
<1>1. Cdc \in Writer
  BY DEF Writer
<1>2. CASE Read(Cdc)
  BY <1>2, ReadKeepsReads
<1>3. CASE Restart(Cdc)
  <2>1. pc'[Cdc] = "idle" /\ ReadNothing
    BY <1>1, <1>3 DEF Restart, Reply, SaveInv, ControlOK
  <2> QED BY <2>1, NothingRead DEF ReadNothing
<1>4. CASE \E r \in Requests(Cdc) : Ask(Cdc, r)
  <2>1. /\ pc[Cdc] = "idle" /\ pc'[Cdc] \notin {"actions", "details", "destinations"}
        /\ UNCHANGED <<loaded, todo>>
    BY <1>1, <1>4 DEF Ask, Reply, reading, SaveInv, ControlOK
  <2> QED BY <2>1, NothingRead DEF ReadInv, LoadedInv
<1>5. CASE Begin(Cdc) \/ Write(Cdc) \/ Commit(Cdc) \/ Statement(Cdc)
  <2>1. /\ pc[Cdc] \in Saving /\ pc'[Cdc] \in Saving \cup {"idle"}
        /\ UNCHANGED <<loaded, todo>>
    BY <1>1, <1>5 DEF Begin, Write, Commit, Statement, Reply, Continue, reading, Saving,
       SaveInv, ControlOK
  <2> QED BY <2>1, NothingRead DEF ReadInv, LoadedInv, Saving
<1> QED BY <1>2, <1>3, <1>4, <1>5 DEF Step

-------------------------------------------------------------------------------
\* Every step keeps both invariants.
LEMMA StepKeepsReads ==
  SaveInv /\ TablesInv /\ ReadInv /\ [Next]_vars => TablesInv' /\ ReadInv'
<1> SUFFICES ASSUME SaveInv, TablesInv, ReadInv, [Next]_vars PROVE TablesInv' /\ ReadInv'
  OBVIOUS
<1>1. CASE UNCHANGED vars
  <2>1. TablesInv'
    BY <1>1 DEF vars, TablesInv
  <2>2. ReadInv'
    BY <1>1 DEF vars, reading, ReadInv, LoadedInv, Undisturbed, ReadSoFar, PartRead
  <2> QED BY <2>1, <2>2
<1>2. CASE Next
  <2>1. PICK w \in Writer : Step(w)
    BY <1>2 DEF Next
  <2>2. Watch
    BY <1>2 DEF Next
  <2>3. CASE w = Cdc
    BY <2>1, <2>2, <2>3, StepTables, CdcKeepsReads
  <2>4. CASE w # Cdc
    BY <2>1, <2>2, <2>4, StepTables, OthersKeepReads
  <2> QED BY <2>3, <2>4
<1> QED BY <1>1, <1>2

\* The tables keep their columns and constraints, and get_config reads what it says.
THEOREM ReadsInvariant == Spec => [](TablesInv /\ ReadInv)
<1>1. Init => TablesInv /\ ReadInv
  BY InitTables, InitReads
<1>2. SaveInv /\ TablesInv /\ ReadInv /\ [Next]_vars => TablesInv' /\ ReadInv'
  BY StepKeepsReads
<1> QED BY <1>1, <1>2, SavesInvariant, PTL DEF Spec

\* The tables meet every constraint of the schema, the draft of a transaction included,
\* and each process is at a statement of its own (schema.rs, db.rs, cdc.rs).
THEOREM TablesTypeCorrect == Spec => []TypeOK
<1>1. SaveInv /\ TablesInv /\ ReadInv => TypeOK
  BY DEF SaveInv, ControlOK, TablesInv, ReadInv, LoadedInv, TypeOK
<1> QED BY <1>1, SavesInvariant, ReadsInvariant, PTL

\* get_config answers what is committed, if nobody commits while it reads.
LEMMA AnswerIsCommitted ==
  ASSUME SaveInv, TablesInv, ReadInv, [Next]_vars,
         pc[Cdc] = "destinations", answer' = "config", ~ disturbed, lock # Cdc,
         answer # "config" \/ ~ UNCHANGED vars
  PROVE  loaded = committed
<1>1. PICK w \in Writer : Step(w)
  BY DEF Next, vars
<1>2. ReplyConfig(w)
  BY <1>1 DEF Step, Ask, Begin, Write, Commit, Statement, Read, Restart, Reply, Continue,
     ReadFamilies, ReadActions, DetailsDone, ReadDetail, ReadDestinations, ReadFails
<1>3. todo = {} /\ ReadSoFar
  BY <1>2, OnlyCdcReads DEF ReplyConfig, ReadInv, Undisturbed, Reading
<1>4. /\ loaded.families = committed.families /\ loaded.actions = committed.actions
      /\ loaded.destinations = committed.destinations
  BY <1>3 DEF ReadSoFar
<1>5. /\ loaded = [families |-> loaded.families, actions |-> loaded.actions,
                   destinations |-> loaded.destinations]
      /\ committed = [families |-> committed.families, actions |-> committed.actions,
                      destinations |-> committed.destinations]
  BY DEF ReadInv, LoadedInv, TablesInv, Shaped
<1> QED BY <1>4, <1>5

\* The many SELECTs of load_config (cdc.rs) together are a snapshot, unless somebody
\* committed meanwhile.
THEOREM UndisturbedGetConfigCorrect == Spec => UndisturbedGetConfig
<1>1. SaveInv /\ TablesInv /\ ReadInv /\ [Next]_vars =>
        [pc[Cdc] = "destinations" /\ answer' = "config" /\ ~ disturbed /\ lock # Cdc
           => loaded = committed]_vars
  BY AnswerIsCommitted
<1> QED BY <1>1, SavesInvariant, ReadsInvariant, PTL DEF Spec, UndisturbedGetConfig
==============================================================================
