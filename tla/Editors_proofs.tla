---------------------------- MODULE Editors_proofs ----------------------------
(***************************************************************************)
(* Proofs about the two desktop applications: what a save that nobody      *)
(* interfered with may replace and add, for any tables, numbers, contents  *)
(* and other writers.                                                      *)
(***************************************************************************)
EXTENDS Editors, WellFoundedInduction, TLAPS

\* No row has the number of a draft that has not been given one.
NoRowZero(t) == \A s \in DOMAIN t : s \notin {"families", "actions"} => 0 \notin DOMAIN t[s]

\* The tables are tables with such rows.
StoreInv ==
  /\ tables = [s \in Section |-> tables[s]]
  /\ NoRowZero(tables)
  /\ lastRow \in Nat /\ commits \in 0..MaxCommit

\* A load has not read everything, and what it has read is the tables as they are
\* unless somebody has changed them since it began.
LoadInv(load) ==
  /\ load = [then |-> load.then, got |-> load.got, at |-> load.at]
  /\ load.then \in {"none", "open", "reload", "save", "delete"}
  /\ load.at \in 0..commits
  /\ DOMAIN load.got \subseteq Section /\ DOMAIN load.got # Section
  /\ NoRowZero(load.got)
  /\ \A s \in DOMAIN load.got : load.at = commits => load.got[s] = tables[s]

\* The same of the lists taken over from a load begun after change number `at'.
ListsInv(lists_, at) ==
  /\ at \in 0..commits \cup {Never}
  /\ DOMAIN lists_ = Section /\ NoRowZero(lists_)
  /\ at = commits => lists_ = tables

IsDraft(d) == d = Draft(d.section, d.number, d.content)

\* The row of the list that an editor was opened with.
RowOfList(d) ==
  /\ d.section \in Section /\ d.number \in DOMAIN data[d.section]
  /\ d.content = data[d.section][d.number]

\* The original of a saved record is as the tables t have it.
AsIn(t) ==
  /\ Numbered(original.section) => original.number \in DOMAIN t[original.section]
  /\ original.number \in DOMAIN t[original.section] =>
       original.content = t[original.section][original.number]

DraftInv ==
  /\ IsDraft(draft) /\ IsDraft(original)
  /\ original.section = draft.section
  /\ original = NoDraft <=> draft = NoDraft
  /\ original = NoDraft \/ original.section \in Section
  /\ creating => unsaved
  /\ ~ creating \/ ~ Numbered(original.section) => draft.number = original.number
  /\ loading.then \in {"open", "reload"} => draft = original
  /\ unsaved => /\ original # NoDraft /\ loading.then # "save"
                /\ original.number \notin DOMAIN data[original.section]

OriginalInv ==
  original # NoDraft /\ ~ unsaved =>
    /\ Numbered(original.section) \/ original.number # 0
    /\ asOf = commits => AsIn(data)
    /\ loading.then = "save" /\ loading.at = commits => AsIn(tables)

\* What a dialog will go on with when it is accepted.
IntentOK(i) ==
  /\ i.kind = "navigate" => i.section \in Section \cup {"events"}
  /\ i.kind = "edit" =>
       IsDraft(i.draft) /\ ((original # NoDraft /\ i.draft = original) \/ RowOfList(i.draft))

DialogInv ==
  /\ dialog # NoDialog => loading.then = "none"
  /\ IntentOK(dialog)
  /\ dialog.kind = "delete" => original # NoDraft

SettingsPart ==
  /\ section \in Section \cup {"events"}
  /\ LoadInv(loading) /\ ListsInv(data, asOf)
  /\ DraftInv /\ OriginalInv /\ DialogInv

ControlPart == LoadInv(refreshing) /\ ListsInv(lists, listsAsOf)

EditorInv == StoreInv /\ SettingsPart /\ ControlPart

------------------------------------------------------------------------------
(* The tables *)

LEMMA ZeroIsNoNumber ==
  /\ 0 \notin Number /\ Number \subseteq Nat /\ Number \subseteq 0..MaxNumber
  /\ \A s \in Section : /\ RowNumber(s) \subseteq 0..MaxNumber /\ Number \subseteq RowNumber(s)
                        /\ s \notin {"families", "actions"} => 0 \notin RowNumber(s)
BY TablesAssumption DEF Number, RowNumber

\* A load that is not complete reads next a table it has not read.
LEMMA NextTableIn ==
  ASSUME NEW load, DOMAIN load.got \subseteq Section, DOMAIN load.got # Section
  PROVE  NextTable(load) \in Section \ DOMAIN load.got
<1> DEFINE left == {i \in DOMAIN LoadOrder : LoadOrder[i] \in Section \ DOMAIN load.got}
<1>1. DOMAIN LoadOrder = 1..4
  BY DEF LoadOrder
<1>2. PICK s \in Section : s \notin DOMAIN load.got
  OBVIOUS
<1>3. \E i \in 1..4 : LoadOrder[i] = s
  BY <1>2, TablesAssumption DEF LoadOrder
<1>4. left # {}
  BY <1>1, <1>2, <1>3
<1>5. \E i \in left : \A j \in left : i <= j
  <2>1. left \subseteq 1..4
    BY <1>1
  <2> HIDE DEF left
  <2>2. CASE 1 \in left
    BY <2>1, <2>2
  <2>3. CASE 1 \notin left /\ 2 \in left
    BY <2>1, <2>3
  <2>4. CASE 1 \notin left /\ 2 \notin left /\ 3 \in left
    BY <2>1, <2>4
  <2>5. CASE 1 \notin left /\ 2 \notin left /\ 3 \notin left
    <3>1. \A j \in left : j = 4
      BY <2>1, <2>5
    <3>2. 4 \in left
      BY <1>4, <3>1
    <3> QED BY <3>1, <3>2
  <2> QED BY <2>2, <2>3, <2>4, <2>5
<1> DEFINE first == CHOOSE i \in left : \A j \in left : i <= j
<1>6. first \in left
  <2> HIDE DEF left
  <2> QED BY <1>5
<1>7. LoadOrder[first] \in Section \ DOMAIN load.got
  <2> HIDE DEF first
  <2> QED BY <1>6
<1> QED BY <1>7 DEF NextTable

\* What a statement does to the tables and to the count of changes.
StoreMoves ==
  /\ StoreInv'
  /\ \/ tables' = tables /\ commits' = commits
     \/ commits' = commits + 1

\* Writing one row keeps the shape of the tables.
LEMMA PutShape ==
  ASSUME StoreInv, NEW s \in Section, NEW n, n # 0 \/ s \in {"families", "actions"}, NEW c
  PROVE  /\ Put(tables, s, n, c) = [u \in Section |-> Put(tables, s, n, c)[u]]
         /\ NoRowZero(Put(tables, s, n, c))
         /\ Put(tables, s, n, c)[s][n] = c
         /\ DOMAIN Put(tables, s, n, c)[s] = DOMAIN tables[s] \cup {n}
BY DEF StoreInv, Put, NoRowZero

\* A commit keeps StoreInv and is counted if it changes anything.
LEMMA CommitMoves ==
  ASSUME StoreInv, NEW t, Commit(t), lastRow' \in Nat,
         t = [u \in Section |-> t[u]], NoRowZero(t)
  PROVE  StoreMoves /\ tables' = t
BY TablesAssumption DEF StoreInv, StoreMoves, Commit, NoRowZero

\* ... and so is one that writes a single row.
LEMMA CommitPut ==
  ASSUME StoreInv, NEW s \in Section, NEW n, n # 0 \/ s \in {"families", "actions"}, NEW c,
         Commit(Put(tables, s, n, c)), lastRow' \in Nat
  PROVE  /\ StoreMoves
         /\ tables'[s][n] = c /\ DOMAIN tables'[s] = DOMAIN tables[s] \cup {n}
<1> DEFINE t == Put(tables, s, n, c)
<1>1. /\ t = [u \in Section |-> t[u]] /\ NoRowZero(t)
      /\ t[s][n] = c /\ DOMAIN t[s] = DOMAIN tables[s] \cup {n}
  BY PutShape
<1>2. Commit(t)
  OBVIOUS
<1> HIDE DEF t
<1>3. StoreMoves /\ tables' = t
  BY <1>1, <1>2, CommitMoves
<1> QED BY <1>1, <1>3

\* The four statements keep StoreInv and count what they change.
LEMMA UpsertMoves ==
  ASSUME StoreInv, NEW s \in Section, NEW n, NEW c, Upsert(s, n, c)
  PROVE  /\ StoreMoves
         /\ tables'[s][n] = c /\ DOMAIN tables'[s] = DOMAIN tables[s] \cup {n}
<1>1. n # 0 \/ s \in {"families", "actions"}
  BY ZeroIsNoNumber DEF Upsert
<1>2. Commit(Put(tables, s, n, c)) /\ lastRow' \in Nat
  BY DEF Upsert, StoreInv
<1> QED BY <1>1, <1>2, CommitPut

\* ... the insertion of a destination, whose number is new,
LEMMA InsertMoves ==
  ASSUME StoreInv, "destinations" \in Section, NEW c, InsertDestination(c)
  PROVE  /\ StoreMoves /\ lastRow + 1 # 0
         /\ tables'["destinations"][lastRow + 1] = c
<1>1. lastRow + 1 # 0 /\ lastRow' \in Nat
  BY DEF InsertDestination, StoreInv
<1>2. Commit(Put(tables, "destinations", lastRow + 1, c))
  BY DEF InsertDestination
<1> QED BY <1>1, <1>2, CommitPut

\* ... the update of one, which may find no row,
LEMMA UpdateMoves ==
  ASSUME StoreInv, "destinations" \in Section, NEW n, NEW c, UpdateDestination(n, c)
  PROVE  /\ StoreMoves
         /\ DOMAIN tables'["destinations"] = DOMAIN tables["destinations"]
         /\ n \in DOMAIN tables'["destinations"] => tables'["destinations"][n] = c
<1>1. CASE n \in DOMAIN tables["destinations"]
  <2>1. n # 0 /\ lastRow' \in Nat /\ Commit(Put(tables, "destinations", n, c))
    BY <1>1 DEF UpdateDestination, StoreInv, NoRowZero
  <2> QED BY <1>1, <2>1, CommitPut
<1>2. CASE n \notin DOMAIN tables["destinations"]
  BY <1>2 DEF UpdateDestination, StoreInv, StoreMoves
<1> QED BY <1>1, <1>2

\* ... a deletion with its cascade,
LEMMA RemoveMoves ==
  ASSUME StoreInv, NEW s \in Section, NEW n, Remove(s, n)
  PROVE  StoreMoves
<1> DEFINE t == Drop(tables, s, n)
<1>1. t = [u \in Section |-> t[u]]
  BY DEF Drop
<1>2. NoRowZero(t)
  BY DEF Drop, Restrict, StoreInv, NoRowZero
<1>3. Commit(t) /\ lastRow' \in Nat
  BY DEF Remove, StoreInv
<1> HIDE DEF t
<1> QED BY <1>1, <1>2, <1>3, CommitMoves

\* ... and therefore whatever other processes write.
LEMMA OtherWriterMoves == StoreInv /\ OtherWriter => StoreMoves
BY UpsertMoves, InsertMoves, UpdateMoves, RemoveMoves DEF OtherWriter

------------------------------------------------------------------------------
(* Loads and lists *)

LEMMA Quiet == StoreInv /\ UNCHANGED store => StoreMoves
BY DEF StoreInv, StoreMoves, NoRowZero, store

\* A load under way stays true when somebody writes: if it changed a table, the load
\* began before the last change.
LEMMA LoadStable ==
  ASSUME StoreInv, StoreMoves, NEW load, LoadInv(load)
  PROVE  LoadInv(load)'
<1>1. /\ commits \in Nat /\ commits' \in Nat /\ load.at \in 0..commits
      /\ (tables' = tables /\ commits' = commits) \/ commits' = commits + 1
  BY TablesAssumption DEF StoreInv, StoreMoves, LoadInv
<1>2. load.at \in 0..commits' /\ (load.at = commits' => tables' = tables /\ load.at = commits)
  BY <1>1
<1> QED BY <1>2 DEF LoadInv

\* ... and lists that are up to date before one are so after it, or out of date.
LEMMA ListsStable ==
  ASSUME StoreInv, StoreMoves, NEW l, NEW at, ListsInv(l, at)
  PROVE  ListsInv(l, at)'
BY TablesAssumption DEF StoreInv, StoreMoves, ListsInv, Never

\* A load that has just begun, and none at all.
LEMMA NewLoad ==
  ASSUME StoreInv', NEW k \in {"open", "reload", "save", "delete"}
  PROVE  /\ Begin(k, commits') = [then |-> k, got |-> NoLoad.got, at |-> commits']
         /\ NoLoad = [then |-> "none", got |-> NoLoad.got, at |-> 0]
         /\ DOMAIN NoLoad.got = {}
         /\ Section # {} /\ commits' \in 0..commits' /\ 0 \in 0..commits'
<1>1. commits' \in Nat /\ Section # {}
  BY TablesAssumption DEF StoreInv
<1>2. commits' \in 0..commits' /\ 0 \in 0..commits'
  BY <1>1
<1> DEFINE none == [s \in {} |-> Empty]
<1>3. DOMAIN none = {}
  OBVIOUS
<1> HIDE DEF none
<1>4. /\ Begin(k, commits') = [then |-> k, got |-> none, at |-> commits']
      /\ NoLoad = [then |-> "none", got |-> none, at |-> 0]
  BY Zenon DEF Begin, NoLoad, none
<1> QED BY <1>1, <1>2, <1>3, <1>4

\* Both applications begin their loads with nothing read.
LEMMA BeginKeeps ==
  ASSUME StoreInv', NEW load, NEW k \in {"open", "reload", "save", "delete"},
         load \in {NoLoad, Begin(k, commits')}
  PROVE  LoadInv(load)'
<1>1. /\ load = [then |-> load.then, got |-> load.got, at |-> load.at]
      /\ load.then \in {"none", "open", "reload", "save", "delete"}
      /\ load.at \in 0..commits'
      /\ DOMAIN load.got = {} /\ Section # {}
  <2>1. CASE load = NoLoad
    BY <2>1, NewLoad
  <2>2. CASE load = Begin(k, commits')
    BY <2>2, NewLoad
  <2> QED BY <2>1, <2>2
<1> QED BY <1>1 DEF LoadInv, NoRowZero

\* One more table read.
LEMMA ReadKeeps ==
  ASSUME StoreInv, NEW load, LoadInv(load), UNCHANGED <<tables, commits>>,
         NEW next, next = Read(load)
  PROVE  /\ next = [then |-> load.then, got |-> next.got, at |-> load.at]
         /\ ~ Complete(next) => LoadInv(next)'
         /\ Complete(next) => ListsInv(next.got, load.at)'
<1> DEFINE got == [s \in DOMAIN load.got \cup {NextTable(load)} |->
                     IF s \in DOMAIN load.got THEN load.got[s] ELSE tables[s]]
<1>1. NextTable(load) \in Section
  BY NextTableIn DEF LoadInv
<1>2. next = [then |-> load.then, got |-> got, at |-> load.at]
  BY DEF LoadInv, Read
<1>3. /\ DOMAIN got \subseteq Section
      /\ NoRowZero(got)
      /\ \A s \in DOMAIN got : load.at = commits => got[s] = tables[s]
  BY <1>1 DEF LoadInv, StoreInv, NoRowZero
<1>4. DOMAIN got = Section /\ load.at = commits => got = tables
  BY <1>3 DEF StoreInv
<1>5. load.then \in {"none", "open", "reload", "save", "delete"} /\ load.at \in 0..commits
  BY DEF LoadInv
<1>6. /\ next.got = got /\ next.then = load.then /\ next.at = load.at
      /\ next = [then |-> next.then, got |-> next.got, at |-> next.at]
  <2> HIDE DEF got
  <2> QED BY <1>2
<1> HIDE DEF got
<1>7. ~ Complete(next) => LoadInv(next)'
  BY <1>3, <1>5, <1>6 DEF LoadInv, Complete
<1>8. Complete(next) => ListsInv(next.got, load.at)'
  BY <1>3, <1>4, <1>5, <1>6 DEF ListsInv, Complete
<1> QED BY <1>6, <1>7, <1>8

------------------------------------------------------------------------------
(* Steps of others *)

\* Somebody else's statement leaves the settings application's part true.
LEMMA SettingsStable ==
  ASSUME StoreInv, StoreMoves, UNCHANGED settings, SettingsPart
  PROVE  SettingsPart'
<1>1. LoadInv(loading)'
  <2>1. LoadInv(loading)
    BY DEF SettingsPart
  <2> QED BY <2>1, LoadStable DEF LoadInv, settings
<1>2. ListsInv(data, asOf)'
  <2>1. ListsInv(data, asOf)
    BY DEF SettingsPart
  <2> QED BY <2>1, ListsStable DEF ListsInv, settings
<1>3. DraftInv'
  BY DEF SettingsPart, DraftInv, settings, IsDraft
<1>4. OriginalInv'
  <2>1. /\ commits \in Nat /\ commits' \in 0..MaxCommit
        /\ asOf \in 0..commits \cup {Never} /\ loading.at \in 0..commits
        /\ (tables' = tables /\ commits' = commits) \/ commits' = commits + 1
    BY TablesAssumption DEF StoreInv, StoreMoves, SettingsPart, LoadInv, ListsInv
  <2>2. /\ asOf = commits' => asOf = commits
        /\ loading.at = commits' => tables' = tables /\ loading.at = commits
    BY <2>1, TablesAssumption DEF Never
  <2>3. /\ draft' = draft /\ original' = original /\ unsaved' = unsaved
        /\ asOf' = asOf /\ loading' = loading /\ data' = data
    BY DEF settings
  <2> QED BY <2>2, <2>3 DEF SettingsPart, OriginalInv, AsIn
<1>5. DialogInv' /\ section' \in Section \cup {"events"}
  BY DEF SettingsPart, DialogInv, IntentOK, IsDraft, RowOfList, settings
<1> QED BY <1>1, <1>2, <1>3, <1>4, <1>5 DEF SettingsPart

\* ... and the control application's.
LEMMA ControlStable ==
  ASSUME StoreInv, StoreMoves, UNCHANGED control, ControlPart
  PROVE  ControlPart'
<1>1. LoadInv(refreshing)'
  <2>1. LoadInv(refreshing)
    BY DEF ControlPart
  <2> QED BY <2>1, LoadStable DEF LoadInv, control
<1>2. ListsInv(lists, listsAsOf)'
  <2>1. ListsInv(lists, listsAsOf)
    BY DEF ControlPart
  <2> QED BY <2>1, ListsStable DEF ListsInv, control
<1> QED BY <1>1, <1>2 DEF ControlPart

------------------------------------------------------------------------------
(* Steps of the settings application *)

\* A set of numbers that is not empty has a least one.
LEMMA LeastNumber ==
  ASSUME NEW T, T \subseteq Nat, T # {}
  PROVE  \E n \in T : \A k \in T : n <= k
<1>1. IsWellFoundedOn(OpToRel(<, Nat), Nat)
  BY NatLessThanWellFounded, Zenon
<1>2. PICK x \in T : \A y \in T : ~ (<<y, x>> \in OpToRel(<, Nat))
  BY <1>1, WFMin, Zenon
<1>3. \A y \in T : y \in Nat /\ x \in Nat /\ ~ (y < x)
  BY <1>2 DEF OpToRel
<1> QED BY <1>3

\* next_id finds a number, which no loaded row has.
LEMMA NextIdIsFree ==
  ASSUME NEW s \in {"families", "actions"}, NumberLeft(s)
  PROVE  next_id(data[s]) \in Number \ DOMAIN data[s]
<1> DEFINE free == Number \ DOMAIN data[s]
           least == CHOOSE n \in free : \A k \in free : n <= k
<1>1. free \subseteq Nat /\ free # {}
  BY ZeroIsNoNumber DEF NumberLeft
<1>2. next_id(data[s]) = least
  BY DEF next_id
<1> HIDE DEF free
<1>3. \E n \in free : \A k \in free : n <= k
  BY <1>1, LeastNumber
<1>4. least \in free
  BY <1>3
<1> HIDE DEF least
<1> QED BY <1>2, <1>4 DEF free

\* The draft of a new record has no number that a loaded row has.
LEMMA FreshNumber ==
  ASSUME StoreInv, ListsInv(data, asOf), NEW s \in Section, NumberLeft(s)
  PROVE  Fresh(s).number \notin DOMAIN data[s]
<1>1. CASE s \in {"families", "actions"}
  BY <1>1, NextIdIsFree DEF Fresh, Draft
<1>2. CASE s \notin {"families", "actions"}
  BY <1>2 DEF Fresh, Draft, ListsInv, NoRowZero
<1> QED BY <1>1, <1>2

\* perform, once the dialog is closed and the edits are given up.
LEMMA PerformKeeps ==
  ASSUME StoreInv, SettingsPart, UNCHANGED <<store, db, data, asOf>>,
         loading.then = "none", dialog' = NoDialog,
         NEW i, IntentOK(i), Perform(i, original)
  PROVE  SettingsPart'
<1>1. /\ StoreInv' /\ commits' = commits /\ tables' = tables
      /\ data' = data /\ asOf' = asOf
  BY DEF StoreInv, store
<1>2. /\ LoadInv(loading) /\ ListsInv(data, asOf) /\ DraftInv /\ OriginalInv
      /\ section \in Section \cup {"events"}
  BY DEF SettingsPart
<1>3. ListsInv(data, asOf)'
  BY <1>1, <1>2 DEF ListsInv
<1>4. DialogInv'
  BY DEF DialogInv, IntentOK, NoDialog, Simple, Intent
<1>5. Section \subseteq {"families", "devices", "actions", "destinations"}
  BY TablesAssumption
<1>6. CASE UNCHANGED loading
  <2>1. LoadInv(loading)'
    BY <1>1, <1>2, <1>6 DEF LoadInv
  <2>2. section' \in Section \cup {"events"} /\ DraftInv' /\ OriginalInv'
    <3>1. CASE Keep(original) /\ UNCHANGED section
      BY <1>1, <1>2, <1>6, <3>1 DEF Keep, DraftInv, OriginalInv, AsIn, IsDraft
    <3>2. CASE i.kind = "navigate" /\ section' = i.section /\ Clear
      BY <1>2, <1>6, <3>2
      DEF Clear, DraftInv, OriginalInv, IsDraft, IntentOK, NoDraft, Draft
    <3>3. CASE /\ draft' = i.draft /\ original' = i.draft /\ creating' = FALSE
               /\ unsaved' = (unsaved /\ i.draft = original)
               /\ UNCHANGED section /\ i.kind = "edit"
      <4>1. IsDraft(i.draft)
        BY <3>3 DEF IntentOK
      <4>2. CASE original # NoDraft /\ i.draft = original
        BY <1>1, <1>2, <1>6, <3>3, <4>1, <4>2 DEF DraftInv, OriginalInv, AsIn, IsDraft
      <4>3. CASE RowOfList(i.draft)
        <5>1. i.draft.section \in Section /\ "none" \notin Section
          BY <1>5, <4>3 DEF RowOfList
        <5>2. i.draft # NoDraft
          BY <5>1 DEF NoDraft, Draft
        <5>3. ~ unsaved'
          BY <1>2, <3>3, <4>3 DEF DraftInv, RowOfList
        <5>4. Numbered(i.draft.section) \/ i.draft.number # 0
          BY <1>2, <4>3, <5>1, <1>5 DEF ListsInv, RowOfList, NoRowZero, Numbered
        <5>5. DraftInv'
          BY <1>6, <3>3, <4>1, <5>1, <5>2, <5>3 DEF DraftInv, IsDraft
        <5>6. OriginalInv'
          BY <1>1, <1>6, <3>3, <4>3, <5>2, <5>4 DEF OriginalInv, AsIn, RowOfList
        <5> QED BY <1>2, <3>3, <5>5, <5>6
      <4> QED BY <3>3, <4>2, <4>3 DEF IntentOK
    <3>4. CASE /\ draft' = Fresh(section) /\ original' = Fresh(section)
               /\ creating' = TRUE /\ unsaved' = TRUE
               /\ UNCHANGED section /\ section # "events" /\ NumberLeft(section)
      <4>1. section \in Section /\ "none" \notin Section
        BY <1>2, <1>5, <3>4
      <4>2. Fresh(section).number \notin DOMAIN data[section]
        BY <1>2, <3>4, <4>1, FreshNumber
      <4>3. IsDraft(Fresh(section)) /\ Fresh(section).section = section
        BY DEF IsDraft, Fresh, Draft
      <4>4. Fresh(section) # NoDraft
        BY <4>1, <4>3 DEF NoDraft, Draft
      <4>5. DraftInv'
        BY <1>1, <1>6, <3>4, <4>1, <4>2, <4>3, <4>4 DEF DraftInv, IsDraft
      <4> QED BY <1>2, <3>4, <4>5 DEF OriginalInv
    <3>5. CASE i.kind = "open" \/ i.kind = "reload"
      BY <3>1, <3>5 DEF Perform
    <3> QED BY <1>6, <3>1, <3>2, <3>3, <3>4, <3>5 DEF Perform
  <2> QED BY <1>3, <1>4, <2>1, <2>2 DEF SettingsPart
<1>7. CASE /\ \E k \in {"open", "reload"} : loading' \in {NoLoad, Begin(k, commits)}
           /\ Keep(original) /\ UNCHANGED section
  <2>1. PICK k \in {"open", "reload"} : loading' \in {NoLoad, Begin(k, commits')}
    BY <1>1, <1>7
  <2>2. LoadInv(loading)'
    BY <1>1, <2>1, BeginKeeps DEF LoadInv
  <2>3. loading'.then \in {"none", "open", "reload"}
    <3>1. CASE loading' = NoLoad
      BY <1>1, <3>1, NewLoad
    <3>2. CASE loading' = Begin(k, commits')
      BY <1>1, <3>2, NewLoad
    <3> QED BY <2>1, <3>1, <3>2
  <2>4. DraftInv'
    BY <1>1, <1>2, <1>7, <2>3 DEF Keep, DraftInv, IsDraft
  <2>5. OriginalInv'
    BY <1>1, <1>2, <1>7, <2>3 DEF Keep, OriginalInv, AsIn
  <2> QED BY <1>2, <1>3, <1>4, <1>7, <2>2, <2>4, <2>5 DEF SettingsPart
<1> QED BY <1>6, <1>7 DEF Perform

\* A request: perform at once, or a dialog.
LEMMA RequestKeeps ==
  ASSUME StoreInv, SettingsPart, Interactive,
         NEW i, i.kind # "delete", IntentOK(i), RequestIntent(i)
  PROVE  SettingsPart' /\ StoreMoves
<1>1. /\ UNCHANGED <<store, db, data, asOf>> /\ UNCHANGED store
      /\ loading.then = "none" /\ dialog = NoDialog
  BY DEF RequestIntent, Interactive, Ready
<1>2. StoreMoves
  BY <1>1, Quiet
<1>3. CASE ~ dirty
  <2>1. Perform(i, original) /\ dialog' = NoDialog
    BY <1>1, <1>3 DEF RequestIntent, dirty
  <2> QED BY <1>1, <1>2, <2>1, PerformKeeps
<1>4. CASE dirty
  <2>1. /\ dialog' = i
        /\ UNCHANGED <<section, draft, original, creating, closed, loading, unsaved>>
    BY <1>4 DEF RequestIntent
  <2>2. LoadInv(loading)' /\ ListsInv(data, asOf)'
    BY <1>1, <2>1 DEF SettingsPart, LoadInv, ListsInv, store
  <2>3. DraftInv' /\ OriginalInv' /\ section' \in Section \cup {"events"}
    BY <1>1, <2>1 DEF SettingsPart, DraftInv, OriginalInv, AsIn, IsDraft, store
  <2>4. DialogInv'
    BY <1>1, <2>1 DEF DialogInv, IntentOK, IsDraft, RowOfList
  <2> QED BY <1>2, <2>2, <2>3, <2>4 DEF SettingsPart
<1> QED BY <1>3, <1>4

\* Typing into the form.
LEMMA TypeDraftKeeps ==
  ASSUME StoreInv, SettingsPart, TypeDraft
  PROVE  SettingsPart' /\ StoreMoves
<1>1. /\ UNCHANGED <<section, original, creating, dialog, loading, unsaved, data, asOf>>
      /\ UNCHANGED store /\ draft # NoDraft /\ loading.then = "none" /\ dialog = NoDialog
  BY DEF TypeDraft, Interactive, Ready
<1>2. LoadInv(loading)' /\ ListsInv(data, asOf)' /\ section' \in Section \cup {"events"}
  BY <1>1 DEF SettingsPart, LoadInv, ListsInv, store
<1>3. OriginalInv' /\ DialogInv'
  BY <1>1 DEF SettingsPart, OriginalInv, AsIn, DialogInv, IntentOK, IsDraft, RowOfList, store
<1>4. /\ draft = [section |-> draft.section, number |-> draft.number, content |-> draft.content]
      /\ draft.section \in Section /\ "none" \notin Section
  BY <1>1, TablesAssumption DEF SettingsPart, DraftInv, IsDraft, Draft
<1>5. /\ draft' = [section |-> draft.section, number |-> draft'.number,
                   content |-> draft'.content]
      /\ ~ creating \/ ~ Numbered(draft.section) => draft'.number = draft.number
  <2>1. CASE \E c \in Content(draft.section) \cup {Blank} :
               draft' = [draft EXCEPT !.content = c]
    BY <1>4, <2>1
  <2>2. CASE /\ creating /\ draft.section \in {"devices", "actions"}
             /\ \E n \in 0..MaxNumber : draft' = [draft EXCEPT !.number = n]
    BY <1>4, <2>2 DEF Numbered
  <2> QED BY <2>1, <2>2 DEF TypeDraft
<1>6. IsDraft(draft') /\ draft' # NoDraft /\ draft'.section = draft.section
  BY <1>4, <1>5 DEF IsDraft, NoDraft, Draft
<1>7. DraftInv'
  BY <1>1, <1>5, <1>6 DEF SettingsPart, DraftInv, IsDraft, Numbered
<1> QED BY <1>1, <1>2, <1>3, <1>7, Quiet DEF SettingsPart

\* A save leaves the record that is in the editor as the tables have it.
LEMMA SaveFacts ==
  ASSUME StoreInv, SettingsPart, Save
  PROVE  /\ StoreMoves /\ AsIn(tables)'
         /\ draft.section \in Section /\ original' = draft'
         /\ draft' = Draft(draft.section, draft'.number, draft.content)
         /\ Numbered(draft.section) \/ draft'.number # 0
         /\ Numbered(draft.section) \/ draft.number # 0 => DOMAIN tables'[draft.section] =
              IF Numbered(draft.section) THEN DOMAIN tables[draft.section] \cup {draft.number}
              ELSE DOMAIN tables[draft.section]
<1>1. /\ draft = Draft(draft.section, draft.number, draft.content)
      /\ draft.section \in Section /\ original' = draft'
  BY DEF SettingsPart, DraftInv, IsDraft, Save
<1>2. CASE /\ Numbered(draft.section)
           /\ Upsert(draft.section, draft.number, draft.content)
           /\ UNCHANGED draft
  <2>1. /\ StoreMoves
        /\ tables'[draft.section][draft.number] = draft.content
        /\ DOMAIN tables'[draft.section] = DOMAIN tables[draft.section] \cup {draft.number}
    BY <1>1, <1>2, UpsertMoves
  <2>2. AsIn(tables)'
    BY <1>1, <1>2, <2>1 DEF AsIn
  <2> QED BY <1>1, <1>2, <2>1, <2>2
<1>3. CASE /\ ~Numbered(draft.section) /\ draft.number = 0
           /\ InsertDestination(draft.content)
           /\ draft' = [draft EXCEPT !.number = lastRow + 1]
  <2>1. draft.section = "destinations"
    BY <1>3 DEF Numbered
  <2>2. /\ StoreMoves /\ lastRow + 1 # 0
        /\ tables'["destinations"][lastRow + 1] = draft.content
    BY <1>1, <1>3, <2>1, InsertMoves
  <2>3. draft' = Draft(draft.section, lastRow + 1, draft.content)
    BY <1>1, <1>3 DEF Draft
  <2>4. draft'.number = lastRow + 1 /\ draft'.section = draft.section
        /\ draft'.content = draft.content
    BY <2>3 DEF Draft
  <2>5. AsIn(tables)'
    BY <1>1, <1>3, <2>1, <2>2, <2>4 DEF AsIn, Numbered
  <2> QED BY <1>1, <1>3, <2>2, <2>3, <2>4, <2>5
<1>4. CASE /\ ~Numbered(draft.section) /\ draft.number # 0
           /\ UpdateDestination(draft.number, draft.content)
           /\ UNCHANGED draft
  <2>1. draft.section = "destinations"
    BY <1>4 DEF Numbered
  <2>2. /\ StoreMoves
        /\ DOMAIN tables'["destinations"] = DOMAIN tables["destinations"]
        /\ draft.number \in DOMAIN tables'["destinations"] =>
             tables'["destinations"][draft.number] = draft.content
    BY <1>1, <1>4, <2>1, UpdateMoves
  <2>3. AsIn(tables)'
    BY <1>1, <1>4, <2>1, <2>2 DEF AsIn, Numbered
  <2> QED BY <1>1, <1>4, <2>1, <2>2, <2>3
<1> QED BY <1>2, <1>3, <1>4 DEF Save

\* Save of the settings application keeps its invariant.
LEMMA SaveKeeps ==
  ASSUME StoreInv, SettingsPart, Save
  PROVE  SettingsPart' /\ StoreMoves
<1>1. /\ StoreMoves /\ AsIn(tables)' /\ StoreInv'
      /\ draft.section \in Section /\ original' = draft'
      /\ draft' = Draft(draft.section, draft'.number, draft.content)
      /\ Numbered(draft.section) \/ draft'.number # 0
  BY SaveFacts DEF StoreMoves
<1>2. /\ UNCHANGED <<section, data, asOf, dialog>>
      /\ creating' = FALSE /\ unsaved' = FALSE /\ dialog = NoDialog
      /\ loading' = Begin("save", commits')
  BY DEF Save, Interactive, Ready
<1>3. LoadInv(loading)'
  BY <1>1, <1>2, BeginKeeps DEF LoadInv
<1>4. ListsInv(data, asOf)'
  <2>1. ListsInv(data, asOf)
    BY DEF SettingsPart
  <2> QED BY <1>1, <1>2, <2>1, ListsStable DEF ListsInv
<1>5. draft'.section = draft.section /\ IsDraft(draft') /\ "none" \notin Section
  BY <1>1, TablesAssumption DEF IsDraft, Draft
<1>6. original' # NoDraft
  BY <1>1, <1>5 DEF NoDraft, Draft
<1>7. loading'.then = "save"
  BY <1>1, <1>2, NewLoad
<1>8. DraftInv'
  BY <1>1, <1>2, <1>5, <1>6, <1>7 DEF DraftInv, IsDraft
<1>9. OriginalInv'
  <2>1. asOf = commits' => data = tables'
    BY <1>2, <1>4 DEF ListsInv
  <2> QED BY <1>1, <1>2, <1>5, <2>1 DEF OriginalInv, AsIn
<1>10. DialogInv'
  BY <1>2 DEF DialogInv, IntentOK, NoDialog, Simple, Intent
<1> QED BY <1>1, <1>2, <1>3, <1>4, <1>8, <1>9, <1>10 DEF SettingsPart

\* So does the deletion it was asked to confirm.
LEMMA AcceptDeleteKeeps ==
  ASSUME StoreInv, SettingsPart, AcceptDelete
  PROVE  SettingsPart' /\ StoreMoves
<1>1. /\ UNCHANGED <<section, data, asOf, draft, original, creating, unsaved>>
      /\ dialog' = NoDialog /\ original.section \in Section
  BY DEF AcceptDelete, SettingsPart, DialogInv, DraftInv
<1>2. StoreMoves
  <2>1. CASE Remove(original.section, original.number)
    BY <1>1, <2>1, RemoveMoves
  <2>2. CASE UNCHANGED <<store, loading>>
    BY <2>2, Quiet
  <2> QED BY <2>1, <2>2 DEF AcceptDelete
<1>3. ListsInv(data, asOf)'
  <2>1. ListsInv(data, asOf)
    BY DEF SettingsPart
  <2> QED BY <1>1, <1>2, <2>1, ListsStable DEF ListsInv
<1>4. DialogInv'
  BY <1>1 DEF DialogInv, IntentOK, NoDialog, Simple, Intent
<1>5. LoadInv(loading)' /\ loading'.then \in {"none", "delete"}
  <2>1. CASE loading' = Begin("delete", commits')
    <3>1. LoadInv(loading)'
      BY <1>2, <2>1, BeginKeeps DEF LoadInv, StoreMoves
    <3> QED BY <1>2, <2>1, <3>1, NewLoad DEF StoreMoves
  <2>2. CASE UNCHANGED <<store, loading>>
    BY <2>2 DEF LoadInv, store, SettingsPart, AcceptDelete, Ready
  <2> QED BY <2>1, <2>2 DEF AcceptDelete
<1>6. DraftInv'
  BY <1>1, <1>5 DEF SettingsPart, DraftInv, IsDraft
<1>7. OriginalInv'
  <2>1. asOf = commits' => asOf = commits
    BY <1>2, TablesAssumption
    DEF StoreInv, StoreMoves, SettingsPart, ListsInv, Never
  <2> QED BY <1>1, <1>5, <2>1 DEF SettingsPart, OriginalInv, AsIn
<1> QED BY <1>1, <1>2, <1>3, <1>4, <1>5, <1>6, <1>7 DEF SettingsPart

\* One more table read into the settings application.
LEMMA ReadTableKeeps ==
  ASSUME StoreInv, SettingsPart, ReadTable
  PROVE  SettingsPart' /\ StoreMoves
<1>0. PICK load : load = Read(loading)
  OBVIOUS
<1>1. /\ UNCHANGED store /\ UNCHANGED <<section, dialog, tables, commits>>
      /\ loading.then # "none" /\ LoadInv(loading)
  BY DEF ReadTable, SettingsPart, store
<1>2. StoreMoves
  BY <1>1, Quiet
<1>3. /\ load = [then |-> loading.then, got |-> load.got, at |-> loading.at]
      /\ ~ Complete(load) => LoadInv(load)'
      /\ Complete(load) => ListsInv(load.got, load.at)'
  <2>1. PICK now : now = loading
    OBVIOUS
  <2>2. /\ load = [then |-> now.then, got |-> load.got, at |-> now.at]
        /\ ~ Complete(load) => LoadInv(load)'
        /\ Complete(load) => ListsInv(load.got, now.at)'
    BY <1>0, <1>1, <2>1, ReadKeeps
  <2>3. load.at = now.at
    BY <2>2
  <2> QED BY <2>1, <2>2, <2>3
<1>4. load.then = loading.then /\ load.at = loading.at
  BY <1>3
<1>5. DialogInv'
  BY <1>1 DEF SettingsPart, DialogInv, IntentOK, NoDialog, Simple, Intent
<1>6. section' \in Section \cup {"events"}
  BY <1>1 DEF SettingsPart
<1>7. CASE ~ Complete(load)
  <2>1. /\ loading' = load
        /\ UNCHANGED <<data, draft, original, creating, asOf, unsaved>>
    BY <1>0, <1>7 DEF ReadTable
  <2>2. LoadInv(loading)'
    BY <1>3, <1>7, <2>1 DEF LoadInv
  <2>3. ListsInv(data, asOf)' /\ DraftInv'
    BY <1>1, <1>4, <2>1 DEF SettingsPart, ListsInv, DraftInv, IsDraft
  <2>4. OriginalInv'
    BY <1>1, <1>4, <2>1 DEF SettingsPart, OriginalInv, AsIn
  <2> QED BY <1>2, <1>5, <1>6, <2>2, <2>3, <2>4 DEF SettingsPart
<1>8. CASE Complete(load)
  <2>1. /\ loading' = NoLoad /\ data' = load.got /\ asOf' = load.at
        /\ IF load.then = "save" THEN UNCHANGED <<draft, original, creating, unsaved>>
           ELSE Clear
    BY <1>0, <1>8 DEF ReadTable
  <2>2. StoreInv'
    BY <1>2 DEF StoreMoves
  <2>3. LoadInv(loading)' /\ loading'.then = "none"
    <3>1. LoadInv(loading)'
      BY <2>1, <2>2, BeginKeeps DEF LoadInv
    <3> QED BY <2>1, <2>2, <3>1, NewLoad
  <2>4. ListsInv(data, asOf)'
    BY <1>3, <1>4, <1>8, <2>1 DEF ListsInv
  <2>5. CASE load.then = "save"
    <3>1. UNCHANGED <<draft, original, creating, unsaved>>
      BY <2>1, <2>5
    <3>2. ~ unsaved
      BY <1>4, <2>5 DEF SettingsPart, DraftInv
    <3>3. DraftInv'
      BY <2>3, <3>1, <3>2 DEF SettingsPart, DraftInv, IsDraft
    <3>4. asOf' = commits' => data' = tables /\ loading.at = commits
      BY <1>1, <1>4, <2>1, <2>4 DEF ListsInv
    <3>5. OriginalInv'
      BY <1>4, <2>3, <2>5, <3>1, <3>4 DEF SettingsPart, OriginalInv, AsIn
    <3> QED BY <1>2, <1>5, <1>6, <2>3, <2>4, <3>3, <3>5 DEF SettingsPart
  <2>6. CASE load.then # "save"
    <3>1. Clear
      BY <2>1, <2>6
    <3>2. DraftInv' /\ OriginalInv'
      BY <3>1 DEF Clear, DraftInv, OriginalInv, IsDraft, NoDraft, Draft
    <3> QED BY <1>2, <1>5, <1>6, <2>3, <2>4, <3>2 DEF SettingsPart
  <2> QED BY <2>5, <2>6
<1> QED BY <1>7, <1>8

\* A step that leaves the editor and the lists alone.
LEMMA EditorUntouched ==
  ASSUME StoreInv, SettingsPart, UNCHANGED store, DialogInv',
         UNCHANGED <<data, section, draft, original, creating, asOf, unsaved>>,
         loading' \in {loading, NoLoad}
  PROVE  SettingsPart' /\ StoreMoves
<1>1. StoreInv' /\ StoreMoves /\ tables' = tables /\ commits' = commits
  BY Quiet DEF StoreMoves, store
<1>2. LoadInv(loading)' /\ (loading' = loading \/ loading'.then = "none")
  <2>1. CASE loading' = loading
    BY <1>1, <2>1 DEF SettingsPart, LoadInv
  <2>2. CASE loading' = NoLoad
    <3>1. LoadInv(loading)'
      BY <1>1, <2>2, BeginKeeps DEF LoadInv
    <3> QED BY <1>1, <2>2, <3>1, NewLoad
  <2> QED BY <2>1, <2>2
<1>3. ListsInv(data, asOf)' /\ section' \in Section \cup {"events"}
  BY <1>1 DEF SettingsPart, ListsInv
<1>4. DraftInv'
  BY <1>2 DEF SettingsPart, DraftInv, IsDraft
<1>5. OriginalInv'
  BY <1>1, <1>2 DEF SettingsPart, OriginalInv, AsIn
<1> QED BY <1>1, <1>2, <1>3, <1>4, <1>5 DEF SettingsPart

\* What a dialog may ask about.
LEMMA SimpleIntents ==
  /\ \A k \in {"none", "open", "reload", "new", "close", "delete"} :
       IntentOK(Simple(k)) /\ Simple(k).kind = k
  /\ \A s \in Section \cup {"events"} :
       /\ IntentOK(Intent("navigate", s, NoDraft))
       /\ Intent("navigate", s, NoDraft).kind = "navigate"
BY DEF IntentOK, Simple, Intent

\* Every step of the settings application keeps its invariant.
LEMMA SettingsStep ==
  ASSUME StoreInv, SettingsPart, SettingsNext
  PROVE  SettingsPart' /\ StoreMoves
<1>1. CASE AskOpen
  BY <1>1, SimpleIntents, RequestKeeps DEF AskOpen
<1>2. CASE AskReload
  BY <1>2, SimpleIntents, RequestKeeps DEF AskReload
<1>3. CASE AskNew
  BY <1>3, SimpleIntents, RequestKeeps DEF AskNew
<1>4. CASE \E s \in Section \cup {"events"} : Navigate(s)
  BY <1>4, SimpleIntents, RequestKeeps DEF Navigate
<1>5. CASE \E n \in 0..MaxNumber : Select(n)
  <2>1. PICK n \in 0..MaxNumber : Select(n)
    BY <1>5
  <2> DEFINE d == Draft(section, n, data[section][n])
             i == Intent("edit", "none", d)
  <2>2. Interactive /\ RequestIntent(i) /\ section \in Section /\ n \in DOMAIN data[section]
    BY <2>1 DEF Select, SettingsPart
  <2>3. IsDraft(d) /\ RowOfList(d)
    BY <2>2 DEF IsDraft, RowOfList, Draft
  <2>4. i.kind = "edit" /\ i.draft = d
    BY DEF Intent
  <2> HIDE DEF d, i
  <2>5. IntentOK(i)
    BY <2>3, <2>4 DEF IntentOK
  <2> QED BY <2>2, <2>4, <2>5, RequestKeeps
<1>6. CASE Revert
  <2> DEFINE i == Intent("edit", "none", original)
  <2>1. Interactive /\ RequestIntent(i) /\ original # NoDraft /\ IsDraft(original)
    BY <1>6 DEF Revert, SettingsPart, DraftInv
  <2>2. i.kind = "edit" /\ i.draft = original
    BY DEF Intent
  <2> HIDE DEF i
  <2>3. IntentOK(i)
    BY <2>1, <2>2 DEF IntentOK
  <2> QED BY <2>1, <2>2, <2>3, RequestKeeps
<1>7. CASE CloseWindow
  <2>1. /\ UNCHANGED store
        /\ UNCHANGED <<data, section, draft, original, creating, asOf, unsaved, loading>>
        /\ loading.then = "none" /\ dialog' \in {dialog, Simple("close")}
    BY <1>7 DEF CloseWindow, Ready
  <2>2. DialogInv'
    <3>1. CASE dialog' = dialog
      BY <2>1, <3>1 DEF SettingsPart, DialogInv, IntentOK, IsDraft, RowOfList
    <3>2. CASE dialog' = Simple("close")
      BY <2>1, <3>2 DEF DialogInv, IntentOK, Simple, Intent
    <3> QED BY <2>1, <3>1, <3>2
  <2> QED BY <2>1, <2>2, EditorUntouched
<1>8. CASE TypeDraft
  BY <1>8, TypeDraftKeeps
<1>9. CASE Save
  BY <1>9, SaveKeeps
<1>10. CASE AskDelete
  <2>1. /\ UNCHANGED store
        /\ UNCHANGED <<data, section, draft, original, creating, asOf, unsaved, loading>>
        /\ loading.then = "none" /\ dialog' = Simple("delete") /\ original # NoDraft
    BY <1>10 DEF AskDelete, Interactive, Ready, SettingsPart, DraftInv
  <2>2. DialogInv'
    BY <2>1 DEF DialogInv, IntentOK, Simple, Intent
  <2> QED BY <2>1, <2>2, EditorUntouched
<1>11. CASE Back
  <2>1. /\ UNCHANGED store
        /\ UNCHANGED <<data, section, draft, original, creating, asOf, unsaved, loading>>
        /\ dialog' = NoDialog
    BY <1>11 DEF Back
  <2>2. DialogInv'
    BY <2>1 DEF DialogInv, IntentOK, NoDialog, Simple, Intent
  <2> QED BY <2>1, <2>2, EditorUntouched
<1>12. CASE AcceptDiscard
  <2>1. /\ UNCHANGED <<store, db, data, asOf>> /\ dialog' = NoDialog
        /\ loading.then = "none" /\ Perform(dialog, original) /\ IntentOK(dialog)
    BY <1>12 DEF AcceptDiscard, Ready, SettingsPart, DialogInv
  <2>2. UNCHANGED store
    BY <2>1
  <2> QED BY <2>1, <2>2, PerformKeeps, Quiet
<1>13. CASE AcceptDelete
  BY <1>13, AcceptDeleteKeeps
<1>14. CASE ReadTable
  BY <1>14, ReadTableKeeps
<1>15. CASE LoadFails
  <2>1. /\ UNCHANGED store
        /\ UNCHANGED <<data, section, draft, original, creating, asOf, unsaved>>
        /\ dialog' = dialog /\ loading' = NoLoad /\ dialog = NoDialog
    BY <1>15 DEF LoadFails, SettingsPart, DialogInv
  <2>2. DialogInv'
    BY <2>1 DEF DialogInv, IntentOK, NoDialog, Simple, Intent
  <2> QED BY <2>1, <2>2, EditorUntouched
<1> QED BY <1>1, <1>2, <1>3, <1>4, <1>5, <1>6, <1>7, <1>8, <1>9, <1>10, <1>11, <1>12,
           <1>13, <1>14, <1>15 DEF SettingsNext

------------------------------------------------------------------------------
(* Steps of the control application *)

\* Steps that do not read keep the lists or clear them, and leave the load, end it, or
\* begin one.
ListsKept ==
  \/ lists' = lists /\ listsAsOf' = listsAsOf
  \/ lists' = [s \in Section |-> Empty] /\ listsAsOf' = Never
LoadKept ==
  \E k \in {"open", "reload", "save", "delete"} :
    refreshing' \in {refreshing, NoLoad, Begin(k, commits')}

\* A step of the control application that leaves lists and load alone keeps its invariant.
LEMMA ControlQuiet ==
  ASSUME StoreInv, StoreMoves, ControlPart, ListsKept, LoadKept
  PROVE  ControlPart'
<1>0. PICK k \in {"open", "reload", "save", "delete"} :
         refreshing' \in {refreshing, NoLoad, Begin(k, commits')}
  BY DEF LoadKept
<1>1. StoreInv' /\ commits' \in Nat
  BY TablesAssumption DEF StoreMoves, StoreInv
<1>2. LoadInv(refreshing)'
  <2>1. CASE refreshing' = refreshing
    <3>1. LoadInv(refreshing)
      BY DEF ControlPart
    <3> QED BY <2>1, <3>1, LoadStable DEF LoadInv
  <2>2. CASE refreshing' \in {NoLoad, Begin(k, commits')}
    BY <1>1, <2>2, BeginKeeps DEF LoadInv
  <2> QED BY <1>0, <2>1, <2>2
<1>3. ListsInv(lists, listsAsOf)'
  <2>1. CASE lists' = lists /\ listsAsOf' = listsAsOf
    <3>1. ListsInv(lists, listsAsOf)
      BY DEF ControlPart
    <3> QED BY <2>1, <3>1, ListsStable DEF ListsInv
  <2>2. CASE lists' = [s \in Section |-> Empty] /\ listsAsOf' = Never
    <3>1. Never # commits'
      BY <1>1, TablesAssumption DEF Never, StoreInv
    <3>2. NoRowZero([u \in Section |-> Empty])
      BY DEF Empty, NoRowZero
    <3> QED BY <2>2, <3>1, <3>2 DEF ListsInv
  <2> QED BY <2>1, <2>2 DEF ListsKept
<1> QED BY <1>2, <1>3 DEF ControlPart

\* A save from a form is one of the statements.
LEMMA SaveFormMoves ==
  ASSUME StoreInv, SaveForm
  PROVE  StoreMoves
<1>1. database_section \in Section
  BY DEF SaveForm, Shown
<1>2. CASE Numbered(database_section)
  BY <1>1, <1>2, UpsertMoves DEF SaveForm
<1>3. CASE ~ Numbered(database_section)
  BY <1>1, <1>3, InsertMoves, UpdateMoves DEF SaveForm, Numbered
<1> QED BY <1>2, <1>3

\* So does the step of a load, which takes the lists over when it is the last.
LEMMA ReadListKeeps ==
  ASSUME StoreInv, ControlPart, ReadList
  PROVE  ControlPart' /\ StoreMoves
<1>1. PICK load : load = Read(refreshing)
  OBVIOUS
<1>2. /\ UNCHANGED store /\ UNCHANGED <<tables, commits>> /\ LoadInv(refreshing)
  BY DEF ReadList, ControlPart, store
<1>3. StoreMoves /\ StoreInv'
  BY <1>2, Quiet DEF StoreMoves
<1>4. /\ ~ Complete(load) => LoadInv(load)'
      /\ Complete(load) => ListsInv(load.got, load.at)'
  <2>1. PICK now : now = refreshing
    OBVIOUS
  <2>2. /\ load = [then |-> now.then, got |-> load.got, at |-> now.at]
        /\ ~ Complete(load) => LoadInv(load)'
        /\ Complete(load) => ListsInv(load.got, now.at)'
    BY <1>1, <1>2, <2>1, ReadKeeps
  <2>3. load.at = now.at
    BY <2>2
  <2> QED BY <2>1, <2>2, <2>3
<1>5. CASE ~ Complete(load)
  <2>1. refreshing' = load /\ UNCHANGED <<lists, listsAsOf>>
    BY <1>1, <1>5 DEF ReadList
  <2>2. LoadInv(refreshing)'
    BY <1>4, <1>5, <2>1 DEF LoadInv
  <2>3. ListsInv(lists, listsAsOf)'
    BY <1>2, <2>1 DEF ControlPart, ListsInv
  <2> QED BY <1>3, <2>2, <2>3 DEF ControlPart
<1>6. CASE Complete(load)
  <2>1. refreshing' = NoLoad /\ lists' = load.got /\ listsAsOf' = load.at
    BY <1>1, <1>6 DEF ReadList
  <2>2. LoadInv(refreshing)'
    BY <1>3, <2>1, BeginKeeps DEF LoadInv
  <2>3. ListsInv(lists, listsAsOf)'
    BY <1>4, <1>6, <2>1 DEF ListsInv
  <2> QED BY <1>3, <2>2, <2>3 DEF ControlPart
<1> QED BY <1>5, <1>6

\* Every step of the control application keeps its invariant.
LEMMA ControlStep ==
  ASSUME StoreInv, ControlPart, ControlNext
  PROVE  ControlPart' /\ StoreMoves
<1>1. CASE OpenDatabase
  <2>1. StoreMoves
    <3>1. UNCHANGED store
      BY <1>1 DEF OpenDatabase
    <3> QED BY <3>1, Quiet
  <2>2. ListsKept /\ LoadKept
    BY <1>1 DEF OpenDatabase, ListsKept, LoadKept, store
  <2> QED BY <2>1, <2>2, ControlQuiet
<1>2. CASE CloseDatabase
  <2>1. StoreMoves
    <3>1. UNCHANGED store
      BY <1>2 DEF CloseDatabase
    <3> QED BY <3>1, Quiet
  <2>2. ListsKept /\ LoadKept
    BY <1>2 DEF CloseDatabase, ListsKept, LoadKept
  <2> QED BY <2>1, <2>2, ControlQuiet
<1>3. CASE Refresh
  <2>1. StoreMoves
    <3>1. UNCHANGED store
      BY <1>3 DEF Refresh
    <3> QED BY <3>1, Quiet
  <2>2. ListsKept /\ LoadKept
    BY <1>3 DEF Refresh, ListsKept, LoadKept, store
  <2> QED BY <2>1, <2>2, ControlQuiet
<1>4. CASE \E s \in Section \cup {"events"} : SelectSection(s)
  <2>1. StoreMoves
    <3>1. UNCHANGED store
      BY <1>4 DEF SelectSection
    <3> QED BY <3>1, Quiet
  <2>2. ListsKept /\ LoadKept
    BY <1>4 DEF SelectSection, ListsKept, LoadKept
  <2> QED BY <2>1, <2>2, ControlQuiet
<1>5. CASE StartForm
  <2>1. StoreMoves
    <3>1. UNCHANGED store
      BY <1>5 DEF StartForm
    <3> QED BY <3>1, Quiet
  <2>2. ListsKept /\ LoadKept
    BY <1>5 DEF StartForm, ListsKept, LoadKept
  <2> QED BY <2>1, <2>2, ControlQuiet
<1>6. CASE \E n \in 0..MaxNumber : SelectRow(n)
  <2>1. StoreMoves
    <3>1. UNCHANGED store
      BY <1>6 DEF SelectRow
    <3> QED BY <3>1, Quiet
  <2>2. ListsKept /\ LoadKept
    BY <1>6 DEF SelectRow, ListsKept, LoadKept
  <2> QED BY <2>1, <2>2, ControlQuiet
<1>7. CASE TypeContent
  <2>1. StoreMoves
    <3>1. UNCHANGED store
      BY <1>7 DEF TypeContent
    <3> QED BY <3>1, Quiet
  <2>2. ListsKept /\ LoadKept
    BY <1>7 DEF TypeContent, ListsKept, LoadKept
  <2> QED BY <2>1, <2>2, ControlQuiet
<1>8. CASE TypeNumber
  <2>1. StoreMoves
    <3>1. UNCHANGED store
      BY <1>8 DEF TypeNumber
    <3> QED BY <3>1, Quiet
  <2>2. ListsKept /\ LoadKept
    BY <1>8 DEF TypeNumber, ListsKept, LoadKept
  <2> QED BY <2>1, <2>2, ControlQuiet
<1>9. CASE SaveForm
  <2>1. StoreMoves
    BY <1>9, SaveFormMoves
  <2>2. ListsKept /\ LoadKept
    BY <1>9 DEF SaveForm, ListsKept, LoadKept
  <2> QED BY <2>1, <2>2, ControlQuiet
<1>10. CASE DeleteSelected
  <2>1. StoreMoves
    BY <1>10, RemoveMoves DEF DeleteSelected, Shown
  <2>2. ListsKept /\ LoadKept
    BY <1>10 DEF DeleteSelected, ListsKept, LoadKept
  <2> QED BY <2>1, <2>2, ControlQuiet
<1>11. CASE ReadList
  BY <1>11, ReadListKeeps
<1>12. CASE RefreshFails
  <2>1. StoreMoves
    <3>1. UNCHANGED store
      BY <1>12 DEF RefreshFails
    <3> QED BY <3>1, Quiet
  <2>2. ListsKept /\ LoadKept
    BY <1>12 DEF RefreshFails, ListsKept, LoadKept
  <2> QED BY <2>1, <2>2, ControlQuiet
<1> QED BY <1>1, <1>2, <1>3, <1>4, <1>5, <1>6, <1>7, <1>8, <1>9, <1>10, <1>11, <1>12
        DEF ControlNext

------------------------------------------------------------------------------
(* Both on one database *)

LEMMA InitEstablishes == Init => EditorInv
<1> SUFFICES ASSUME Init PROVE EditorInv
  OBVIOUS
<1>1. StoreInv
  <2>1. tables \in Start /\ commits = 0
    BY DEF Init, StoreInit
  <2>2. tables = [s \in Section |-> tables[s]] /\ NoRowZero(tables)
    BY <2>1, TablesAssumption DEF NoRowZero
  <2>3. lastRow \in Nat
    <3>1. lastRow \in DestinationRows \cup {0}
      BY DEF Init, StoreInit
    <3>2. DestinationRows \subseteq Nat
      BY <2>1, TablesAssumption DEF DestinationRows
    <3> QED BY <3>1, <3>2
  <2> QED BY <2>1, <2>2, <2>3, TablesAssumption DEF StoreInv
<1>2. LoadInv(NoLoad) /\ NoLoad.then = "none"
  <2>1. DOMAIN [s \in {} |-> Empty] = {} /\ Section # {}
    BY TablesAssumption
  <2>2. commits \in Nat
    BY <1>1, TablesAssumption DEF StoreInv
  <2> DEFINE none == [s \in {} |-> Empty]
  <2>3. NoLoad = [then |-> "none", got |-> none, at |-> 0]
    BY Zenon DEF NoLoad, Begin
  <2>4. DOMAIN none = {}
    BY <2>1
  <2> HIDE DEF none
  <2> QED BY <2>1, <2>2, <2>3, <2>4 DEF LoadInv, NoRowZero
<1>3. ListsInv([s \in Section |-> Empty], Never)
  <2>1. Never # commits
    BY <1>1, TablesAssumption DEF Never, StoreInv
  <2>2. NoRowZero([u \in Section |-> Empty])
    BY DEF Empty, NoRowZero
  <2> QED BY <2>1, <2>2 DEF ListsInv
<1>4. SettingsPart
  <2>1. /\ section = "families" /\ loading = NoLoad /\ data = [s \in Section |-> Empty]
        /\ asOf = Never
    BY DEF Init, SettingsInit, EmptyData
  <2>2. DraftInv /\ OriginalInv /\ DialogInv
    BY <1>2 DEF Init, SettingsInit, DraftInv, OriginalInv, DialogInv, IntentOK, IsDraft,
                NoDialog, Simple, Intent, NoDraft, Draft
  <2> QED BY <1>2, <1>3, <2>1, <2>2, TablesAssumption DEF SettingsPart
<1>5. ControlPart
  BY <1>2, <1>3 DEF Init, ControlInit, ControlPart
<1> QED BY <1>1, <1>4, <1>5 DEF EditorInv

\* Every step of either application, or of another writer, keeps EditorInv.
LEMMA StepPreserves == EditorInv /\ [Next]_vars => EditorInv'
<1> SUFFICES ASSUME EditorInv, [Next]_vars PROVE EditorInv'
  OBVIOUS
<1>1. StoreInv /\ SettingsPart /\ ControlPart
  BY DEF EditorInv
<1>2. CASE OtherWriter /\ UNCHANGED <<settings, control>>
  <2>1. StoreMoves /\ UNCHANGED settings /\ UNCHANGED control
    BY <1>1, <1>2, OtherWriterMoves
  <2> QED BY <1>1, <2>1, SettingsStable, ControlStable DEF EditorInv, StoreMoves
<1>3. CASE SettingsNext /\ UNCHANGED control
  <2>1. StoreMoves /\ SettingsPart'
    BY <1>1, <1>3, SettingsStep
  <2> QED BY <1>1, <1>3, <2>1, ControlStable DEF EditorInv, StoreMoves
<1>4. CASE ControlNext /\ UNCHANGED settings
  <2>1. StoreMoves /\ ControlPart'
    BY <1>1, <1>4, ControlStep
  <2> QED BY <1>1, <1>4, <2>1, SettingsStable DEF EditorInv, StoreMoves
<1>5. CASE UNCHANGED vars
  <2>1. UNCHANGED store /\ UNCHANGED settings /\ UNCHANGED control
    BY <1>5 DEF vars
  <2>2. StoreMoves
    BY <1>1, <2>1, Quiet
  <2> QED BY <1>1, <2>1, <2>2, SettingsStable, ControlStable DEF EditorInv, StoreMoves
<1> QED BY <1>2, <1>3, <1>4, <1>5 DEF Next

\* The invariant of both applications on one database, whatever others write.
THEOREM EditorInvariant == Spec => []EditorInv
<1>1. Init => EditorInv
  BY InitEstablishes
<1>2. EditorInv /\ [Next]_vars => EditorInv'
  BY StepPreserves
<1> QED BY <1>1, <1>2, PTL DEF Spec

\* What both applications show is the tables as they were at one moment, unless somebody
\* has changed them since the load began.
THEOREM ListsOfOneMomentCorrect == Spec => []ListsOfOneMoment
<1>1. EditorInv => ListsOfOneMoment
  BY DEF EditorInv, SettingsPart, ControlPart, ListsInv, ListsOfOneMoment
<1> QED BY <1>1, EditorInvariant, PTL

\* A save of the settings application that nobody interfered with replaces only the row
\* that its editor had shown.
THEOREM SaveReplacesWhatWasShownCorrect == Spec => SaveReplacesWhatWasShown
<1> DEFINE Shows == Save /\ asOf = commits /\ draft.number \in DOMAIN tables[draft.section] =>
                      /\ ~unsaved
                      /\ tables[draft.section][draft.number] = original.content
<1>1. EditorInv => Shows
  <2> SUFFICES ASSUME EditorInv, Save, asOf = commits,
                      draft.number \in DOMAIN tables[draft.section]
               PROVE  ~unsaved /\ tables[draft.section][draft.number] = original.content
    OBVIOUS
  <2>1. data = tables /\ draft # NoDraft /\ original # NoDraft
        /\ original.section = draft.section
    BY DEF EditorInv, SettingsPart, ListsInv, Save, DraftInv
  <2>2. ~ unsaved
    BY <2>1 DEF EditorInv, SettingsPart, DraftInv, Save, Valid
  <2>3. draft.number = original.number
    BY <2>2 DEF EditorInv, SettingsPart, DraftInv
  <2>4. AsIn(data)
    BY <2>1, <2>2 DEF EditorInv, SettingsPart, OriginalInv
  <2> QED BY <2>1, <2>2, <2>3, <2>4 DEF AsIn
<1>2. EditorInv => [Shows]_vars
  BY <1>1
<1> QED BY <1>2, EditorInvariant, PTL DEF SaveReplacesWhatWasShown

\* ... and a record is added once.
THEOREM OneRowPerNewRecordCorrect == Spec => OneRowPerNewRecord
<1> DEFINE Adds == Save /\ asOf = commits /\ ~unsaved =>
                     DOMAIN tables'[draft.section] = DOMAIN tables[draft.section]
<1>1. EditorInv => Adds
  <2> SUFFICES ASSUME EditorInv, Save, asOf = commits, ~unsaved
               PROVE  DOMAIN tables'[draft.section] = DOMAIN tables[draft.section]
    OBVIOUS
  <2>1. /\ data = tables /\ original # NoDraft /\ original.section = draft.section
        /\ draft.number = original.number
    BY DEF EditorInv, SettingsPart, ListsInv, Save, DraftInv
  <2>2. AsIn(data) /\ (Numbered(draft.section) \/ draft.number # 0)
    BY <2>1 DEF EditorInv, SettingsPart, OriginalInv
  <2>3. DOMAIN tables'[draft.section] =
          IF Numbered(draft.section) THEN DOMAIN tables[draft.section] \cup {draft.number}
          ELSE DOMAIN tables[draft.section]
    BY <2>2, SaveFacts DEF EditorInv
  <2>4. Numbered(draft.section) => draft.number \in DOMAIN tables[draft.section]
    BY <2>1, <2>2 DEF AsIn
  <2> QED BY <2>3, <2>4
<1>2. EditorInv => [Adds]_vars
  BY <1>1
<1> QED BY <1>2, EditorInvariant, PTL DEF OneRowPerNewRecord

\* Typed edits go away only by a save or by consent: a load that takes the editor's record
\* away, other than after a deletion, is begun only without edits.
THEOREM EditsLostOnlyByConsentCorrect == Spec => EditsLostOnlyByConsent
<1> DEFINE Consent == draft # original /\ draft' # draft =>
                        TypeDraft \/ Save \/ AcceptDiscard \/ loading.then = "delete"
<1>1. EditorInv /\ [Next]_vars => Consent
  <2> SUFFICES ASSUME EditorInv, [Next]_vars, draft # original, draft' # draft
               PROVE  TypeDraft \/ Save \/ AcceptDiscard \/ loading.then = "delete"
    OBVIOUS
  <2>1. dirty
    BY DEF dirty
  <2>2. ~ (OtherWriter /\ UNCHANGED <<settings, control>>) /\ ~ UNCHANGED settings
    BY DEF settings
  <2>3. SettingsNext
    BY <2>2, Zenon DEF Next, vars
  <2>4. \A i : ~ RequestIntent(i)
    BY <2>1 DEF RequestIntent
  <2>5. ~ AskOpen /\ ~ AskReload /\ ~ AskNew /\ ~ Revert
    BY <2>4 DEF AskOpen, AskReload, AskNew, Revert
  <2>6. \A s : ~ Navigate(s) /\ ~ Select(s)
    BY <2>4 DEF Navigate, Select
  <2>7. ~ CloseWindow /\ ~ AskDelete /\ ~ Back /\ ~ LoadFails
    BY DEF CloseWindow, AskDelete, Back, LoadFails
  <2>8. ~ AcceptDelete
    BY DEF AcceptDelete
  <2>9. ASSUME ReadTable PROVE loading.then = "delete"
    <3>1. PICK load : load = Read(loading)
      OBVIOUS
    <3>2. loading.then # "save" /\ loading.then # "none"
      <4>1. load.then = loading.then
        BY <3>1 DEF Read, EditorInv, SettingsPart, LoadInv
      <4> QED BY <2>9, <3>1, <4>1 DEF ReadTable
    <3>3. loading.then \notin {"open", "reload"}
      BY DEF EditorInv, SettingsPart, DraftInv
    <3> QED BY <3>2, <3>3 DEF EditorInv, SettingsPart, LoadInv
  <2> QED BY <2>3, <2>5, <2>6, <2>7, <2>8, <2>9 DEF SettingsNext
<1>2. EditorInv /\ [Next]_vars => [Consent]_vars
  BY <1>1
<1> QED BY <1>2, EditorInvariant, PTL DEF EditsLostOnlyByConsent, Spec

\* The forms are forms.
FormInv == form = [s \in Section |-> [number |-> form[s].number, content |-> form[s].content]]

\* Every step keeps the forms forms.
LEMMA FormInvariant == Spec => []FormInv
<1>1. Init => FormInv
  BY DEF Init, ControlInit, NewForm, FormInv
<1>2. FormInv /\ [Next]_vars => FormInv'
  <2> SUFFICES ASSUME FormInv, [Next]_vars PROVE FormInv'
    OBVIOUS
  <2>1. CASE UNCHANGED form
    BY <2>1 DEF FormInv
  <2>a. ASSUME NEW s \in Section, NEW n, NEW c,
               form' = [form EXCEPT ![s] = [number |-> n, content |-> c]]
        PROVE  FormInv'
    BY <2>a DEF FormInv
  <2>2. CASE StartForm
    <3>1. /\ database_section \in Section
          /\ form' = [form EXCEPT ![database_section] =
                        [number |-> Drawn(database_section, 0), content |-> Blank]]
      BY <2>2 DEF StartForm, Shown, NewForm
    <3> QED BY <2>a, <3>1
  <2>3. CASE \E n \in 0..MaxNumber : SelectRow(n)
    <3>1. PICK n \in 0..MaxNumber : SelectRow(n)
      BY <2>3
    <3>2. /\ database_section \in Section
          /\ form' = [form EXCEPT ![database_section] =
                        [number |-> Drawn(database_section, n),
                         content |-> lists[database_section][n]]]
      BY <3>1 DEF SelectRow, Shown
    <3> QED BY <2>a, <3>2
  <2>4. CASE TypeContent
    BY <2>4 DEF TypeContent, Shown, FormInv
  <2>5. CASE TypeNumber
    <3>1. PICK n \in 0..MaxNumber :
            form' = [form EXCEPT ![database_section].number = Drawn(database_section, n)]
      BY <2>5 DEF TypeNumber
    <3>2. database_section \in Section
      BY <2>5 DEF TypeNumber, Shown
    <3>3. PICK k : k = Drawn(database_section, n)
      OBVIOUS
    <3> QED BY <3>1, <3>2, <3>3 DEF FormInv
  <2>6. CASE DeleteSelected
    BY <2>6, <2>a DEF DeleteSelected, Shown, NewForm
  <2>7. CASE \/ OpenDatabase \/ CloseDatabase \/ Refresh \/ SaveForm \/ ReadList \/ RefreshFails
             \/ \E s \in Section \cup {"events"} : SelectSection(s)
    BY <2>1, <2>7
    DEF OpenDatabase, CloseDatabase, Refresh, SaveForm, ReadList, RefreshFails, SelectSection
  <2>8. UNCHANGED control => UNCHANGED form
    BY DEF control
  <2>9. ControlNext \/ UNCHANGED control
    BY Zenon DEF Next, vars
  <2> QED BY <2>1, <2>2, <2>3, <2>4, <2>5, <2>6, <2>7, <2>8, <2>9 DEF ControlNext
<1> QED BY <1>1, <1>2, PTL DEF Spec

-------------------------------------------------------------------------------
(* Types, foreign keys and deletions *)

\* The rows are numbered and filled in, and refer to families that are there.
RowsInv ==
  /\ TablesOK(tables) /\ lastRow \in 0..MaxNumber
  /\ \A s \in Section :
       /\ tables[s] = [n \in DOMAIN tables[s] |-> tables[s][n]]
       /\ \A n \in DOMAIN tables[s] : Refers(tables[s][n], DOMAIN tables["families"])

\* A statement writes one row, deletes one with what refers to it, or changes nothing.
Writes(s, n, c) ==
  /\ s \in Section /\ n \in RowNumber(s) /\ c \in Content(s)
  /\ Refers(c, DOMAIN tables["families"]) /\ tables' = Put(tables, s, n, c)
Deletes(s, n) == s \in Section /\ Droppable(tables, s, n) /\ tables' = Drop(tables, s, n)
RowStep ==
  /\ \/ tables' = tables
     \/ \E s, n, c : Writes(s, n, c)
     \/ \E s, n : Deletes(s, n)
  /\ lastRow' \in 0..MaxNumber

\* Every statement of either application or of another process is of that form.
LEMMA StatementIsRowStep ==
  ASSUME StoreInv, RowsInv, NEW s \in Section
  PROVE  /\ \A n, c : Upsert(s, n, c) => RowStep
         /\ \A n : Remove(s, n) => RowStep
         /\ s = "destinations" => \A c : InsertDestination(c) => RowStep
         /\ s = "destinations" => \A n, c : UpdateDestination(n, c) => RowStep
<1> USE TablesAssumption
<1>1. ASSUME NEW n, NEW c, Upsert(s, n, c) PROVE RowStep
  BY <1>1 DEF Upsert, Commit, Writes, RowStep, RowsInv
<1>2. ASSUME NEW n, Remove(s, n) PROVE RowStep
  BY <1>2 DEF Remove, Commit, Deletes, RowStep, RowsInv
<1>3. /\ Content("destinations") = RowNumber("families")
      /\ DOMAIN tables["families"] \subseteq RowNumber("families")
  BY DEF Content, RowsInv, TablesOK
<1>4. ASSUME s = "destinations", NEW c, InsertDestination(c) PROVE RowStep
  <2>1. lastRow + 1 \in Number /\ lastRow' = lastRow + 1
    BY <1>4 DEF InsertDestination, RowsInv, Number
  <2>2. Writes(s, lastRow + 1, c)
    BY <1>3, <1>4, <2>1, ZeroIsNoNumber DEF InsertDestination, Commit, Writes, Refers
  <2> QED BY <2>1, <2>2 DEF RowStep, Number
<1>5. ASSUME s = "destinations", NEW n, NEW c, UpdateDestination(n, c) PROVE RowStep
  <2>1. CASE n \in DOMAIN tables["destinations"]
    <3>1. n \in RowNumber(s)
      BY <1>5, <2>1 DEF RowsInv, TablesOK
    <3>2. Writes(s, n, c) /\ lastRow' = lastRow
      BY <1>3, <1>5, <2>1, <3>1 DEF UpdateDestination, Commit, Writes, Refers
    <3> QED BY <3>2 DEF RowStep, RowsInv
  <2>2. CASE n \notin DOMAIN tables["destinations"]
    BY <1>5, <2>2 DEF UpdateDestination, RowStep, RowsInv
  <2> QED BY <2>1, <2>2
<1> QED BY <1>1, <1>2, <1>4, <1>5

\* ... and keeps the rows in order.
LEMMA RowStepKeeps ==
  ASSUME StoreInv, RowsInv, RowStep
  PROVE  RowsInv'
<1> USE TablesAssumption
<1>1. CASE tables' = tables
  BY <1>1 DEF RowStep, RowsInv, TablesOK
<1>2. ASSUME NEW s, NEW n, NEW c, Writes(s, n, c) PROVE RowsInv'
  <2>1. /\ s \in Section /\ n \in RowNumber(s) /\ c \in Content(s)
        /\ Refers(c, DOMAIN tables["families"])
    BY <1>2 DEF Writes
  <2>2. /\ DOMAIN tables'[s] = DOMAIN tables[s] \cup {n} /\ tables'[s][n] = c
        /\ \A k \in DOMAIN tables[s] \ {n} : tables'[s][k] = tables[s][k]
        /\ \A u \in Section \ {s} : tables'[u] = tables[u]
    BY <1>2, <2>1 DEF Writes, Put, StoreInv
  <2>3. TablesOK(tables')
    BY <2>1, <2>2 DEF RowsInv, TablesOK
  <2>4. DOMAIN tables["families"] \subseteq DOMAIN tables'["families"]
    BY <2>1, <2>2
  <2>5. \A u \in Section : \A k \in DOMAIN tables'[u] :
          Refers(tables'[u][k], DOMAIN tables'["families"])
    BY ZenonT(30), <2>1, <2>2, <2>4 DEF RowsInv, Refers
  <2>6. ASSUME NEW u \in Section PROVE tables'[u] = [k \in DOMAIN tables'[u] |-> tables'[u][k]]
    <3>1. CASE u = s
      BY <1>2, <2>1, <3>1 DEF Writes, Put, StoreInv
    <3>2. CASE u # s
      BY <2>2, <3>2 DEF RowsInv
    <3> QED BY <3>1, <3>2
  <2> QED BY <2>3, <2>5, <2>6 DEF RowStep, RowsInv
<1>3. ASSUME NEW s, NEW n, Deletes(s, n) PROVE RowsInv'
  <2>1. /\ s \in Section
        /\ \A u \in Section : /\ DOMAIN tables'[u] \subseteq DOMAIN tables[u]
                              /\ \A k \in DOMAIN tables'[u] : tables'[u][k] = tables[u][k]
    BY <1>3 DEF Deletes, Drop, Restrict
  <2>2. TablesOK(tables')
    BY <2>1 DEF RowsInv, TablesOK
  <2>3. ASSUME NEW u \in Section, NEW k \in DOMAIN tables'[u]
        PROVE  Refers(tables'[u][k], DOMAIN tables'["families"])
    <3>1. /\ k \in DOMAIN tables[u] /\ tables'[u][k] = tables[u][k]
          /\ Refers(tables[u][k], DOMAIN tables["families"])
          /\ tables[u][k] \in Content(u)
      BY <2>1 DEF RowsInv, TablesOK
    <3>2. CASE s # "families"
      <4>1. tables'["families"] = tables["families"]
        BY <1>3, <3>2 DEF Deletes, Drop
      <4> QED BY <3>1, <4>1
    <3>3. CASE s = "families"
      <4>1. DOMAIN tables'["families"] = DOMAIN tables["families"] \ {n}
        BY <1>3, <3>3 DEF Deletes, Drop, Restrict
      <4>2. CASE u \in {"families", "devices"}
        BY <3>1, <4>2 DEF Content, Refers, RowNumber, Number
      <4>3. CASE u = "actions"
        <5>1. tables[u][k] # n
          BY <1>3, <3>1, <3>3, <4>3 DEF Deletes, Droppable
        <5> QED BY <3>1, <4>1, <5>1 DEF Refers
      <4>4. CASE u = "destinations"
        <5>1. tables[u][k] # n
          BY <1>3, <3>3, <4>4 DEF Deletes, Drop, Restrict
        <5> QED BY <3>1, <4>1, <5>1 DEF Refers
      <4> QED BY <4>2, <4>3, <4>4
    <3> QED BY <3>2, <3>3
  <2>4. ASSUME NEW u \in Section PROVE tables'[u] = [k \in DOMAIN tables'[u] |-> tables'[u][k]]
    <3>1. tables[u] = [k \in DOMAIN tables[u] |-> tables[u][k]]
      BY DEF RowsInv
    <3>2. \/ tables'[u] = tables[u]
          \/ \E D : tables'[u] = [k \in D |-> tables[u][k]]
      BY <1>3 DEF Deletes, Drop, Restrict
    <3> QED BY <3>1, <3>2
  <2> QED BY <2>2, <2>3, <2>4 DEF RowStep, RowsInv
<1> QED BY <1>1, <1>2, <1>3 DEF RowStep

\* The tables are in order when the applications start.
LEMMA InitRows == Init => RowsInv
<1> SUFFICES ASSUME Init PROVE RowsInv
  OBVIOUS
<1>1. tables \in Start /\ lastRow \in DestinationRows \cup {0}
  BY DEF Init, StoreInit
<1>2. TablesOK(tables)
  BY <1>1, TablesAssumption, StartAssumption DEF TablesOK, RowNumber, Number
<1>3. lastRow \in 0..MaxNumber
  BY <1>1, <1>2, TablesAssumption DEF DestinationRows, TablesOK, RowNumber, Number
<1> QED BY <1>1, <1>2, <1>3, StartAssumption DEF RowsInv

\* Every step is one statement, or leaves the tables alone.
LEMMA NextIsRowStep ==
  ASSUME EditorInv, RowsInv, [Next]_vars
  PROVE  RowStep
<1>1. StoreInv /\ SettingsPart /\ ControlPart
  BY DEF EditorInv
<1>2. CASE UNCHANGED store
  BY <1>2 DEF store, RowStep, RowsInv
<1>3. CASE OtherWriter
  BY <1>1, <1>3, StatementIsRowStep DEF OtherWriter
<1>4. CASE Save
  <2>1. draft.section \in Section
    BY <1>1, <1>4, SaveFacts
  <2> QED BY <1>1, <1>4, <2>1, StatementIsRowStep DEF Save, Numbered
<1>5. CASE AcceptDelete
  <2>1. original.section \in Section
    BY <1>1, <1>5 DEF AcceptDelete, SettingsPart, DialogInv, DraftInv
  <2> QED BY <1>1, <1>2, <1>5, <2>1, StatementIsRowStep DEF AcceptDelete
<1>6. CASE SaveForm
  <2>1. database_section \in Section
    BY <1>6 DEF SaveForm, Shown
  <2> QED BY <1>1, <1>6, <2>1, StatementIsRowStep DEF SaveForm, Numbered
<1>7. CASE DeleteSelected
  BY <1>1, <1>7, StatementIsRowStep DEF DeleteSelected, Shown
<1>8. CASE SettingsNext
  <2>1. CASE Save \/ AcceptDelete
    BY <1>4, <1>5, <2>1
  <2>2. CASE ~ (Save \/ AcceptDelete)
    BY <1>2, <1>8, <2>2
    DEF SettingsNext, AskOpen, AskReload, AskNew, Navigate, Select, Revert, RequestIntent,
        CloseWindow, TypeDraft, AskDelete, Back, AcceptDiscard, ReadTable, LoadFails
  <2> QED BY <2>1, <2>2
<1>9. CASE ControlNext
  <2>1. CASE SaveForm \/ DeleteSelected
    BY <1>6, <1>7, <2>1
  <2>2. CASE ~ (SaveForm \/ DeleteSelected)
    BY <1>2, <1>9, <2>2
    DEF ControlNext, OpenDatabase, CloseDatabase, Refresh, SelectSection, StartForm, SelectRow,
        TypeContent, TypeNumber, ReadList, RefreshFails
  <2> QED BY <2>1, <2>2
<1>10. OtherWriter \/ SettingsNext \/ ControlNext \/ UNCHANGED store
  BY Zenon DEF Next, vars
<1> QED BY <1>2, <1>3, <1>8, <1>9, <1>10

\* The foreign keys hold whoever writes.
THEOREM RowsInvariant == Spec => []RowsInv
<1>1. EditorInv /\ RowsInv /\ [Next]_vars => RowsInv'
  BY NextIsRowStep, RowStepKeeps DEF EditorInv
<1> QED BY <1>1, InitRows, EditorInvariant, PTL DEF Spec

\* The deletion the user confirmed removes the row whose name the dialog shows.
THEOREM DeleteRemovesTheNamedRowCorrect == Spec => DeleteRemovesTheNamedRow
<1> DEFINE Removes == AcceptDelete /\ asOf = commits /\ tables' # tables =>
       /\ tables[original.section][original.number] = original.content
       /\ \A s \in Section : \A n \in DOMAIN tables[s] \ DOMAIN tables'[s] :
            \/ s = original.section /\ n = original.number
            \/ /\ s = "destinations" /\ original.section = "families"
               /\ tables[s][n] = original.number
<1>1. EditorInv /\ RowsInv => Removes
  <2> SUFFICES ASSUME EditorInv, RowsInv, AcceptDelete, asOf = commits, tables' # tables
               PROVE  /\ tables[original.section][original.number] = original.content
                      /\ \A s \in Section : \A n \in DOMAIN tables[s] \ DOMAIN tables'[s] :
                           \/ s = original.section /\ n = original.number
                           \/ /\ s = "destinations" /\ original.section = "families"
                              /\ tables[s][n] = original.number
    OBVIOUS
  <2>1. /\ data = tables /\ original # NoDraft /\ original.section \in Section
    BY DEF EditorInv, SettingsPart, ListsInv, AcceptDelete, DialogInv, DraftInv
  <2>2. tables' = Drop(tables, original.section, original.number)
    BY DEF AcceptDelete, Remove, Commit, store
  <2>3. ASSUME original.number \notin DOMAIN tables[original.section] PROVE FALSE
    <3>1. ASSUME NEW u \in Section PROVE tables'[u] = tables[u]
      <4>1. tables[u] = [k \in DOMAIN tables[u] |-> tables[u][k]]
        BY DEF RowsInv
      <4>2. CASE u = original.section
        <5>1. tables'[u] = [k \in DOMAIN tables[u] \ {original.number} |-> tables[u][k]]
          BY <2>2, <4>2 DEF Drop, Restrict
        <5>2. DOMAIN tables[u] \ {original.number} = DOMAIN tables[u]
          BY <2>3, <4>2
        <5> QED BY <4>1, <5>1, <5>2
      <4>3. CASE u # original.section /\ original.section = "families" /\ u = "destinations"
        <5>1. tables'[u] = [k \in {m \in DOMAIN tables[u] : tables[u][m] # original.number} |->
                              tables[u][k]]
          BY <2>2, <4>3 DEF Drop, Restrict
        <5>2. \A m \in DOMAIN tables[u] : tables[u][m] \in DOMAIN tables["families"]
          BY <4>3 DEF RowsInv, TablesOK, Content, Refers
        <5>3. {m \in DOMAIN tables[u] : tables[u][m] # original.number} = DOMAIN tables[u]
          BY <2>3, <4>3, <5>2
        <5> QED BY <4>1, <5>1, <5>3
      <4>4. CASE u # original.section /\ ~ (original.section = "families" /\ u = "destinations")
        BY <2>2, <4>4 DEF Drop
      <4> QED BY <4>2, <4>3, <4>4
    <3>2. tables' = [u \in Section |-> tables'[u]]
      BY <2>2 DEF Drop
    <3>3. tables = [u \in Section |-> tables[u]]
      BY DEF EditorInv, StoreInv
    <3> QED BY <3>1, <3>2, <3>3
  <2>4. tables[original.section][original.number] = original.content
    <3>1. ~ unsaved
      BY <2>1, <2>3 DEF EditorInv, SettingsPart, DraftInv
    <3> QED BY <2>1, <2>3, <3>1 DEF EditorInv, SettingsPart, OriginalInv, AsIn
  <2>5. ASSUME NEW s \in Section, NEW n \in DOMAIN tables[s] \ DOMAIN tables'[s]
        PROVE  \/ s = original.section /\ n = original.number
               \/ /\ s = "destinations" /\ original.section = "families"
                  /\ tables[s][n] = original.number
    BY <2>2 DEF Drop, Restrict
  <2> QED BY <2>4, <2>5
<1>2. EditorInv /\ RowsInv => [Removes]_vars
  BY <1>1
<1> QED BY <1>2, EditorInvariant, RowsInvariant, PTL DEF DeleteRemovesTheNamedRow

\* What a load has read is made of rows.
LoadOK(load) ==
  \A s \in DOMAIN load.got :
    /\ DOMAIN load.got[s] \subseteq RowNumber(s)
    /\ \A n \in DOMAIN load.got[s] : load.got[s][n] \in Content(s)

FormsOK ==
  \A s \in Section :
    form[s].number \in 0..MaxNumber /\ form[s].content \in Content(s) \cup {Blank}

TypesInv ==
  /\ LoadOK(loading) /\ LoadOK(refreshing)
  /\ TablesOK(data) /\ TablesOK(lists)
  /\ DraftOK(draft) /\ DraftOK(original)
  /\ FormsOK

\* Loads that begin or end have read nothing, and the others read rows.
LEMMA LoadsOK ==
  ASSUME EditorInv, RowsInv, TypesInv
  PROVE  /\ LoadOK(NoLoad) /\ \A k, n : LoadOK(Begin(k, n))
         /\ \A load \in {loading, refreshing} :
              LoadOK(Read(load)) /\ (Complete(Read(load)) => TablesOK(Read(load).got))
<1>1. LoadOK(NoLoad) /\ \A k, n : LoadOK(Begin(k, n))
  BY DEF LoadOK, NoLoad, Begin
<1>2. ASSUME NEW load \in {loading, refreshing} PROVE LoadOK(Read(load))
  <2>1. LoadInv(load) /\ LoadOK(load)
    BY DEF EditorInv, SettingsPart, ControlPart, TypesInv, LoadInv, LoadOK
  <2>2. NextTable(load) \in Section
    BY <2>1, NextTableIn DEF LoadInv
  <2> DEFINE got == [s \in DOMAIN load.got \cup {NextTable(load)} |->
                       IF s \in DOMAIN load.got THEN load.got[s] ELSE tables[s]]
  <2>3. Read(load).got = got
    <3>1. Read(load) = [then |-> load.then, got |-> got, at |-> load.at]
      BY <2>1 DEF LoadInv, Read
    <3> HIDE DEF got
    <3> QED BY <3>1
  <2>4. \A s \in DOMAIN got :
          DOMAIN got[s] \subseteq RowNumber(s) /\ \A n \in DOMAIN got[s] : got[s][n] \in Content(s)
    BY <2>1, <2>2 DEF LoadOK, RowsInv, TablesOK
  <2> HIDE DEF got
  <2> QED BY <2>3, <2>4 DEF LoadOK
<1>3. \A load \in {loading, refreshing} : Complete(Read(load)) => TablesOK(Read(load).got)
  BY <1>2 DEF LoadOK, Complete, TablesOK
<1> QED BY <1>1, <1>2, <1>3

\* An editor is opened with a row of the list, or with the number of no row.
LEMMA DraftsOK ==
  ASSUME EditorInv, TypesInv
  PROVE  /\ DraftOK(NoDraft)
         /\ \A d : IsDraft(d) /\ RowOfList(d) => DraftOK(d)
         /\ section \in Section /\ NumberLeft(section) => DraftOK(Fresh(section))
<1> USE TablesAssumption, ZeroIsNoNumber
<1>1. \A d : IsDraft(d) /\ RowOfList(d) => DraftOK(d)
  BY DEF RowOfList, DraftOK, TypesInv, TablesOK
<1>2. ASSUME section \in Section, NumberLeft(section) PROVE DraftOK(Fresh(section))
  <2>1. CASE section \in {"families", "actions"}
    <3>1. next_id(data[section]) \in 0..MaxNumber
      BY <1>2, <2>1, NextIdIsFree
    <3>2. Fresh(section) = Draft(section, next_id(data[section]), Blank)
      BY <2>1 DEF Fresh
    <3> QED BY <1>2, <3>1, <3>2 DEF DraftOK, Draft
  <2>2. CASE section \notin {"families", "actions"}
    BY <1>2, <2>2 DEF Fresh, DraftOK, Draft
  <2> QED BY <2>1, <2>2
<1> QED BY <1>1, <1>2 DEF DraftOK

\* perform stays within the types, whichever draft it keeps.
LEMMA PerformTypes ==
  ASSUME EditorInv, RowsInv, TypesInv, NEW i, IntentOK(i), NEW d \in {draft, original},
         Perform(i, d)
  PROVE  DraftOK(draft') /\ DraftOK(original') /\ LoadOK(loading')
<1>1. DraftOK(d) /\ DraftOK(draft) /\ DraftOK(original) /\ LoadOK(loading) /\ DraftOK(NoDraft)
  BY DraftsOK DEF TypesInv, DraftOK
<1>2. LoadOK(loading')
  <2>1. loading' = loading \/ loading' = NoLoad \/ \E k, n : loading' = Begin(k, n)
    BY DEF Perform
  <2>2. LoadOK(NoLoad) /\ \A k, n : LoadOK(Begin(k, n))
    BY LoadsOK
  <2> QED BY <1>1, <2>1, <2>2
<1>3. CASE Keep(d)
  BY <1>1, <1>2, <1>3 DEF Keep
<1>4. CASE Clear
  BY <1>1, <1>2, <1>4 DEF Clear
<1>5. CASE i.kind = "edit" /\ draft' = i.draft /\ original' = i.draft
  <2>1. DraftOK(i.draft)
    <3>1. CASE i.draft = original
      BY <1>1, <3>1 DEF DraftOK
    <3>2. CASE IsDraft(i.draft) /\ RowOfList(i.draft)
      BY <3>2, DraftsOK
    <3> QED BY <1>5, <3>1, <3>2 DEF IntentOK
  <2> QED BY <1>2, <1>5, <2>1
<1>6. CASE /\ section # "events" /\ NumberLeft(section)
           /\ draft' = Fresh(section) /\ original' = Fresh(section)
  <2>1. section \in Section
    BY <1>6 DEF EditorInv, SettingsPart
  <2>2. DraftOK(Fresh(section))
    BY <1>6, <2>1, DraftsOK
  <2> QED BY <1>2, <1>6, <2>2
<1> QED BY <1>2, <1>3, <1>4, <1>5, <1>6 DEF Perform

\* So does a request, which performs at once or asks first.
LEMMA RequestTypes ==
  ASSUME EditorInv, RowsInv, TypesInv, NEW i, IntentOK(i), RequestIntent(i)
  PROVE  DraftOK(draft') /\ DraftOK(original') /\ LoadOK(loading')
<1>1. CASE UNCHANGED <<draft, original, loading>>
  BY <1>1 DEF TypesInv, DraftOK, LoadOK
<1>2. CASE Perform(i, draft)
  BY <1>2, PerformTypes
<1> QED BY <1>1, <1>2 DEF RequestIntent

\* The settings application stays within its types,
LEMMA SettingsTypes ==
  ASSUME EditorInv, RowsInv, TypesInv, SettingsNext
  PROVE  /\ DraftOK(draft') /\ DraftOK(original') /\ LoadOK(loading') /\ TablesOK(data')
<1> USE TablesAssumption
<1>1. DraftOK(draft) /\ DraftOK(original) /\ LoadOK(loading) /\ TablesOK(data)
  BY DEF TypesInv
<1>2. LoadOK(NoLoad) /\ \A k, n : LoadOK(Begin(k, n))
  BY LoadsOK
<1>3. CASE \E i : IntentOK(i) /\ RequestIntent(i)
  <2>1. PICK i : IntentOK(i) /\ RequestIntent(i)
    BY <1>3
  <2>2. data' = data
    BY <2>1 DEF RequestIntent
  <2> QED BY <1>1, <2>1, <2>2, RequestTypes
<1>4. CASE AskOpen \/ AskReload \/ AskNew
  BY <1>3, <1>4, SimpleIntents DEF AskOpen, AskReload, AskNew
<1>5. CASE \E s \in Section \cup {"events"} : Navigate(s)
  BY <1>3, <1>5, SimpleIntents DEF Navigate
<1>6. ASSUME NEW n \in 0..MaxNumber, Select(n)
      PROVE  DraftOK(draft') /\ DraftOK(original') /\ LoadOK(loading') /\ TablesOK(data')
  <2> DEFINE d == Draft(section, n, data[section][n])
             i == Intent("edit", "none", d)
  <2>1. RequestIntent(i) /\ section \in Section /\ n \in DOMAIN data[section]
    BY <1>6 DEF Select, EditorInv, SettingsPart
  <2>2. IsDraft(d) /\ RowOfList(d)
    BY <2>1 DEF IsDraft, RowOfList, Draft
  <2>3. i.kind = "edit" /\ i.draft = d
    BY DEF Intent
  <2> HIDE DEF d, i
  <2>4. IntentOK(i)
    BY <2>2, <2>3 DEF IntentOK
  <2> QED BY <1>3, <2>1, <2>4
<1>7. CASE Revert
  <2> DEFINE i == Intent("edit", "none", original)
  <2>1. RequestIntent(i) /\ original # NoDraft /\ IsDraft(original)
    BY <1>7 DEF Revert, EditorInv, SettingsPart, DraftInv
  <2>2. i.kind = "edit" /\ i.draft = original
    BY DEF Intent
  <2> HIDE DEF i
  <2>3. IntentOK(i)
    BY <2>1, <2>2 DEF IntentOK
  <2> QED BY <1>3, <2>1, <2>3
<1>8. CASE CloseWindow \/ AskDelete \/ Back
  BY <1>1, <1>8 DEF CloseWindow, AskDelete, Back
<1>9. CASE TypeDraft
  <2>1. /\ draft.section \in Section /\ draft = Draft(draft.section, draft.number, draft.content)
        /\ UNCHANGED <<data, original, loading>>
    BY <1>9 DEF TypeDraft, EditorInv, SettingsPart, DraftInv, IsDraft, NoDraft, Draft
  <2>2. \/ \E c \in Content(draft.section) \cup {Blank} :
             draft' = Draft(draft.section, draft.number, c)
        \/ \E n \in 0..MaxNumber : draft' = Draft(draft.section, n, draft.content)
    BY <1>9, <2>1 DEF TypeDraft, Draft
  <2>3. draft.number \in 0..MaxNumber /\ draft.content \in Content(draft.section) \cup {Blank}
    <3>1. draft # NoDraft
      BY <1>9 DEF TypeDraft
    <3> QED BY <1>1, <3>1 DEF DraftOK
  <2>4. DraftOK(draft')
    BY <2>1, <2>2, <2>3 DEF DraftOK, Draft, Number
  <2> QED BY <1>1, <2>1, <2>4
<1>10. CASE Save
  <2>1. /\ draft # NoDraft /\ original' = draft' /\ UNCHANGED data
        /\ \E n : loading' = Begin("save", n)
        /\ \/ UNCHANGED draft
           \/ InsertDestination(draft.content) /\ draft' = [draft EXCEPT !.number = lastRow + 1]
    BY <1>10 DEF Save
  <2>2. DraftOK(draft')
    <3>1. CASE UNCHANGED draft
      BY <1>1, <3>1
    <3>2. CASE /\ InsertDestination(draft.content)
               /\ draft' = [draft EXCEPT !.number = lastRow + 1]
      <4>1. lastRow + 1 \in 0..MaxNumber
        BY <3>2 DEF InsertDestination, RowsInv
      <4>2. draft' = Draft(draft.section, lastRow + 1, draft.content)
        BY <3>2 DEF EditorInv, SettingsPart, DraftInv, IsDraft, Draft
      <4> QED BY <1>1, <2>1, <4>1, <4>2 DEF DraftOK, Draft
    <3> QED BY <2>1, <3>1, <3>2
  <2> QED BY <1>1, <1>2, <2>1, <2>2
<1>11. CASE AcceptDiscard
  <2>1. IntentOK(dialog) /\ Perform(dialog, original) /\ data' = data
    BY <1>11 DEF AcceptDiscard, EditorInv, SettingsPart, DialogInv
  <2> QED BY <1>1, <2>1, PerformTypes
<1>12. CASE AcceptDelete
  BY <1>1, <1>2, <1>12 DEF AcceptDelete
<1>13. CASE ReadTable
  <2>1. PICK load : load = Read(loading)
    OBVIOUS
  <2>2. LoadOK(load) /\ (Complete(load) => TablesOK(load.got)) /\ DraftOK(NoDraft)
    BY <2>1, LoadsOK, DraftsOK
  <2> QED BY <1>1, <1>2, <1>13, <2>1, <2>2 DEF ReadTable, Clear
<1>14. CASE LoadFails
  BY <1>1, <1>2, <1>14 DEF LoadFails
<1> QED BY <1>4, <1>5, <1>6, <1>7, <1>8, <1>9, <1>10, <1>11, <1>12, <1>13, <1>14
        DEF SettingsNext

\* What a number field shows is a number.
LEMMA DrawnIn ==
  0 \in 0..MaxNumber /\ \A s, n : n \in 0..MaxNumber => Drawn(s, n) \in 0..MaxNumber
<1>1. MaxNumber \in Nat \ {0}
  BY TablesAssumption
<1>2. 0 \in 0..MaxNumber /\ 1 \in 0..MaxNumber
  BY <1>1
<1> QED BY <1>2, Zenon DEF Drawn

\* ... and so does the control application.
LEMMA ControlTypes ==
  ASSUME EditorInv, RowsInv, TypesInv, FormInv, ControlNext
  PROVE  FormsOK' /\ LoadOK(refreshing') /\ TablesOK(lists')
<1> USE TablesAssumption
<1>1. FormsOK /\ LoadOK(refreshing) /\ TablesOK(lists)
  BY DEF TypesInv
<1>2. LoadOK(NoLoad) /\ \A k, n : LoadOK(Begin(k, n))
  BY LoadsOK
<1>3. CASE UNCHANGED <<form, refreshing, lists>>
  BY <1>1, <1>3 DEF FormsOK
<1>4. CASE OpenDatabase \/ Refresh \/ RefreshFails
  BY <1>1, <1>2, <1>4 DEF OpenDatabase, Refresh, RefreshFails, FormsOK
<1>5. CASE CloseDatabase
  <2>1. TablesOK([s \in Section |-> Empty])
    BY DEF TablesOK, Empty
  <2> QED BY <1>1, <1>5, <2>1 DEF CloseDatabase, FormsOK
<1>6. CASE ReadList
  <2>1. PICK load : load = Read(refreshing)
    OBVIOUS
  <2>2. LoadOK(load) /\ (Complete(load) => TablesOK(load.got))
    BY <2>1, LoadsOK
  <2> QED BY <1>1, <1>2, <1>6, <2>1, <2>2 DEF ReadList, FormsOK
<1>7. CASE SaveForm
  BY <1>1, <1>2, <1>7 DEF SaveForm, FormsOK
<1>8. CASE \E s \in Section \cup {"events"} : SelectSection(s)
  BY <1>3, <1>8 DEF SelectSection
<1>d. /\ 0 \in 0..MaxNumber
      /\ \A s \in Section : \A n \in 0..MaxNumber : Drawn(s, n) \in 0..MaxNumber
  BY DrawnIn
<1>9. CASE StartForm
  BY <1>1, <1>9, <1>d DEF StartForm, NewForm, FormsOK, FormInv, Shown
<1>10. ASSUME NEW n \in 0..MaxNumber, SelectRow(n)
       PROVE  FormsOK' /\ LoadOK(refreshing') /\ TablesOK(lists')
  <2>1. /\ database_section \in Section /\ n \in DOMAIN lists[database_section]
        /\ form' = [form EXCEPT ![database_section] =
                       [number |-> Drawn(database_section, n),
                        content |-> lists[database_section][n]]]
        /\ UNCHANGED <<lists, refreshing>>
    BY <1>10 DEF SelectRow, Shown
  <2>2. /\ Drawn(database_section, n) \in 0..MaxNumber
        /\ lists[database_section][n] \in Content(database_section)
    BY <1>1, <1>d, <2>1 DEF TablesOK
  <2> QED BY <1>1, <2>1, <2>2 DEF FormsOK, FormInv
<1>11. CASE TypeContent
  BY SMTT(30), <1>1, <1>11 DEF TypeContent, Shown, FormsOK, FormInv
<1>12. CASE TypeNumber
  BY <1>1, <1>12, <1>d DEF TypeNumber, Shown, FormsOK, FormInv
<1>13. CASE DeleteSelected
  BY <1>1, <1>2, <1>13, <1>d DEF DeleteSelected, Shown, NewForm, FormsOK, FormInv
<1> QED BY <1>4, <1>5, <1>6, <1>7, <1>8, <1>9, <1>10, <1>11, <1>12, <1>13 DEF ControlNext

\* The types hold when the applications start.
LEMMA InitTypes == Init => TypesInv
<1> SUFFICES ASSUME Init PROVE TypesInv
  OBVIOUS
<1> USE TablesAssumption
<1>1. LoadOK(loading) /\ LoadOK(refreshing)
  BY DEF Init, SettingsInit, ControlInit, NoLoad, Begin, LoadOK
<1>2. TablesOK(data) /\ TablesOK(lists)
  BY DEF Init, SettingsInit, ControlInit, EmptyData, Empty, TablesOK
<1>3. DraftOK(draft) /\ DraftOK(original)
  BY DEF Init, SettingsInit, DraftOK
<1>4. FormsOK
  BY DEF Init, ControlInit, NewForm, Drawn, FormsOK
<1> QED BY <1>1, <1>2, <1>3, <1>4 DEF TypesInv

\* Every step keeps both applications within their types.
LEMMA StepTypes ==
  ASSUME EditorInv, RowsInv, FormInv, TypesInv, [Next]_vars
  PROVE  TypesInv'
<1>1. SettingsNext \/ UNCHANGED settings
  BY Zenon DEF Next, vars
<1>2. ControlNext \/ UNCHANGED control
  BY Zenon DEF Next, vars
<1>3. DraftOK(draft') /\ DraftOK(original') /\ LoadOK(loading') /\ TablesOK(data')
  <2>1. CASE SettingsNext
    BY <2>1, SettingsTypes
  <2>2. CASE UNCHANGED settings
    <3>1. UNCHANGED <<draft, original, loading, data>>
      BY <2>2 DEF settings
    <3> QED BY <3>1 DEF TypesInv
  <2> QED BY <1>1, <2>1, <2>2
<1>4. FormsOK' /\ LoadOK(refreshing') /\ TablesOK(lists')
  <2>1. CASE ControlNext
    BY <2>1, ControlTypes
  <2>2. CASE UNCHANGED control
    <3>1. UNCHANGED <<form, refreshing, lists>>
      BY <2>2 DEF control
    <3> QED BY <3>1 DEF TypesInv, FormsOK
  <2> QED BY <1>2, <2>1, <2>2
<1> QED BY <1>3, <1>4 DEF TypesInv, DraftOK, LoadOK, TablesOK

\* Both applications and the tables stay within their types.
THEOREM EditorTypeCorrect == Spec => []EditorTypeOK
<1>1. EditorInv /\ RowsInv /\ FormInv /\ TypesInv /\ [Next]_vars => TypesInv'
  BY StepTypes
<1>2. EditorInv /\ RowsInv /\ TypesInv => EditorTypeOK
  BY DEF EditorInv, StoreInv, SettingsPart, DraftInv, RowsInv, TypesInv, FormsOK, EditorTypeOK
<1> QED BY <1>1, <1>2, InitTypes, EditorInvariant, RowsInvariant, FormInvariant, PTL DEF Spec
===============================================================================
