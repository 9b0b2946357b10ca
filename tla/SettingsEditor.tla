---------------------------- MODULE SettingsEditor ----------------------------
(***************************************************************************)
(* The settings application (apps/uchi-pulse-settings/src/main.rs): a list  *)
(* of records, one editor, and a dialog before unsaved edits or a record    *)
(* are given up.  Its GUI thread does one thing at a time; while it loads,  *)
(* others write.                                                            *)
(***************************************************************************)
EXTENDS RecordTables

VARIABLES
  db,         \* SettingsApp::db is there
  data,       \* SettingsApp::data
  section, draft, original, creating, dialog,
  closed,     \* allow_close, or a close with nothing to lose
  loading,    \* the load the GUI thread is in
  asOf,       \* history: number of changes when the load behind `data' began
  unsaved     \* history: the draft was begun with New and has never been saved

settings == <<db, data, section, draft, original, creating, dialog, closed, loading, asOf, unsaved>>

\* A draft: 0 is a device's id not given yet, a destination's missing id, or a number.
Draft(s, n, c) == [section |-> s, number |-> n, content |-> c]
NoDraft == Draft("none", 0, Blank)

Intent(kind, s, d) == [kind |-> kind, section |-> s, draft |-> d]
Simple(kind) == Intent(kind, "none", NoDraft)
NoDialog == Simple("none")

EmptyData == [s \in Section |-> Empty]

SettingsInit ==
  /\ db = FALSE /\ data = EmptyData /\ section = "families"
  /\ draft = NoDraft /\ original = NoDraft /\ creating = FALSE
  /\ dialog = NoDialog /\ closed = FALSE
  /\ loading = NoLoad /\ asOf = Never /\ unsaved = FALSE

\* mistake: only the content is compared.
dirtyContent == draft.content # original.content

dirty == draft # original
Families == DOMAIN data["families"]

\* The GUI thread handles the next click.
Ready == ~closed /\ loading.then = "none"
\* ... and no dialog is in front of the window.
Interactive == Ready /\ dialog = NoDialog

\* mistake: one more than there are rows.
next_id_count(rows) ==
  IF Cardinality(DOMAIN rows) < MaxNumber THEN Cardinality(DOMAIN rows) + 1 ELSE MaxNumber

\* next_id: the smallest number from 1 that no loaded row has.
next_id(rows) ==
  LET free == Number \ DOMAIN rows IN CHOOSE n \in free : \A k \in free : n <= k

\* Bound: there is one.
NumberLeft(s) == s \in {"families", "actions"} => Number \ DOMAIN data[s] # {}

\* new_record: families and actions are given a number, devices are not.
Fresh(s) ==
  Draft(s, IF s \in {"families", "actions"} THEN next_id(data[s]) ELSE 0, Blank)

\* mistake: nothing is looked up for a new record.
ValidAnyNumber ==
  /\ draft.content # Blank
  /\ draft.section = "devices" => draft.number # 0
  /\ Refers(draft.content, Families)

\* validation: the reason why the draft may not be saved, if there is one.
Valid ==
  /\ draft.content # Blank
  /\ draft.section = "devices" => draft.number # 0
  /\ creating /\ Numbered(draft.section) => draft.number \notin DOMAIN data[draft.section]
  /\ Refers(draft.content, Families)

------------------------------------------------------------------------------
(* perform, with the draft d it finds *)

Clear == draft' = NoDraft /\ original' = NoDraft /\ creating' = FALSE /\ unsaved' = FALSE
Keep(d) == draft' = d /\ UNCHANGED <<original, creating, unsaved>>

Perform(i, d) ==
  \/ /\ i.kind = "open"              \* the picker is cancelled, or the file opened
     /\ Keep(d)
     /\ loading' \in {NoLoad, Begin("open", commits)}
     /\ UNCHANGED <<section, closed>>
  \/ /\ i.kind = "navigate"
     /\ section' = i.section
     /\ Clear
     /\ UNCHANGED <<closed, loading>>
  \/ /\ i.kind = "edit"
     /\ draft' = i.draft /\ original' = i.draft /\ creating' = FALSE
     /\ unsaved' = (unsaved /\ i.draft = original)
     /\ UNCHANGED <<section, closed, loading>>
  \/ /\ i.kind = "new"
     /\ IF section = "events" THEN Keep(d)
        ELSE /\ NumberLeft(section)
             /\ draft' = Fresh(section) /\ original' = Fresh(section)
             /\ creating' = TRUE /\ unsaved' = TRUE
     /\ UNCHANGED <<section, closed, loading>>
  \/ /\ i.kind = "reload"
     /\ Keep(d)
     /\ loading' = IF db THEN Begin("reload", commits) ELSE NoLoad
     /\ UNCHANGED <<section, closed>>
  \/ /\ i.kind = "close"
     /\ Keep(d)
     /\ closed' = TRUE
     /\ UNCHANGED <<section, loading>>

\* request: a dialog when there is something to lose.
RequestIntent(i) ==
  /\ IF dirty
     THEN /\ dialog' = i
          /\ UNCHANGED <<section, draft, original, creating, closed, loading, unsaved>>
     ELSE Perform(i, draft) /\ UNCHANGED dialog
  /\ UNCHANGED <<store, db, data, asOf>>

------------------------------------------------------------------------------
(* The window *)

AskOpen == Interactive /\ RequestIntent(Simple("open"))
AskReload == Interactive /\ db /\ RequestIntent(Simple("reload"))
AskNew == Interactive /\ db /\ section # "events" /\ RequestIntent(Simple("new"))
Navigate(s) == Interactive /\ db /\ RequestIntent(Intent("navigate", s, NoDraft))

\* A click on a row of the list.
Select(n) ==
  /\ Interactive /\ db /\ section # "events" /\ n \in DOMAIN data[section]
  /\ RequestIntent(Intent("edit", "none", Draft(section, n, data[section][n])))

\* The button that takes the edits back.
Revert ==
  /\ Interactive /\ draft # NoDraft /\ dirty
  /\ RequestIntent(Intent("edit", "none", original))

\* logic(): the window's close button, which works behind a dialog too.
CloseWindow ==
  /\ Ready
  /\ IF dirty
     THEN /\ dialog' = IF dialog = NoDialog THEN Simple("close") ELSE dialog
          /\ UNCHANGED closed
     ELSE closed' = TRUE /\ UNCHANGED dialog
  /\ UNCHANGED <<store, db, data, section, draft, original, creating, loading, asOf, unsaved>>

\* A field of the form: the combos offer the loaded families, and the number can be
\* changed only while creating, a family's never.
TypeDraft ==
  /\ Interactive /\ draft # NoDraft
  /\ \/ \E c \in Content(draft.section) \cup {Blank} :
          /\ Refers(c, Families)
          /\ draft' = [draft EXCEPT !.content = c]
     \/ /\ creating /\ draft.section \in {"devices", "actions"}
        /\ \E n \in 0..MaxNumber : draft' = [draft EXCEPT !.number = n]
  /\ UNCHANGED <<store, db, data, section, original, creating, dialog, closed, loading, asOf, unsaved>>

\* save: the statement, the new original, and a load.
Save ==
  /\ Interactive /\ db /\ draft # NoDraft /\ Valid /\ (dirty \/ creating)
  /\ Storable(draft.section, draft.number, draft.content)
  /\ \/ /\ Numbered(draft.section)
        /\ Upsert(draft.section, draft.number, draft.content)
        /\ UNCHANGED draft
     \/ /\ ~Numbered(draft.section) /\ draft.number = 0
        /\ InsertDestination(draft.content)
        /\ draft' = [draft EXCEPT !.number = lastRow + 1]
     \/ /\ ~Numbered(draft.section) /\ draft.number # 0
        /\ UpdateDestination(draft.number, draft.content)
        /\ UNCHANGED draft
  /\ original' = draft' /\ creating' = FALSE /\ unsaved' = FALSE
  /\ loading' = Begin("save", commits')
  /\ UNCHANGED <<db, data, section, dialog, closed, asOf>>

AskDelete ==
  /\ Interactive /\ draft # NoDraft /\ ~creating
  /\ dialog' = Simple("delete")
  /\ UNCHANGED <<store, db, data, section, draft, original, creating, closed, loading, asOf, unsaved>>

------------------------------------------------------------------------------
(* dialogs *)

Back ==
  /\ Ready /\ dialog # NoDialog
  /\ dialog' = NoDialog
  /\ UNCHANGED <<store, db, data, section, draft, original, creating, closed, loading, asOf, unsaved>>

\* The edits are given up before it is known whether what follows succeeds.
AcceptDiscard ==
  /\ Ready /\ dialog.kind \notin {"none", "delete"}
  /\ dialog' = NoDialog
  /\ Perform(dialog, original)
  /\ UNCHANGED <<store, db, data, asOf>>

\* delete: by the number of the original, then perform(Reload).
AcceptDelete ==
  /\ Ready /\ dialog.kind = "delete"
  /\ dialog' = NoDialog
  /\ \/ /\ Numbered(original.section) \/ original.number # 0
        /\ Remove(original.section, original.number)
        /\ loading' = Begin("delete", commits')
     \/ UNCHANGED <<store, loading>>      \* refused
  /\ UNCHANGED <<db, data, section, draft, original, creating, closed, asOf, unsaved>>

------------------------------------------------------------------------------
(* Data::load *)

\* mistake: only the rows of the section shown are taken over.
ReadTableShown ==
  /\ loading.then # "none"
  /\ LET load == Read(loading) IN
     IF ~Complete(load)
     THEN /\ loading' = load
          /\ UNCHANGED <<db, data, draft, original, creating, asOf, unsaved>>
     ELSE /\ loading' = NoLoad
          /\ data' = IF load.then = "open" THEN load.got
                     ELSE [s \in Section |-> IF s = section THEN load.got[s] ELSE data[s]]
          /\ asOf' = load.at
          /\ IF load.then = "save" THEN UNCHANGED <<db, draft, original, creating, unsaved>>
             ELSE db' = TRUE /\ Clear
  /\ UNCHANGED <<store, section, dialog, closed>>

\* mistake: the load behind a deletion leaves the editor as it is.
ReadTableKeepsEditor ==
  /\ loading.then # "none"
  /\ LET load == Read(loading) IN
     IF ~Complete(load)
     THEN /\ loading' = load
          /\ UNCHANGED <<db, data, draft, original, creating, asOf, unsaved>>
     ELSE /\ loading' = NoLoad
          /\ data' = load.got /\ asOf' = load.at
          /\ IF load.then \in {"save", "delete"}
             THEN UNCHANGED <<db, draft, original, creating, unsaved>>
             ELSE db' = TRUE /\ Clear
  /\ UNCHANGED <<store, section, dialog, closed>>

ReadTable ==
  /\ loading.then # "none"
  /\ LET load == Read(loading) IN
     IF ~Complete(load)
     THEN /\ loading' = load
          /\ UNCHANGED <<db, data, draft, original, creating, asOf, unsaved>>
     ELSE /\ loading' = NoLoad
          /\ data' = load.got /\ asOf' = load.at
          /\ IF load.then = "save" THEN UNCHANGED <<db, draft, original, creating, unsaved>>
             ELSE db' = TRUE /\ Clear
  /\ UNCHANGED <<store, section, dialog, closed>>

\* A SELECT, or opening the file, fails: a message, and everything stays.
LoadFails ==
  /\ loading.then # "none"
  /\ loading' = NoLoad
  /\ UNCHANGED <<store, db, data, section, draft, original, creating, dialog, closed, asOf, unsaved>>

SettingsNext ==
  \/ AskOpen \/ AskReload \/ AskNew
  \/ \E s \in Section \cup {"events"} : Navigate(s)
  \/ \E n \in 0..MaxNumber : Select(n)
  \/ Revert \/ CloseWindow \/ TypeDraft \/ Save \/ AskDelete
  \/ Back \/ AcceptDiscard \/ AcceptDelete
  \/ ReadTable \/ LoadFails
==============================================================================
