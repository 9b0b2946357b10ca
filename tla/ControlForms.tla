----------------------------- MODULE ControlForms -----------------------------
(***************************************************************************)
(* The SQLite endpoint of the control application                           *)
(* (apps/uchi-pulse-control/src/main.rs): lists of all tables, a form per   *)
(* table, and buttons that act without asking.                              *)
(***************************************************************************)
EXTENDS RecordTables

VARIABLES
  database,   \* ControlApp::database is there
  lists,      \* ControlApp::devices, families, actions, notification_destinations
  database_section,
  selected,   \* selected_device, selected_family, ...: of the section shown
  form,       \* by section: device_form, family_form, ...
  refreshing, \* the refresh the GUI thread is in
  listsAsOf   \* history: number of changes when the refresh behind `lists' began

control == <<database, lists, database_section, selected, form, refreshing, listsAsOf>>

\* Of selected_device, selected_family, selected_action and
\* selected_notification_destination only that of the section shown can be Some: the
\* others cannot be set, and a change of the section clears all four.
NoRow == MaxNumber + 1

\* What a number field, whose range begins at 1, makes of the number in it when it is
\* drawn, enabled or not; a device's id is a text.
Drawn(s, n) == IF s \in {"families", "actions"} /\ n = 0 THEN 1 ELSE n

\* A new record's form once it is drawn; number 0 is an empty id, or None.
NewForm(s) == [number |-> Drawn(s, 0), content |-> Blank]

ControlInit ==
  /\ database = FALSE /\ lists = [s \in Section |-> Empty]
  /\ database_section = "devices" /\ selected = NoRow
  /\ form = [s \in Section |-> NewForm(s)]
  /\ refreshing = NoLoad /\ listsAsOf = Never

Free == refreshing.then = "none"
\* Bound: the forms the user fills in.
OthersNew == \A s \in Section \ {database_section} : form[s] = NewForm(s)
\* The forms are shown while a database is open.
Shown == Free /\ database /\ database_section \in Section
Current == form[database_section]

\* open_database keeps selection, forms and, until the refresh succeeds, the lists.
OpenDatabase ==
  /\ Free
  /\ database' = TRUE
  /\ refreshing' = Begin("open", commits)
  /\ UNCHANGED <<store, lists, database_section, selected, form, listsAsOf>>

\* close_database clears the lists, and neither selection nor forms.
CloseDatabase ==
  /\ Free /\ database
  /\ database' = FALSE /\ lists' = [s \in Section |-> Empty] /\ listsAsOf' = Never
  /\ UNCHANGED <<store, database_section, selected, form, refreshing>>

Refresh ==
  /\ Free /\ database
  /\ refreshing' = Begin("reload", commits)
  /\ UNCHANGED <<store, database, lists, database_section, selected, form, listsAsOf>>

\* Works without a database too.
SelectSection(s) ==
  /\ Free /\ s # database_section
  /\ database_section' = s /\ selected' = NoRow
  /\ UNCHANGED <<store, database, lists, form, refreshing, listsAsOf>>

\* The button for a new record: new_device, new_family, ...
StartForm ==
  /\ Shown
  /\ selected' = NoRow
  /\ form' = [form EXCEPT ![database_section] = NewForm(database_section)]
  /\ UNCHANGED <<store, database, lists, database_section, refreshing, listsAsOf>>

\* A click on a row of the list: what the form held is gone.  Of row 0 the form shows
\* number 1, so that the save and the delete button act on different rows.
SelectRow(n) ==
  /\ Shown /\ n \in DOMAIN lists[database_section] /\ OthersNew
  /\ selected' = n
  /\ form' = [form EXCEPT ![database_section] =
                [number |-> Drawn(database_section, n), content |-> lists[database_section][n]]]
  /\ UNCHANGED <<store, database, lists, database_section, refreshing, listsAsOf>>

\* A field of the form other than the number; the combos offer the listed families.
TypeContent ==
  /\ Shown /\ OthersNew
  /\ \E c \in Content(database_section) \cup {Blank} :
       /\ Refers(c, DOMAIN lists["families"])
       /\ form' = [form EXCEPT ![database_section].content = c]
  /\ UNCHANGED <<store, database, lists, database_section, selected, refreshing, listsAsOf>>

\* The number can be changed while nothing is selected; a destination shows none.
TypeNumber ==
  /\ Shown /\ OthersNew
  /\ selected = NoRow /\ Numbered(database_section)
  /\ \E n \in 0..MaxNumber :
       form' = [form EXCEPT ![database_section].number = Drawn(database_section, n)]
  /\ UNCHANGED <<store, database, lists, database_section, selected, refreshing, listsAsOf>>

\* save_device, save_family, ...: no look at the lists; a new destination's form does not
\* learn its number.
SaveForm ==
  /\ Shown
  /\ Current.content # Blank /\ Storable(database_section, Current.number, Current.content)
  /\ IF Numbered(database_section)
     THEN Upsert(database_section, Current.number, Current.content)
     ELSE \/ Current.number = 0 /\ InsertDestination(Current.content)
          \/ Current.number # 0 /\ UpdateDestination(Current.number, Current.content)
  /\ selected' = IF Numbered(database_section) \/ Current.number # 0
                 THEN Current.number ELSE NoRow
  /\ refreshing' = Begin("save", commits')
  /\ UNCHANGED <<database, lists, database_section, form, listsAsOf>>

\* delete_selected_device, ...: at once, by the selected number.
DeleteSelected ==
  /\ Shown /\ selected # NoRow
  /\ Remove(database_section, selected)
  /\ selected' = NoRow
  /\ form' = [form EXCEPT ![database_section] = NewForm(database_section)]
  /\ refreshing' = Begin("delete", commits')
  /\ UNCHANGED <<database, lists, database_section, listsAsOf>>

\* refresh_database_data
ReadList ==
  /\ ~Free
  /\ LET load == Read(refreshing) IN
     IF ~Complete(load) THEN refreshing' = load /\ UNCHANGED <<lists, listsAsOf>>
     ELSE refreshing' = NoLoad /\ lists' = load.got /\ listsAsOf' = load.at
  /\ UNCHANGED <<store, database, database_section, selected, form>>

\* One of the SELECTs fails: all lists stay.
RefreshFails ==
  /\ ~Free
  /\ refreshing' = NoLoad
  /\ UNCHANGED <<store, database, lists, database_section, selected, form, listsAsOf>>

ControlNext ==
  \/ OpenDatabase \/ CloseDatabase \/ Refresh
  \/ \E s \in Section \cup {"events"} : SelectSection(s)
  \/ StartForm
  \/ \E n \in 0..MaxNumber : SelectRow(n)
  \/ TypeContent \/ TypeNumber \/ SaveForm \/ DeleteSelected
  \/ ReadList \/ RefreshFails
==============================================================================
