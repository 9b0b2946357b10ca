-------------------------------- MODULE Editors --------------------------------
(***************************************************************************)
(* The two desktop applications on one database, among other writers.       *)
(***************************************************************************)
EXTENDS SettingsEditor, ControlForms

CONSTANT MaxApps   \* bound on how many of the two applications are used

vars == <<store, settings, control>>

Init == StoreInit /\ SettingsInit /\ ControlInit

SettingsUsed == db \/ closed \/ loading.then # "none"
ControlUsed == database \/ refreshing.then # "none" \/ form # [s \in Section |-> NewForm(s)]

Next ==
  \/ OtherWriter /\ UNCHANGED <<settings, control>>
  \/ /\ ControlUsed => MaxApps = 2
     /\ SettingsNext /\ UNCHANGED control
  \/ /\ SettingsUsed => MaxApps = 2
     /\ ControlNext /\ UNCHANGED settings

Spec == Init /\ [][Next]_vars
------------------------------------------------------------------------------
DraftOK(d) ==
  d = NoDraft \/ /\ d.section \in Section /\ d.number \in 0..MaxNumber
                 /\ d.content \in Content(d.section) \cup {Blank}
TablesOK(t) ==
  \A s \in Section : /\ DOMAIN t[s] \subseteq RowNumber(s)
                     /\ \A n \in DOMAIN t[s] : t[s][n] \in Content(s)

\* Both applications and the tables stay within their types.
EditorTypeOK ==
  /\ TablesOK(tables) /\ TablesOK(data) /\ TablesOK(lists)
  /\ lastRow \in 0..MaxNumber /\ commits \in 0..MaxCommit
  /\ section \in Section \cup {"events"} /\ DraftOK(draft) /\ DraftOK(original)
  /\ (draft = NoDraft) = (original = NoDraft)
  /\ creating => unsaved
  /\ \A s \in Section : form[s].number \in 0..MaxNumber /\ form[s].content \in Content(s) \cup {Blank}

\* While nobody has changed anything since the last successful load began, the lists on
\* the screen are the tables, although they were read one by one.
ListsOfOneMoment ==
  /\ asOf = commits => data = tables
  /\ listsAsOf = commits => lists = tables

\* What is typed into the editor of the settings application goes away only when it is
\* saved, or after its user accepted that in a dialog.
EditsLostOnlyByConsent ==
  [][draft # original /\ draft' # draft =>
       TypeDraft \/ Save \/ AcceptDiscard \/ loading.then = "delete"]_vars

\* A save of the settings application that nobody interfered with replaces a row only
\* if the editor had shown that row with the content it still has: a new record never
\* overwrites an old one, an edit never undoes another.
SaveReplacesWhatWasShown ==
  [][Save /\ asOf = commits /\ draft.number \in DOMAIN tables[draft.section] =>
       /\ ~unsaved
       /\ tables[draft.section][draft.number] = original.content]_vars

\* ... and it adds a row only for a record begun with the button, once.
OneRowPerNewRecord ==
  [][Save /\ asOf = commits /\ ~unsaved =>
       DOMAIN tables'[draft.section] = DOMAIN tables[draft.section]]_vars

\* A deletion that nobody interfered with removes the row whose name the dialog shows,
\* as it is, and else only the destinations of a family.
DeleteRemovesTheNamedRow ==
  [][AcceptDelete /\ asOf = commits /\ tables' # tables =>
       /\ tables[original.section][original.number] = original.content
       /\ \A s \in Section : \A n \in DOMAIN tables[s] \ DOMAIN tables'[s] :
            \/ s = original.section /\ n = original.number
            \/ /\ s = "destinations" /\ original.section = "families"
               /\ tables[s][n] = original.number]_vars
==============================================================================
