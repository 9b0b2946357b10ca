----------------------------- MODULE RecordTables -----------------------------
(***************************************************************************)
(* The settings tables of the hub's database as the desktop applications   *)
(* see them: rows with a number, each saved and deleted on its own (their  *)
(* db.rs), and everybody else who writes to the same file.  ConfigDatabase *)
(* has the transactions behind this; here a statement takes effect at once *)
(* or is refused (constraint, lock, full disk).                            *)
(***************************************************************************)
EXTENDS Naturals, FiniteSets, Functions

CONSTANTS
  Section,    \* the tables
  MaxNumber,  \* bound on the numbers of rows
  ZeroRow,    \* bound: the tables in which number 0 occurs
  Name,       \* contents that refer to no family
  Blank,      \* a field left empty
  Start,      \* the tables the applications may find
  MaxCommit   \* bound on the changes of the tables after that

ASSUME TablesAssumption ==
  /\ Section \subseteq {"families", "devices", "actions", "destinations"}
  /\ "families" \in Section
  /\ ZeroRow \subseteq {"families", "actions"}
  /\ MaxNumber \in Nat \ {0} /\ MaxCommit \in Nat
  /\ Blank \notin Name /\ Name \cap Nat = {} /\ Blank \notin Nat
  /\ \A t \in Start : /\ t = [s \in Section |-> t[s]]
                      /\ \A s \in Section :
                           DOMAIN t[s] \subseteq (IF s \in ZeroRow THEN 0 ELSE 1)..MaxNumber

VARIABLES
  tables,   \* by section, its rows: what every column but the number holds
  lastRow,  \* AUTOINCREMENT: the highest number a destination ever had
  commits   \* the changes so far

store == <<tables, lastRow, commits>>

Number == 1..MaxNumber

\* Number 0 is one like any other for an action of the settings application, and the hub
\* takes it for a family too; here 0 is the empty id of a device.
RowNumber(s) == IF s \in ZeroRow THEN 0..MaxNumber ELSE Number

\* A row's content is told apart by the family it refers to: a destination always
\* does, an action does unless it is a COMMON one.
Content(s) ==
  CASE s = "destinations" -> RowNumber("families")
    [] s = "actions"      -> RowNumber("families") \cup Name
    [] OTHER              -> Name

Empty == [n \in {} |-> Blank]

\* The user, or the default form, gives these rows their number; SQLite the others.
Numbered(s) == s # "destinations"

DestinationRows ==
  IF "destinations" \in Section THEN DOMAIN tables["destinations"] ELSE {}

StoreInit ==
  /\ tables \in Start
  /\ lastRow \in DestinationRows \cup {0} /\ \A n \in DestinationRows : n <= lastRow
  /\ commits = 0

Put(t, s, n, c) ==
  [t EXCEPT ![s] = [k \in DOMAIN @ \cup {n} |-> IF k = n THEN c ELSE @[k]]]

\* FOREIGN KEY of actions and destinations.
Refers(c, families) == c \in RowNumber("families") => c \in families

\* What the applications find meets the constraints.
ASSUME StartAssumption ==
  \A t \in Start : \A s \in Section :
    /\ t[s] \in [DOMAIN t[s] -> Content(s)]
    /\ \A n \in DOMAIN t[s] : Refers(t[s][n], DOMAIN t["families"])

\* DELETE, with the destinations that go with a family.
Drop(t, s, n) ==
  [u \in Section |->
     IF u = s THEN Restrict(t[u], DOMAIN t[u] \ {n})
     ELSE IF s = "families" /\ u = "destinations"
          THEN Restrict(t[u], {k \in DOMAIN t[u] : t[u][k] # n})
     ELSE t[u]]

\* A family some action is about cannot be deleted.
Droppable(t, s, n) ==
  s = "families" /\ "actions" \in Section => \A k \in DOMAIN t["actions"] : t["actions"][k] # n

\* A statement that changes no row commits as well, but nobody can tell.
Commit(t) ==
  /\ tables' = t
  /\ IF t = tables THEN UNCHANGED commits ELSE commits < MaxCommit /\ commits' = commits + 1

\* What save_family and save_notification_destination of both applications refuse.  That the
\* control application's save_action refuses 0 too never shows: see Drawn.
Storable(s, n, c) ==
  /\ s = "families" => n # 0
  /\ s = "destinations" => c # 0

\* save_device, save_family and save_action are upserts.
Upsert(s, n, c) ==
  /\ n \in RowNumber(s) /\ c \in Content(s)
  /\ Refers(c, DOMAIN tables["families"])
  /\ Commit(Put(tables, s, n, c))
  /\ UNCHANGED lastRow

\* save_notification_destination without an id.
InsertDestination(c) ==
  /\ lastRow < MaxNumber /\ c \in DOMAIN tables["families"]
  /\ Commit(Put(tables, "destinations", lastRow + 1, c))
  /\ lastRow' = lastRow + 1

\* With an id it is an UPDATE, which may find no row.
UpdateDestination(n, c) ==
  /\ IF n \in DOMAIN tables["destinations"]
     THEN /\ c \in DOMAIN tables["families"]
          /\ Commit(Put(tables, "destinations", n, c))
     ELSE UNCHANGED <<tables, commits>>
  /\ UNCHANGED lastRow

Remove(s, n) ==
  /\ Droppable(tables, s, n)
  /\ Commit(Drop(tables, s, n))
  /\ UNCHANGED lastRow

\* The hub's CDC thread and applications elsewhere: any change of a row.
OtherWriter ==
  /\ \E s \in Section :
       \/ \E n \in RowNumber(s) : \E c \in Content(s) : Numbered(s) /\ Upsert(s, n, c)
       \/ \E n \in DOMAIN tables[s] : Remove(s, n)
       \/ s = "destinations" /\ \E c \in Content(s) :
            \/ InsertDestination(c)
            \/ \E n \in Number : UpdateDestination(n, c)
  /\ tables' # tables

------------------------------------------------------------------------------
(* Both applications load all tables, one SELECT after the other, and take  *)
(* them over when the last one has succeeded.  (The event history, which    *)
(* they read last and never change, is left out.)                           *)

LoadOrder == <<"devices", "families", "actions", "destinations">>

\* What follows the load, the tables read so far, and the change they were read after.
Never == MaxCommit + 1
Begin(then, at) == [then |-> then, got |-> [s \in {} |-> Empty], at |-> at]
NoLoad == Begin("none", 0)

\* The table a load reads next is the first of LoadOrder it has not read.
NextTable(load) ==
  LET left == {i \in DOMAIN LoadOrder : LoadOrder[i] \in Section \ DOMAIN load.got}
  IN  LoadOrder[CHOOSE i \in left : \A j \in left : i <= j]

Read(load) ==
  [load EXCEPT !.got = [s \in DOMAIN @ \cup {NextTable(load)} |->
                          IF s \in DOMAIN @ THEN @[s] ELSE tables[s]]]

Complete(load) == DOMAIN load.got = Section
==============================================================================
