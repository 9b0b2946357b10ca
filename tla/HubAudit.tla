------------------------------ MODULE HubAudit ------------------------------
(***************************************************************************)
(* HubEvents watched by two history variables, for the promises that       *)
(* relate a step of the handler to an earlier one.  The hub itself keeps   *)
(* neither: process_datagram drops the plan validate_event returns         *)
(* (`.map(|_| ())').                                                       *)
(***************************************************************************)
EXTENDS HubEvents

VARIABLES
  validated,  \* plan the check before acceptance returned for `cur'
  disturbed   \* another process committed a configuration since that check began

auditVars == <<vars, validated, disturbed>>

NoPlan == [scope |-> Common, changes |-> NoChanges]

AuditInit == Init /\ validated = NoPlan /\ disturbed = FALSE

\* validate_event completes before acceptance.
ValidationPasses == pc = "changes" /\ phase = "validate" /\ pc' = "record"

\* An event is accepted: its row is new in the history.
Accepts == history' # history

\* apply_batch changes the action state (a crash empties it without running).
Applies == executed' # executed /\ state' # state

Audit ==
  /\ validated' =
       IF ValidationPasses
         THEN [scope |-> scope, changes |-> ChangesOf(cur.action)]
         ELSE IF pc' = "recv" THEN NoPlan ELSE validated
  /\ disturbed' = (pc \notin {"recv", "lookup"} /\ (disturbed \/ config' # config))

AuditNext == Next /\ Audit
AuditSpec == AuditInit /\ [][AuditNext]_auditVars

\* The loop keeps running and systemd restarts it after a failure.
AuditFairSpec == AuditSpec /\ WF_vars(HubStep) /\ WF_vars(Boot)

\* The action exists and is enabled in the tables as they are.
Available(a) == a \in DOMAIN config.actions /\ config.actions[a].enabled

\* As long as no other process commits while the event is handled, what is
\* accepted is available and what is applied is the plan that was validated,
\* all of it and nothing else (action.rs, validate_event and execute).
UndisturbedEventHandledAsValidated ==
  [][~ disturbed /\ config' = config =>
       /\ Accepts => Available(cur.action)
       /\ Applies => state' = ApplyBatch(validated.scope, validated.changes)]_auditVars
=============================================================================
