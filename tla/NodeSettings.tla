----------------------------- MODULE NodeSettings -----------------------------
(***************************************************************************)
(* The node's settings: the CDC command handler (cdc.rs), ConfigManager    *)
(* (storage.rs) and the flash page it keeps the record in                  *)
(* (FlashConfigStorage of bin/uchi-pulse-node.rs).                         *)
(*                                                                         *)
(* A command is handled without an await, so no other task sees the middle *)
(* of one; but the power may fail between the erase, the write and the     *)
(* read-back.  The page is erased, or holds the whole record of a          *)
(* configuration, or neither: a torn record does not decode, because the   *)
(* bytes not yet programmed are 0xff, and a foreign one decodes but has    *)
(* another version or fails validate().                                    *)
(***************************************************************************)
EXTENDS Naturals

CONSTANTS
  Config,      \* settings objects a host may send
  Invalid,     \* those that validate() refuses or that lack a field
  Default,     \* the configuration built into the firmware
  DeviceId(_), \* device_id of a configuration
  Erased, Torn, Foreign,  \* contents of the page other than a record
  Nothing,     \* no value: no save in progress, no expectation
  MaxRequests  \* bound: CDC requests explored

ASSUME SettingsAssumption ==
  /\ Invalid \subseteq Config /\ Default \in Config \ Invalid
  /\ {Erased, Torn, Foreign, Nothing} \cap Config = {}
  /\ Nothing \notin {Erased, Torn, Foreign}
  /\ MaxRequests \in Nat

Valid   == Config \ Invalid
Page    == Valid \cup {Erased, Torn, Foreign}
Pc      == {"off", "idle", "erase", "write", "verify"}
NoReply == [kind |-> "none"]
Reply   == [kind : {"none", "ok", "INVALID_CONFIG", "SAVE_FAILED"}]
           \cup [kind : {"config"}, config : Valid]
           \cup [kind : {"status"}, id : {DeviceId(c) : c \in Valid}]

VARIABLES
  page,      \* the flash page at CONFIG_STORAGE_OFFSET
  config,    \* ConfigManager::config
  running,   \* RUNTIME_CONFIG, what every other task uses
  pc,        \* off, waiting for a line, or inside write/clear
  target,    \* configuration being saved; Nothing for a reset
  reply,     \* last answer to the host
  expected,  \* history variable: what the answers so far make the host expect
             \* of the next boot; Nothing when they leave it open
  requests

vars == <<page, config, running, pc, target, reply, expected, requests>>

TypeOK ==
  /\ page \in Page
  /\ config \in Valid /\ running \in Valid
  /\ pc \in Pc
  /\ target \in Valid \cup {Nothing}
  /\ reply \in Reply
  /\ expected \in Valid \cup {Nothing}
  /\ requests \in Nat

\* ConfigManager::new: erased, torn, other version, refused by validate() all
\* mean "no record".
Load(p) == IF p \in Valid THEN p ELSE Default

Init ==
  /\ page \in Page
  /\ config = Default /\ running = Default
  /\ pc = "off" /\ target = Nothing
  /\ reply = NoReply /\ expected = Nothing
  /\ requests = 0

------------------------------------------------------------------------------
(* Power *)

\* main: ConfigManager::new, then the runtime copy every task is given.
Boot ==
  /\ pc = "off"
  /\ config' = Load(page) /\ running' = Load(page)
  /\ pc' = "idle"
  /\ expected' = Load(page)
  /\ UNCHANGED <<page, target, reply, requests>>

\* What the page may hold when the power fails in the middle of a flash
\* operation: an erase or a write that had not begun, was under way or was over.
Interrupted ==
  CASE pc = "erase"  -> {page, Torn, Erased}
    [] pc = "write"  -> {page, Torn, target}
    [] OTHER         -> {page}

PowerLoss ==
  /\ pc # "off"
  /\ page' \in Interrupted
  /\ pc' = "off" /\ target' = Nothing /\ reply' = NoReply
  /\ UNCHANGED <<config, running, expected, requests>>

------------------------------------------------------------------------------
(* Commands *)

Request == pc = "idle" /\ requests < MaxRequests /\ requests' = requests + 1

Answer(r) == reply' = r /\ pc' = "idle" /\ target' = Nothing

\* mistake: get_config reads the runtime copy, as every other task does.
GetConfigRunning ==
  /\ Request
  /\ Answer([kind |-> "config", config |-> running])
  /\ UNCHANGED <<page, config, running, expected>>

\* get_config and get_status read the manager's configuration.
GetConfig ==
  /\ Request
  /\ Answer([kind |-> "config", config |-> config])
  /\ UNCHANGED <<page, config, running, expected>>

GetStatus ==
  /\ Request
  /\ Answer([kind |-> "status", id |-> DeviceId(config)])
  /\ UNCHANGED <<page, config, running, expected>>

\* set_config: into_config and validate() come before anything is touched.
SetConfig(c) ==
  /\ Request
  /\ \/ /\ c \in Invalid
        /\ Answer([kind |-> "INVALID_CONFIG"])
        /\ UNCHANGED expected
     \/ /\ c \in Valid
        /\ pc' = "erase" /\ target' = c
        /\ expected' = Nothing
        /\ UNCHANGED reply
  /\ UNCHANGED <<page, config, running>>

FactoryReset ==
  /\ Request
  /\ pc' = "erase" /\ target' = Nothing
  /\ expected' = Nothing
  /\ UNCHANGED <<page, config, running, reply>>

\* reboot: the answer is sent before the watchdog fires.
Reboot ==
  /\ Request
  /\ reply' = [kind |-> "ok"]
  /\ pc' = "off" /\ target' = Nothing
  /\ UNCHANGED <<page, config, running, expected>>

\* A flash operation returned an error, or the read-back differs.
SaveFails ==
  /\ Answer([kind |-> "SAVE_FAILED"])
  /\ UNCHANGED <<config, running, expected, requests>>

\* blocking_erase, the first half of a save and all of a reset.  A reset leaves
\* the manager's configuration alone.
Erase ==
  /\ pc = "erase"
  /\ \/ /\ page' = Erased
        /\ IF target = Nothing
             THEN Answer([kind |-> "ok"]) /\ expected' = Default
             ELSE pc' = "write" /\ UNCHANGED <<target, reply, expected>>
        /\ UNCHANGED <<config, running, requests>>
     \/ page' \in {page, Torn} /\ SaveFails

\* mistake: the result of blocking_write is dropped.
WriteUnchecked ==
  /\ pc = "write"
  /\ page' \in {target, Erased, Torn}
  /\ pc' = "verify"
  /\ UNCHANGED <<config, running, target, reply, expected, requests>>

\* blocking_write reports a page it could not program.
Write ==
  /\ pc = "write"
  /\ \/ /\ page' = target
        /\ pc' = "verify"
        /\ UNCHANGED <<config, running, target, reply, expected, requests>>
     \/ page' \in {Erased, Torn} /\ SaveFails

\* The eight header bytes are read back; only then does the manager take the
\* new configuration.
Verify ==
  /\ pc = "verify"
  /\ \/ /\ config' = target
        /\ Answer([kind |-> "ok"])
        /\ expected' = target
        /\ UNCHANGED <<page, running, requests>>
     \/ SaveFails /\ UNCHANGED page

Next ==
  \/ Boot \/ PowerLoss
  \/ GetConfig \/ GetStatus \/ FactoryReset \/ Reboot
  \/ \E c \in Config : SetConfig(c)
  \/ Erase \/ Write \/ Verify

Spec == Init /\ [][Next]_vars

------------------------------------------------------------------------------
(* Properties *)

\* What the host was told is what the node boots with: the configuration of the
\* last set_config that was answered "ok", the defaults after a factory_reset
\* that was, whatever refused requests, reads and power losses came since.
SavedIsBooted ==
  (pc \in {"off", "idle"} /\ expected # Nothing) => Load(page) = expected

\* storage.rs: "The active in-memory configuration is changed only after
\* persistence succeeds."
ActiveFollowsStorage == [][config' # config => config' = Load(page')]_vars

\* get_config gets the saved settings: what the last set_config answered "ok" had
\* saved, or what was booted, until a reset or another save begins.  (It is the
\* manager's copy that is read: a reset leaves it behind the page.)
GetConfigIsLastSaved ==
  (pc = "idle" /\ reply.kind = "config" /\ expected \notin {Nothing, Default})
    => reply.config = expected
==============================================================================
