------------------------ MODULE NodeSettings_proofs ------------------------
(* Proofs about NodeSettings: what the host was told survives power losses. *)
EXTENDS NodeSettings, TLAPS

Saving == {"erase", "write", "verify"}

\* While a command is inside the flash driver nothing is promised, a write has a
\* valid target, and the read-back is reached only with the target on the page.
SavingInv ==
  /\ pc \in Saving => expected = Nothing
  /\ pc \in {"write", "verify"} => target \in Valid
  /\ pc = "verify" => page = target

SettingsInv == TypeOK /\ SavingInv /\ SavedIsBooted

\* Whatever the page holds, the node boots with a configuration that validate()
\* accepts.
LEMMA LoadValid == \A p : Load(p) \in Valid
BY SettingsAssumption DEF Load, Valid

\* A record that is on the page is the configuration the node boots with.
LEMMA LoadStored == \A c \in Valid : Load(c) = c
BY DEF Load

\* The defaults are loaded from an erased page.
LEMMA LoadErased == Load(Erased) = Default
BY SettingsAssumption DEF Load, Valid

\* A node that was never booted has promised nothing.
LEMMA SettingsInvInit == Init => SettingsInv
BY SettingsAssumption
   DEF Init, SettingsInv, TypeOK, SavingInv, SavedIsBooted, Saving, Valid, Pc,
       Reply, NoReply

\* Every step keeps the types, the values of replies included.
LEMMA SettingsTypeStep == SettingsInv /\ [Next]_vars => TypeOK'
<1> SUFFICES ASSUME SettingsInv, [Next]_vars PROVE TypeOK'
  OBVIOUS
<1> USE DEF SettingsInv, TypeOK, Pc, Reply
<1>1. CASE Boot
  BY <1>1, LoadValid DEF Boot
<1>2. CASE PowerLoss
  <2>1. page' \in Page
    BY <1>2 DEF PowerLoss, Interrupted, SavingInv, Page
  <2> QED BY <1>2, <2>1 DEF PowerLoss, NoReply
<1>3. CASE GetConfig
  BY <1>3 DEF GetConfig, Request, Answer
<1>4. CASE GetStatus
  BY <1>4 DEF GetStatus, Request, Answer
<1>5. CASE FactoryReset
  BY <1>5 DEF FactoryReset, Request
<1>6. CASE Reboot
  BY <1>6 DEF Reboot, Request
<1>7. ASSUME NEW c \in Config, SetConfig(c) PROVE TypeOK'
  BY <1>7 DEF SetConfig, Request, Answer, Valid
<1>8. CASE Erase
  BY <1>8, SettingsAssumption DEF Erase, SaveFails, Answer, Page, Valid
<1>9. CASE Write
  BY <1>9 DEF Write, SaveFails, Answer, Page, SavingInv
<1>10. CASE Verify
  BY <1>10 DEF Verify, SaveFails, Answer, SavingInv
<1>11. CASE UNCHANGED vars
  BY <1>11 DEF vars
<1> QED BY <1>1, <1>2, <1>3, <1>4, <1>5, <1>6, <1>7, <1>8, <1>9, <1>10, <1>11 DEF Next

\* Every step keeps the promise: a save or a reset withdraws it before the
\* first flash operation and renews it only when the page holds the result.
LEMMA PromiseStep == SettingsInv /\ [Next]_vars => SavingInv' /\ SavedIsBooted'
<1> SUFFICES ASSUME SettingsInv, [Next]_vars PROVE SavingInv' /\ SavedIsBooted'
  OBVIOUS
<1> USE SettingsAssumption DEF SettingsInv, TypeOK, SavingInv, SavedIsBooted, Saving, Pc
<1>1. CASE Boot
  BY <1>1 DEF Boot
<1>2. CASE PowerLoss
  BY <1>2 DEF PowerLoss, Interrupted
<1>3. CASE GetConfig
  BY <1>3 DEF GetConfig, Request, Answer
<1>4. CASE GetStatus
  BY <1>4 DEF GetStatus, Request, Answer
<1>5. CASE FactoryReset
  BY <1>5 DEF FactoryReset, Request
<1>6. CASE Reboot
  BY <1>6 DEF Reboot, Request
<1>7. ASSUME NEW c \in Config, SetConfig(c) PROVE SavingInv' /\ SavedIsBooted'
  BY <1>7 DEF SetConfig, Request, Answer
<1>8. CASE Erase
  BY <1>8, LoadErased DEF Erase, SaveFails, Answer
<1>9. CASE Write
  BY <1>9 DEF Write, SaveFails, Answer
<1>10. CASE Verify
  BY <1>10, LoadStored DEF Verify, SaveFails, Answer
<1>11. CASE UNCHANGED vars
  BY <1>11 DEF vars
<1> QED BY <1>1, <1>2, <1>3, <1>4, <1>5, <1>6, <1>7, <1>8, <1>9, <1>10, <1>11 DEF Next

\* The inductive invariant of the settings.
THEOREM SettingsInvariant == Spec => []SettingsInv
<1>1. SettingsInv /\ [Next]_vars => SettingsInv'
  BY SettingsTypeStep, PromiseStep DEF SettingsInv
<1> QED BY SettingsInvInit, <1>1, PTL DEF Spec

\* The node boots with the configuration of the last acknowledged set_config or
\* factory_reset, whatever failed saves, refused requests and power losses
\* follow it in any order, for every set of configurations.
THEOREM SavedIsBootedCorrect == Spec => []SavedIsBooted
<1>1. SettingsInv => SavedIsBooted
  BY DEF SettingsInv
<1> QED BY SettingsInvariant, <1>1, PTL

\* The manager's configuration changes only to what the page holds at that
\* moment, at boot or after a verified save.
THEOREM ActiveFollowsStorageCorrect == Spec => ActiveFollowsStorage
<1>1. SettingsInv /\ [Next]_vars => [config' # config => config' = Load(page')]_vars
  <2> SUFFICES ASSUME SettingsInv, Next, config' # config PROVE config' = Load(page')
    OBVIOUS
  <2> USE DEF SettingsInv, SavingInv
  <2>1. CASE Boot
    BY <2>1 DEF Boot
  <2>2. CASE Verify
    BY <2>2, LoadStored DEF Verify, SaveFails, Answer
  <2>3. CASE ~ Boot /\ ~ Verify
    BY <2>3 DEF Next, PowerLoss, GetConfig, GetStatus, FactoryReset, Reboot, SetConfig,
              Erase, Write, SaveFails
  <2> QED BY <2>1, <2>2, <2>3
<1> QED BY SettingsInvariant, <1>1, PTL DEF Spec, ActiveFollowsStorage

\* What get_config answers is the manager's configuration, and that is the one the
\* host was last told was saved unless the defaults were restored.
ManagerInv ==
  /\ pc = "off" => reply.kind # "config"
  /\ pc = "idle" /\ reply.kind = "config" => reply.config = config
  /\ pc = "idle" /\ expected \notin {Nothing, Default} => config = expected

\* Every step keeps it: the manager takes a configuration exactly when the answer
\* says so, and every other answer leaves both alone.
LEMMA ManagerStep == SettingsInv /\ ManagerInv /\ [Next]_vars => ManagerInv'
<1> SUFFICES ASSUME SettingsInv, ManagerInv, [Next]_vars PROVE ManagerInv'
  OBVIOUS
<1> USE SettingsAssumption DEF SettingsInv, TypeOK, SavingInv, ManagerInv, Saving, Pc
<1>1. CASE Boot
  BY <1>1 DEF Boot
<1>2. CASE PowerLoss
  BY <1>2 DEF PowerLoss, NoReply
<1>3. CASE GetConfig
  BY <1>3 DEF GetConfig, Request, Answer
<1>4. CASE GetStatus
  BY <1>4 DEF GetStatus, Request, Answer
<1>5. CASE FactoryReset
  BY <1>5 DEF FactoryReset, Request
<1>6. CASE Reboot
  BY <1>6 DEF Reboot, Request
<1>7. ASSUME NEW c \in Config, SetConfig(c) PROVE ManagerInv'
  BY <1>7 DEF SetConfig, Request, Answer
<1>8. CASE Erase
  BY <1>8 DEF Erase, SaveFails, Answer
<1>9. CASE Write
  BY <1>9 DEF Write, SaveFails, Answer
<1>10. CASE Verify
  BY <1>10 DEF Verify, SaveFails, Answer
<1>11. CASE UNCHANGED vars
  BY <1>11 DEF vars
<1> QED BY <1>1, <1>2, <1>3, <1>4, <1>5, <1>6, <1>7, <1>8, <1>9, <1>10, <1>11 DEF Next

\* get_config returns what was last acknowledged as saved, whatever failed saves,
\* refused requests, reboots and power losses came in between, until a reset.
THEOREM GetConfigIsLastSavedCorrect == Spec => []GetConfigIsLastSaved
<1>1. Init => ManagerInv
  BY DEF Init, ManagerInv, NoReply
<1>2. ManagerInv => GetConfigIsLastSaved
  BY DEF ManagerInv, GetConfigIsLastSaved
<1> QED BY SettingsInvariant, ManagerStep, <1>1, <1>2, PTL DEF Spec

\* The types hold in every reachable state, the values of replies included.
THEOREM SettingsTypeCorrect == Spec => []TypeOK
<1>1. SettingsInv => TypeOK
  BY DEF SettingsInv
<1> QED BY SettingsInvariant, <1>1, PTL
=============================================================================
