---------------------------- MODULE OperatorForms -----------------------------
(***************************************************************************)
(* The operator's forms (core/operator_settings.py).  A form of the        *)
(* dashboard saves all its fields; an action of the series panel           *)
(* (series_webui.py) changes one field and borrows the form's save.  Every *)
(* save goes through _persist_many: it waits for _save_lock, has the       *)
(* host's configuration take the values into memory and write its file,    *)
(* and puts memory back if that fails.  Then, without a suspension, it     *)
(* puts the values into force and answers with what is in force; only the  *)
(* persona's form looks up AstrBot's personas before it answers.           *)
(*                                                                         *)
(* A field is a value or two that stand for the rest of its form: the      *)
(* budgets of the chain, the timeout of the fast action, the other texts   *)
(* of the persona.  The forms of TTS and diagnostics are SettingsPolicy's, *)
(* the identity's are IdentitySync's.                                      *)
(***************************************************************************)
CONSTANTS Requests        \* in hand at a time

VARIABLES formConfig,     \* the configuration in memory
          formFile,       \* external: the configuration's file
          formRuntime,    \* what the components work with
          request,        \* each request, where it stands
          shown,          \* what the last answer about a field showed as saved
          outdated        \* history: the name was overwritten with an older one

formsVars == <<formConfig, formFile, formRuntime, request, shown, outdated>>

Fields == {"excluded", "fallback", "mode", "name", "filter", "fast", "knowledge", "stt", "chat"}

FormConfigs ==
    [excluded  : {"none", "some"},
     fallback  : {"off", "on"},
     mode      : {"astrbot", "manual"},
     name      : {"old", "new"},
     filter    : {"off", "on"},
     fast      : {"off", "on"},
     knowledge : {"off", "on"},
     chat      : {"default", "chosen"},
     stt       : {"legacy", "chosen"}]  \* the plugin's own providers, or one of AstrBot's

FormValues(f) == {c[f] : c \in FormConfigs}

(* What the answer to a save shows. *)
QuestChainSnapshot           == {"excluded", "fallback"}
QuestToolFilterSnapshot      == {"filter"}
KnowledgeEnvironmentSnapshot == {"knowledge"}
FastActionSnapshot           == {"fast"}
SttSnapshot                  == {"stt"}
PersonaSnapshot              == {"mode", "name"}
PublicDialogueSnapshot       == {"fallback"}
PublicPersonaSnapshot        == {"mode"}

(* The tool filter's hook reads its switch from the configuration in memory whenever
   it runs; the other components keep what they were told. *)
Kept == Fields \ {"filter"}

(* The configuration with some values replaced. *)
Replaced(changes) ==
    [f \in Fields |-> IF f \in DOMAIN changes THEN changes[f] ELSE formConfig[f]]

NoRequest == [step |-> "idle"]
FormSaving(t) == request[t].step \in {"saving", "written"}

FormsInit ==
    /\ formConfig \in FormConfigs
    /\ formConfig["name"] = "old"
    /\ formFile = formConfig
    /\ formRuntime = [f \in Kept |-> formConfig[f]]
    /\ request = [t \in Requests |-> NoRequest]
    /\ shown = formConfig
    /\ outdated = FALSE

-----------------------------------------------------------------------------
(* The requests, validated. *)

Save(t, changes, shows) ==
    /\ request[t] = NoRequest
    /\ request' = [request EXCEPT ![t] = [step |-> "wait", changes |-> changes, shows |-> shows]]
    /\ UNCHANGED <<formConfig, formFile, formRuntime, shown, outdated>>

(* A page of before 1.4.0 does not send the fallback, which then stays as it is. *)
SaveQuestChainSettings(t) ==
    \E e \in FormValues("excluded") :
       \/ \E b \in FormValues("fallback") :
             Save(t, [f \in {"excluded", "fallback"} |-> IF f = "excluded" THEN e ELSE b],
                  QuestChainSnapshot)
       \/ Save(t, [f \in {"excluded"} |-> e], QuestChainSnapshot)

SaveQuestToolFilterSettings(t) ==
    \E b \in FormValues("filter") : Save(t, [f \in {"filter"} |-> b], QuestToolFilterSnapshot)

SaveKnowledgeEnvironmentSettings(t) ==
    \E b \in FormValues("knowledge") :
       Save(t, [f \in {"knowledge"} |-> b], KnowledgeEnvironmentSnapshot)

SaveFastActionSettings(t) ==
    \E b \in FormValues("fast") : Save(t, [f \in {"fast"} |-> b], FastActionSnapshot)

(* Any choice ends the legacy providers, also an empty one. *)
SaveSttProviderId(t) == Save(t, [f \in {"stt"} |-> "chosen"], SttSnapshot)

SaveChatProviderId(t) == \E p \in FormValues("chat") : Save(t, [f \in {"chat"} |-> p], {"chat"})

SaveCharacterPersona(t) ==
    \E m \in FormValues("mode"), n \in FormValues("name") :
       Save(t, [f \in {"mode", "name"} |-> IF f = "mode" THEN m ELSE n], PersonaSnapshot)

(* The panel's switch of the fallback leaves excluded_plugins to its default. *)
SetDialogueFallback(t) ==
    \E b \in FormValues("fallback") :
       Save(t, [f \in {"excluded", "fallback"} |-> IF f = "excluded" THEN "none" ELSE b],
            PublicDialogueSnapshot)

(* The panel's switch of the persona's source reads the form, which suspends, before
   it saves it as a whole. *)
SetPersonaSourceMode(t) ==
    /\ request[t] = NoRequest
    /\ \E m \in FormValues("mode") :
          request' = [request EXCEPT ![t] = [step |-> "overview", mode |-> m]]
    /\ UNCHANGED <<formConfig, formFile, formRuntime, shown, outdated>>

PersonaOverview(t) ==
    /\ request[t].step = "overview"
    /\ request' = [request EXCEPT ![t] =
                   [step |-> "wait", shows |-> PublicPersonaSnapshot,
                    changes |-> [f \in {"mode", "name"} |->
                                    IF f = "mode" THEN request[t].mode ELSE formRuntime["name"]]]]
    /\ UNCHANGED <<formConfig, formFile, formRuntime, shown, outdated>>

PanelAction(t) == SetDialogueFallback(t) \/ SetPersonaSourceMode(t) \/ PersonaOverview(t)

-----------------------------------------------------------------------------
(* _persist_many *)

(* Seeded fault: the save does not wait for another. *)
FormLockTakenAtOnce(t) ==
    /\ request[t].step = "wait"
    /\ request' = [request EXCEPT ![t] =
                   [step |-> "saving", changes |-> @.changes, shows |-> @.shows,
                    previous |-> [f \in DOMAIN @.changes |-> formConfig[f]]]]
    /\ UNCHANGED <<formConfig, formFile, formRuntime, shown, outdated>>

FormLockTaken(t) ==
    /\ request[t].step = "wait"
    /\ \A u \in Requests : ~FormSaving(u)
    /\ request' = [request EXCEPT ![t] =
                   [step |-> "saving", changes |-> @.changes, shows |-> @.shows,
                    previous |-> [f \in DOMAIN @.changes |-> formConfig[f]]]]
    /\ UNCHANGED <<formConfig, formFile, formRuntime, shown, outdated>>

FormInMemory(t) ==
    /\ request[t].step = "saving"
    /\ formConfig' = Replaced(request[t].changes)
    /\ request' = [request EXCEPT ![t].step = "written"]
    /\ UNCHANGED <<formFile, formRuntime, shown, outdated>>

(* The host has written all that is in memory; the values are put into force. *)
FormInForce(changes) ==
    /\ formFile' = formConfig
    /\ formRuntime' = [f \in Kept |-> IF f \in DOMAIN changes THEN changes[f] ELSE formRuntime[f]]

FormCommitted(t) ==
    /\ request[t].step = "written"
    /\ "name" \notin DOMAIN request[t].changes
    /\ FormInForce(request[t].changes)
    /\ shown' = [f \in Fields |-> IF f \in request[t].shows THEN formConfig[f] ELSE shown[f]]
    /\ request' = [request EXCEPT ![t] = NoRequest]
    /\ UNCHANGED <<formConfig, outdated>>

PersonaCommitted(t) ==
    /\ request[t].step = "written"
    /\ "name" \in DOMAIN request[t].changes
    /\ FormInForce(request[t].changes)
    /\ outdated' = (\/ outdated
                    \/ /\ "name" \notin request[t].shows
                       /\ request[t].changes["name"] # formRuntime["name"])
    /\ request' = [request EXCEPT ![t] = [step |-> "answer", shows |-> @.shows]]
    /\ UNCHANGED <<formConfig, shown>>

PersonaAnswered(t) ==
    /\ request[t].step = "answer"
    /\ shown' = [f \in Fields |-> IF f \in request[t].shows THEN formRuntime[f] ELSE shown[f]]
    /\ outdated' = (outdated /\ "name" \notin request[t].shows)
    /\ request' = [request EXCEPT ![t] = NoRequest]
    /\ UNCHANGED <<formConfig, formFile, formRuntime>>

(* Seeded fault: what the host took into memory stays there. *)
RefusedOnly(t) ==
    /\ FormSaving(t)
    /\ request' = [request EXCEPT ![t] = NoRequest]
    /\ UNCHANGED <<formConfig, formFile, formRuntime, shown, outdated>>

(* The host fails, or says that the configuration was replaced meanwhile. *)
Refused(t) ==
    /\ FormSaving(t)
    /\ formConfig' = Replaced(request[t].previous)
    /\ request' = [request EXCEPT ![t] = NoRequest]
    /\ UNCHANGED <<formFile, formRuntime, shown, outdated>>

Persist(t) ==
    \/ FormLockTaken(t) \/ FormInMemory(t) \/ Refused(t)
    \/ FormCommitted(t) \/ PersonaCommitted(t) \/ PersonaAnswered(t)

-----------------------------------------------------------------------------
FormsNext == \E t \in Requests :
    \/ SaveQuestChainSettings(t) \/ SaveQuestToolFilterSettings(t)
    \/ SaveKnowledgeEnvironmentSettings(t) \/ SaveFastActionSettings(t)
    \/ SaveSttProviderId(t) \/ SaveChatProviderId(t) \/ SaveCharacterPersona(t)
    \/ PanelAction(t)
    \/ Persist(t)

FormsSpec == FormsInit /\ [][FormsNext]_formsVars

-----------------------------------------------------------------------------
FormsTypeOK ==
    /\ formConfig \in FormConfigs /\ formFile \in FormConfigs /\ shown \in FormConfigs
    /\ DOMAIN formRuntime = Kept
    /\ outdated \in BOOLEAN

(* Whatever saves interleave, fail or are refused, the components work with what is
   saved, and so they do after a restart: no save commits the values of another that
   has not been put into force yet, and none goes back on one. *)
RuntimeIsSaved == FormsTypeOK /\ \A f \in Kept : formRuntime[f] = formFile[f]

(* What an answer showed as saved stays saved until a save of that field is answered: a
   refused save leaves nothing in memory that a later save of another form would
   carry into the file.  The exceptions are the panel's: its switch of the fallback
   empties the excluded plugins, and its switch of the persona's source brings back
   the name that it read before another save. *)
AnswersHold ==
    \A f \in Fields :
       \/ formFile[f] = shown[f]
       \/ f = "excluded" /\ formFile[f] = "none"
       \/ f = "name" /\ outdated
       \/ \E t \in Requests : request[t].step = "answer" /\ f \in request[t].shows
==============================================================================
