---------------------------- MODULE PersonaService ----------------------------
(***************************************************************************)
(* The Quest personas of the dashboard (core/persona_service.py and        *)
(* core/persona_profiles.py).  A conversion job turns a source persona     *)
(* into a draft; a draft, or a prompt written by hand, is saved as a       *)
(* profile; one profile at most is active, and its prompt is the one the   *)
(* language model speaks with.                                             *)
(*                                                                         *)
(* Saving, activating and deleting hold _mutation_lock.  The settings of   *)
(* the source persona (core/operator_settings.py) do not: they deactivate  *)
(* the profile beside it and then call initialize, as the start of the     *)
(* plugin does.  The id of the active profile is taken into the            *)
(* configuration in memory, where every method reads it, before it is      *)
(* saved, and is put back when the save fails or is superseded; the lock   *)
(* of the configuration lets one save run at a time.  The other locks of   *)
(* the service guard no suspension, and the lock of the store makes a read *)
(* or a write of it one step.  Times to live are steps that may come at    *)
(* any moment.                                                             *)
(***************************************************************************)
EXTENDS Naturals, FiniteSets, FiniteSetsExt, Functions

CONSTANTS Profiles,        \* profile ids
          Prompts,         \* reviewed prompts
          Nobody,          \* "": no profile, no prompt
          MaxJobs,         \* _MAX_CONVERSION_JOBS
          MaxDrafts,       \* _MAX_PENDING_DRAFTS
          MaxConversions   \* bound: conversions asked for

ASSUME PersonaAssumption ==
    /\ Nobody \notin Profiles \cup Prompts
    /\ MaxJobs \in Nat \ {0} /\ MaxDrafts \in Nat \ {0} /\ MaxConversions \in Nat

VARIABLES jobs,            \* status of the jobs the service remembers
          tasks,           \* tasks[j]: where the task of conversion j is
          aborting,        \* tasks that were told to stop
          cancelling,      \* jobs with a cancel request that waits for the task
          closing,         \* "open", "closing" or "closed"
          drafts,          \* conversions with a draft that can be saved
          store,           \* prompt of each profile file, or Nobody
          active,          \* active_quest_persona_id, as it is read from memory
          committed,       \* the id that was saved last
          runtime,         \* the prompt the language model is given
          work,            \* the operation that holds _mutation_lock
          settings,        \* where the save of the settings, or initialize, is
          stale,           \* history: an id that was not saved was taken for the active one
          orphaned         \* history: ... and the active profile was deleted

jobVars == <<jobs, tasks, aborting, cancelling, closing>>
idVars == <<active, committed>>
pastVars == <<stale, orphaned>>
libraryVars == <<store, idVars, runtime, work, settings, pastVars>>
vars == <<jobVars, drafts, libraryVars>>

Conversions == 1..MaxConversions
NoDraft == 0
Idle == [op |-> "none"]

Statuses == {"queued", "running", "completed", "failed", "cancelled"}
Unfinished == {j \in DOMAIN jobs : jobs[j] \in {"queued", "running"}}
Alive == {j \in Conversions : tasks[j] \in {"created", "converting"}}
Stored == {p \in Profiles : store[p] # Nobody}
PromptOf(p) == IF p = Nobody THEN Nobody ELSE store[p]

(* An installation starts with any library and any active profile of it; the
   plugin is about to load that profile. *)
Init ==
    /\ jobs = << >> /\ tasks = [j \in Conversions |-> "none"]
    /\ aborting = {} /\ cancelling = {} /\ closing = "open" /\ drafts = {}
    /\ store \in [Profiles -> Prompts \cup {Nobody}]
    /\ active \in Stored \cup {Nobody} /\ committed = active
    /\ runtime = Nobody /\ work = Idle /\ stale = FALSE /\ orphaned = FALSE
    /\ settings = [at |-> "starting", profile |-> active]

-----------------------------------------------------------------------------
(* Conversions.  A request that repeats the running one is answered with its
   job and any other is refused: neither changes anything. *)

WithRoom(known) ==
    IF Cardinality(DOMAIN known) < MaxJobs THEN known
    ELSE Restrict(known, DOMAIN known \ {Min(DOMAIN known)})

Told(j, status) ==
    jobs' = IF j \in DOMAIN jobs THEN [jobs EXCEPT ![j] = status] ELSE jobs

StartConversion(j) ==
    /\ closing = "open" /\ Unfinished = {}
    /\ {i \in Conversions : tasks[i] = "converting"} = {}
    /\ tasks[j] = "none" /\ \A i \in Conversions : i < j => tasks[i] # "none"
    /\ LET known == WithRoom(jobs)
       IN jobs' = [i \in DOMAIN known \cup {j} |-> IF i = j THEN "queued" ELSE known[i]]
    /\ tasks' = [tasks EXCEPT ![j] = "created"]
    /\ UNCHANGED <<aborting, cancelling, closing, drafts, libraryVars>>

RunJob(j) ==
    /\ tasks[j] = "created" /\ j \notin aborting
    /\ tasks' = [tasks EXCEPT ![j] = "converting"]
    /\ Told(j, "running")
    /\ UNCHANGED <<aborting, cancelling, closing, drafts, libraryVars>>

WithDraft(held, j) ==
    {j} \cup {i \in held : Cardinality({k \in held : k > i}) < MaxDrafts - 1}

ConversionReady(j) ==
    /\ tasks[j] = "converting" /\ j \notin aborting
    /\ drafts' = WithDraft(drafts, j)
    /\ tasks' = [tasks EXCEPT ![j] = "over"]
    /\ Told(j, "completed")
    /\ UNCHANGED <<aborting, cancelling, closing, libraryVars>>

ConversionFails(j) ==
    /\ tasks[j] = "converting" /\ j \notin aborting
    /\ tasks' = [tasks EXCEPT ![j] = "over"]
    /\ Told(j, "failed")
    /\ UNCHANGED <<aborting, cancelling, closing, drafts, libraryVars>>

(* A task that never ran ends without a word: its job stays queued. *)
TaskAborted(j) ==
    /\ j \in aborting
    /\ aborting' = aborting \ {j}
    /\ tasks' = [tasks EXCEPT ![j] = "over"]
    /\ IF tasks[j] = "converting" THEN Told(j, "cancelled") ELSE UNCHANGED jobs
    /\ UNCHANGED <<cancelling, closing, drafts, libraryVars>>

(* Seeded fault: the job is called cancelled before its task has stopped. *)
CancelAtOnce(j) ==
    /\ j \in Unfinished \ cancelling
    /\ aborting' = aborting \cup ({j} \cap Alive)
    /\ cancelling' = cancelling \cup {j}
    /\ Told(j, "cancelled")
    /\ UNCHANGED <<tasks, closing, drafts, libraryVars>>

CancelConversion(j) ==
    /\ j \in Unfinished \ cancelling
    /\ aborting' = aborting \cup ({j} \cap Alive)
    /\ cancelling' = cancelling \cup {j}
    /\ UNCHANGED <<jobs, tasks, closing, drafts, libraryVars>>

(* Seeded fault: a task that never ran leaves its job queued. *)
CancelAnsweredOnly(j) ==
    /\ j \in cancelling \ Alive
    /\ cancelling' = cancelling \ {j}
    /\ UNCHANGED <<jobs, tasks, aborting, closing, drafts, libraryVars>>

CancelAnswered(j) ==
    /\ j \in cancelling \ Alive
    /\ cancelling' = cancelling \ {j}
    /\ IF j \in Unfinished THEN Told(j, "cancelled") ELSE UNCHANGED jobs
    /\ UNCHANGED <<tasks, aborting, closing, drafts, libraryVars>>

(* A terminal job outlives its time to live, or a draft its own. *)
JobExpires(j) ==
    /\ j \in DOMAIN jobs \ Unfinished
    /\ jobs' = Restrict(jobs, DOMAIN jobs \ {j})
    /\ UNCHANGED <<tasks, aborting, cancelling, closing, drafts, libraryVars>>

DraftExpires(j) ==
    /\ j \in drafts
    /\ drafts' = drafts \ {j}
    /\ UNCHANGED <<jobVars, libraryVars>>

Close ==
    /\ closing = "open"
    /\ closing' = "closing"
    /\ aborting' = aborting \cup Alive
    /\ UNCHANGED <<jobs, tasks, cancelling, drafts, libraryVars>>

Closed ==
    /\ closing = "closing" /\ Alive = {}
    /\ closing' = "closed"
    /\ jobs' = << >> /\ drafts' = {}
    /\ UNCHANGED <<tasks, aborting, cancelling, libraryVars>>

-----------------------------------------------------------------------------
(* The library, under _mutation_lock: the first step reads, the second writes. *)

(* A deactivation is in memory that may come to nothing. *)
InDoubt == settings.at = "saving"

SaveProfile(p, prompt, token) ==
    /\ work = Idle
    /\ drafts' = drafts \ {token}
    /\ work' = [op |-> "save", profile |-> p, prompt |-> prompt, token |-> token]
    /\ UNCHANGED <<jobVars, store, idVars, runtime, settings, pastVars>>

(* A draft is saved as a new profile, whose id no file has, or over a profile. *)
CreateConversion(p, prompt) ==
    p \notin Stored /\ \E token \in drafts : SaveProfile(p, prompt, token)
SaveConversion(p, prompt) ==
    p \in Stored /\ \E token \in drafts : SaveProfile(p, prompt, token)

(* So is a prompt that was written by hand. *)
CreateManual(p, prompt) == p \notin Stored /\ SaveProfile(p, prompt, NoDraft)
SaveManual(p, prompt)   == p \in Stored /\ SaveProfile(p, prompt, NoDraft)

(* The profile's file is replaced as a whole. *)
Write(p, prompt) == store' = [store EXCEPT ![p] = prompt]

ProfileWritten ==
    /\ work.op = "save"
    /\ Write(work.profile, work.prompt)
    /\ IF work.profile = active
       THEN runtime' = work.prompt /\ stale' = FALSE
       ELSE UNCHANGED runtime /\ stale' = (stale \/ (InDoubt /\ work.profile = committed))
    /\ work' = Idle
    /\ UNCHANGED <<jobVars, drafts, idVars, settings, orphaned>>

(* The draft comes back, unless its time is over. *)
SaveFails ==
    /\ work.op = "save"
    /\ drafts' \in {drafts, drafts \cup ({work.token} \ {NoDraft})}
    /\ work' = Idle
    /\ UNCHANGED <<jobVars, store, idVars, runtime, settings, pastVars>>

Activate(p) ==
    /\ work = Idle /\ p \in Stored \cup {Nobody}
    /\ work' = [op |-> "activate", profile |-> p, prompt |-> PromptOf(p)]
    /\ UNCHANGED <<jobVars, drafts, store, idVars, runtime, settings, pastVars>>

(* The id has its turn to be saved. *)
ActivationTaken ==
    /\ work.op = "activate" /\ settings.at # "saving"
    /\ active' = work.profile
    /\ work' = [work EXCEPT !.op = "activating"]
    /\ UNCHANGED <<jobVars, drafts, store, committed, runtime, settings, pastVars>>

ActivationSaved ==
    /\ work.op = "activating"
    /\ committed' = work.profile /\ runtime' = work.prompt
    /\ stale' = FALSE /\ orphaned' = FALSE
    /\ work' = Idle
    /\ UNCHANGED <<jobVars, drafts, store, active, settings>>

(* Seeded fault: an id that could not be saved stays in memory. *)
ActivationForgotten ==
    /\ work.op = "activating"
    /\ work' = Idle
    /\ UNCHANGED <<jobVars, drafts, store, idVars, runtime, settings, pastVars>>

ActivationRefused ==
    /\ work.op = "activating"
    /\ active' = committed
    /\ work' = Idle
    /\ UNCHANGED <<jobVars, drafts, store, committed, runtime, settings, pastVars>>

(* The active profile is not deleted, as far as the id in memory tells. *)
Delete(p) ==
    /\ work = Idle /\ p # active /\ p \in Stored
    /\ work' = [op |-> "delete", profile |-> p, blind |-> InDoubt]
    /\ UNCHANGED <<jobVars, drafts, store, idVars, runtime, settings, pastVars>>

Deleted ==
    /\ work.op = "delete"
    /\ store' = [store EXCEPT ![work.profile] = Nobody]
    /\ LET lost == work.blind /\ work.profile = committed
       IN stale' = (stale \/ lost) /\ orphaned' = (orphaned \/ lost)
    /\ work' = Idle
    /\ UNCHANGED <<jobVars, drafts, idVars, runtime, settings>>

OperationFails ==
    /\ work.op \in {"activate", "delete"}
    /\ work' = Idle
    /\ UNCHANGED <<jobVars, drafts, store, idVars, runtime, settings, pastVars>>

-----------------------------------------------------------------------------
(* Outside of the lock. *)

(* Saving the source persona deactivates the profile. *)
SaveSettings ==
    /\ settings.at = "idle" /\ work.op # "activating"
    /\ active' = Nobody
    /\ settings' = [at |-> "saving"]
    /\ UNCHANGED <<jobVars, drafts, store, committed, runtime, work, pastVars>>

(* Then the text of the source persona is looked up. *)
SettingsSaved ==
    /\ settings.at = "saving"
    /\ committed' = Nobody /\ runtime' = Nobody
    /\ stale' = FALSE /\ orphaned' = FALSE
    /\ settings' = [at |-> "resolving"]
    /\ UNCHANGED <<jobVars, drafts, store, active, work>>

SettingsRefused ==
    /\ settings.at = "saving"
    /\ active' = committed
    /\ settings' = [at |-> "idle"]
    /\ UNCHANGED <<jobVars, drafts, store, committed, runtime, work, pastVars>>

InitializeBegins ==
    /\ settings.at = "resolving"
    /\ IF active = Nobody
       THEN /\ runtime' = Nobody /\ stale' = (active # committed)
            /\ settings' = [at |-> "idle"]
       ELSE settings' = [at |-> "loading", profile |-> active] /\ UNCHANGED <<runtime, stale>>
    /\ UNCHANGED <<jobVars, drafts, store, idVars, work, orphaned>>

InitializeLoaded ==
    /\ settings.at \in {"loading", "starting"}
    /\ runtime' = PromptOf(settings.profile)
    /\ stale' = (settings.profile # committed)
    /\ settings' = [at |-> "idle"]
    /\ UNCHANGED <<jobVars, drafts, store, idVars, work, orphaned>>

(* The plugin is started again, after an orderly end or a crash. *)
Restart ==
    /\ settings.at # "starting"
    /\ jobs' = << >> /\ tasks' = [j \in Conversions |-> IF j \in Alive THEN "over" ELSE tasks[j]]
    /\ aborting' = {} /\ cancelling' = {} /\ closing' = "open" /\ drafts' = {}
    /\ runtime' = Nobody /\ work' = Idle /\ stale' = FALSE
    /\ active' = committed
    /\ settings' = [at |-> "starting", profile |-> committed]
    /\ UNCHANGED <<store, committed, orphaned>>

-----------------------------------------------------------------------------
Job(j) ==
    \/ StartConversion(j) \/ RunJob(j) \/ ConversionReady(j) \/ ConversionFails(j)
    \/ TaskAborted(j) \/ CancelConversion(j) \/ CancelAnswered(j)
    \/ JobExpires(j) \/ DraftExpires(j)

Library ==
    \/ \E p \in Profiles, prompt \in Prompts :
           \/ CreateConversion(p, prompt) \/ SaveConversion(p, prompt)
           \/ CreateManual(p, prompt) \/ SaveManual(p, prompt)
    \/ \E p \in Profiles \cup {Nobody} : Activate(p)
    \/ \E p \in Profiles : Delete(p)
    \/ ProfileWritten \/ SaveFails
    \/ ActivationTaken \/ ActivationSaved \/ ActivationRefused
    \/ Deleted \/ OperationFails

Next ==
    \/ \E j \in Conversions : Job(j)
    \/ Close \/ Closed \/ Library
    \/ SaveSettings \/ SettingsSaved \/ SettingsRefused \/ InitializeBegins \/ InitializeLoaded \/ Restart

(* The event loop runs every task that is ready; the converter's deadlines end
   every conversion. *)
Fairness ==
    \A j \in Conversions :
        /\ WF_vars(RunJob(j))
        /\ WF_vars(ConversionReady(j) \/ ConversionFails(j))
        /\ WF_vars(TaskAborted(j))
        /\ WF_vars(CancelAnswered(j))
        /\ WF_vars(Closed)

Spec == Init /\ [][Next]_vars /\ Fairness

-----------------------------------------------------------------------------
TypeOK ==
    /\ DOMAIN jobs \subseteq Conversions /\ Cardinality(DOMAIN jobs) <= MaxJobs
    /\ \A j \in DOMAIN jobs : jobs[j] \in Statuses
    /\ tasks \in [Conversions -> {"none", "created", "converting", "over"}]
    /\ aborting \subseteq Alive /\ cancelling \subseteq Conversions
    /\ closing \in {"open", "closing", "closed"}
    /\ drafts \subseteq Conversions /\ Cardinality(drafts) <= MaxDrafts + 1
    /\ store \in [Profiles -> Prompts \cup {Nobody}]
    /\ {active, committed} \subseteq Profiles \cup {Nobody} /\ runtime \in Prompts \cup {Nobody}

(* However often requests are cancelled, repeated or refused, no two conversions
   are at work at once, and none is once the service is closed. *)
OneConversionAtATime ==
    /\ TypeOK
    /\ Cardinality(Alive) <= 1
    /\ closing = "closed" => Alive = {}

(* The file of the active profile, the one saved last, is there, and the language
   model speaks with its prompt, at every moment after the plugin has loaded it and
   however saves of the id suspend, fail or are superseded.  Excepted is what was done
   while an id that had not been saved was in memory: the profile was deleted or
   written, as if it were not active, beside a deactivation that is not done yet or
   came to nothing; and an initialize that ended with another profile than the active one. *)
RuntimeFollowsActive ==
    settings.at # "starting" =>
        /\ orphaned \/ committed \in Stored \cup {Nobody}
        /\ stale \/ runtime = PromptOf(committed)

(* No job stays queued or running for ever: it would refuse all that follow. *)
NoStuckJob == \A j \in Conversions : j \in Unfinished ~> j \notin Unfinished
==============================================================================
