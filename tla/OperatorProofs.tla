---------------------------- MODULE OperatorProofs ----------------------------
(***************************************************************************)
(* The safety properties of what an operator changes while sessions run,   *)
(* for every value of the constants: the personas of PersonaService, the   *)
(* identity of IdentitySync, the switch of HookProfiler, the forms of      *)
(* OperatorForms and the settings of SettingsPolicy.  The components share *)
(* no state; each has an invariant of its own.                             *)
(***************************************************************************)
EXTENDS PersonaService, IdentitySync, HookProfiler, OperatorForms, SettingsPolicy,
        FiniteSetTheorems, WellFoundedInduction, TLAPS

-----------------------------------------------------------------------------
(***************************************************************************)
(* The personas.                                                           *)
(***************************************************************************)

(* The inductive invariant of the personas. *)

PersonaOps == {Idle}
    \cup [op : {"save"}, profile : Profiles, prompt : Prompts, token : Conversions \cup {NoDraft}]
    \cup [op : {"activate", "activating"}, profile : Profiles \cup {Nobody}, prompt : Prompts \cup {Nobody}]
    \cup [op : {"delete"}, profile : Profiles, blind : BOOLEAN]
PersonaSaves == [at : {"idle", "saving", "resolving"}]
    \cup [at : {"loading", "starting"}, profile : Profiles \cup {Nobody}]

JobTypes ==
    /\ DOMAIN jobs \subseteq Conversions /\ \A j \in DOMAIN jobs : jobs[j] \in Statuses
    /\ tasks \in [Conversions -> {"none", "created", "converting", "over"}]
    /\ aborting \subseteq Alive /\ cancelling \subseteq Conversions
    /\ closing \in {"open", "closing", "closed"}
    /\ drafts \subseteq Conversions

LibraryTypes ==
    /\ store \in [Profiles -> Prompts \cup {Nobody}]
    /\ active \in Profiles \cup {Nobody} /\ committed \in Profiles \cup {Nobody}
    /\ runtime \in Prompts \cup {Nobody}
    /\ stale \in BOOLEAN /\ orphaned \in BOOLEAN
    /\ work \in PersonaOps /\ settings \in PersonaSaves

(* A task that has not begun has a job that is queued, which refuses the next request. *)
JobInv ==
    /\ Cardinality(DOMAIN jobs) <= MaxJobs
    /\ \A j \in Conversions : tasks[j] = "created" => j \in DOMAIN jobs /\ jobs[j] = "queued"
    /\ \A i, j \in Alive : i = j
    /\ closing = "closed" => Alive = {}

(* The draft that a save took out may come back. *)
TakenOut == IF work.op = "save" /\ work.token # NoDraft THEN 1 ELSE 0
DraftInv == Cardinality(drafts) + TakenOut <= MaxDrafts + 1

(* The id in memory is the one saved last, but for the save that is under way. *)
IdsAgree ==
    /\ active = IF settings.at = "saving" THEN Nobody
                ELSE IF work.op = "activating" THEN work.profile ELSE committed
    /\ ~(settings.at = "saving" /\ work.op = "activating")

(* What an operation read under the lock is still so when it writes. *)
OperationAgrees ==
    /\ work.op \in {"activate", "activating"} => /\ work.profile \in Stored \cup {Nobody}
                                                /\ work.prompt = PromptOf(work.profile)
    /\ work.op = "delete" /\ work.profile = committed => work.blind

RuntimeAgrees ==
    /\ orphaned \/ committed \in Stored \cup {Nobody}
    /\ settings.at # "starting" => stale \/ runtime = PromptOf(committed)

LibraryInv == IdsAgree /\ OperationAgrees /\ RuntimeAgrees

PersonaInv == JobTypes /\ LibraryTypes /\ JobInv /\ DraftInv /\ LibraryInv

-----------------------------------------------------------------------------
(* Sets of conversions. *)

LEMMA ConversionsAreFinite ==
    ASSUME NEW S \in SUBSET Conversions
    PROVE  IsFiniteSet(S) /\ Cardinality(S) \in Nat
<1>1. MaxConversions \in Int /\ 1 \in Int
  BY PersonaAssumption
<1>2. IsFiniteSet(Conversions)
  BY <1>1, FS_Interval DEF Conversions
<1>3. IsFiniteSet(S)
  BY <1>2, FS_Subset
<1> QED
  BY <1>3, FS_CardinalityType

LEMMA FewerConversions ==
    ASSUME NEW S \in SUBSET Conversions, NEW T \in SUBSET S
    PROVE  Cardinality(T) <= Cardinality(S)
BY ConversionsAreFinite, FS_Subset

(* The least of them is one of them. *)
LEMMA LeastConversion ==
    ASSUME NEW S \in SUBSET Conversions, S # {}
    PROVE  Min(S) \in S /\ \A j \in S : Min(S) <= j
<1> DEFINE R == OpToRel(<, Nat)
<1>1. IsWellFoundedOn(R, Nat)
  BY NatLessThanWellFounded
<1>2. S \in SUBSET Nat
  BY PersonaAssumption DEF Conversions
<1>3. \E x \in S : \A y \in S : ~(<<y, x>> \in R)
  BY <1>1, <1>2, WFMin, Zenon
<1>4. \A x, y \in Nat : <<y, x>> \in R <=> y < x
  BY DEF OpToRel
<1> HIDE DEF R
<1>5. PICK x \in S : \A y \in S : ~(<<y, x>> \in R)
  BY <1>3
<1>6. \A y \in S : y \in Nat /\ x \in Nat /\ ~(y < x)
  BY <1>2, <1>4, <1>5, Zenon
<1>7. \A m, n \in Nat : ~(m < n) => n <= m
  BY SMT
<1>8. \A y \in S : x <= y
  BY <1>6, <1>7, Zenon
<1> QED
  BY <1>5, <1>8, Zenon DEF Min

(* One more element is at most one more. *)
LEMMA OneMore ==
    ASSUME NEW S, NEW j, IsFiniteSet(S), Cardinality(S) \in Nat
    PROVE  Cardinality(S \cup {j}) <= Cardinality(S) + 1
<1>1. Cardinality(S \cup {j}) = IF j \in S THEN Cardinality(S) ELSE Cardinality(S) + 1
  BY FS_AddElement
<1>2. CASE j \in S
  BY <1>1, <1>2
<1>3. CASE j \notin S
  BY <1>1, <1>3
<1> QED
  BY <1>2, <1>3

(* _MAX_CONVERSION_JOBS: the oldest job makes room for the next. *)
LEMMA JobsHaveRoom ==
    ASSUME JobTypes, JobInv, NEW j \in Conversions
    PROVE  /\ DOMAIN WithRoom(jobs) \subseteq DOMAIN jobs
           /\ \A i \in DOMAIN WithRoom(jobs) : WithRoom(jobs)[i] = jobs[i]
           /\ Cardinality(DOMAIN WithRoom(jobs) \cup {j}) <= MaxJobs
<1> DEFINE known == DOMAIN WithRoom(jobs)
<1>1. DOMAIN jobs \in SUBSET Conversions /\ Cardinality(DOMAIN jobs) <= MaxJobs /\ MaxJobs \in Nat \ {0}
  BY PersonaAssumption DEF JobTypes, JobInv
<1>2. IsFiniteSet(DOMAIN jobs) /\ Cardinality(DOMAIN jobs) \in Nat
  BY <1>1, ConversionsAreFinite
<1>3. CASE Cardinality(DOMAIN jobs) < MaxJobs
  <2>1. WithRoom(jobs) = jobs
    BY <1>3 DEF WithRoom
  <2>2. Cardinality(DOMAIN jobs \cup {j}) <= Cardinality(DOMAIN jobs) + 1
    BY <1>2, OneMore
  <2>3. Cardinality(DOMAIN jobs \cup {j}) \in Nat
    BY <1>1, ConversionsAreFinite
  <2> QED
    BY <1>1, <1>2, <1>3, <2>1, <2>2, <2>3
<1>4. CASE ~(Cardinality(DOMAIN jobs) < MaxJobs)
  <2> DEFINE kept == DOMAIN jobs \ {Min(DOMAIN jobs)}
  <2>1. WithRoom(jobs) = [i \in kept |-> jobs[i]]
    BY <1>4 DEF WithRoom, Restrict
  <2>2. Cardinality(DOMAIN jobs) = MaxJobs
    BY <1>1, <1>2, <1>4
  <2>3. DOMAIN jobs # {}
    BY <1>1, <2>2, FS_EmptySet
  <2>4. Min(DOMAIN jobs) \in DOMAIN jobs
    BY <1>1, <2>3, LeastConversion
  <2>5. IsFiniteSet(kept) /\ Cardinality(kept) = MaxJobs - 1
    BY <1>2, <2>2, <2>4, FS_RemoveElement
  <2>6. Cardinality(kept \cup {j}) <= Cardinality(kept) + 1
    <3> HIDE DEF kept
    <3>1. Cardinality(kept) \in Nat
      BY <1>1, <2>5
    <3> QED
      BY <2>5, <3>1, OneMore
  <2>7. Cardinality(kept \cup {j}) \in Nat
    BY <1>1, ConversionsAreFinite
  <2>8. Cardinality(kept \cup {j}) <= MaxJobs
    <3> HIDE DEF kept
    <3> QED
      BY <1>1, <2>5, <2>6, <2>7
  <2> QED
    BY <2>1, <2>8
<1> QED
  BY <1>3, <1>4

(* _MAX_PENDING_DRAFTS: the latest drafts stay. *)
LEMMA DraftsHaveRoom ==
    ASSUME NEW held \in SUBSET Conversions, NEW j \in Conversions
    PROVE  /\ WithDraft(held, j) \subseteq Conversions
           /\ Cardinality(WithDraft(held, j)) <= MaxDrafts
<1> DEFINE later(i) == {k \in held : k > i}
           kept == {i \in held : Cardinality(later(i)) < MaxDrafts - 1}
<1>1. WithDraft(held, j) = kept \cup {j}
  BY DEF WithDraft
<1>2. kept \in SUBSET Conversions /\ MaxDrafts \in Nat \ {0}
  BY PersonaAssumption
<1>3. Cardinality(kept) <= MaxDrafts - 1
  <2>1. CASE kept = {}
    <3>1. Cardinality(kept) = 0
      BY <2>1, FS_EmptySet
    <3> QED
      BY <1>2, <3>1
  <2>2. CASE kept # {}
    <3> DEFINE l == Min(kept)
    <3>1. l \in kept /\ \A i \in kept : l <= i
      BY <1>2, <2>2, LeastConversion
    <3>2. later(l) \in SUBSET Conversions /\ Cardinality(later(l)) < MaxDrafts - 1
      BY <3>1
    <3>3. kept \ {l} \in SUBSET later(l)
      <4>1. \A i \in kept : i \in Nat /\ i \in held
        BY <1>2, PersonaAssumption DEF Conversions
      <4> HIDE DEF l, kept
      <4>2. \A i \in kept \ {l} : i > l
        BY <3>1, <4>1
      <4> QED
        BY <4>1, <4>2
    <3>4. Cardinality(kept \ {l}) <= Cardinality(later(l))
      BY <3>2, <3>3, FewerConversions
    <3>5. Cardinality(kept \ {l}) = Cardinality(kept) - 1
      <4>1. IsFiniteSet(kept)
        BY <1>2, ConversionsAreFinite
      <4> HIDE DEF kept, l
      <4> QED
        BY <3>1, <4>1, FS_RemoveElement
    <3>6. Cardinality(kept) \in Nat /\ Cardinality(later(l)) \in Nat
      BY <1>2, <3>2, ConversionsAreFinite
    <3> HIDE DEF kept, l, later
    <3> QED
      BY <1>2, <3>2, <3>4, <3>5, <3>6
  <2> QED
    BY <2>1, <2>2
<1>4. IsFiniteSet(kept) /\ Cardinality(kept) \in Nat /\ Cardinality(kept \cup {j}) \in Nat
  BY <1>2, ConversionsAreFinite
<1> HIDE DEF kept
<1>5. Cardinality(kept \cup {j}) <= Cardinality(kept) + 1
  BY <1>4, OneMore
<1>6. Cardinality(kept \cup {j}) <= MaxDrafts
  BY <1>2, <1>3, <1>4, <1>5
<1> QED
  BY <1>1, <1>2, <1>6

-----------------------------------------------------------------------------
(* Steps of a conversion. *)

LEMMA ToldFacts ==
    ASSUME JobTypes, NEW j, NEW status \in Statuses, Told(j, status)
    PROVE  /\ DOMAIN jobs' = DOMAIN jobs
           /\ \A i \in DOMAIN jobs : jobs'[i] = IF i = j THEN status ELSE jobs[i]
BY DEF Told

(* A step that leaves the library alone and does not add to many drafts. *)
LEMMA ConversionStep ==
    ASSUME PersonaInv, UNCHANGED libraryVars, JobTypes', JobInv',
           drafts' \subseteq drafts \/ Cardinality(drafts') <= MaxDrafts
    PROVE  PersonaInv'
<1>1. UNCHANGED <<store, active, committed, runtime, work, settings, stale, orphaned>>
  BY DEF libraryVars, idVars, pastVars
<1>2. LibraryTypes' /\ LibraryInv' /\ TakenOut' = TakenOut
  BY <1>1 DEF PersonaInv, LibraryTypes, LibraryInv, IdsAgree, OperationAgrees, RuntimeAgrees,
       Stored, PromptOf, TakenOut
<1>3. DraftInv'
  <2>1. Cardinality(drafts) \in Nat /\ Cardinality(drafts') \in Nat
    BY ConversionsAreFinite DEF PersonaInv, JobTypes
  <2>2. TakenOut \in 0..1 /\ MaxDrafts \in Nat
    BY PersonaAssumption DEF TakenOut
  <2>3. CASE drafts' \subseteq drafts
    <3>1. Cardinality(drafts') <= Cardinality(drafts)
      BY <2>3, FewerConversions DEF PersonaInv, JobTypes
    <3> QED
      BY <1>2, <2>1, <2>2, <3>1 DEF PersonaInv, DraftInv
  <2>4. CASE Cardinality(drafts') <= MaxDrafts
    BY <1>2, <2>1, <2>2, <2>4 DEF DraftInv
  <2> QED
    BY <2>3, <2>4
<1> QED
  BY <1>2, <1>3 DEF PersonaInv

LEMMA StartConversionKeeps ==
    ASSUME PersonaInv, NEW j \in Conversions, StartConversion(j) PROVE PersonaInv'
<1> DEFINE known == WithRoom(jobs)
<1>1. /\ DOMAIN known \subseteq DOMAIN jobs /\ \A i \in DOMAIN known : known[i] = jobs[i]
      /\ Cardinality(DOMAIN known \cup {j}) <= MaxJobs
  BY JobsHaveRoom DEF PersonaInv
<1>2. /\ closing = "open" /\ Unfinished = {} /\ tasks[j] = "none"
      /\ {i \in Conversions : tasks[i] = "converting"} = {}
      /\ jobs' = [i \in DOMAIN known \cup {j} |-> IF i = j THEN "queued" ELSE known[i]]
      /\ tasks' = [tasks EXCEPT ![j] = "created"]
      /\ UNCHANGED <<aborting, cancelling, closing, drafts, libraryVars>>
  BY DEF StartConversion
<1> HIDE DEF known
<1>3. Alive = {}
  BY <1>2 DEF Alive, Unfinished, PersonaInv, JobInv
<1>4. Alive' = {j}
  BY <1>2, <1>3 DEF Alive, PersonaInv, JobTypes
<1>5. JobTypes'
  BY <1>1, <1>2, <1>3, <1>4 DEF PersonaInv, JobTypes, Statuses
<1>6. JobInv'
  <2>1. DOMAIN jobs' = DOMAIN known \cup {j} /\ jobs'[j] = "queued"
    BY <1>2
  <2>2. \A i \in Conversions : tasks'[i] = "created" => i = j
    BY <1>2, <1>4 DEF Alive
  <2> QED
    BY <1>1, <1>2, <1>4, <2>1, <2>2 DEF JobInv
<1> QED
  BY <1>2, <1>5, <1>6, ConversionStep

LEMMA RunJobKeeps == ASSUME PersonaInv, NEW j \in Conversions, RunJob(j) PROVE PersonaInv'
<1>1. /\ tasks[j] = "created" /\ tasks' = [tasks EXCEPT ![j] = "converting"]
      /\ UNCHANGED <<aborting, cancelling, closing, drafts, libraryVars>>
  BY DEF RunJob
<1>2. /\ DOMAIN jobs' = DOMAIN jobs
      /\ \A i \in DOMAIN jobs : jobs'[i] = IF i = j THEN "running" ELSE jobs[i]
  BY ToldFacts DEF RunJob, PersonaInv, Statuses
<1>3. Alive' = Alive
  BY <1>1 DEF Alive, PersonaInv, JobTypes
<1>4. JobTypes'
  BY <1>1, <1>2, <1>3 DEF PersonaInv, JobTypes, Statuses
<1>5. JobInv'
  BY <1>1, <1>2, <1>3 DEF PersonaInv, JobTypes, JobInv
<1> QED
  BY <1>1, <1>4, <1>5, ConversionStep

(* A task that is over: its job may be told how. *)
LEMMA TaskOverKeeps ==
    ASSUME PersonaInv, NEW j \in Conversions, tasks[j] \in {"created", "converting"},
           tasks' = [tasks EXCEPT ![j] = "over"],
           UNCHANGED jobs \/ \E status \in Statuses : Told(j, status),
           aborting' = aborting \ {j}, UNCHANGED <<cancelling, closing, libraryVars>>,
           drafts' \subseteq Conversions, drafts' \subseteq drafts \/ Cardinality(drafts') <= MaxDrafts
    PROVE  PersonaInv'
<1>1. /\ DOMAIN jobs' = DOMAIN jobs
      /\ \A i \in DOMAIN jobs : jobs'[i] \in Statuses /\ (i # j => jobs'[i] = jobs[i])
  BY ToldFacts DEF PersonaInv, JobTypes
<1>2. Alive' = Alive \ {j}
  BY DEF Alive, PersonaInv, JobTypes
<1>3. JobTypes'
  BY <1>1, <1>2 DEF PersonaInv, JobTypes
<1>4. JobInv'
  BY <1>1, <1>2 DEF PersonaInv, JobTypes, JobInv
<1> QED
  BY <1>3, <1>4, ConversionStep

LEMMA ConversionReadyKeeps ==
    ASSUME PersonaInv, NEW j \in Conversions, ConversionReady(j) PROVE PersonaInv'
<1>1. drafts' \subseteq Conversions /\ Cardinality(drafts') <= MaxDrafts
  BY DraftsHaveRoom DEF ConversionReady, PersonaInv, JobTypes
<1>2. /\ tasks[j] = "converting" /\ tasks' = [tasks EXCEPT ![j] = "over"]
      /\ aborting' = aborting \ {j} /\ UNCHANGED <<cancelling, closing, libraryVars>>
  BY DEF ConversionReady
<1>3. \E status \in Statuses : Told(j, status)
  BY DEF ConversionReady, Statuses
<1> QED
  BY <1>1, <1>2, <1>3, TaskOverKeeps

LEMMA ConversionFailsKeeps ==
    ASSUME PersonaInv, NEW j \in Conversions, ConversionFails(j) PROVE PersonaInv'
<1>1. drafts' \subseteq Conversions /\ drafts' \subseteq drafts
  BY DEF ConversionFails, PersonaInv, JobTypes
<1>2. /\ tasks[j] = "converting" /\ tasks' = [tasks EXCEPT ![j] = "over"]
      /\ aborting' = aborting \ {j} /\ UNCHANGED <<cancelling, closing, libraryVars>>
  BY DEF ConversionFails
<1>3. \E status \in Statuses : Told(j, status)
  BY DEF ConversionFails, Statuses
<1> QED
  BY <1>1, <1>2, <1>3, TaskOverKeeps

LEMMA TaskAbortedKeeps ==
    ASSUME PersonaInv, NEW j \in Conversions, TaskAborted(j) PROVE PersonaInv'
<1>1. drafts' \subseteq Conversions /\ drafts' \subseteq drafts
  BY DEF TaskAborted, PersonaInv, JobTypes
<1>2. /\ tasks[j] \in {"created", "converting"} /\ tasks' = [tasks EXCEPT ![j] = "over"]
      /\ aborting' = aborting \ {j} /\ UNCHANGED <<cancelling, closing, libraryVars>>
  BY DEF TaskAborted, PersonaInv, JobTypes, Alive
<1>3. UNCHANGED jobs \/ \E status \in Statuses : Told(j, status)
  BY DEF TaskAborted, Statuses
<1> QED
  BY <1>1, <1>2, <1>3, TaskOverKeeps

LEMMA CancelConversionKeeps ==
    ASSUME PersonaInv, NEW j \in Conversions, CancelConversion(j) PROVE PersonaInv'
<1>1. /\ aborting' = aborting \cup ({j} \cap Alive) /\ cancelling' = cancelling \cup {j}
      /\ UNCHANGED <<jobs, tasks, closing, drafts, libraryVars>>
  BY DEF CancelConversion
<1>2. JobTypes' /\ JobInv'
  BY <1>1 DEF PersonaInv, JobTypes, JobInv, Alive
<1> QED
  BY <1>1, <1>2, ConversionStep

LEMMA CancelAnsweredKeeps ==
    ASSUME PersonaInv, NEW j \in Conversions, CancelAnswered(j) PROVE PersonaInv'
<1>1. /\ j \notin Alive /\ cancelling' = cancelling \ {j}
      /\ UNCHANGED <<tasks, aborting, closing, drafts, libraryVars>>
  BY DEF CancelAnswered
<1>2. /\ DOMAIN jobs' = DOMAIN jobs
      /\ \A i \in DOMAIN jobs : jobs'[i] \in Statuses /\ (i # j => jobs'[i] = jobs[i])
  BY ToldFacts DEF CancelAnswered, PersonaInv, JobTypes, Statuses
<1>3. Alive' = Alive
  BY <1>1 DEF Alive
<1>4. JobTypes'
  BY <1>1, <1>2, <1>3 DEF PersonaInv, JobTypes
<1>5. JobInv'
  BY <1>1, <1>2, <1>3 DEF PersonaInv, JobInv, Alive
<1> QED
  BY <1>1, <1>4, <1>5, ConversionStep

LEMMA JobExpiresKeeps ==
    ASSUME PersonaInv, NEW j \in Conversions, JobExpires(j) PROVE PersonaInv'
<1>1. /\ j \in DOMAIN jobs /\ j \notin Unfinished /\ jobs' = [i \in DOMAIN jobs \ {j} |-> jobs[i]]
      /\ UNCHANGED <<tasks, aborting, cancelling, closing, drafts, libraryVars>>
  BY DEF JobExpires, Restrict
<1>2. Alive' = Alive /\ tasks[j] # "created"
  BY <1>1 DEF Alive, Unfinished, PersonaInv, JobInv
<1>3. JobTypes'
  BY <1>1, <1>2 DEF PersonaInv, JobTypes
<1>4. Cardinality(DOMAIN jobs') <= MaxJobs
  <2>1. DOMAIN jobs' \in SUBSET DOMAIN jobs /\ DOMAIN jobs \in SUBSET Conversions
    BY <1>1 DEF PersonaInv, JobTypes
  <2>2. /\ Cardinality(DOMAIN jobs') <= Cardinality(DOMAIN jobs)
        /\ Cardinality(DOMAIN jobs') \in Nat /\ Cardinality(DOMAIN jobs) \in Nat
    BY <2>1, FewerConversions, ConversionsAreFinite
  <2> QED
    BY <2>2, PersonaAssumption DEF PersonaInv, JobInv
<1>5. JobInv'
  BY <1>1, <1>2, <1>4 DEF PersonaInv, JobInv
<1> QED
  BY <1>1, <1>3, <1>5, ConversionStep

LEMMA DraftExpiresKeeps ==
    ASSUME PersonaInv, NEW j \in Conversions, DraftExpires(j) PROVE PersonaInv'
<1>1. /\ UNCHANGED <<jobs, tasks, aborting, cancelling, closing, libraryVars>>
      /\ drafts' \subseteq drafts
  BY DEF DraftExpires, jobVars
<1>2. JobTypes' /\ JobInv'
  BY <1>1 DEF PersonaInv, JobTypes, JobInv, Alive
<1> QED
  BY <1>1, <1>2, ConversionStep

LEMMA CloseKeeps == ASSUME PersonaInv, Close PROVE PersonaInv'
<1>1. /\ closing' = "closing" /\ aborting' = aborting \cup Alive
      /\ UNCHANGED <<jobs, tasks, cancelling, drafts, libraryVars>>
  BY DEF Close
<1>2. JobTypes' /\ JobInv'
  BY <1>1 DEF PersonaInv, JobTypes, JobInv, Alive
<1> QED
  BY <1>1, <1>2, ConversionStep

LEMMA NoJobs == Cardinality(DOMAIN << >>) <= MaxJobs /\ DOMAIN << >> = {}
<1>1. DOMAIN << >> = {}
  OBVIOUS
<1> QED
  BY <1>1, FS_EmptySet, PersonaAssumption

LEMMA ClosedKeeps == ASSUME PersonaInv, Closed PROVE PersonaInv'
<1>1. /\ closing' = "closed" /\ jobs' = << >> /\ drafts' = {} /\ Alive = {}
      /\ UNCHANGED <<tasks, aborting, cancelling, libraryVars>>
  BY DEF Closed
<1>2. Alive' = {} /\ DOMAIN jobs' = {} /\ Cardinality(DOMAIN jobs') <= MaxJobs
  BY <1>1, NoJobs DEF Alive
<1>3. JobTypes'
  BY <1>1, <1>2 DEF PersonaInv, JobTypes
<1>4. JobInv'
  BY <1>1, <1>2 DEF JobInv, Alive
<1> QED
  BY <1>1, <1>3, <1>4, ConversionStep

-----------------------------------------------------------------------------
(* Steps of the library. *)

(* A step that leaves the jobs alone. *)
LEMMA LibraryStep ==
    ASSUME PersonaInv, UNCHANGED jobVars, LibraryTypes', LibraryInv', drafts' \subseteq Conversions,
           DraftInv'
    PROVE  PersonaInv'
<1>1. UNCHANGED <<jobs, tasks, aborting, cancelling, closing>>
  BY DEF jobVars
<1>2. JobTypes' /\ JobInv'
  BY <1>1 DEF PersonaInv, JobTypes, JobInv, Alive
<1> QED
  BY <1>2 DEF PersonaInv

(* What is at work tells what it carries. *)
LEMMA WorkFacts ==
    ASSUME LibraryTypes
    PROVE  /\ work.op \in {"none", "save", "activate", "activating", "delete"}
           /\ work.op = "save" => /\ work.profile \in Profiles /\ work.prompt \in Prompts
                                  /\ work.token \in Conversions \cup {NoDraft}
           /\ work.op \in {"activate", "activating"} => /\ work.profile \in Profiles \cup {Nobody}
                                                       /\ work.prompt \in Prompts \cup {Nobody}
           /\ work.op = "delete" => work.profile \in Profiles /\ work.blind \in BOOLEAN
BY DEF LibraryTypes, PersonaOps, Idle

LEMMA FreeLock == Idle.op = "none" /\ Idle \in PersonaOps
BY DEF Idle, PersonaOps

(* A save begins, with a draft or without. *)
LEMMA SaveProfileKeeps ==
    ASSUME PersonaInv, NEW p \in Profiles, NEW prompt \in Prompts, NEW token \in drafts \cup {NoDraft},
           SaveProfile(p, prompt, token)
    PROVE  PersonaInv'
<1> DEFINE w == [op |-> "save", profile |-> p, prompt |-> prompt, token |-> token]
<1>1. /\ work = Idle /\ drafts' = drafts \ {token} /\ work' = w
      /\ UNCHANGED <<jobVars, store, active, committed, runtime, settings, stale,
                     orphaned>>
  BY DEF SaveProfile, idVars, pastVars
<1>2. w \in PersonaOps /\ w.op = "save" /\ w.token = token
  BY DEF PersonaOps, PersonaInv, JobTypes
<1> HIDE DEF w
<1>3. LibraryTypes' /\ LibraryInv'
  BY <1>1, <1>2, FreeLock DEF PersonaInv, LibraryTypes, LibraryInv, IdsAgree, OperationAgrees, RuntimeAgrees,
       Stored, PromptOf
<1>4. drafts' \subseteq Conversions
  BY <1>1 DEF PersonaInv, JobTypes
<1>5. DraftInv'
  <2>1. TakenOut = 0
    BY <1>1, FreeLock DEF TakenOut
  <2>2. IsFiniteSet(drafts) /\ Cardinality(drafts) \in Nat /\ MaxDrafts \in Nat
    BY ConversionsAreFinite, PersonaAssumption DEF PersonaInv, JobTypes
  <2>3. Cardinality(drafts) <= MaxDrafts + 1
    BY <2>1, <2>2 DEF PersonaInv, DraftInv
  <2>4. NoDraft \notin drafts
    BY PersonaAssumption DEF PersonaInv, JobTypes, Conversions, NoDraft
  <2>5. CASE token = NoDraft
    <3>1. TakenOut' = 0 /\ drafts' = drafts
      BY <1>1, <1>2, <2>4, <2>5 DEF TakenOut
    <3> QED
      BY <2>2, <2>3, <3>1 DEF DraftInv
  <2>6. CASE token # NoDraft
    <3>1. TakenOut' = 1
      BY <1>1, <1>2, <2>6 DEF TakenOut
    <3>2. Cardinality(drafts') = Cardinality(drafts) - 1
      BY <1>1, <2>2, <2>6, FS_RemoveElement
    <3> QED
      BY <2>2, <2>3, <3>1, <3>2 DEF DraftInv
  <2> QED
    BY <2>5, <2>6
<1> QED
  BY <1>1, <1>3, <1>4, <1>5, LibraryStep

(* The lock is given back. *)
LEMMA LockGivenBack ==
    ASSUME PersonaInv, work' = Idle, UNCHANGED <<jobVars, drafts>>, LibraryTypes', LibraryInv'
    PROVE  PersonaInv'
<1>1. TakenOut' = 0
  BY FreeLock DEF TakenOut
<1>2. Cardinality(drafts) \in Nat /\ MaxDrafts \in Nat /\ TakenOut \in 0..1
  BY ConversionsAreFinite, PersonaAssumption DEF PersonaInv, JobTypes, TakenOut
<1>3. DraftInv'
  BY <1>1, <1>2 DEF PersonaInv, DraftInv
<1> QED
  BY <1>3, LibraryStep DEF PersonaInv, JobTypes

LEMMA ProfileWrittenKeeps == ASSUME PersonaInv, ProfileWritten PROVE PersonaInv'
<1>1. /\ work.op = "save" /\ store' = [store EXCEPT ![work.profile] = work.prompt]
      /\ work.profile = active => runtime' = work.prompt /\ stale' = FALSE
      /\ work.profile # active => runtime' = runtime /\ stale' = (stale \/ (InDoubt /\ work.profile = committed))
      /\ work' = Idle /\ UNCHANGED <<jobVars, drafts, active, committed, settings, orphaned>>
  BY DEF ProfileWritten, Write, idVars
<1>2. work.profile \in Profiles /\ work.prompt \in Prompts
  BY <1>1, WorkFacts DEF PersonaInv
<1>3. work.profile # Nobody /\ work.prompt # Nobody
  BY <1>2, PersonaAssumption
<1>4. LibraryTypes'
  BY <1>1, <1>2, FreeLock DEF PersonaInv, LibraryTypes
<1>5. IdsAgree' /\ OperationAgrees'
  BY <1>1, FreeLock DEF PersonaInv, LibraryInv, IdsAgree, OperationAgrees
<1>6. RuntimeAgrees'
  <2>1. store'[work.profile] = work.prompt /\ \A p \in Profiles \ {work.profile} : store'[p] = store[p]
    BY <1>1, <1>2 DEF PersonaInv, LibraryTypes
  <2>2. orphaned' \/ committed \in Stored' \cup {Nobody}
    BY <1>1, <1>2, <1>3, <2>1 DEF PersonaInv, LibraryInv, RuntimeAgrees, Stored
  <2>3. ASSUME settings.at # "starting", ~stale' PROVE runtime' = PromptOf(committed)'
    <3>1. CASE work.profile = active
      <4>1. committed = work.profile
        BY <1>1, <1>3, <3>1 DEF PersonaInv, LibraryInv, IdsAgree
      <4> QED
        BY <1>1, <1>3, <2>1, <3>1, <4>1 DEF PromptOf
    <3>2. CASE work.profile # active
      <4>1. ~stale /\ work.profile # committed /\ runtime' = runtime
        BY <1>1, <1>3, <2>3, <3>2 DEF PersonaInv, LibraryTypes, LibraryInv, IdsAgree, InDoubt
      <4>2. runtime = PromptOf(committed)
        BY <2>3, <4>1 DEF PersonaInv, LibraryInv, RuntimeAgrees
      <4>3. committed' = committed /\ (committed # Nobody => store'[committed] = store[committed])
        BY <1>1, <2>1, <4>1 DEF PersonaInv, LibraryTypes
      <4> QED
        BY <4>1, <4>2, <4>3 DEF PromptOf
    <3> QED
      BY <3>1, <3>2
  <2> QED
    BY <1>1, <2>2, <2>3 DEF RuntimeAgrees
<1> QED
  BY <1>1, <1>4, <1>5, <1>6, LockGivenBack DEF LibraryInv

LEMMA SaveFailsKeeps == ASSUME PersonaInv, SaveFails PROVE PersonaInv'
<1>1. /\ work.op = "save" /\ work' = Idle /\ UNCHANGED <<jobVars, store, active, committed, runtime, settings, stale,
                     orphaned>>
      /\ drafts' = drafts \/ (work.token # NoDraft /\ drafts' = drafts \cup {work.token})
  BY DEF SaveFails, idVars, pastVars
<1>2. LibraryTypes' /\ LibraryInv'
  BY <1>1, FreeLock DEF PersonaInv, LibraryTypes, LibraryInv, IdsAgree, OperationAgrees, RuntimeAgrees,
       Stored, PromptOf
<1>3. work.token \in Conversions \cup {NoDraft}
  BY <1>1, WorkFacts DEF PersonaInv
<1>4. CASE drafts' = drafts
  BY <1>1, <1>2, <1>4, LockGivenBack
<1>5. CASE work.token # NoDraft /\ drafts' = drafts \cup {work.token}
  <2>1. drafts' \subseteq Conversions
    BY <1>3, <1>5 DEF PersonaInv, JobTypes
  <2>2. /\ IsFiniteSet(drafts) /\ Cardinality(drafts) \in Nat /\ Cardinality(drafts') \in Nat
        /\ MaxDrafts \in Nat
    BY <2>1, ConversionsAreFinite, PersonaAssumption DEF PersonaInv, JobTypes
  <2>3. Cardinality(drafts') <= Cardinality(drafts) + 1
    BY <1>5, <2>2, OneMore
  <2>4. TakenOut = 1 /\ TakenOut' = 0
    BY <1>1, <1>5, FreeLock DEF TakenOut
  <2>5. DraftInv'
    BY <2>2, <2>3, <2>4 DEF PersonaInv, DraftInv
  <2> QED
    BY <1>1, <1>2, <2>1, <2>5, LibraryStep
<1> QED
  BY <1>1, <1>4, <1>5

(* An operation that does not take a draft begins. *)
LEMMA LockTaken ==
    ASSUME PersonaInv, work = Idle, UNCHANGED <<jobVars, drafts, store, active, committed, runtime, settings, stale,
                     orphaned>>,
           work' \in PersonaOps, work'.op \in {"activate", "delete"}, LibraryInv'
    PROVE  PersonaInv'
<1>1. LibraryTypes'
  BY DEF PersonaInv, LibraryTypes
<1>2. DraftInv'
  BY FreeLock DEF PersonaInv, DraftInv, TakenOut
<1> QED
  BY <1>1, <1>2, LibraryStep DEF PersonaInv, JobTypes

LEMMA PromptFacts ==
    ASSUME LibraryTypes, NEW p \in Profiles \cup {Nobody}
    PROVE  PromptOf(p) \in Prompts \cup {Nobody}
BY DEF LibraryTypes, PromptOf

LEMMA ActivateKeeps ==
    ASSUME PersonaInv, NEW p \in Profiles \cup {Nobody}, Activate(p) PROVE PersonaInv'
<1> DEFINE w == [op |-> "activate", profile |-> p, prompt |-> PromptOf(p)]
<1>1. /\ work = Idle /\ p \in Stored \cup {Nobody} /\ work' = w
      /\ UNCHANGED <<jobVars, drafts, store, active, committed, runtime, settings, stale,
                     orphaned>>
  BY DEF Activate, idVars, pastVars
<1>2. PromptOf(p) \in Prompts \cup {Nobody}
  BY PromptFacts DEF PersonaInv
<1>3. w \in PersonaOps /\ w.op = "activate" /\ w.profile = p /\ w.prompt = PromptOf(p)
  BY <1>2 DEF PersonaOps
<1> HIDE DEF w
<1>4. LibraryInv'
  BY <1>1, <1>3, FreeLock DEF PersonaInv, LibraryInv, IdsAgree, OperationAgrees, RuntimeAgrees,
       Stored, PromptOf
<1> QED
  BY <1>1, <1>3, <1>4, LockTaken

LEMMA ActivationTakenKeeps == ASSUME PersonaInv, ActivationTaken PROVE PersonaInv'
<1>1. /\ work.op = "activate" /\ settings.at # "saving" /\ active' = work.profile
      /\ work' = [work EXCEPT !.op = "activating"]
      /\ UNCHANGED <<jobVars, drafts, store, committed, runtime, settings, stale, orphaned>>
  BY DEF ActivationTaken, pastVars
<1>2. work \in [op : {"activate", "activating"}, profile : Profiles \cup {Nobody}, prompt : Prompts \cup {Nobody}]
  BY <1>1 DEF PersonaInv, LibraryTypes, PersonaOps, Idle
<1>3. /\ work' \in PersonaOps /\ work'.op = "activating"
      /\ work'.profile = work.profile /\ work'.prompt = work.prompt
  BY <1>1, <1>2 DEF PersonaOps
<1>4. LibraryTypes'
  BY <1>1, <1>2, <1>3 DEF PersonaInv, LibraryTypes
<1>5. LibraryInv'
  BY <1>1, <1>3 DEF PersonaInv, LibraryInv, IdsAgree, OperationAgrees, RuntimeAgrees,
       Stored, PromptOf
<1>6. DraftInv'
  BY <1>1, <1>3 DEF PersonaInv, DraftInv, TakenOut
<1> QED
  BY <1>1, <1>4, <1>5, <1>6, LibraryStep DEF PersonaInv, JobTypes

LEMMA ActivationSavedKeeps == ASSUME PersonaInv, ActivationSaved PROVE PersonaInv'
<1>1. /\ work.op = "activating" /\ committed' = work.profile /\ runtime' = work.prompt
      /\ stale' = FALSE /\ orphaned' = FALSE
      /\ work' = Idle /\ UNCHANGED <<jobVars, drafts, store, active, settings>>
  BY DEF ActivationSaved
<1>2. LibraryTypes'
  BY <1>1, WorkFacts, FreeLock DEF PersonaInv, LibraryTypes
<1>3. LibraryInv'
  BY <1>1, FreeLock DEF PersonaInv, LibraryInv, IdsAgree, OperationAgrees, RuntimeAgrees,
       Stored, PromptOf
<1> QED
  BY <1>1, <1>2, <1>3, LockGivenBack

(* The id that was put back is the one saved last. *)
LEMMA ActivationRefusedKeeps == ASSUME PersonaInv, ActivationRefused PROVE PersonaInv'
<1>1. /\ work.op = "activating" /\ active' = committed /\ work' = Idle
      /\ UNCHANGED <<jobVars, drafts, store, committed, runtime, settings, stale, orphaned>>
  BY DEF ActivationRefused, pastVars
<1>2. LibraryTypes'
  BY <1>1, FreeLock DEF PersonaInv, LibraryTypes
<1>3. LibraryInv'
  BY <1>1, FreeLock DEF PersonaInv, LibraryInv, IdsAgree, OperationAgrees, RuntimeAgrees,
       Stored, PromptOf
<1> QED
  BY <1>1, <1>2, <1>3, LockGivenBack

LEMMA DeleteKeeps == ASSUME PersonaInv, NEW p \in Profiles, Delete(p) PROVE PersonaInv'
<1> DEFINE w == [op |-> "delete", profile |-> p, blind |-> InDoubt]
<1>1. /\ work = Idle /\ p # active /\ work' = w
      /\ UNCHANGED <<jobVars, drafts, store, active, committed, runtime, settings, stale, orphaned>>
  BY DEF Delete, idVars, pastVars
<1>2. w \in PersonaOps /\ w.op = "delete" /\ w.profile = p /\ w.blind = InDoubt
  BY DEF PersonaOps, InDoubt
<1> HIDE DEF w
<1>3. p = committed => w.blind
  BY <1>1, <1>2, FreeLock DEF PersonaInv, LibraryInv, IdsAgree, InDoubt
<1>4. LibraryInv'
  BY <1>1, <1>2, <1>3, FreeLock DEF PersonaInv, LibraryInv, IdsAgree, OperationAgrees, RuntimeAgrees,
       Stored, PromptOf
<1> QED
  BY <1>1, <1>2, <1>4, LockTaken

LEMMA DeletedKeeps == ASSUME PersonaInv, Deleted PROVE PersonaInv'
<1>1. /\ work.op = "delete" /\ store' = [store EXCEPT ![work.profile] = Nobody]
      /\ stale' = (stale \/ (work.blind /\ work.profile = committed))
      /\ orphaned' = (orphaned \/ (work.blind /\ work.profile = committed))
      /\ work' = Idle /\ UNCHANGED <<jobVars, drafts, active, committed, runtime, settings>>
  BY DEF Deleted, idVars
<1>2. work.profile \in Profiles /\ work.blind \in BOOLEAN /\ stale \in BOOLEAN /\ orphaned \in BOOLEAN
  BY <1>1, WorkFacts DEF PersonaInv, LibraryTypes
<1>3. LibraryTypes'
  BY <1>1, <1>2, FreeLock DEF PersonaInv, LibraryTypes
<1>4. IdsAgree' /\ OperationAgrees'
  BY <1>1, FreeLock DEF PersonaInv, LibraryInv, IdsAgree, OperationAgrees
<1>5. RuntimeAgrees'
  <2>1. CASE work.profile = committed
    <3>1. work.blind
      BY <1>1, <2>1 DEF PersonaInv, LibraryInv, OperationAgrees
    <3>2. stale' /\ orphaned'
      BY <1>1, <2>1, <3>1
    <3> QED
      BY <3>2 DEF RuntimeAgrees
  <2>2. CASE work.profile # committed
    <3>1. committed # Nobody => store'[committed] = store[committed]
      BY <1>1, <2>2 DEF PersonaInv, LibraryTypes
    <3>2. stale' = stale /\ orphaned' = orphaned
      BY <1>1, <1>2, <2>2
    <3>3. PromptOf(committed)' = PromptOf(committed)
      BY <1>1, <3>1 DEF PromptOf
    <3>4. orphaned' \/ committed \in Stored' \cup {Nobody}
      BY <3>1, <3>2 DEF PersonaInv, LibraryInv, RuntimeAgrees, Stored
    <3> QED
      BY <1>1, <3>2, <3>3, <3>4 DEF PersonaInv, LibraryInv, RuntimeAgrees
  <2> QED
    BY <2>1, <2>2
<1> QED
  BY <1>1, <1>3, <1>4, <1>5, LockGivenBack DEF LibraryInv

LEMMA OperationFailsKeeps == ASSUME PersonaInv, OperationFails PROVE PersonaInv'
<1>1. /\ work.op \in {"activate", "delete"} /\ work' = Idle
      /\ UNCHANGED <<jobVars, drafts, store, active, committed, runtime, settings, stale, orphaned>>
  BY DEF OperationFails, idVars, pastVars
<1>2. LibraryTypes' /\ LibraryInv'
  BY <1>1, FreeLock DEF PersonaInv, LibraryTypes, LibraryInv, IdsAgree, OperationAgrees, RuntimeAgrees,
       Stored, PromptOf
<1> QED
  BY <1>1, <1>2, LockGivenBack

-----------------------------------------------------------------------------
(* Outside of the lock. *)

(* The lock is left alone. *)
LEMMA LockKept ==
    ASSUME PersonaInv, UNCHANGED <<jobVars, drafts, work>>, LibraryTypes', LibraryInv'
    PROVE  PersonaInv'
<1>1. DraftInv'
  BY DEF PersonaInv, DraftInv, TakenOut
<1> QED
  BY <1>1, LibraryStep DEF PersonaInv, JobTypes

LEMMA SettingsFacts ==
    /\ \A a \in {"idle", "saving", "resolving"} : [at |-> a] \in PersonaSaves
    /\ \A a \in {"loading", "starting"}, p \in Profiles \cup {Nobody} : [at |-> a, profile |-> p] \in PersonaSaves
    /\ \A s \in PersonaSaves : s.at \in {"loading", "starting"} => s.profile \in Profiles \cup {Nobody}
BY DEF PersonaSaves

LEMMA SaveSettingsKeeps == ASSUME PersonaInv, SaveSettings PROVE PersonaInv'
<1>1. /\ settings.at = "idle" /\ work.op # "activating"
      /\ active' = Nobody /\ settings' = [at |-> "saving"]
      /\ UNCHANGED <<jobVars, drafts, store, committed, runtime, work, stale, orphaned>>
  BY DEF SaveSettings, pastVars
<1>2. LibraryTypes'
  BY <1>1, SettingsFacts DEF PersonaInv, LibraryTypes
<1>3. LibraryInv'
  BY <1>1 DEF PersonaInv, LibraryInv, IdsAgree, OperationAgrees, RuntimeAgrees,
       Stored, PromptOf
<1> QED
  BY <1>1, <1>2, <1>3, LockKept

LEMMA SettingsSavedKeeps == ASSUME PersonaInv, SettingsSaved PROVE PersonaInv'
<1>1. /\ settings.at = "saving" /\ committed' = Nobody /\ runtime' = Nobody
      /\ stale' = FALSE /\ orphaned' = FALSE /\ settings' = [at |-> "resolving"]
      /\ UNCHANGED <<jobVars, drafts, store, active, work>>
  BY DEF SettingsSaved
<1>2. LibraryTypes'
  BY <1>1, SettingsFacts DEF PersonaInv, LibraryTypes
<1>3. work.op = "delete" => work.profile # Nobody
  BY WorkFacts, PersonaAssumption DEF PersonaInv
<1>4. LibraryInv'
  BY <1>1, <1>3 DEF PersonaInv, LibraryInv, IdsAgree, OperationAgrees, RuntimeAgrees,
       Stored, PromptOf
<1> QED
  BY <1>1, <1>2, <1>4, LockKept

LEMMA SettingsRefusedKeeps == ASSUME PersonaInv, SettingsRefused PROVE PersonaInv'
<1>1. /\ settings.at = "saving" /\ active' = committed /\ settings' = [at |-> "idle"]
      /\ UNCHANGED <<jobVars, drafts, store, committed, runtime, work, stale, orphaned>>
  BY DEF SettingsRefused, pastVars
<1>2. LibraryTypes'
  BY <1>1, SettingsFacts DEF PersonaInv, LibraryTypes
<1>3. LibraryInv'
  BY <1>1 DEF PersonaInv, LibraryInv, IdsAgree, OperationAgrees, RuntimeAgrees,
       Stored, PromptOf
<1> QED
  BY <1>1, <1>2, <1>3, LockKept

LEMMA InitializeBeginsKeeps == ASSUME PersonaInv, InitializeBegins PROVE PersonaInv'
<1>1. settings.at = "resolving" /\ UNCHANGED <<jobVars, drafts, store, active, committed, work, orphaned>>
  BY DEF InitializeBegins, idVars
<1>2. CASE active = Nobody
  <2>1. runtime' = Nobody /\ stale' = (active # committed) /\ settings' = [at |-> "idle"]
    BY <1>2 DEF InitializeBegins
  <2>2. LibraryTypes'
    BY <1>1, <2>1, SettingsFacts DEF PersonaInv, LibraryTypes
  <2>3. LibraryInv'
    BY <1>1, <1>2, <2>1 DEF PersonaInv, LibraryInv, IdsAgree, OperationAgrees, RuntimeAgrees,
       Stored, PromptOf
  <2> QED
    BY <1>1, <2>2, <2>3, LockKept
<1>3. CASE active # Nobody
  <2>1. settings' = [at |-> "loading", profile |-> active] /\ UNCHANGED <<runtime, stale>>
    BY <1>3 DEF InitializeBegins
  <2>2. LibraryTypes'
    BY <1>1, <2>1, SettingsFacts DEF PersonaInv, LibraryTypes
  <2>3. settings'.at = "loading"
    BY <2>1
  <2>4. LibraryInv'
    BY <1>1, <2>1, <2>3 DEF PersonaInv, LibraryInv, IdsAgree, OperationAgrees, RuntimeAgrees,
       Stored, PromptOf
  <2> QED
    BY <1>1, <2>2, <2>4, LockKept
<1> QED
  BY <1>2, <1>3

LEMMA InitializeLoadedKeeps == ASSUME PersonaInv, InitializeLoaded PROVE PersonaInv'
<1>1. /\ settings.at \in {"loading", "starting"} /\ runtime' = PromptOf(settings.profile)
      /\ stale' = (settings.profile # committed) /\ settings' = [at |-> "idle"]
      /\ UNCHANGED <<jobVars, drafts, store, active, committed, work, orphaned>>
  BY DEF InitializeLoaded, idVars
<1>2. PromptOf(settings.profile) \in Prompts \cup {Nobody}
  BY <1>1, SettingsFacts, PromptFacts DEF PersonaInv, LibraryTypes
<1>3. LibraryTypes'
  BY <1>1, <1>2, SettingsFacts DEF PersonaInv, LibraryTypes
<1>4. LibraryInv'
  BY <1>1 DEF PersonaInv, LibraryInv, IdsAgree, OperationAgrees, RuntimeAgrees,
       Stored, PromptOf
<1> QED
  BY <1>1, <1>3, <1>4, LockKept

LEMMA RestartKeeps == ASSUME PersonaInv, Restart PROVE PersonaInv'
<1>1. /\ jobs' = << >> /\ tasks' = [j \in Conversions |-> IF j \in Alive THEN "over" ELSE tasks[j]]
      /\ aborting' = {} /\ cancelling' = {} /\ closing' = "open" /\ drafts' = {}
      /\ runtime' = Nobody /\ work' = Idle /\ stale' = FALSE
      /\ active' = committed /\ settings' = [at |-> "starting", profile |-> committed]
      /\ UNCHANGED <<store, committed, orphaned>>
  BY DEF Restart
<1>2. Alive' = {}
  BY <1>1 DEF Alive, PersonaInv, JobTypes
<1>3. DOMAIN jobs' = {} /\ Cardinality(DOMAIN jobs') <= MaxJobs
  BY <1>1, NoJobs
<1>4. JobTypes'
  BY <1>1, <1>2, <1>3 DEF PersonaInv, JobTypes, Alive
<1>5. JobInv'
  BY <1>1, <1>2, <1>3 DEF JobInv, Alive
<1>6. DraftInv'
  <2>1. Cardinality(drafts') = 0 /\ TakenOut' = 0
    BY <1>1, FreeLock, FS_EmptySet DEF TakenOut
  <2> QED
    BY <2>1, PersonaAssumption DEF DraftInv
<1>7. LibraryTypes'
  BY <1>1, FreeLock, SettingsFacts DEF PersonaInv, LibraryTypes
<1>8. LibraryInv'
  <2>1. settings'.at = "starting"
    BY <1>1
  <2> QED
    BY <1>1, <2>1, FreeLock DEF PersonaInv, LibraryInv, IdsAgree, OperationAgrees, RuntimeAgrees,
       Stored, PromptOf
<1> QED
  BY <1>4, <1>5, <1>6, <1>7, <1>8 DEF PersonaInv

-----------------------------------------------------------------------------
(* The invariant of the personas holds. *)

LEMMA InitHolds == Init => PersonaInv
<1> SUFFICES ASSUME Init PROVE PersonaInv
  OBVIOUS
<1>1. Alive = {}
  BY DEF Init, Alive
<1>2. DOMAIN jobs = {} /\ Cardinality(DOMAIN jobs) <= MaxJobs
  BY NoJobs DEF Init
<1>3. JobTypes
  BY <1>1, <1>2 DEF Init, JobTypes
<1>4. JobInv
  BY <1>1, <1>2 DEF Init, JobInv
<1>5. DraftInv
  <2>1. Cardinality(drafts) = 0 /\ TakenOut = 0
    BY FreeLock, FS_EmptySet DEF Init, TakenOut
  <2> QED
    BY <2>1, PersonaAssumption DEF DraftInv
<1>6. LibraryTypes
  BY FreeLock, SettingsFacts DEF Init, LibraryTypes, Stored
<1>7. LibraryInv
  <2>1. settings.at = "starting"
    BY DEF Init
  <2> QED
    BY <2>1, FreeLock DEF Init, LibraryInv, IdsAgree, OperationAgrees, RuntimeAgrees
<1> QED
  BY <1>3, <1>4, <1>5, <1>6, <1>7 DEF PersonaInv

LEMMA NextKeeps == ASSUME PersonaInv, [Next]_vars PROVE PersonaInv'
<1>1. ASSUME NEW j \in Conversions, Job(j) PROVE PersonaInv'
  BY <1>1, StartConversionKeeps, RunJobKeeps, ConversionReadyKeeps, ConversionFailsKeeps,
     TaskAbortedKeeps, CancelConversionKeeps, CancelAnsweredKeeps, JobExpiresKeeps, DraftExpiresKeeps
     DEF Job
<1>2. CASE Library
  <2>1. ASSUME NEW p \in Profiles, NEW prompt \in Prompts,
               \/ CreateConversion(p, prompt) \/ SaveConversion(p, prompt)
               \/ CreateManual(p, prompt) \/ SaveManual(p, prompt)
        PROVE  PersonaInv'
    BY <2>1, SaveProfileKeeps DEF CreateConversion, SaveConversion, CreateManual, SaveManual
  <2>2. CASE \/ \E p \in Profiles \cup {Nobody} : Activate(p)
             \/ \E p \in Profiles : Delete(p)
    BY <2>2, ActivateKeeps, DeleteKeeps
  <2>3. CASE ProfileWritten \/ SaveFails \/ Deleted \/ OperationFails
    BY <2>3, ProfileWrittenKeeps, SaveFailsKeeps, DeletedKeeps, OperationFailsKeeps
  <2>4. CASE ActivationTaken \/ ActivationSaved \/ ActivationRefused
    BY <2>4, ActivationTakenKeeps, ActivationSavedKeeps, ActivationRefusedKeeps
  <2> QED
    BY <1>2, <2>1, <2>2, <2>3, <2>4 DEF Library
<1>3. CASE Close \/ Closed
  BY <1>3, CloseKeeps, ClosedKeeps
<1>4. CASE \/ SaveSettings \/ SettingsSaved \/ SettingsRefused
           \/ InitializeBegins \/ InitializeLoaded \/ Restart
  BY <1>4, SaveSettingsKeeps, SettingsSavedKeeps, SettingsRefusedKeeps, InitializeBeginsKeeps, InitializeLoadedKeeps, RestartKeeps
<1>5. CASE UNCHANGED vars
  <2>1. UNCHANGED <<jobVars, drafts, libraryVars>>
    BY <1>5 DEF vars
  <2>2. UNCHANGED <<store, active, committed, runtime, work, settings, stale, orphaned>>
    BY <2>1 DEF libraryVars, idVars, pastVars
  <2>3. LibraryTypes' /\ LibraryInv'
    BY <2>2 DEF PersonaInv, LibraryTypes, LibraryInv, IdsAgree, OperationAgrees, RuntimeAgrees,
       Stored, PromptOf
  <2> QED
    BY <2>1, <2>2, <2>3, LockKept
<1> QED
  BY <1>1, <1>2, <1>3, <1>4, <1>5 DEF Next

LEMMA PersonaInvHolds == Spec => []PersonaInv
BY InitHolds, NextKeeps, PTL DEF Spec

-----------------------------------------------------------------------------
(* However often conversions are asked for, cancelled or repeated, no two are at work
   at once, none is once the service is closed, and jobs and drafts keep their limits
   (start_conversion, _run_conversion_job, cancel_conversion, close). *)
THEOREM OneConversionAtATimeHolds == Spec => []OneConversionAtATime
<1>1. ASSUME PersonaInv PROVE OneConversionAtATime
  <2>1. Alive \in SUBSET Conversions /\ \A i, j \in Alive : i = j
    BY <1>1 DEF PersonaInv, JobInv, Alive
  <2>2. Cardinality(Alive) <= 1
    <3>1. CASE Alive = {}
      BY <3>1, FS_EmptySet
    <3>2. CASE Alive # {}
      <4>1. PICK j : Alive = {j}
        BY <2>1, <3>2
      <4>2. Cardinality({j}) = 1
        BY FS_Singleton
      <4> QED
        BY <4>1, <4>2
    <3> QED
      BY <3>1, <3>2
  <2>3. Cardinality(drafts) <= MaxDrafts + 1
    <3>1. Cardinality(drafts) \in Nat /\ TakenOut \in 0..1 /\ MaxDrafts \in Nat
      BY <1>1, ConversionsAreFinite, PersonaAssumption DEF PersonaInv, JobTypes, TakenOut
    <3> QED
      BY <1>1, <3>1 DEF PersonaInv, DraftInv
  <2>4. TypeOK
    BY <1>1, <2>3 DEF PersonaInv, JobTypes, JobInv, LibraryTypes, TypeOK
  <2> QED
    BY <1>1, <2>2, <2>4 DEF PersonaInv, JobInv, OneConversionAtATime
<1> QED
  BY <1>1, PersonaInvHolds, PTL

(* The file of the profile that was saved last as the active one is there, and its prompt
   is in force, at every moment after the plugin has loaded it, whatever becomes of the
   saves of the id, but for what is done while an id that is not saved is in memory
   (activate, delete, _refresh_active_runtime, save_character_persona, initialize). *)
THEOREM RuntimeFollowsActiveHolds == Spec => []RuntimeFollowsActive
<1>1. PersonaInv => RuntimeFollowsActive
  BY DEF PersonaInv, LibraryInv, RuntimeAgrees, RuntimeFollowsActive
<1> QED
  BY <1>1, PersonaInvHolds, PTL

-----------------------------------------------------------------------------
(***************************************************************************)
(* The identity of Quest sessions.                                         *)
(***************************************************************************)

(* The inductive invariant. *)

Saving   == {"save", "bind", "store", "ready"}
Clearing == {"revoke", "clear"}

SaveWorks   == [step : Saving, client : Clients, platform : Platforms, account : Accounts,
            person : Persons \cup {Unset}]
Lookups == [step : {"resolve", "pend"}, person : Persons]
Clears  == [step : Clearing, preserved : BOOLEAN, client : Clients \cup {Unset},
            platform : Platforms \cup {Unset}, account : Accounts \cup {Unset}]
Closes  == [step : {"close"}, selection : BOOLEAN]

Works == {AtRest} \cup SaveWorks \cup Lookups \cup Clears \cup Closes
LockedSteps == {"bind", "store", "ready", "revoke", "clear"}

Configs  == [client : Clients \cup {Unset}, platform : Platforms \cup {Unset},
             person : Persons \cup {Unset},
             source : {"manual", "relationship", "preserved"}, sync : {"ready", "pending"}]
Adapters == [client : Clients \cup {Unset}, platform : Platforms \cup {Unset},
             person : Persons \cup {Unset}, account : Accounts \cup {Unset},
             ready : BOOLEAN]

IdentityTypes ==
    /\ config \in Configs
    /\ file \in Accounts \cup {Unset}
    /\ readOnly \in [Clients -> Accounts \cup {Unset}]
    /\ adapter \in Adapters
    /\ refreshed \in BOOLEAN
    /\ doing \in [Tasks -> Works]

(* One save at a time is past its lock; only the dashboard gives a person up. *)
LockInv ==
    /\ \A t \in Tasks : Locked(t) => \A u \in Tasks \ {t} : ~Locked(u)
    /\ doing["session"].step \notin Clearing \cup {"close"}

(* The adapter and the configuration agree; a save under way keeps both pending, and
   what it or an opt-out will put into force is what the file has then. *)
SyncInv ==
    /\ adapter.ready <=> config.sync = "ready"
    /\ adapter.ready => adapter.account = file /\ adapter.person = config.person
    /\ \A t \in Tasks : doing[t].step \in {"bind", "store", "ready"} =>
           config.sync = "pending" /\ config.person = doing[t].person
    /\ \A t \in Tasks : doing[t].step \in {"ready", "revoke", "clear"} => doing[t].account = file

(* What a save under way says of the source, and what an opt-out under way has revoked. *)
SourceInv ==
    /\ \A t \in Tasks : doing[t].step \in {"bind", "store", "ready"} =>
           config.source = IF doing[t].person = Unset THEN "manual" ELSE "relationship"
    /\ doing["dashboard"].step = "clear" /\ config.source = "relationship" =>
           readOnly[config.client] = Unset

IdentityInv == IdentityTypes /\ LockInv /\ SyncInv /\ SourceInv /\ OptOutRevokes

-----------------------------------------------------------------------------
(* Steps of a task. *)

(* The step tells what a task carries with it. *)
LEMMA Carried ==
    ASSUME NEW w \in Works
    PROVE  /\ w.step \in Saving => w \in SaveWorks
           /\ w.step \in {"resolve", "pend"} => w \in Lookups
           /\ w.step \in Clearing => w \in Clears
           /\ w.step = "close" => w \in Closes
<1>1. AtRest.step = "idle"
  BY DEF AtRest
<1>2. \A s \in SaveWorks : s.step \in Saving
  BY DEF SaveWorks
<1>3. \A s \in Lookups : s.step \in {"resolve", "pend"}
  BY DEF Lookups
<1>4. \A s \in Clears : s.step \in Clearing
  BY DEF Clears
<1>5. \A s \in Closes : s.step = "close"
  BY DEF Closes
<1>6. w = AtRest \/ w \in SaveWorks \/ w \in Lookups \/ w \in Clears \/ w \in Closes
  BY DEF Works
<1> QED
  BY <1>1, <1>2, <1>3, <1>4, <1>5, <1>6 DEF Saving, Clearing

(* One task goes on, the other stays. *)
LEMMA Moved ==
    ASSUME IdentityTypes, NEW t \in Tasks, NEW w \in Works, doing' = [doing EXCEPT ![t] = w]
    PROVE  /\ doing' \in [Tasks -> Works] /\ doing'[t] = w
           /\ \A u \in Tasks \ {t} : doing'[u] = doing[u]
BY DEF IdentityTypes, Works

(* A save goes on to its next step. *)
LEMMA SaveMoved ==
    ASSUME IdentityTypes, NEW t \in Tasks, doing[t].step \in Saving, NEW s \in Saving, Goto(t, s)
    PROVE  /\ doing[t] \in SaveWorks /\ doing'[t] \in SaveWorks
           /\ doing' \in [Tasks -> Works]
           /\ doing'[t].step = s /\ doing'[t].client = doing[t].client
           /\ doing'[t].platform = doing[t].platform
           /\ doing'[t].account = doing[t].account /\ doing'[t].person = doing[t].person
           /\ \A u \in Tasks \ {t} : doing'[u] = doing[u]
<1>1. doing[t] \in SaveWorks
  BY Carried DEF IdentityTypes, Works
<1>2. PICK w : w = [doing[t] EXCEPT !.step = s]
  OBVIOUS
<1>3. /\ w \in SaveWorks /\ w.step = s /\ w.client = doing[t].client /\ w.platform = doing[t].platform
      /\ w.account = doing[t].account /\ w.person = doing[t].person
  BY <1>1, <1>2 DEF SaveWorks
<1>4. doing' = [doing EXCEPT ![t] = w] /\ w \in Works
  BY <1>2, <1>3 DEF Goto, Works
<1>5. /\ doing' \in [Tasks -> Works] /\ doing'[t] = w
      /\ \A u \in Tasks \ {t} : doing'[u] = doing[u]
  BY <1>4, Moved
<1> QED
  BY <1>1, <1>3, <1>5

(* A step that leaves the identity alone and takes no lock. *)
LEMMA IdentityQuietKeeps ==
    ASSUME IdentityInv, NEW t \in Tasks, NEW w \in Works, doing' = [doing EXCEPT ![t] = w],
           w.step \notin LockedSteps, t = "session" => w.step # "close",
           UNCHANGED <<config, file, readOnly, adapter>>, refreshed' \in BOOLEAN
    PROVE  IdentityInv'
<1>1. /\ doing' \in [Tasks -> Works] /\ doing'[t] = w
      /\ \A u \in Tasks \ {t} : doing'[u] = doing[u]
  BY Moved DEF IdentityInv
<1>2. IdentityTypes'
  BY <1>1 DEF IdentityInv, IdentityTypes, Works
<1>3. LockInv'
  BY <1>1 DEF IdentityInv, LockInv, Locked, LockedSteps, Tasks, Clearing
<1>4. SyncInv'
  BY <1>1 DEF IdentityInv, SyncInv, LockedSteps
<1>5. SourceInv' /\ OptOutRevokes'
  BY <1>1 DEF IdentityInv, SourceInv, OptOutRevokes, LockedSteps
<1> QED
  BY <1>2, <1>3, <1>4, <1>5 DEF IdentityInv

(* What the configuration and the adapter become. *)
LEMMA Reconfigured ==
    ASSUME config \in Configs, NEW p \in Platforms \cup {Unset}, NEW x \in Persons \cup {Unset},
           NEW source \in {"manual", "relationship", "preserved"}, NEW sync \in {"ready", "pending"},
           config' = [config EXCEPT !.platform = p, !.person = x, !.source = source, !.sync = sync]
    PROVE  /\ config' \in Configs /\ config'.client = config.client
           /\ config'.source = source /\ config'.sync = sync /\ config'.person = x
BY DEF Configs

LEMMA Readapted ==
    ASSUME adapter \in Adapters, NEW b \in BOOLEAN, adapter' = [adapter EXCEPT !.ready = b]
    PROVE  adapter' \in Adapters /\ (adapter'.ready <=> b) /\ adapter'.account = adapter.account
BY DEF Adapters

-----------------------------------------------------------------------------
(* A save. *)

LEMMA SaveQuestIdentityKeeps ==
    ASSUME IdentityInv, NEW c \in Clients, NEW p \in Platforms, NEW a \in Accounts, SaveQuestIdentity(c, p, a)
    PROVE  IdentityInv'
<1> DEFINE w == [step |-> "save", client |-> c, platform |-> p, account |-> a, person |-> Unset]
<1>1. w \in Works /\ w.step = "save"
  BY DEF Works, SaveWorks, Saving
<1>2. doing' = [doing EXCEPT !["dashboard"] = w] /\ UNCHANGED <<config, file, readOnly, adapter, refreshed>>
  BY DEF SaveQuestIdentity
<1>3. "dashboard" \in Tasks /\ refreshed' \in BOOLEAN
  BY <1>2 DEF Tasks, IdentityInv, IdentityTypes
<1> HIDE DEF w
<1> QED
  BY <1>1, <1>2, <1>3, IdentityQuietKeeps DEF LockedSteps

LEMMA MarkedPendingKeeps == ASSUME IdentityInv, NEW t \in Tasks, MarkedPending(t) PROVE IdentityInv'
<1>1. /\ doing[t] \in SaveWorks /\ doing'[t] \in SaveWorks /\ doing' \in [Tasks -> Works]
      /\ doing'[t].step = "bind" /\ doing'[t].account = doing[t].account /\ doing'[t].person = doing[t].person
      /\ \A u \in Tasks \ {t} : doing'[u] = doing[u]
  BY SaveMoved DEF IdentityInv, MarkedPending, At, Saving
<1>2. /\ config' \in Configs /\ config'.sync = "pending" /\ config'.person = doing[t].person
      /\ config'.source = IF doing[t].person = Unset THEN "manual" ELSE "relationship"
  <2>1. config \in Configs
    BY DEF IdentityInv, IdentityTypes
  <2>2. CASE doing[t].person = Unset
    BY <1>1, <2>2 DEF MarkedPending, Configs, SaveWorks
  <2>3. CASE doing[t].person # Unset
    <3>1. config' = [config EXCEPT !.platform = doing[t].platform, !.person = doing[t].person,
                                   !.source = "relationship", !.sync = "pending"]
      BY <2>3 DEF MarkedPending
    <3>2. doing[t].platform \in Platforms \cup {Unset} /\ doing[t].person \in Persons \cup {Unset}
      BY <1>1 DEF SaveWorks
    <3> QED
      BY <2>1, <2>3, <3>1, <3>2, Reconfigured
  <2> QED
    BY <2>2, <2>3
<1>3. adapter' \in Adapters /\ adapter'.ready = FALSE
  BY Readapted DEF IdentityInv, IdentityTypes, MarkedPending
<1>4. \A u \in Tasks \ {t} : ~Locked(u)
  BY DEF MarkedPending, LockFree
<1>5. UNCHANGED <<file, readOnly, refreshed>>
  BY DEF MarkedPending
<1>6. IdentityTypes'
  BY <1>1, <1>2, <1>3, <1>5 DEF IdentityInv, IdentityTypes, Works
<1>7. LockInv'
  BY <1>1, <1>4 DEF IdentityInv, LockInv, Locked, Tasks, Clearing
<1>8. SyncInv'
  BY <1>1, <1>2, <1>3, <1>4 DEF IdentityInv, SyncInv, Locked
<1>9. SourceInv' /\ OptOutRevokes'
  BY <1>1, <1>2, <1>4 DEF IdentityInv, SourceInv, OptOutRevokes, Locked, Tasks
<1> QED
  BY <1>6, <1>7, <1>8, <1>9 DEF IdentityInv

LEMMA BoundKeeps ==
    ASSUME IdentityInv, NEW t \in Tasks, OwnerBound(t) \/ ReadOnlyBound(t)
    PROVE  IdentityInv'
<1>1. /\ At(t, "bind") /\ Goto(t, "store") /\ UNCHANGED <<config, file, adapter, refreshed>>
      /\ readOnly' # readOnly => doing[t].person # Unset
      /\ readOnly' \in {readOnly, [readOnly EXCEPT ![doing[t].client] = doing[t].account]}
  BY DEF OwnerBound, ReadOnlyBound
<1>2. /\ doing[t] \in SaveWorks /\ doing'[t] \in SaveWorks /\ doing' \in [Tasks -> Works]
      /\ doing'[t].step = "store"
      /\ doing'[t].account = doing[t].account /\ doing'[t].person = doing[t].person
      /\ \A u \in Tasks \ {t} : doing'[u] = doing[u]
  BY <1>1, SaveMoved DEF IdentityInv, At, Saving
<1>3. IdentityTypes'
  <2>1. doing[t].account \in Accounts
    BY <1>2 DEF SaveWorks
  <2>2. readOnly' \in [Clients -> Accounts \cup {Unset}]
    BY <1>1, <2>1 DEF IdentityInv, IdentityTypes
  <2> QED
    BY <1>1, <1>2, <2>2 DEF IdentityInv, IdentityTypes, Works
<1>4. LockInv'
  BY <1>1, <1>2 DEF IdentityInv, LockInv, Locked, At, Tasks, Clearing
<1>5. SyncInv'
  BY <1>1, <1>2 DEF IdentityInv, SyncInv, At
<1>6. SourceInv' /\ OptOutRevokes'
  <2>1. config.source = IF doing[t].person = Unset THEN "manual" ELSE "relationship"
    BY <1>1 DEF IdentityInv, SourceInv, At
  <2>2. doing["dashboard"].step # "clear" /\ doing'["dashboard"].step # "clear"
    BY <1>1, <1>2 DEF IdentityInv, LockInv, Locked, At, Tasks
  <2>3. SourceInv'
    BY <1>1, <1>2, <2>2 DEF IdentityInv, SourceInv, At
  <2> QED
    BY <1>1, <2>1, <2>3 DEF IdentityInv, OptOutRevokes
<1> QED
  BY <1>3, <1>4, <1>5, <1>6 DEF IdentityInv

LEMMA AccountStoredKeeps == ASSUME IdentityInv, NEW t \in Tasks, AccountStored(t) PROVE IdentityInv'
<1>1. /\ At(t, "store") /\ file' = doing[t].account /\ UNCHANGED <<config, readOnly, adapter, refreshed>>
  BY DEF AccountStored
<1>2. /\ doing[t] \in SaveWorks /\ doing'[t] \in SaveWorks /\ doing' \in [Tasks -> Works]
      /\ doing'[t].step = "ready"
      /\ doing'[t].account = doing[t].account /\ doing'[t].person = doing[t].person
      /\ \A u \in Tasks \ {t} : doing'[u] = doing[u]
  BY SaveMoved DEF IdentityInv, AccountStored, At, Saving
<1>3. IdentityTypes'
  <2>1. file' \in Accounts
    BY <1>1, <1>2 DEF SaveWorks
  <2> QED
    BY <1>1, <1>2, <2>1 DEF IdentityInv, IdentityTypes, Works
<1>4. LockInv'
  BY <1>1, <1>2 DEF IdentityInv, LockInv, Locked, At, Tasks, Clearing
<1>5. SyncInv'
  <2>1. config.sync = "pending" /\ ~adapter.ready
    BY <1>1 DEF IdentityInv, SyncInv, At
  <2>2. \A u \in Tasks \ {t} : doing'[u].step \notin {"bind", "store", "ready", "revoke", "clear"}
    BY <1>1, <1>2 DEF IdentityInv, LockInv, Locked, At
  <2>3. config.person = doing'[t].person
    BY <1>1, <1>2 DEF IdentityInv, SyncInv, At
  <2> QED
    BY <1>1, <1>2, <2>1, <2>2, <2>3 DEF SyncInv
<1>6. SourceInv' /\ OptOutRevokes'
  <2>1. doing["dashboard"].step = "clear" <=> doing'["dashboard"].step = "clear"
    BY <1>1, <1>2 DEF At, Tasks
  <2> QED
    BY <1>1, <1>2, <2>1 DEF IdentityInv, SourceInv, OptOutRevokes, At
<1> QED
  BY <1>3, <1>4, <1>5, <1>6 DEF IdentityInv

LEMMA MarkedReadyKeeps == ASSUME IdentityInv, NEW t \in Tasks, MarkedReady(t) PROVE IdentityInv'
<1>1. /\ At(t, "ready") /\ config' = [config EXCEPT !.sync = "ready"] /\ UNCHANGED <<file, readOnly>>
      /\ adapter' = [client |-> doing[t].client, platform |-> doing[t].platform,
                     person |-> doing[t].person, account |-> doing[t].account, ready |-> TRUE]
      /\ refreshed' \in {refreshed, TRUE}
  BY DEF MarkedReady
<1>2. doing[t] \in SaveWorks
  BY <1>1, Carried DEF IdentityInv, IdentityTypes, Works, At, Saving
<1>3. PICK w \in Works : /\ doing' = [doing EXCEPT ![t] = w] /\ w.step \in {"idle", "close"}
                         /\ t = "session" => w.step = "idle"
  <2>1. CASE t = "session"
    <3>1. doing' = [doing EXCEPT ![t] = AtRest] /\ AtRest \in Works /\ AtRest.step = "idle"
      BY <2>1 DEF MarkedReady, Finish, Works, AtRest
    <3> QED
      BY <3>1
  <2>2. CASE t # "session"
    <3> DEFINE c == [step |-> "close", selection |-> doing[t].person # Unset]
    <3>1. doing' = [doing EXCEPT ![t] = c]
      BY <2>2 DEF MarkedReady, Closing, Tasks
    <3>2. c \in Works /\ c.step = "close"
      BY DEF Works, Closes
    <3> HIDE DEF c
    <3> QED
      BY <2>2, <3>1, <3>2
  <2> QED
    BY <2>1, <2>2
<1>4. /\ doing' \in [Tasks -> Works] /\ doing'[t] = w
      /\ \A u \in Tasks \ {t} : doing'[u] = doing[u]
  BY <1>3, Moved DEF IdentityInv
<1>5. /\ config' \in Configs /\ config'.sync = "ready" /\ config'.source = config.source
      /\ config'.client = config.client /\ config'.person = config.person
  BY <1>1 DEF IdentityInv, IdentityTypes, Configs
<1>6. adapter' \in Adapters /\ adapter'.ready = TRUE /\ adapter'.account = doing[t].account
      /\ adapter'.person = doing[t].person
  BY <1>1, <1>2 DEF Adapters, SaveWorks
<1>7. \A u \in Tasks : ~Locked(u)'
  BY <1>1, <1>3, <1>4 DEF IdentityInv, LockInv, Locked, At
<1>8. IdentityTypes'
  <2>1. refreshed' \in BOOLEAN
    BY <1>1 DEF IdentityInv, IdentityTypes
  <2> QED
    BY <1>1, <1>4, <1>5, <1>6, <2>1 DEF IdentityInv, IdentityTypes, Works
<1>9. LockInv'
  BY <1>3, <1>4, <1>7 DEF IdentityInv, LockInv, Tasks, Clearing
<1>10. SyncInv'
  <2>1. doing[t].account = file /\ doing[t].person = config.person
    BY <1>1 DEF IdentityInv, SyncInv, At
  <2> QED
    BY <1>1, <1>5, <1>6, <1>7, <2>1 DEF SyncInv, Locked
<1>11. SourceInv' /\ OptOutRevokes'
  BY <1>1, <1>5, <1>7 DEF IdentityInv, SourceInv, OptOutRevokes, Locked, Tasks
<1> QED
  BY <1>8, <1>9, <1>10, <1>11 DEF IdentityInv

LEMMA StepFailsKeeps == ASSUME IdentityInv, NEW t \in Tasks, StepFails(t) PROVE IdentityInv'
<1>1. doing' = [doing EXCEPT ![t] = AtRest] /\ AtRest \in Works /\ AtRest.step = "idle"
  BY DEF StepFails, Finish, Works, AtRest
<1>2. UNCHANGED <<config, file, readOnly, adapter>> /\ refreshed' \in BOOLEAN
  BY DEF StepFails
<1> QED
  BY <1>1, <1>2, IdentityQuietKeeps DEF LockedSteps

-----------------------------------------------------------------------------
(* The relation plugin's answers. *)

LEMMA SelectPersonKeeps == ASSUME IdentityInv, NEW x \in Persons, SelectPerson(x) PROVE IdentityInv'
<1> DEFINE w == [step |-> "resolve", person |-> x]
<1>1. w \in Works /\ w.step = "resolve"
  BY DEF Works, Lookups
<1>2. doing' = [doing EXCEPT !["dashboard"] = w] /\ UNCHANGED <<config, file, readOnly, adapter, refreshed>>
  BY DEF SelectPerson
<1>3. "dashboard" \in Tasks /\ refreshed' \in BOOLEAN
  BY <1>2 DEF Tasks, IdentityInv, IdentityTypes
<1> HIDE DEF w
<1> QED
  BY <1>1, <1>2, <1>3, IdentityQuietKeeps DEF LockedSteps

LEMMA RefreshIdentityKeeps == ASSUME IdentityInv, RefreshIdentity PROVE IdentityInv'
<1>1. "session" \in Tasks /\ UNCHANGED <<config, file, readOnly, adapter>>
  BY DEF Tasks, RefreshIdentity
<1>2. CASE config.person = Unset
  <2>1. refreshed' = TRUE /\ doing' = [doing EXCEPT !["session"] = doing["session"]]
    BY <1>2 DEF RefreshIdentity, IdentityInv, IdentityTypes
  <2>2. doing["session"] \in Works /\ doing["session"].step = "idle"
    BY <1>1 DEF IdentityInv, IdentityTypes, Works, RefreshIdentity, At
  <2> QED
    BY <1>1, <2>1, <2>2, IdentityQuietKeeps DEF LockedSteps
<1>3. CASE config.person # Unset
  <2> DEFINE w == [step |-> "resolve", person |-> config.person]
  <2>1. config.person \in Persons
    BY <1>3 DEF IdentityInv, IdentityTypes, Configs
  <2>2. w \in Works /\ w.step = "resolve"
    BY <2>1 DEF Works, Lookups
  <2>3. doing' = [doing EXCEPT !["session"] = w] /\ refreshed' \in BOOLEAN
    BY <1>3 DEF RefreshIdentity, IdentityInv, IdentityTypes
  <2> HIDE DEF w
  <2> QED
    BY <1>1, <2>2, <2>3, IdentityQuietKeeps DEF LockedSteps
<1> QED
  BY <1>2, <1>3

LEMMA PersonResolvedKeeps ==
    ASSUME IdentityInv, NEW t \in Tasks, NEW p \in Platforms, NEW a \in Accounts, PersonResolved(t, p, a)
    PROVE  IdentityInv'
<1>1. UNCHANGED <<config, file, readOnly, adapter>> /\ refreshed' \in BOOLEAN
  BY DEF PersonResolved, IdentityInv, IdentityTypes
<1>2. CASE config.client = Unset
  <2>1. doing' = [doing EXCEPT ![t] = AtRest] /\ AtRest \in Works /\ AtRest.step = "idle"
    BY <1>2 DEF PersonResolved, Finish, Works, AtRest
  <2> QED
    BY <1>1, <2>1, IdentityQuietKeeps DEF LockedSteps
<1>3. CASE config.client # Unset
  <2> DEFINE w == [step |-> "save", client |-> config.client, platform |-> p, account |-> a,
                   person |-> doing[t].person]
  <2>1. doing[t].person \in Persons
    <3>1. doing[t] \in Lookups
      BY Carried DEF IdentityInv, IdentityTypes, Works, PersonResolved, At
    <3> QED
      BY <3>1 DEF Lookups
  <2>2. config.client \in Clients
    BY <1>3 DEF IdentityInv, IdentityTypes, Configs
  <2>3. w \in Works /\ w.step = "save"
    BY <2>1, <2>2 DEF Works, SaveWorks, Saving
  <2>4. doing' = [doing EXCEPT ![t] = w]
    BY <1>3 DEF PersonResolved
  <2> HIDE DEF w
  <2> QED
    BY <1>1, <2>3, <2>4, IdentityQuietKeeps DEF LockedSteps
<1> QED
  BY <1>2, <1>3

LEMMA PersonUnresolvedKeeps == ASSUME IdentityInv, NEW t \in Tasks, PersonUnresolved(t) PROVE IdentityInv'
<1>1. UNCHANGED <<config, file, readOnly, adapter>> /\ refreshed' \in BOOLEAN
  BY DEF PersonUnresolved
<1>2. CASE Finish(t)
  <2>1. doing' = [doing EXCEPT ![t] = AtRest] /\ AtRest \in Works /\ AtRest.step = "idle"
    BY <1>2 DEF Finish, Works, AtRest
  <2> QED
    BY <1>1, <2>1, IdentityQuietKeeps DEF LockedSteps
<1>3. CASE Goto(t, "pend")
  <2>1. doing[t] \in Lookups
    BY Carried DEF IdentityInv, IdentityTypes, Works, PersonUnresolved, At
  <2>2. PICK w : w = [doing[t] EXCEPT !.step = "pend"]
    OBVIOUS
  <2>3. w \in Lookups /\ w.step = "pend"
    BY <2>1, <2>2 DEF Lookups
  <2>4. doing' = [doing EXCEPT ![t] = w] /\ w \in Works
    BY <1>3, <2>2, <2>3 DEF Goto, Works
  <2> QED
    BY <1>1, <2>3, <2>4, IdentityQuietKeeps DEF LockedSteps
<1> QED
  BY <1>2, <1>3 DEF PersonUnresolved

LEMMA MarkedUnresolvedKeeps == ASSUME IdentityInv, MarkedUnresolved PROVE IdentityInv'
<1>1. /\ doing' = [doing EXCEPT !["session"] = AtRest] /\ AtRest \in Works /\ AtRest.step = "idle"
      /\ "session" \in Tasks /\ refreshed' = FALSE /\ UNCHANGED <<file, readOnly>>
  BY DEF MarkedUnresolved, Finish, Works, AtRest, Tasks
<1>2. /\ doing' \in [Tasks -> Works] /\ doing'["session"] = AtRest
      /\ \A u \in Tasks \ {"session"} : doing'[u] = doing[u]
  BY <1>1, Moved DEF IdentityInv
<1>3. /\ config' \in Configs /\ config'.sync = "pending" /\ config'.source = config.source
      /\ config'.client = config.client /\ config'.person = config.person
  BY DEF IdentityInv, IdentityTypes, Configs, MarkedUnresolved
<1>4. adapter' \in Adapters /\ adapter'.ready = FALSE
  BY Readapted DEF IdentityInv, IdentityTypes, MarkedUnresolved
<1>5. IdentityTypes'
  BY <1>1, <1>2, <1>3, <1>4 DEF IdentityInv, IdentityTypes, Works
<1>6. LockInv'
  BY <1>1, <1>2 DEF IdentityInv, LockInv, Locked, Tasks, Clearing
<1>7. SyncInv'
  BY <1>1, <1>2, <1>3, <1>4 DEF IdentityInv, SyncInv
<1>8. SourceInv' /\ OptOutRevokes'
  BY <1>1, <1>2, <1>3 DEF IdentityInv, SourceInv, OptOutRevokes, Tasks
<1> QED
  BY <1>5, <1>6, <1>7, <1>8 DEF IdentityInv

-----------------------------------------------------------------------------
(* The person is given up. *)

LEMMA ClearPersonKeeps == ASSUME IdentityInv, ClearPerson PROVE IdentityInv'
<1> DEFINE w == [step |-> IF config.source = "relationship" THEN "revoke" ELSE "clear",
                 preserved |-> Preserved, client |-> config.client,
                 platform |-> config.platform, account |-> file]
<1>1. w \in Works /\ w.step \in Clearing /\ w.account = file
      /\ (w.step = "clear" => config.source # "relationship")
  <2>1. config.client \in Clients \cup {Unset} /\ config.platform \in Platforms \cup {Unset}
        /\ file \in Accounts \cup {Unset} /\ Preserved \in BOOLEAN
    BY DEF IdentityInv, IdentityTypes, Configs, Preserved
  <2> QED
    BY <2>1 DEF Works, Clears, Clearing
<1>2. doing' = [doing EXCEPT !["dashboard"] = w] /\ UNCHANGED <<config, file, readOnly, adapter, refreshed>>
  BY DEF ClearPerson
<1>3. "dashboard" \in Tasks /\ LockFree
  BY DEF Tasks, ClearPerson
<1> HIDE DEF w
<1>4. /\ doing' \in [Tasks -> Works] /\ doing'["dashboard"] = w
      /\ \A u \in Tasks \ {"dashboard"} : doing'[u] = doing[u]
  BY <1>1, <1>2, <1>3, Moved DEF IdentityInv
<1>5. IdentityTypes'
  BY <1>2, <1>4 DEF IdentityInv, IdentityTypes, Works
<1>6. LockInv'
  BY <1>1, <1>3, <1>4 DEF IdentityInv, LockInv, LockFree, Locked, Tasks, Clearing
<1>7. SyncInv'
  BY <1>1, <1>2, <1>3, <1>4 DEF IdentityInv, SyncInv, Clearing
<1>8. SourceInv' /\ OptOutRevokes'
  BY <1>1, <1>2, <1>3, <1>4 DEF IdentityInv, SourceInv, OptOutRevokes, Clearing
<1> QED
  BY <1>5, <1>6, <1>7, <1>8 DEF IdentityInv

LEMMA BindingRevokedKeeps == ASSUME IdentityInv, BindingRevoked PROVE IdentityInv'
<1>1. /\ "dashboard" \in Tasks /\ doing["dashboard"].step = "revoke" /\ config.client \in Clients
      /\ readOnly' = [readOnly EXCEPT ![config.client] = Unset]
      /\ UNCHANGED <<config, file, adapter, refreshed>>
  BY DEF BindingRevoked, At, Tasks, IdentityInv, IdentityTypes, Configs
<1>2. readOnly' \in [Clients -> Accounts \cup {Unset}] /\ readOnly'[config.client] = Unset
  BY <1>1 DEF IdentityInv, IdentityTypes
<1>3. doing["dashboard"] \in Clears
  BY <1>1, Carried DEF IdentityInv, IdentityTypes, Works, Clearing
<1>4. PICK w : w = [doing["dashboard"] EXCEPT !.step = "clear"]
  OBVIOUS
<1>5. w \in Clears /\ w.step = "clear" /\ w.account = doing["dashboard"].account
  BY <1>3, <1>4 DEF Clears, Clearing
<1>6. doing' = [doing EXCEPT !["dashboard"] = w] /\ w \in Works
  BY <1>4, <1>5 DEF BindingRevoked, Goto, Works
<1>7. /\ doing' \in [Tasks -> Works] /\ doing'["dashboard"] = w
      /\ \A u \in Tasks \ {"dashboard"} : doing'[u] = doing[u]
  BY <1>1, <1>6, Moved DEF IdentityInv
<1>8. IdentityTypes'
  BY <1>1, <1>2, <1>7 DEF IdentityInv, IdentityTypes, Works
<1>9. LockInv'
  BY <1>1, <1>5, <1>7 DEF IdentityInv, LockInv, Locked, Tasks, Clearing
<1>10. SyncInv'
  BY <1>1, <1>5, <1>7 DEF IdentityInv, SyncInv
<1>11. SourceInv' /\ OptOutRevokes'
  BY <1>1, <1>2, <1>5, <1>7 DEF IdentityInv, SourceInv, OptOutRevokes
<1> QED
  BY <1>8, <1>9, <1>10, <1>11 DEF IdentityInv

LEMMA PersonClearedKeeps == ASSUME IdentityInv, PersonCleared PROVE IdentityInv'
<1> DEFINE kept == doing["dashboard"]
<1>1. "dashboard" \in Tasks /\ kept.step = "clear" /\ UNCHANGED <<file, readOnly, refreshed>>
  BY DEF PersonCleared, At, Tasks
<1>2. kept \in Clears /\ kept.account = file
  BY <1>1, Carried DEF IdentityInv, IdentityTypes, SyncInv, Works, Clearing
<1>3. /\ config' \in Configs /\ config'.client = config.client /\ config'.person = Unset
      /\ config'.source = IF config.source = "relationship" THEN "preserved" ELSE config.source
      /\ config'.sync = IF kept.preserved THEN "ready" ELSE config.sync
  <2>1. config \in Configs
    BY DEF IdentityInv, IdentityTypes
  <2>2. config' = [config EXCEPT !.person = Unset,
                       !.source = IF config.source = "relationship" THEN "preserved" ELSE config.source,
                       !.sync = IF kept.preserved THEN "ready" ELSE config.sync]
    BY DEF PersonCleared
  <2> QED
    BY <2>1, <2>2 DEF Configs
<1>4. /\ adapter' \in Adapters /\ adapter'.person = Unset
      /\ IF kept.preserved THEN adapter'.ready = TRUE /\ adapter'.account = file
         ELSE adapter'.ready = adapter.ready /\ adapter'.account = adapter.account
  BY <1>2 DEF PersonCleared, IdentityInv, IdentityTypes, Adapters, Clears
<1> DEFINE w == [step |-> "close", selection |-> TRUE]
<1>5. doing' = [doing EXCEPT !["dashboard"] = w] /\ w \in Works /\ w.step = "close"
  BY DEF PersonCleared, Closing, Works, Closes
<1> HIDE DEF w
<1>6. /\ doing' \in [Tasks -> Works] /\ doing'["dashboard"] = w
      /\ \A u \in Tasks \ {"dashboard"} : doing'[u] = doing[u]
  BY <1>1, <1>5, Moved DEF IdentityInv
<1>7. \A u \in Tasks : ~Locked(u)'
  BY <1>1, <1>5, <1>6 DEF IdentityInv, LockInv, Locked
<1>8. IdentityTypes'
  BY <1>1, <1>3, <1>4, <1>6 DEF IdentityInv, IdentityTypes, Works
<1>9. LockInv'
  BY <1>1, <1>6, <1>7 DEF IdentityInv, LockInv, Tasks, Clearing
<1>10. SyncInv'
  <2>1. adapter'.ready <=> config'.sync = "ready"
    BY <1>3, <1>4 DEF IdentityInv, SyncInv
  <2>2. adapter'.ready => adapter'.account = file' /\ adapter'.person = config'.person
    BY <1>1, <1>3, <1>4 DEF IdentityInv, SyncInv
  <2> QED
    BY <1>7, <2>1, <2>2 DEF SyncInv, Locked
<1>11. SourceInv' /\ OptOutRevokes'
  BY <1>1, <1>3, <1>5, <1>6, <1>7 DEF IdentityInv, SourceInv, OptOutRevokes, Locked
<1> QED
  BY <1>8, <1>9, <1>10, <1>11 DEF IdentityInv

-----------------------------------------------------------------------------
(* The rest. *)

LEMMA SessionsClosedKeeps == ASSUME IdentityInv, SessionsClosed PROVE IdentityInv'
<1>1. doing' = [doing EXCEPT !["dashboard"] = AtRest] /\ AtRest \in Works /\ AtRest.step = "idle"
  BY DEF SessionsClosed, Finish, Works, AtRest
<1>2. /\ "dashboard" \in Tasks /\ UNCHANGED <<config, file, readOnly, adapter>>
      /\ refreshed' \in BOOLEAN
  BY DEF SessionsClosed, Tasks
<1> QED
  BY <1>1, <1>2, IdentityQuietKeeps DEF LockedSteps

LEMMA SaveTrustedPlatformKeeps ==
    ASSUME IdentityInv, NEW p \in Platforms \cup {Unset}, SaveTrustedPlatform(p)
    PROVE  IdentityInv'
<1>1. /\ config' \in Configs /\ config'.sync = config.sync /\ config'.source = config.source
      /\ config'.client = config.client /\ config'.person = config.person
  BY DEF IdentityInv, IdentityTypes, Configs, SaveTrustedPlatform
<1>2. adapter' \in Adapters /\ adapter'.ready = adapter.ready /\ adapter'.account = adapter.account
      /\ adapter'.person = adapter.person
  BY DEF IdentityInv, IdentityTypes, Adapters, SaveTrustedPlatform
<1>3. UNCHANGED <<file, readOnly, refreshed, doing>>
  BY DEF SaveTrustedPlatform
<1>4. IdentityTypes'
  BY <1>1, <1>2, <1>3 DEF IdentityInv, IdentityTypes
<1>5. LockInv'
  BY <1>3 DEF IdentityInv, LockInv, Locked
<1>6. SyncInv'
  BY <1>1, <1>2, <1>3 DEF IdentityInv, SyncInv
<1>7. SourceInv' /\ OptOutRevokes'
  BY <1>1, <1>3 DEF IdentityInv, SourceInv, OptOutRevokes
<1> QED
  BY <1>4, <1>5, <1>6, <1>7 DEF IdentityInv

(* The adapter of a new life. *)
LEMMA LoadedFacts ==
    ASSUME NEW conf \in Configs, NEW account \in Accounts \cup {Unset}
    PROVE  /\ Loaded(conf, account) \in Adapters
           /\ Loaded(conf, account).ready <=> conf.sync = "ready"
           /\ Loaded(conf, account).ready => Loaded(conf, account).account = account
           /\ Loaded(conf, account).person = conf.person
BY DEF Loaded, Configs, Adapters

LEMMA IdentityRestartKeeps == ASSUME IdentityInv, IdentityRestart PROVE IdentityInv'
<1>1. /\ adapter' = Loaded(config, file) /\ refreshed' \in BOOLEAN
      /\ UNCHANGED <<config, file, readOnly>>
  BY DEF IdentityRestart
<1>2. doing' \in [Tasks -> Works] /\ \A t \in Tasks : doing'[t].step = "idle"
  BY DEF IdentityRestart, Works, AtRest
<1>3. /\ adapter' \in Adapters /\ (adapter'.ready <=> config.sync = "ready")
      /\ adapter'.ready => adapter'.account = file /\ adapter'.person = config.person
  BY <1>1, LoadedFacts DEF IdentityInv, IdentityTypes
<1>4. IdentityTypes'
  BY <1>1, <1>2, <1>3 DEF IdentityInv, IdentityTypes, Works
<1>5. LockInv'
  BY <1>2 DEF LockInv, Locked, Tasks, Clearing
<1>6. SyncInv'
  BY <1>1, <1>2, <1>3 DEF SyncInv
<1>7. SourceInv' /\ OptOutRevokes'
  BY <1>1, <1>2 DEF IdentityInv, SourceInv, OptOutRevokes, Tasks
<1> QED
  BY <1>4, <1>5, <1>6, <1>7 DEF IdentityInv

-----------------------------------------------------------------------------
(* The invariant holds. *)

LEMMA IdentityInitHolds == IdentityInit => IdentityInv
<1> SUFFICES ASSUME IdentityInit PROVE IdentityInv
  OBVIOUS
<1>1. /\ config \in Configs /\ config.sync = "ready" /\ config.source = "manual"
      /\ file \in Accounts \cup {Unset} /\ readOnly \in [Clients -> Accounts \cup {Unset}]
      /\ refreshed \in BOOLEAN /\ adapter = Loaded(config, file)
  BY DEF IdentityInit, Configs
<1>2. doing \in [Tasks -> Works] /\ \A t \in Tasks : doing[t].step = "idle"
  BY DEF IdentityInit, Works, AtRest
<1>3. /\ adapter \in Adapters /\ (adapter.ready <=> config.sync = "ready")
      /\ adapter.ready => adapter.account = file /\ adapter.person = config.person
  BY <1>1, LoadedFacts
<1>4. IdentityTypes
  BY <1>1, <1>2, <1>3 DEF IdentityTypes, Works
<1>5. LockInv
  BY <1>2 DEF LockInv, Locked, Tasks, Clearing
<1>6. SyncInv
  BY <1>1, <1>2, <1>3 DEF SyncInv
<1>7. SourceInv /\ OptOutRevokes
  BY <1>1, <1>2 DEF SourceInv, OptOutRevokes, Tasks
<1> QED
  BY <1>4, <1>5, <1>6, <1>7 DEF IdentityInv

LEMMA IdentityNextKeeps == ASSUME IdentityInv, [IdentityNext]_identityVars PROVE IdentityInv'
<1>1. CASE \E t \in Tasks :
              \/ MarkedPending(t) \/ OwnerBound(t) \/ ReadOnlyBound(t)
              \/ AccountStored(t) \/ MarkedReady(t) \/ StepFails(t) \/ PersonUnresolved(t)
              \/ \E p \in Platforms, a \in Accounts : PersonResolved(t, p, a)
  BY <1>1, MarkedPendingKeeps, BoundKeeps, AccountStoredKeeps, MarkedReadyKeeps, StepFailsKeeps,
     PersonUnresolvedKeeps, PersonResolvedKeeps
<1>2. CASE \/ \E c \in Clients, p \in Platforms, a \in Accounts : SaveQuestIdentity(c, p, a)
           \/ \E x \in Persons : SelectPerson(x)
           \/ RefreshIdentity \/ MarkedUnresolved
  BY <1>2, SaveQuestIdentityKeeps, SelectPersonKeeps, RefreshIdentityKeeps, MarkedUnresolvedKeeps
<1>3. CASE \/ ClearPerson \/ BindingRevoked \/ PersonCleared \/ SessionsClosed
           \/ \E p \in Platforms \cup {Unset} : SaveTrustedPlatform(p)
           \/ IdentityRestart
  BY <1>3, ClearPersonKeeps, BindingRevokedKeeps, PersonClearedKeeps, SessionsClosedKeeps,
     SaveTrustedPlatformKeeps, IdentityRestartKeeps
<1>4. CASE UNCHANGED identityVars
  <2>1. UNCHANGED <<config, file, readOnly, adapter, refreshed, doing>>
    BY <1>4 DEF identityVars
  <2> QED
    BY <2>1 DEF IdentityInv, IdentityTypes, LockInv, Locked, SyncInv, SourceInv, OptOutRevokes
<1> QED
  BY <1>1, <1>2, <1>3, <1>4 DEF IdentityNext

LEMMA IdentityInvHolds == IdentitySpec => []IdentityInv
BY IdentityInitHolds, IdentityNextKeeps, PTL DEF IdentitySpec

LEMMA WellTyped == ASSUME IdentityInv PROVE IdentityTypeOK
<1>1. Cardinality({t \in Tasks : Locked(t)}) <= 1
  <2>1. CASE \A t \in Tasks : ~Locked(t)
    <3>1. {t \in Tasks : Locked(t)} = {}
      BY <2>1
    <3> QED
      BY <3>1, FS_EmptySet
  <2>2. ASSUME NEW t \in Tasks, Locked(t) PROVE Cardinality({u \in Tasks : Locked(u)}) <= 1
    <3>1. {u \in Tasks : Locked(u)} = {t}
      BY <2>2 DEF IdentityInv, LockInv
    <3>2. Cardinality({t}) = 1
      BY FS_Singleton
    <3> QED
      BY <3>1, <3>2
  <2> QED
    BY <2>1, <2>2
<1> QED
  BY <1>1 DEF IdentityInv, IdentityTypes, Configs, Adapters, IdentityTypeOK

-----------------------------------------------------------------------------
(* Sessions are authorized exactly when the saved configuration says the identity is
   complete, and against the account of the identity file, whichever steps of which
   saves, opt-outs and refreshes failed or interleaved, and across restarts. *)
THEOREM BindingIsPersistedHolds == IdentitySpec => []BindingIsPersisted
<1>1. IdentityInv => BindingIsPersisted
  BY WellTyped DEF IdentityInv, SyncInv, BindingIsPersisted
<1> QED
  BY <1>1, IdentityInvHolds, PTL

(* While an identity is in force the file stays as it is, and the configured person
   can only be given up: whoever would change more has marked both pending before. *)
LEMMA SettingsStay ==
    ASSUME IdentityInv, [IdentityNext]_identityVars, adapter.ready, adapter'.ready
    PROVE  file' = file /\ config'.person \in {config.person, Unset}
<1>1. config \in Configs /\ config.sync = "ready"
  BY DEF IdentityInv, IdentityTypes, SyncInv
<1>2. ASSUME NEW t \in Tasks, MarkedPending(t) PROVE FALSE
  BY <1>2, Readapted DEF MarkedPending, IdentityInv, IdentityTypes
<1>3. ASSUME NEW t \in Tasks, AccountStored(t) PROVE FALSE
  BY <1>1, <1>3 DEF AccountStored, At, IdentityInv, SyncInv
<1>4. ASSUME NEW t \in Tasks, MarkedReady(t) PROVE FALSE
  BY <1>1, <1>4 DEF MarkedReady, At, IdentityInv, SyncInv
<1>5. CASE PersonCleared
  BY <1>1, <1>5 DEF PersonCleared, Configs
<1>6. CASE MarkedUnresolved
  BY <1>1, <1>6 DEF MarkedUnresolved, Configs
<1>7. ASSUME NEW p \in Platforms \cup {Unset}, SaveTrustedPlatform(p)
      PROVE  file' = file /\ config'.person = config.person
  BY <1>1, <1>7 DEF SaveTrustedPlatform, Configs
<1>8. CASE \/ \E t \in Tasks :
                \/ OwnerBound(t) \/ ReadOnlyBound(t) \/ StepFails(t) \/ PersonUnresolved(t)
                \/ \E p \in Platforms, a \in Accounts : PersonResolved(t, p, a)
           \/ \E c \in Clients, p \in Platforms, a \in Accounts : SaveQuestIdentity(c, p, a)
           \/ \E x \in Persons : SelectPerson(x)
           \/ RefreshIdentity \/ ClearPerson \/ BindingRevoked \/ SessionsClosed \/ IdentityRestart
           \/ UNCHANGED identityVars
  BY <1>8 DEF OwnerBound, ReadOnlyBound, StepFails, PersonUnresolved, PersonResolved, SaveQuestIdentity,
              SelectPerson, RefreshIdentity, ClearPerson, BindingRevoked, SessionsClosed,
              IdentityRestart, identityVars
<1> QED
  BY <1>2, <1>3, <1>4, <1>5, <1>6, <1>7, <1>8 DEF IdentityNext

(* No session is ever authorized for one identity and then, without an interval in
   which none is authorized, for another account or another person. *)
THEOREM IdentityIsNotSwappedHolds == IdentitySpec => IdentityIsNotSwapped
<1> DEFINE Held == adapter.ready /\ adapter'.ready =>
                      /\ adapter'.account = adapter.account
                      /\ adapter'.person \in {adapter.person, Unset}
<1>1. IdentityInv /\ IdentityInv' /\ [IdentityNext]_identityVars => [Held]_identityVars
  <2> SUFFICES ASSUME IdentityInv, IdentityInv', [IdentityNext]_identityVars, adapter.ready, adapter'.ready
               PROVE  /\ adapter'.account = adapter.account
                      /\ adapter'.person \in {adapter.person, Unset}
    OBVIOUS
  <2>1. file' = file /\ config'.person \in {config.person, Unset}
    BY SettingsStay
  <2>2. adapter.account = file /\ adapter.person = config.person
    BY DEF IdentityInv, SyncInv
  <2>3. adapter'.account = file' /\ adapter'.person = config'.person
    BY DEF IdentityInv, SyncInv
  <2> QED
    BY <2>1, <2>2, <2>3
<1> QED
  BY <1>1, IdentityInvHolds, PTL DEF IdentitySpec, IdentityIsNotSwapped

(* A person that was given up leaves no read-only grant at the guardian for the
   configured client. *)
THEOREM OptOutRevokesHolds == IdentitySpec => []OptOutRevokes
<1>1. IdentityInv => OptOutRevokes
  BY DEF IdentityInv
<1> QED
  BY <1>1, IdentityInvHolds, PTL

-----------------------------------------------------------------------------
(***************************************************************************)
(* The hook profiler.                                                      *)
(***************************************************************************)

(* What every instance can make of a handler: raw, or measured by one of them. *)
Stacks == {<<>>} \cup {<<i>> : i \in Instances}

ProfilerTypes ==
    /\ wrappers \in [Handlers -> Stacks]
    /\ loaded \subseteq Handlers
    /\ life \in [Instances -> {"absent", "constructed", "ready", "closing", "ended"}]
    /\ enabled \in [Instances -> BOOLEAN]
    /\ saving \in [Instances -> SUBSET Saves]

(* The host runs one instance at a time. *)
Alone == \A i, j \in Instances : Answers(i) /\ Answers(j) => i = j

(* A profiler that is off has no wrapper in the registry, and neither has one that is
   over and was not switched on since. *)
OffIsBare == \A i \in Instances, h \in Handlers : wrappers[h] = <<i>> => enabled[i]
OverIsBare == \A i \in Instances \ late, h \in Handlers : wrappers[h] = <<i>> => ~Over(i)

(* A profiler that is ready and on has all handlers but the fresh ones. *)
OnIsEverywhere ==
    \A i \in Instances : life[i] = "ready" /\ enabled[i] /\ late = {} =>
       \A h \in loaded \ fresh : wrappers[h] = <<i>>

(* An instance that does not exist yet is off and saves nothing. *)
AbsentIsOff == \A i \in Instances : life[i] = "absent" => ~enabled[i] /\ saving[i] = {}

ProfilerInv == ProfilerTypes /\ Alone /\ OffIsBare /\ OverIsBare /\ OnIsEverywhere /\ AbsentIsOff

-----------------------------------------------------------------------------
(* On the stacks that occur, every operator on sequences comes down to an equality. *)
LEMMA StackFacts ==
    ASSUME NEW s \in Stacks, NEW i \in Instances
    PROVE  /\ OwnedBy(i, s) <=> s = <<i>>
           /\ Contains(s, i) <=> s = <<i>>
           /\ Len(s) <= 1
           /\ \A j \in Instances : <<i>> = <<j>> => i = j
           /\ <<i>> # <<>>
           /\ <<i>> \in Stacks
<1>1. CASE s = <<>>
  BY <1>1 DEF OwnedBy, Contains, Stacks
<1>2. CASE \E k \in Instances : s = <<k>>
  <2>1. PICK k \in Instances : s = <<k>>
    BY <1>2
  <2>2. Len(s) = 1 /\ s[1] = k /\ DOMAIN s = {1}
    BY <2>1
  <2>3. Last(s) = k /\ (s = <<i>> <=> k = i)
    BY <2>1, <2>2 DEF Last
  <2> QED
    BY <2>1, <2>2, <2>3 DEF OwnedBy, Contains, Stacks
<1> QED
  BY <1>1, <1>2 DEF Stacks

(* What install does to a registry: it takes every registered handler. *)
LEMMA InstalledFacts ==
    ASSUME ProfilerTypes, NEW i \in Instances, NEW st \in [Handlers -> Stacks]
    PROVE  /\ Installed(i, st) \in [Handlers -> Stacks]
           /\ \A h \in loaded : Installed(i, st)[h] = <<i>>
           /\ \A h \in Handlers, j \in Instances : Installed(i, st)[h] = <<j>> => j = i
<1>1. \A h \in Handlers : OwnedBy(i, st[h]) <=> st[h] = <<i>>
  BY StackFacts
<1>2. <<i>> \in Stacks /\ \A j \in Instances : <<i>> = <<j>> => i = j
  BY StackFacts DEF Stacks
<1>3. \A j \in Instances : <<j>> # <<>>
  OBVIOUS
<1>4. \A h \in Handlers : Installed(i, st)[h] = IF h \notin loaded THEN <<>> ELSE <<i>>
  BY <1>1 DEF Installed
<1>5. Installed(i, st) \in [Handlers -> Stacks]
  BY <1>2 DEF Installed, Stacks
<1> QED
  BY <1>2, <1>3, <1>4, <1>5 DEF ProfilerTypes

(* What uninstall does to it: it gives back this instance's handlers and no others. *)
LEMMA UninstalledFacts ==
    ASSUME NEW i \in Instances, NEW st \in [Handlers -> Stacks]
    PROVE  /\ Uninstalled(i, st) \in [Handlers -> Stacks]
           /\ \A h \in Handlers : Uninstalled(i, st)[h] = IF st[h] = <<i>> THEN <<>> ELSE st[h]
BY StackFacts DEF Uninstalled, Stacks

LEMMA ProfilerInitHolds == ProfilerInit => ProfilerInv
<1> SUFFICES ASSUME ProfilerInit PROVE ProfilerInv
  OBVIOUS
<1>1. ProfilerTypes
  BY DEF ProfilerInit, ProfilerTypes, Stacks
<1>2. Alone /\ OnIsEverywhere
  BY DEF ProfilerInit, Alone, Answers, OnIsEverywhere
<1>3. OffIsBare /\ OverIsBare
  BY StackFacts, <1>1 DEF ProfilerInit, OffIsBare, OverIsBare, ProfilerTypes
<1>4. AbsentIsOff
  BY DEF ProfilerInit, AbsentIsOff
<1> QED
  BY <1>1, <1>2, <1>3, <1>4 DEF ProfilerInv

(* Saves that begin or fail change nothing else. *)
LEMMA ProfilerQuietKeeps ==
    ASSUME ProfilerInv, UNCHANGED <<wrappers, registry, life, enabled, late>>,
           saving' \in [Instances -> SUBSET Saves],
           \A i \in Instances : life[i] = "absent" => saving'[i] = {}
    PROVE  ProfilerInv'
BY DEF ProfilerInv, ProfilerTypes, Alone, Answers, OffIsBare, OverIsBare, Over,
       OnIsEverywhere, AbsentIsOff, registry

LEMMA ConstructKeeps ==
    ASSUME ProfilerInv, NEW i \in Instances, Construct(i) PROVE ProfilerInv'
<1>1. PICK on \in BOOLEAN : enabled' = [enabled EXCEPT ![i] = on]
  BY DEF Construct
<1>2. /\ life[i] = "absent" /\ life' = [life EXCEPT ![i] = "constructed"]
      /\ \A j \in Instances : life[j] \in {"absent", "ended"}
      /\ UNCHANGED <<wrappers, registry, saving, late>>
  BY DEF Construct
<1>3. \A h \in Handlers : wrappers[h] # <<i>>
  BY <1>2 DEF ProfilerInv, OffIsBare, AbsentIsOff
<1>4. ProfilerTypes'
  BY <1>1, <1>2 DEF ProfilerInv, ProfilerTypes, registry
<1>5. Alone' /\ OnIsEverywhere'
  BY <1>2 DEF ProfilerInv, ProfilerTypes, Alone, Answers, OnIsEverywhere
<1>6. OffIsBare' /\ OverIsBare' /\ AbsentIsOff'
  BY <1>1, <1>2, <1>3 DEF ProfilerInv, ProfilerTypes, OffIsBare, OverIsBare, AbsentIsOff, Over
<1> QED
  BY <1>4, <1>5, <1>6 DEF ProfilerInv

LEMMA InitializeKeeps ==
    ASSUME ProfilerInv, NEW i \in Instances, Initialize(i) PROVE ProfilerInv'
<1>1. /\ life[i] = "constructed" /\ life' = [life EXCEPT ![i] = "ready"]
      /\ wrappers' = IF enabled[i] THEN Installed(i, wrappers) ELSE wrappers
      /\ UNCHANGED <<loaded, fresh, enabled, saving, late>>
  BY DEF Initialize, registry
<1>2. \A j \in Instances : life[j] = "ready" => FALSE
  BY <1>1 DEF ProfilerInv, Alone, Answers
<1>3. ProfilerTypes'
  BY <1>1, InstalledFacts DEF ProfilerInv, ProfilerTypes
<1>4. \A h \in Handlers, j \in Instances : wrappers'[h] = <<j>> =>
         wrappers[h] = <<j>> \/ (j = i /\ enabled[i])
  BY <1>1, InstalledFacts DEF ProfilerInv, ProfilerTypes
<1>5. Alone' /\ AbsentIsOff'
  BY <1>1 DEF ProfilerInv, ProfilerTypes, Alone, Answers, AbsentIsOff
<1>6. OffIsBare' /\ OverIsBare'
  BY <1>1, <1>4 DEF ProfilerInv, ProfilerTypes, OffIsBare, OverIsBare, Over
<1>7. OnIsEverywhere'
  BY <1>1, <1>2, InstalledFacts DEF ProfilerInv, ProfilerTypes, OnIsEverywhere
<1> QED
  BY <1>3, <1>5, <1>6, <1>7 DEF ProfilerInv

(* Every way to switch the measuring: an overlay, a save that is done. *)
LEMMA SwitchKeeps ==
    ASSUME ProfilerInv, NEW i \in Instances, life[i] # "absent",
           NEW on \in BOOLEAN, NEW install \in BOOLEAN,
           life[i] # "constructed" => install,
           PutIntoForce(i, on, install),
           UNCHANGED <<loaded, fresh, life>>, saving' \in [Instances -> SUBSET Saves],
           \A j \in Instances : saving'[j] \subseteq saving[j]
    PROVE  ProfilerInv'
<1> DEFINE stacks == Configured(i, on, wrappers)
<1>1. /\ enabled' = [enabled EXCEPT ![i] = on]
      /\ wrappers' = IF on /\ install THEN Installed(i, stacks) ELSE stacks
      /\ late' = IF Over(i) /\ on THEN late \cup {i} ELSE late
  BY DEF PutIntoForce
<1>2. stacks \in [Handlers -> Stacks]
  BY UninstalledFacts DEF Configured, ProfilerInv, ProfilerTypes
<1>3. \A h \in Handlers : stacks[h] = wrappers[h] \/ (~on /\ wrappers[h] = <<i>> /\ stacks[h] = <<>>)
  BY UninstalledFacts DEF Configured, ProfilerInv, ProfilerTypes
<1>4. ~on => \A h \in Handlers : stacks[h] # <<i>>
  <2>1. CASE enabled[i]
    <3>1. <<i>> # <<>>
      OBVIOUS
    <3> QED
      BY <2>1, <3>1, UninstalledFacts DEF Configured, ProfilerInv, ProfilerTypes
  <2>2. CASE ~enabled[i]
    BY <2>2 DEF Configured, ProfilerInv, OffIsBare
  <2> QED
    BY <2>1, <2>2
<1> HIDE DEF stacks
<1>5. ProfilerTypes'
  BY <1>1, <1>2, InstalledFacts DEF ProfilerInv, ProfilerTypes
<1>6. \A h \in Handlers, j \in Instances : wrappers'[h] = <<j>> =>
         \/ j # i /\ wrappers[h] = <<j>>
         \/ j = i /\ on
  <2>1. CASE on /\ install
    BY <2>1, <1>1, <1>2, InstalledFacts DEF ProfilerInv
  <2>2. CASE ~(on /\ install)
    <3>1. \A j \in Instances : <<j>> # <<>>
      OBVIOUS
    <3> QED
      BY <2>2, <3>1, <1>1, <1>3, <1>4
  <2> QED
    BY <2>1, <2>2
<1>7. Alone' /\ AbsentIsOff'
  BY <1>1 DEF ProfilerInv, ProfilerTypes, Alone, Answers, AbsentIsOff
<1>8. OffIsBare'
  BY <1>1, <1>6 DEF ProfilerInv, ProfilerTypes, OffIsBare
<1>9. OverIsBare'
  BY <1>1, <1>6 DEF ProfilerInv, ProfilerTypes, OverIsBare, Over
<1>10. OnIsEverywhere'
  <2> SUFFICES ASSUME NEW j \in Instances, life'[j] = "ready", enabled'[j], late' = {},
                      NEW h \in loaded' \ fresh'
               PROVE  wrappers'[h] = <<j>>
    BY DEF OnIsEverywhere
  <2>0. h \in loaded /\ h \in Handlers /\ h \notin fresh /\ late = {}
    BY <1>1 DEF ProfilerInv, ProfilerTypes
  <2>1. CASE j = i
    BY <2>0, <2>1, <1>1, <1>2, InstalledFacts DEF ProfilerInv, ProfilerTypes
  <2>2. CASE j # i
    <3>1. ~on
      BY <2>2, <1>1 DEF ProfilerInv, ProfilerTypes, Alone, Answers, Over
    <3>2. wrappers[h] = <<j>>
      BY <2>0, <2>2, <1>1 DEF ProfilerInv, ProfilerTypes, OnIsEverywhere
    <3> QED
      BY <3>1, <3>2, <2>0, <2>2, <1>1, <1>3, StackFacts
  <2> QED
    BY <2>1, <2>2
<1> QED
  BY <1>5, <1>7, <1>8, <1>9, <1>10 DEF ProfilerInv

LEMMA SyncKeeps ==
    ASSUME ProfilerInv, NEW i \in Instances, Sync(i) PROVE ProfilerInv'
<1>1. PICK on \in BOOLEAN : PutIntoForce(i, on, life[i] # "constructed")
  BY DEF Sync
<1>2. life[i] # "absent" /\ UNCHANGED <<loaded, fresh, life, saving>>
  BY DEF Sync, Answers, registry
<1>3. saving' \in [Instances -> SUBSET Saves] /\ \A j \in Instances : saving'[j] \subseteq saving[j]
  BY <1>2 DEF ProfilerInv, ProfilerTypes
<1> QED
  BY <1>1, <1>2, <1>3, SwitchKeeps

LEMMA SaveDoneKeeps ==
    ASSUME ProfilerInv, NEW i \in Instances, SaveDone(i) PROVE ProfilerInv'
<1>1. PICK s \in saving[i] :
        /\ saving' = [saving EXCEPT ![i] = @ \ {s}]
        /\ PutIntoForce(i, s.on, s.by = "dashboard" \/ life[i] # "constructed")
        /\ UNCHANGED <<registry, life>>
  BY DEF SaveDone
<1>2. s \in Saves /\ s.on \in BOOLEAN
  BY DEF ProfilerInv, ProfilerTypes, Saves
<1>3. life[i] # "absent"
  BY <1>1 DEF ProfilerInv, AbsentIsOff
<1>4. /\ saving' \in [Instances -> SUBSET Saves] /\ UNCHANGED <<loaded, fresh, life>>
      /\ \A j \in Instances : saving'[j] \subseteq saving[j]
  BY <1>1 DEF ProfilerInv, ProfilerTypes, registry
<1> QED
  BY <1>1, <1>2, <1>3, <1>4, SwitchKeeps

LEMMA TerminateKeeps ==
    ASSUME ProfilerInv, NEW i \in Instances, Terminate(i) PROVE ProfilerInv'
<1>1. /\ life[i] = "ready" /\ life' = [life EXCEPT ![i] = "closing"]
      /\ wrappers' = Uninstalled(i, wrappers)
      /\ UNCHANGED <<loaded, fresh, enabled, saving, late>>
  BY DEF Terminate, registry
<1>2. \A h \in Handlers : wrappers'[h] = IF wrappers[h] = <<i>> THEN <<>> ELSE wrappers[h]
  BY <1>1, UninstalledFacts DEF ProfilerInv, ProfilerTypes
<1>3. ProfilerTypes'
  BY <1>1, UninstalledFacts DEF ProfilerInv, ProfilerTypes
<1>4. \A h \in Handlers, j \in Instances : wrappers'[h] = <<j>> => wrappers[h] = <<j>> /\ j # i
  BY <1>2, StackFacts
<1>5. Alone' /\ AbsentIsOff' /\ OnIsEverywhere'
  BY <1>1 DEF ProfilerInv, ProfilerTypes, Alone, Answers, AbsentIsOff, OnIsEverywhere
<1>6. OffIsBare' /\ OverIsBare'
  BY <1>1, <1>4 DEF ProfilerInv, ProfilerTypes, OffIsBare, OverIsBare, Over
<1> QED
  BY <1>3, <1>5, <1>6 DEF ProfilerInv

LEMMA EndedKeeps ==
    ASSUME ProfilerInv, NEW i \in Instances, Ended(i) PROVE ProfilerInv'
BY DEF ProfilerInv, ProfilerTypes, Alone, Answers, OffIsBare, OverIsBare, Over, OnIsEverywhere, AbsentIsOff,
       Ended, registry

LEMMA LoadHandlerKeeps ==
    ASSUME ProfilerInv, NEW h \in Handlers, LoadHandler(h) PROVE ProfilerInv'
BY DEF ProfilerInv, ProfilerTypes, Alone, Answers, OffIsBare, OverIsBare, Over, OnIsEverywhere, AbsentIsOff,
       LoadHandler

LEMMA UnloadHandlerKeeps ==
    ASSUME ProfilerInv, NEW h \in Handlers, UnloadHandler(h) PROVE ProfilerInv'
<1>1. /\ loaded' = loaded \ {h} /\ fresh' = fresh \ {h}
      /\ wrappers' = [wrappers EXCEPT ![h] = <<>>]
      /\ UNCHANGED <<life, enabled, saving, late>>
  BY DEF UnloadHandler
<1>2. ProfilerTypes'
  BY <1>1 DEF ProfilerInv, ProfilerTypes, Stacks
<1>3. \A g \in Handlers, j \in Instances : wrappers'[g] = <<j>> => wrappers[g] = <<j>>
  BY <1>1, StackFacts DEF ProfilerInv, ProfilerTypes
<1>4. Alone' /\ AbsentIsOff' /\ OffIsBare' /\ OverIsBare'
  BY <1>1, <1>3 DEF ProfilerInv, ProfilerTypes, Alone, Answers, AbsentIsOff, OffIsBare, OverIsBare, Over
<1>5. OnIsEverywhere'
  BY <1>1 DEF ProfilerInv, ProfilerTypes, OnIsEverywhere
<1> QED
  BY <1>2, <1>4, <1>5 DEF ProfilerInv

LEMMA PluginLoadedKeeps ==
    ASSUME ProfilerInv, PluginLoaded PROVE ProfilerInv'
<1> DEFINE measuring == {i \in Instances : life[i] = "ready" /\ enabled[i]}
<1>1. fresh' = {} /\ UNCHANGED <<loaded, life, enabled, saving, late>>
  BY DEF PluginLoaded
<1>2. CASE measuring = {}
  <2>1. UNCHANGED wrappers
    BY <1>2 DEF PluginLoaded
  <2> QED
    BY <1>1, <1>2, <2>1 DEF ProfilerInv, ProfilerTypes, Alone, Answers, OffIsBare, OverIsBare, Over,
                            OnIsEverywhere, AbsentIsOff
<1>3. CASE measuring # {}
  <2>1. PICK i \in Instances :
          life[i] = "ready" /\ enabled[i] /\ wrappers' = Installed(i, wrappers)
    BY <1>3 DEF PluginLoaded
  <2>2. ProfilerTypes'
    BY <1>1, <2>1, InstalledFacts DEF ProfilerInv, ProfilerTypes
  <2>3. \A h \in Handlers, j \in Instances : wrappers'[h] = <<j>> => j = i
    BY <2>1, InstalledFacts DEF ProfilerInv, ProfilerTypes
  <2>4. Alone' /\ AbsentIsOff' /\ OffIsBare' /\ OverIsBare'
    BY <1>1, <2>1, <2>3 DEF ProfilerInv, ProfilerTypes, Alone, Answers, AbsentIsOff,
                            OffIsBare, OverIsBare, Over
  <2>5. OnIsEverywhere'
    BY <1>1, <2>1, InstalledFacts DEF ProfilerInv, ProfilerTypes, Alone, Answers, OnIsEverywhere
  <2> QED
    BY <2>2, <2>4, <2>5 DEF ProfilerInv
<1> QED
  BY <1>2, <1>3

LEMMA ProfilerNextKeeps == ProfilerInv /\ [ProfilerNext]_profilerVars => ProfilerInv'
<1> SUFFICES ASSUME ProfilerInv, [ProfilerNext]_profilerVars PROVE ProfilerInv'
  OBVIOUS
<1>1. ASSUME NEW i \in Instances,
             Construct(i) \/ Initialize(i) \/ Sync(i) \/ SaveDone(i) \/ Terminate(i) \/ Ended(i)
      PROVE  ProfilerInv'
  BY <1>1, ConstructKeeps, InitializeKeeps, SyncKeeps, SaveDoneKeeps, TerminateKeeps, EndedKeeps
<1>2. ASSUME NEW i \in Instances, BeginSave(i) PROVE ProfilerInv'
  <2>1. UNCHANGED <<wrappers, registry, life, enabled, late>>
    BY <1>2 DEF BeginSave
  <2>2. saving' \in [Instances -> SUBSET Saves] /\ \A j \in Instances : life[j] = "absent" => saving'[j] = {}
    BY <1>2 DEF BeginSave, Answers, ProfilerInv, ProfilerTypes, AbsentIsOff
  <2> QED
    BY <2>1, <2>2, ProfilerQuietKeeps
<1>3. ASSUME NEW i \in Instances, SwitchSaveFails(i) PROVE ProfilerInv'
  <2>1. UNCHANGED <<wrappers, registry, life, enabled, late>>
    BY <1>3 DEF SwitchSaveFails
  <2>2. saving' \in [Instances -> SUBSET Saves] /\ \A j \in Instances : life[j] = "absent" => saving'[j] = {}
    BY <1>3 DEF SwitchSaveFails, ProfilerInv, ProfilerTypes, AbsentIsOff
  <2> QED
    BY <2>1, <2>2, ProfilerQuietKeeps
<1>4. ASSUME NEW h \in Handlers, LoadHandler(h) \/ UnloadHandler(h) PROVE ProfilerInv'
  BY <1>4, LoadHandlerKeeps, UnloadHandlerKeeps
<1>5. CASE UNCHANGED profilerVars
  BY <1>5, ProfilerQuietKeeps DEF profilerVars, ProfilerInv, ProfilerTypes, AbsentIsOff
<1> QED
  BY <1>1, <1>2, <1>3, <1>4, <1>5, PluginLoadedKeeps DEF ProfilerNext

-----------------------------------------------------------------------------
LEMMA Consequences == ProfilerInv => MeasuredOnce /\ SwitchIsHeeded /\ TerminationRestores
<1> SUFFICES ASSUME ProfilerInv PROVE MeasuredOnce /\ SwitchIsHeeded /\ TerminationRestores
  OBVIOUS
<1>1. MeasuredOnce
  BY StackFacts DEF ProfilerInv, ProfilerTypes, MeasuredOnce, Stacks
<1>2. SwitchIsHeeded
  <2>1. \A i \in Instances, h \in Handlers :
           /\ OwnedBy(i, wrappers[h]) <=> wrappers[h] = <<i>>
           /\ Contains(wrappers[h], i) <=> wrappers[h] = <<i>>
    BY StackFacts DEF ProfilerInv, ProfilerTypes
  <2> QED
    BY <2>1 DEF ProfilerInv, ProfilerTypes, SwitchIsHeeded, OffIsBare, OnIsEverywhere
<1>3. TerminationRestores
  BY StackFacts DEF ProfilerInv, ProfilerTypes, TerminationRestores, OverIsBare
<1> QED
  BY <1>1, <1>2, <1>3

(* The inductive invariant holds throughout. *)
THEOREM ProfilerInvHolds == ProfilerSpec => []ProfilerInv
<1> QED
  BY ProfilerInitHolds, ProfilerNextKeeps, PTL DEF ProfilerSpec

(* No handler is ever wrapped twice, however many instances come, go and save late. *)
THEOREM MeasuredOnceHolds == ProfilerSpec => []MeasuredOnce
<1> QED
  BY ProfilerInvHolds, Consequences, PTL

(* The running instance measures all that its switch asks for, and nothing when it is
   off. *)
THEOREM SwitchIsHeededHolds == ProfilerSpec => []SwitchIsHeeded
<1> QED
  BY ProfilerInvHolds, Consequences, PTL

(* A terminated instance leaves nothing in the host's registry unless it was switched on
   afterwards. *)
THEOREM TerminationRestoresHolds == ProfilerSpec => []TerminationRestores
<1> QED
  BY ProfilerInvHolds, Consequences, PTL

-----------------------------------------------------------------------------
(***************************************************************************)
(* The forms.                                                              *)
(***************************************************************************)

(* The inductive invariant of the forms. *)

(* What a validated request changes, and what its answer shows: all that it changes
   but the excluded plugins that it empties and the name that it brings back. *)
ChangesOfForm(changes, shows) ==
    /\ DOMAIN changes \subseteq Fields /\ shows \subseteq Fields
    /\ \A f \in DOMAIN changes :
          /\ changes[f] \in FormValues(f)
          /\ f \in shows \/ (f = "excluded" /\ changes[f] = "none") \/ f = "name"
    /\ "name" \in DOMAIN changes => shows \subseteq PersonaSnapshot

FormSteps == {"idle", "overview", "wait", "saving", "written", "answer"}

RequestOf(r) ==
    /\ r.step \in FormSteps
    /\ r.step = "overview" => r.mode \in FormValues("mode")
    /\ r.step \in {"wait", "saving", "written"} => ChangesOfForm(r.changes, r.shows)
    /\ r.step = "answer" => r.shows \subseteq PersonaSnapshot

RequestInv == DOMAIN request = Requests /\ \A t \in Requests : RequestOf(request[t])

(* One save at a time; it can put back what the file has. *)
SaverInv ==
    /\ \A t, u \in Requests : FormSaving(t) /\ FormSaving(u) => t = u
    /\ \A t \in Requests : FormSaving(t) =>
          /\ DOMAIN request[t].previous = DOMAIN request[t].changes
          /\ \A f \in DOMAIN request[t].changes : request[t].previous[f] = formFile[f]

(* Memory has what the file has, and what the save under way has put there. *)
Written(t) == request[t].step = "written"
MemoryInv ==
    /\ \A f \in Fields : \/ formConfig[f] = formFile[f]
                         \/ \E t \in Requests : Written(t) /\ f \in DOMAIN request[t].changes
    /\ \A t \in Requests : Written(t) =>
          \A f \in DOMAIN request[t].changes : formConfig[f] = request[t].changes[f]

FormsInv == RequestInv /\ SaverInv /\ MemoryInv /\ RuntimeIsSaved /\ AnswersHold

-----------------------------------------------------------------------------
(* Configurations. *)

LEMMA FieldsOfConfig ==
    ASSUME NEW c \in FormConfigs
    PROVE  DOMAIN c = Fields /\ \A f \in Fields : c[f] \in FormValues(f)
BY DEF FormConfigs, Fields, FormValues

LEMMA ConfigOfFields ==
    ASSUME NEW c, c = [f \in Fields |-> c[f]], \A f \in Fields : c[f] \in FormValues(f)
    PROVE  c \in FormConfigs
<1>1. /\ c["excluded"] \in {"none", "some"} /\ c["fallback"] \in {"off", "on"}
      /\ c["mode"] \in {"astrbot", "manual"} /\ c["name"] \in {"old", "new"}
  BY DEF FormConfigs, Fields, FormValues
<1>2. /\ c["filter"] \in {"off", "on"} /\ c["fast"] \in {"off", "on"}
      /\ c["knowledge"] \in {"off", "on"} /\ c["chat"] \in {"default", "chosen"}
      /\ c["stt"] \in {"legacy", "chosen"}
  BY DEF FormConfigs, Fields, FormValues
<1> QED
  BY <1>1, <1>2 DEF FormConfigs, Fields

LEMMA SomeValues == "none" \in FormValues("excluded") /\ "chosen" \in FormValues("stt")
<1> DEFINE c == [excluded |-> "none", fallback |-> "off", mode |-> "manual", name |-> "old",
                 filter |-> "off", fast |-> "off", knowledge |-> "off", chat |-> "chosen",
                 stt |-> "chosen"]
<1>1. c \in FormConfigs
  BY DEF FormConfigs
<1>2. c["excluded"] = "none" /\ c["stt"] = "chosen"
  OBVIOUS
<1> HIDE DEF c
<1> QED
  BY <1>1, <1>2 DEF FormValues

(* Some fields of a configuration replaced with values of theirs. *)
LEMMA ReplacedConfig ==
    ASSUME formConfig \in FormConfigs, NEW changes, DOMAIN changes \subseteq Fields,
           \A f \in DOMAIN changes : changes[f] \in FormValues(f)
    PROVE  Replaced(changes) \in FormConfigs
<1> DEFINE c == Replaced(changes)
<1>1. c = [f \in Fields |-> c[f]] /\ \A f \in Fields : c[f] \in FormValues(f)
  BY FieldsOfConfig DEF Replaced
<1> HIDE DEF c
<1>2. c \in FormConfigs
  BY <1>1, ConfigOfFields
<1> QED
  BY <1>2 DEF c

-----------------------------------------------------------------------------
(* Requests. *)

LEMMA SaveKeeps ==
    ASSUME FormsInv, NEW t \in Requests, NEW changes, NEW shows, ChangesOfForm(changes, shows),
           UNCHANGED <<formConfig, formFile, formRuntime, shown, outdated>>,
           request[t].step \in {"idle", "overview"},
           request' = [request EXCEPT ![t] =
                          [step |-> "wait", changes |-> changes, shows |-> shows]]
    PROVE  FormsInv'
<1>1. /\ DOMAIN request' = Requests
      /\ request'[t].step = "wait" /\ request'[t].changes = changes /\ request'[t].shows = shows
      /\ \A u \in Requests : u # t => request'[u] = request[u]
  BY DEF FormsInv, RequestInv
<1>2. RequestInv'
  BY <1>1 DEF FormsInv, RequestInv, RequestOf, FormSteps, ChangesOfForm
<1>3. \A u \in Requests : FormSaving(u)' => FormSaving(u) /\ u # t /\ request'[u] = request[u]
  BY <1>1 DEF FormSaving
<1>4. SaverInv'
  BY <1>3 DEF FormsInv, SaverInv
<1>5. \A u \in Requests : Written(u)' <=> Written(u)
  BY <1>1 DEF Written
<1>6. \A u \in Requests : Written(u) => request'[u] = request[u]
  BY <1>1 DEF Written
<1>7. MemoryInv'
  BY <1>5, <1>6 DEF FormsInv, MemoryInv
<1>8. RuntimeIsSaved'
  BY DEF FormsInv, RuntimeIsSaved, FormsTypeOK
<1>9. AnswersHold'
  <2>1. \A u \in Requests : request[u].step = "answer" => request'[u] = request[u]
    BY <1>1
  <2> QED
    BY <2>1 DEF FormsInv, AnswersHold
<1> QED
  BY <1>2, <1>4, <1>7, <1>8, <1>9 DEF FormsInv

LEMMA RequestKeeps ==
    ASSUME FormsInv, NEW t \in Requests,
           \/ SaveQuestChainSettings(t) \/ SaveQuestToolFilterSettings(t)
           \/ SaveKnowledgeEnvironmentSettings(t) \/ SaveFastActionSettings(t)
           \/ SaveSttProviderId(t) \/ SaveChatProviderId(t) \/ SaveCharacterPersona(t)
           \/ SetDialogueFallback(t)
    PROVE  FormsInv'
<1>1. ASSUME NEW changes, NEW shows, ChangesOfForm(changes, shows), Save(t, changes, shows)
      PROVE  FormsInv'
  <2>1. request[t].step = "idle"
    BY <1>1 DEF Save, NoRequest
  <2> QED
    BY <1>1, <2>1, SaveKeeps DEF Save
<1>2. CASE SaveQuestChainSettings(t)
  <2>1. PICK e \in FormValues("excluded") :
           \/ \E b \in FormValues("fallback") :
                 Save(t, [f \in {"excluded", "fallback"} |-> IF f = "excluded" THEN e ELSE b],
                      QuestChainSnapshot)
           \/ Save(t, [f \in {"excluded"} |-> e], QuestChainSnapshot)
    BY <1>2 DEF SaveQuestChainSettings
  <2>2. CASE Save(t, [f \in {"excluded"} |-> e], QuestChainSnapshot)
    <3>1. ChangesOfForm([f \in {"excluded"} |-> e], QuestChainSnapshot)
      BY DEF ChangesOfForm, QuestChainSnapshot, Fields
    <3> QED
      BY <1>1, <2>2, <3>1
  <2>3. ASSUME NEW b \in FormValues("fallback"),
               Save(t, [f \in {"excluded", "fallback"} |-> IF f = "excluded" THEN e ELSE b],
                    QuestChainSnapshot)
        PROVE  FormsInv'
    <3>1. ChangesOfForm([f \in {"excluded", "fallback"} |-> IF f = "excluded" THEN e ELSE b],
                        QuestChainSnapshot)
      BY DEF ChangesOfForm, QuestChainSnapshot, Fields
    <3> QED
      BY <1>1, <2>3, <3>1
  <2> QED
    BY <2>1, <2>2, <2>3
<1>3. ASSUME NEW f \in Fields \ {"name"}, NEW b \in FormValues(f), Save(t, [g \in {f} |-> b], {f})
      PROVE  FormsInv'
  <2>1. ChangesOfForm([g \in {f} |-> b], {f})
    BY DEF ChangesOfForm
  <2> QED
    BY <1>1, <1>3, <2>1
<1>4. CASE SaveQuestToolFilterSettings(t)
  BY <1>3, <1>4 DEF SaveQuestToolFilterSettings, QuestToolFilterSnapshot, Fields
<1>5. CASE SaveKnowledgeEnvironmentSettings(t)
  BY <1>3, <1>5 DEF SaveKnowledgeEnvironmentSettings, KnowledgeEnvironmentSnapshot, Fields
<1>6. CASE SaveFastActionSettings(t)
  BY <1>3, <1>6 DEF SaveFastActionSettings, FastActionSnapshot, Fields
<1>7. CASE SaveSttProviderId(t)
  BY <1>3, <1>7, SomeValues DEF SaveSttProviderId, SttSnapshot, Fields
<1>8. CASE SaveChatProviderId(t)
  BY <1>3, <1>8 DEF SaveChatProviderId, Fields
<1>9. CASE SaveCharacterPersona(t)
  <2>1. PICK m \in FormValues("mode"), n \in FormValues("name") :
           Save(t, [f \in {"mode", "name"} |-> IF f = "mode" THEN m ELSE n], PersonaSnapshot)
    BY <1>9 DEF SaveCharacterPersona
  <2>2. ChangesOfForm([f \in {"mode", "name"} |-> IF f = "mode" THEN m ELSE n], PersonaSnapshot)
    BY DEF ChangesOfForm, PersonaSnapshot, Fields
  <2> QED
    BY <1>1, <2>1, <2>2
<1>10. CASE SetDialogueFallback(t)
  <2>1. PICK b \in FormValues("fallback") :
           Save(t, [f \in {"excluded", "fallback"} |-> IF f = "excluded" THEN "none" ELSE b],
                PublicDialogueSnapshot)
    BY <1>10 DEF SetDialogueFallback
  <2>2. ChangesOfForm([f \in {"excluded", "fallback"} |-> IF f = "excluded" THEN "none" ELSE b],
                      PublicDialogueSnapshot)
    BY SomeValues DEF ChangesOfForm, PublicDialogueSnapshot, Fields
  <2> QED
    BY <1>1, <2>1, <2>2
<1> QED
  BY <1>2, <1>4, <1>5, <1>6, <1>7, <1>8, <1>9, <1>10

(* A step of one request that touches neither the configuration nor the answers. *)
LEMMA SetPersonaSourceModeKeeps ==
    ASSUME FormsInv, NEW t \in Requests, SetPersonaSourceMode(t)
    PROVE  FormsInv'
<1>1. PICK m \in FormValues("mode") :
         request' = [request EXCEPT ![t] = [step |-> "overview", mode |-> m]]
  BY DEF SetPersonaSourceMode
<1>2. /\ DOMAIN request' = Requests
      /\ request[t].step = "idle" /\ request'[t].step = "overview" /\ request'[t].mode = m
      /\ \A u \in Requests : u # t => request'[u] = request[u]
  BY <1>1 DEF FormsInv, RequestInv, SetPersonaSourceMode, NoRequest
<1>3. RequestInv'
  BY <1>2 DEF FormsInv, RequestInv, RequestOf, FormSteps, ChangesOfForm
<1>4. \A u \in Requests : FormSaving(u)' => FormSaving(u) /\ u # t /\ request'[u] = request[u]
  BY <1>2 DEF FormSaving
<1>5. SaverInv'
  BY <1>4 DEF FormsInv, SaverInv, SetPersonaSourceMode
<1>6. \A u \in Requests : /\ Written(u)' <=> Written(u)
                          /\ Written(u) => request'[u] = request[u]
  BY <1>2 DEF Written
<1>7. MemoryInv'
  BY <1>6 DEF FormsInv, MemoryInv, SetPersonaSourceMode
<1>8. RuntimeIsSaved'
  BY DEF FormsInv, RuntimeIsSaved, FormsTypeOK, SetPersonaSourceMode
<1>9. AnswersHold'
  <2>1. \A u \in Requests : request[u].step = "answer" => request'[u] = request[u]
    BY <1>2
  <2> QED
    BY <2>1 DEF FormsInv, AnswersHold, SetPersonaSourceMode
<1> QED
  BY <1>3, <1>5, <1>7, <1>8, <1>9 DEF FormsInv

LEMMA PersonaOverviewKeeps ==
    ASSUME FormsInv, NEW t \in Requests, PersonaOverview(t)
    PROVE  FormsInv'
<1> DEFINE changes == [f \in {"mode", "name"} |->
                          IF f = "mode" THEN request[t].mode ELSE formRuntime["name"]]
<1>1. request[t].mode \in FormValues("mode")
  BY DEF FormsInv, RequestInv, RequestOf, PersonaOverview
<1>2. formRuntime["name"] \in FormValues("name")
  <2>1. formRuntime["name"] = formFile["name"]
    BY DEF FormsInv, RuntimeIsSaved, Kept, Fields
  <2>2. formFile \in FormConfigs /\ "name" \in Fields
    BY DEF FormsInv, RuntimeIsSaved, FormsTypeOK, Fields
  <2> QED
    BY <2>1, <2>2, FieldsOfConfig
<1>3. ChangesOfForm(changes, PublicPersonaSnapshot)
  BY <1>1, <1>2 DEF ChangesOfForm, PublicPersonaSnapshot, PersonaSnapshot, Fields
<1>4. /\ request' = [request EXCEPT ![t] =
             [step |-> "wait", changes |-> changes, shows |-> PublicPersonaSnapshot]]
      /\ request[t].step = "overview"
      /\ UNCHANGED <<formConfig, formFile, formRuntime, shown, outdated>>
  BY DEF PersonaOverview
<1> HIDE DEF changes
<1> QED
  BY <1>3, <1>4, SaveKeeps

-----------------------------------------------------------------------------
(* Saves. *)

LEMMA FormLockTakenKeeps ==
    ASSUME FormsInv, NEW t \in Requests, FormLockTaken(t)
    PROVE  FormsInv'
<1>1. /\ DOMAIN request' = Requests
      /\ request[t].step = "wait" /\ request'[t].step = "saving"
      /\ request'[t].changes = request[t].changes /\ request'[t].shows = request[t].shows
      /\ request'[t].previous = [f \in DOMAIN request[t].changes |-> formConfig[f]]
      /\ \A u \in Requests : u # t => request'[u] = request[u]
      /\ UNCHANGED <<formConfig, formFile, formRuntime, shown, outdated>>
  BY DEF FormsInv, RequestInv, FormLockTaken
<1>2. \A u \in Requests : ~FormSaving(u) /\ ~Written(u)
  BY DEF FormLockTaken, FormSaving, Written
<1>3. RequestInv'
  BY <1>1 DEF FormsInv, RequestInv, RequestOf, FormSteps, ChangesOfForm
<1>4. \A u \in Requests : FormSaving(u)' => u = t
  BY <1>1, <1>2 DEF FormSaving
<1>5. \A f \in Fields : formConfig[f] = formFile[f]
  BY <1>2 DEF FormsInv, MemoryInv
<1>6. DOMAIN request[t].changes \subseteq Fields
  BY <1>1 DEF FormsInv, RequestInv, RequestOf, ChangesOfForm
<1>7. SaverInv'
  BY <1>1, <1>4, <1>5, <1>6 DEF SaverInv
<1>8. \A u \in Requests : ~Written(u)'
  BY <1>1, <1>2 DEF Written
<1>9. MemoryInv'
  BY <1>1, <1>5, <1>8 DEF MemoryInv
<1>10. RuntimeIsSaved'
  BY <1>1 DEF FormsInv, RuntimeIsSaved, FormsTypeOK
<1>11. AnswersHold'
  <2>1. \A u \in Requests : request[u].step = "answer" => request'[u] = request[u]
    BY <1>1
  <2> QED
    BY <1>1, <2>1 DEF FormsInv, AnswersHold
<1> QED
  BY <1>3, <1>7, <1>9, <1>10, <1>11 DEF FormsInv

LEMMA FormInMemoryKeeps ==
    ASSUME FormsInv, NEW t \in Requests, FormInMemory(t)
    PROVE  FormsInv'
<1>1. /\ DOMAIN request' = Requests
      /\ request[t].step = "saving" /\ request'[t].step = "written"
      /\ request'[t].changes = request[t].changes /\ request'[t].shows = request[t].shows
      /\ request'[t].previous = request[t].previous
      /\ \A u \in Requests : u # t => request'[u] = request[u]
      /\ UNCHANGED <<formFile, formRuntime, shown, outdated>>
      /\ formConfig' = Replaced(request[t].changes)
  BY DEF FormsInv, RequestInv, FormInMemory
<1>2. \A u \in Requests : FormSaving(u) => u = t
  BY <1>1 DEF FormsInv, SaverInv, FormSaving
<1>3. RequestInv'
  BY <1>1 DEF FormsInv, RequestInv, RequestOf, FormSteps, ChangesOfForm
<1>4. \A u \in Requests : FormSaving(u)' => u = t
  BY <1>1, <1>2 DEF FormSaving
<1>5. FormSaving(t)
  BY <1>1 DEF FormSaving
<1>6. SaverInv'
  BY <1>1, <1>4, <1>5 DEF FormsInv, SaverInv
<1>7. ChangesOfForm(request[t].changes, request[t].shows)
  BY <1>1 DEF FormsInv, RequestInv, RequestOf
<1>8. \A u \in Requests : Written(u)' <=> u = t
  BY <1>1, <1>2 DEF Written, FormSaving
<1>9. MemoryInv'
  <2>1. \A f \in Fields : formConfig[f] = formFile[f]
    BY <1>1, <1>2 DEF FormsInv, MemoryInv, Written, FormSaving
  <2>2. \A f \in Fields : formConfig'[f] = IF f \in DOMAIN request[t].changes
                                           THEN request[t].changes[f] ELSE formConfig[f]
    BY <1>1 DEF Replaced
  <2>3. \A f \in Fields : formConfig'[f] = formFile'[f] \/ f \in DOMAIN request'[t].changes
    BY <1>1, <2>1, <2>2
  <2>4. \A f \in DOMAIN request'[t].changes : formConfig'[f] = request'[t].changes[f]
    BY <1>1, <1>7, <2>2 DEF ChangesOfForm
  <2> QED
    BY <1>8, <2>3, <2>4 DEF MemoryInv
<1>10. RuntimeIsSaved'
  <2>1. formConfig' \in FormConfigs
    BY <1>1, <1>7, ReplacedConfig DEF FormsInv, RuntimeIsSaved, FormsTypeOK, ChangesOfForm
  <2> QED
    BY <1>1, <2>1 DEF FormsInv, RuntimeIsSaved, FormsTypeOK
<1>11. AnswersHold'
  <2>1. \A u \in Requests : request[u].step = "answer" => request'[u] = request[u]
    BY <1>1
  <2> QED
    BY <1>1, <2>1 DEF FormsInv, AnswersHold
<1> QED
  BY <1>3, <1>6, <1>9, <1>10, <1>11 DEF FormsInv

LEMMA RefusedKeeps ==
    ASSUME FormsInv, NEW t \in Requests, Refused(t)
    PROVE  FormsInv'
<1>1. /\ DOMAIN request' = Requests
      /\ request[t].step \in {"saving", "written"} /\ request'[t].step = "idle"
      /\ \A u \in Requests : u # t => request'[u] = request[u]
      /\ UNCHANGED <<formFile, formRuntime, shown, outdated>>
      /\ formConfig' = Replaced(request[t].previous)
  BY DEF FormsInv, RequestInv, Refused, FormSaving, NoRequest
<1>2. /\ \A u \in Requests : FormSaving(u) => u = t
      /\ DOMAIN request[t].previous = DOMAIN request[t].changes
      /\ \A f \in DOMAIN request[t].changes : request[t].previous[f] = formFile[f]
  BY <1>1 DEF FormsInv, SaverInv, FormSaving
<1>3. RequestInv'
  BY <1>1 DEF FormsInv, RequestInv, RequestOf, FormSteps, ChangesOfForm
<1>4. \A u \in Requests : ~FormSaving(u)'
  BY <1>1, <1>2 DEF FormSaving
<1>5. SaverInv'
  BY <1>4 DEF SaverInv
<1>6. \A u \in Requests : ~Written(u)'
  BY <1>4 DEF Written, FormSaving
<1>7. ChangesOfForm(request[t].changes, request[t].shows)
  BY <1>1 DEF FormsInv, RequestInv, RequestOf
<1>8. \A f \in Fields : formConfig'[f] = formFile[f]
  BY <1>1, <1>2 DEF FormsInv, MemoryInv, Replaced, Written, FormSaving
<1>9. MemoryInv'
  BY <1>1, <1>6, <1>8 DEF MemoryInv
<1>10. RuntimeIsSaved'
  <2>1. formFile \in FormConfigs /\ formConfig \in FormConfigs
    BY DEF FormsInv, RuntimeIsSaved, FormsTypeOK
  <2>2. \A f \in DOMAIN request[t].previous : f \in Fields /\ request[t].previous[f] \in FormValues(f)
    BY <1>2, <1>7, <2>1, FieldsOfConfig DEF ChangesOfForm
  <2>3. formConfig' \in FormConfigs
    BY <1>1, <2>1, <2>2, ReplacedConfig
  <2> QED
    BY <1>1, <2>3 DEF FormsInv, RuntimeIsSaved, FormsTypeOK
<1>11. AnswersHold'
  <2>1. \A u \in Requests : request[u].step = "answer" => request'[u] = request[u]
    BY <1>1
  <2> QED
    BY <1>1, <2>1 DEF FormsInv, AnswersHold
<1> QED
  BY <1>3, <1>5, <1>9, <1>10, <1>11 DEF FormsInv

(* What the file has is in force after the save that wrote it. *)
LEMMA CommitFacts ==
    ASSUME FormsInv, NEW t \in Requests, Written(t), FormInForce(request[t].changes),
           UNCHANGED formConfig, shown' \in FormConfigs, outdated' \in BOOLEAN
    PROVE  /\ \A u \in Requests : FormSaving(u) => u = t
           /\ ChangesOfForm(request[t].changes, request[t].shows)
           /\ \A f \in Fields : formFile'[f] = IF f \in DOMAIN request[t].changes
                                               THEN request[t].changes[f] ELSE formFile[f]
           /\ \A f \in Fields : formConfig'[f] = formFile'[f]
           /\ RuntimeIsSaved'
<1>1. \A u \in Requests : FormSaving(u) => u = t
  BY DEF FormsInv, SaverInv, FormSaving, Written
<1>2. ChangesOfForm(request[t].changes, request[t].shows)
  BY DEF FormsInv, RequestInv, RequestOf, Written
<1>3. formFile' = formConfig
  BY DEF FormInForce
<1>4. \A f \in Fields : formConfig[f] = IF f \in DOMAIN request[t].changes
                                        THEN request[t].changes[f] ELSE formFile[f]
  BY <1>1 DEF FormsInv, MemoryInv, Written, FormSaving
<1>5. /\ DOMAIN formRuntime' = Kept
      /\ \A f \in Kept : formRuntime'[f] = IF f \in DOMAIN request[t].changes
                                           THEN request[t].changes[f] ELSE formRuntime[f]
  BY DEF FormInForce
<1>6. \A f \in Kept : f \in Fields /\ formRuntime[f] = formFile[f]
  BY DEF FormsInv, RuntimeIsSaved, Kept
<1>7. \A f \in Kept : formRuntime'[f] = formFile'[f]
  BY <1>3, <1>4, <1>5, <1>6
<1>8. formConfig' \in FormConfigs /\ formFile' \in FormConfigs
  BY <1>3 DEF FormsInv, RuntimeIsSaved, FormsTypeOK
<1> QED
  BY <1>1, <1>2, <1>3, <1>4, <1>5, <1>7, <1>8 DEF RuntimeIsSaved, FormsTypeOK

LEMMA FormCommittedKeeps ==
    ASSUME FormsInv, NEW t \in Requests, FormCommitted(t)
    PROVE  FormsInv'
<1>1. /\ DOMAIN request' = Requests
      /\ Written(t) /\ request'[t].step = "idle"
      /\ \A u \in Requests : u # t => request'[u] = request[u]
      /\ UNCHANGED formConfig /\ FormInForce(request[t].changes)
      /\ "name" \notin DOMAIN request[t].changes
  BY DEF FormsInv, RequestInv, FormCommitted, NoRequest, Written
<1>2. shown' \in FormConfigs /\ outdated' \in BOOLEAN
  <2>1. formConfig \in FormConfigs /\ shown \in FormConfigs /\ outdated' = outdated
    BY DEF FormsInv, RuntimeIsSaved, FormsTypeOK, FormCommitted
  <2>2. shown' = [f \in Fields |-> shown'[f]] /\ \A f \in Fields : shown'[f] \in FormValues(f)
    BY <2>1, FieldsOfConfig DEF FormCommitted
  <2>3. shown' \in FormConfigs
    BY <2>2, ConfigOfFields
  <2>4. outdated \in BOOLEAN
    BY DEF FormsInv, RuntimeIsSaved, FormsTypeOK
  <2> QED
    BY <2>1, <2>3, <2>4
<1>3. /\ \A u \in Requests : FormSaving(u) => u = t
      /\ ChangesOfForm(request[t].changes, request[t].shows)
      /\ \A f \in Fields : formFile'[f] = IF f \in DOMAIN request[t].changes
                                          THEN request[t].changes[f] ELSE formFile[f]
      /\ \A f \in Fields : formConfig'[f] = formFile'[f]
      /\ RuntimeIsSaved'
  BY <1>1, <1>2, CommitFacts
<1>4. RequestInv'
  BY <1>1 DEF FormsInv, RequestInv, RequestOf, FormSteps, ChangesOfForm
<1>5. \A u \in Requests : ~FormSaving(u)'
  BY <1>1, <1>3 DEF FormSaving
<1>6. SaverInv' /\ MemoryInv'
  BY <1>3, <1>5 DEF SaverInv, MemoryInv, Written, FormSaving
<1>7. AnswersHold'
  <2> SUFFICES ASSUME NEW f \in Fields
               PROVE  \/ formFile'[f] = shown'[f]
                      \/ f = "excluded" /\ formFile'[f] = "none"
                      \/ f = "name" /\ outdated'
                      \/ \E u \in Requests : request'[u].step = "answer" /\ f \in request'[u].shows
    BY DEF AnswersHold
  <2>1. CASE f \in request[t].shows
    BY <1>1, <1>3, <2>1 DEF FormCommitted
  <2>2. CASE f \notin request[t].shows /\ f \in DOMAIN request[t].changes
    BY <1>1, <1>3, <2>2 DEF ChangesOfForm
  <2>3. CASE f \notin request[t].shows /\ f \notin DOMAIN request[t].changes
    <3>1. formFile'[f] = formFile[f] /\ shown'[f] = shown[f] /\ outdated' = outdated
      BY <1>3, <2>3 DEF FormCommitted
    <3>2. \A u \in Requests : request[u].step = "answer" => request'[u] = request[u]
      BY <1>1 DEF Written
    <3> QED
      BY <3>1, <3>2 DEF FormsInv, AnswersHold
  <2> QED
    BY <2>1, <2>2, <2>3
<1> QED
  BY <1>3, <1>4, <1>6, <1>7 DEF FormsInv

LEMMA PersonaCommittedKeeps ==
    ASSUME FormsInv, NEW t \in Requests, PersonaCommitted(t)
    PROVE  FormsInv'
<1>1. /\ DOMAIN request' = Requests
      /\ Written(t) /\ request'[t].step = "answer" /\ request'[t].shows = request[t].shows
      /\ \A u \in Requests : u # t => request'[u] = request[u]
      /\ UNCHANGED <<formConfig, shown>> /\ FormInForce(request[t].changes)
      /\ "name" \in DOMAIN request[t].changes
  BY DEF FormsInv, RequestInv, PersonaCommitted, Written
<1>2. shown' \in FormConfigs /\ outdated' \in BOOLEAN
  BY DEF FormsInv, RuntimeIsSaved, FormsTypeOK, PersonaCommitted
<1>3. /\ \A u \in Requests : FormSaving(u) => u = t
      /\ ChangesOfForm(request[t].changes, request[t].shows)
      /\ \A f \in Fields : formFile'[f] = IF f \in DOMAIN request[t].changes
                                          THEN request[t].changes[f] ELSE formFile[f]
      /\ \A f \in Fields : formConfig'[f] = formFile'[f]
      /\ RuntimeIsSaved'
  BY <1>1, <1>2, CommitFacts
<1>4. RequestInv'
  BY <1>1, <1>3 DEF FormsInv, RequestInv, RequestOf, FormSteps, ChangesOfForm
<1>5. \A u \in Requests : ~FormSaving(u)'
  BY <1>1, <1>3 DEF FormSaving
<1>6. SaverInv' /\ MemoryInv'
  BY <1>3, <1>5 DEF SaverInv, MemoryInv, Written, FormSaving
<1>7. AnswersHold'
  <2> SUFFICES ASSUME NEW f \in Fields
               PROVE  \/ formFile'[f] = shown'[f]
                      \/ f = "excluded" /\ formFile'[f] = "none"
                      \/ f = "name" /\ outdated'
                      \/ \E u \in Requests : request'[u].step = "answer" /\ f \in request'[u].shows
    BY DEF AnswersHold
  <2>1. CASE f \in request[t].shows
    BY <1>1, <2>1
  <2>2. CASE f \notin request[t].shows /\ formFile'[f] = formFile[f]
    <3>1. shown'[f] = shown[f] /\ (outdated => outdated')
      BY DEF PersonaCommitted
    <3>2. \A u \in Requests : request[u].step = "answer" => request'[u] = request[u]
      BY <1>1 DEF Written
    <3> QED
      BY <2>2, <3>1, <3>2 DEF FormsInv, AnswersHold
  <2>3. CASE f \notin request[t].shows /\ formFile'[f] # formFile[f]
    <3>1. f \in DOMAIN request[t].changes /\ formFile'[f] = request[t].changes[f]
      BY <1>3, <2>3
    <3>2. (f = "excluded" /\ formFile'[f] = "none") \/ f = "name"
      BY <1>3, <2>3, <3>1 DEF ChangesOfForm
    <3>3. ASSUME f = "name" PROVE outdated'
      <4>1. formRuntime["name"] = formFile["name"]
        BY DEF FormsInv, RuntimeIsSaved, Kept, Fields
      <4> QED
        BY <2>3, <3>1, <3>3, <4>1 DEF PersonaCommitted
    <3> QED
      BY <3>2, <3>3
  <2> QED
    BY <2>1, <2>2, <2>3
<1> QED
  BY <1>3, <1>4, <1>6, <1>7 DEF FormsInv

LEMMA PersonaAnsweredKeeps ==
    ASSUME FormsInv, NEW t \in Requests, PersonaAnswered(t)
    PROVE  FormsInv'
<1>1. /\ DOMAIN request' = Requests
      /\ request[t].step = "answer" /\ request'[t].step = "idle"
      /\ request[t].shows \subseteq PersonaSnapshot
      /\ \A u \in Requests : u # t => request'[u] = request[u]
      /\ UNCHANGED <<formConfig, formFile, formRuntime>>
      /\ shown' = [f \in Fields |-> IF f \in request[t].shows THEN formRuntime[f] ELSE shown[f]]
  BY DEF FormsInv, RequestInv, RequestOf, PersonaAnswered, NoRequest
<1>2. RequestInv'
  BY <1>1 DEF FormsInv, RequestInv, RequestOf, FormSteps, ChangesOfForm
<1>3. \A u \in Requests : FormSaving(u)' => FormSaving(u) /\ u # t /\ request'[u] = request[u]
  BY <1>1 DEF FormSaving
<1>4. SaverInv'
  BY <1>1, <1>3 DEF FormsInv, SaverInv
<1>5. \A u \in Requests : /\ Written(u)' <=> Written(u)
                          /\ Written(u) => request'[u] = request[u]
  BY <1>1 DEF Written
<1>6. MemoryInv'
  BY <1>1, <1>5 DEF FormsInv, MemoryInv
<1>7. \A f \in request[t].shows : formRuntime[f] = formFile[f]
  BY <1>1 DEF FormsInv, RuntimeIsSaved, Kept, Fields, PersonaSnapshot
<1>8. RuntimeIsSaved'
  <2>1. formFile \in FormConfigs /\ shown \in FormConfigs
    BY DEF FormsInv, RuntimeIsSaved, FormsTypeOK
  <2>2. shown' = [f \in Fields |-> shown'[f]] /\ \A f \in Fields : shown'[f] \in FormValues(f)
    BY <1>1, <1>7, <2>1, FieldsOfConfig
  <2>3. shown' \in FormConfigs
    BY <2>2, ConfigOfFields
  <2>4. outdated' \in BOOLEAN
    BY DEF PersonaAnswered
  <2> QED
    BY <1>1, <2>3, <2>4 DEF FormsInv, RuntimeIsSaved, FormsTypeOK
<1>9. AnswersHold'
  <2> SUFFICES ASSUME NEW f \in Fields, f \notin request[t].shows
               PROVE  \/ formFile'[f] = shown'[f]
                      \/ f = "excluded" /\ formFile'[f] = "none"
                      \/ f = "name" /\ outdated'
                      \/ \E u \in Requests : request'[u].step = "answer" /\ f \in request'[u].shows
    BY <1>1, <1>7 DEF AnswersHold
  <2>1. formFile'[f] = formFile[f] /\ shown'[f] = shown[f] /\ (f = "name" /\ outdated => outdated')
    BY <1>1 DEF PersonaAnswered
  <2>2. \A u \in Requests : u # t => request'[u] = request[u]
    BY <1>1
  <2> QED
    BY <2>1, <2>2 DEF FormsInv, AnswersHold
<1> QED
  BY <1>2, <1>4, <1>6, <1>8, <1>9 DEF FormsInv

-----------------------------------------------------------------------------
LEMMA FormsInitHolds == FormsInit => FormsInv
<1> SUFFICES ASSUME FormsInit PROVE FormsInv
  OBVIOUS
<1>1. \A t \in Requests : request[t].step = "idle"
  BY DEF FormsInit, NoRequest
<1>2. RequestInv
  BY <1>1 DEF FormsInit, RequestInv, RequestOf, FormSteps, ChangesOfForm
<1>3. SaverInv /\ MemoryInv
  BY <1>1 DEF FormsInit, SaverInv, MemoryInv, FormSaving, Written
<1>4. RuntimeIsSaved
  BY DEF FormsInit, RuntimeIsSaved, FormsTypeOK
<1>5. AnswersHold
  BY DEF FormsInit, AnswersHold
<1> QED
  BY <1>2, <1>3, <1>4, <1>5 DEF FormsInv

LEMMA FormsNextKeeps == FormsInv /\ [FormsNext]_formsVars => FormsInv'
<1> SUFFICES ASSUME FormsInv, [FormsNext]_formsVars PROVE FormsInv'
  OBVIOUS
<1>1. CASE FormsNext
  <2>1. PICK t \in Requests :
           \/ SaveQuestChainSettings(t) \/ SaveQuestToolFilterSettings(t)
           \/ SaveKnowledgeEnvironmentSettings(t) \/ SaveFastActionSettings(t)
           \/ SaveSttProviderId(t) \/ SaveChatProviderId(t) \/ SaveCharacterPersona(t)
           \/ PanelAction(t)
           \/ Persist(t)
    BY <1>1 DEF FormsNext
  <2>2. CASE PanelAction(t)
    BY <2>2, RequestKeeps, SetPersonaSourceModeKeeps, PersonaOverviewKeeps DEF PanelAction
  <2>3. CASE Persist(t)
    BY <2>3, FormLockTakenKeeps, FormInMemoryKeeps, RefusedKeeps, FormCommittedKeeps,
       PersonaCommittedKeeps, PersonaAnsweredKeeps DEF Persist
  <2> QED
    BY <2>1, <2>2, <2>3, RequestKeeps
<1>2. CASE UNCHANGED formsVars
  BY <1>2 DEF formsVars, FormsInv, RequestInv, RequestOf, SaverInv, FormSaving, MemoryInv, Written,
         RuntimeIsSaved, FormsTypeOK, AnswersHold
<1> QED
  BY <1>1, <1>2

(* Whatever saves interleave, fail or are refused, the components work with what is
   saved: _persist_many, for any number of requests. *)
THEOREM RuntimeIsSavedHolds == FormsSpec => []RuntimeIsSaved
<1>1. FormsInv => RuntimeIsSaved
  BY DEF FormsInv
<1> QED
  BY <1>1, FormsInitHolds, FormsNextKeeps, PTL DEF FormsSpec

(* What an answer showed as saved stays saved until a save of that field is answered,
   but for the two switches of the panel. *)
THEOREM AnswersHoldHolds == FormsSpec => []AnswersHold
<1>1. FormsInv => AnswersHold
  BY DEF FormsInv
<1> QED
  BY <1>1, FormsInitHolds, FormsNextKeeps, PTL DEF FormsSpec

-----------------------------------------------------------------------------
(***************************************************************************)
(* The settings with two masters.                                          *)
(***************************************************************************)

(* The inductive invariant of the settings. *)

Overlays == Patches \cup {NoOverlay}
Runtimes == [log : BOOLEAN, limit : Limits]

(* What the configuration may have. *)
CanHave(s) == IF s = "limit" THEN Limits \cup {Malformed} ELSE BOOLEAN

ChangesOfSave(changes) ==
    DOMAIN changes \subseteq Settings /\ \A s \in DOMAIN changes : changes[s] \in Values(s)

CanPutBack(w) ==
    /\ DOMAIN saves[w].previous = DOMAIN saves[w].changes
    /\ \A s \in DOMAIN saves[w].changes : saves[w].previous[s] \in CanHave(s)

(* A save of the dashboard read, behind the lock, what the file has; the kernel's read
   before it waited, and may put back anything. *)
SavesInv ==
    /\ DOMAIN saves = Writers
    /\ \A w \in Writers : saves[w].step # "idle" =>
          /\ ChangesOfSave(saves[w].changes)
          /\ w = "kernel" \/ PolicySaving(w) => CanPutBack(w)
    /\ PolicySaving("dashboard") =>
          \A s \in DOMAIN saves["dashboard"].changes :
             saves["dashboard"].previous[s] = policyFile[s] \/ s \in undone

PolicyInv == SavesInv /\ SavesAreKept /\ OverlayIsPersisted /\ PolicyIsInForce

-----------------------------------------------------------------------------
(* Configurations and overlays. *)

LEMMA SettingsOfConfig ==
    ASSUME NEW c \in PolicyConfigs
    PROVE  DOMAIN c = Settings /\ \A s \in Settings : c[s] \in CanHave(s)
BY DEF PolicyConfigs, Settings, CanHave

LEMMA ConfigOfSettings ==
    ASSUME NEW c, c = [s \in Settings |-> c[s]], \A s \in Settings : c[s] \in CanHave(s)
    PROVE  c \in PolicyConfigs
<1>1. c["log"] \in BOOLEAN /\ c["limit"] \in Limits \cup {Malformed}
  BY DEF Settings, CanHave
<1> QED
  BY <1>1 DEF PolicyConfigs, Settings

LEMMA OverFacts ==
    ASSUME NEW c, DOMAIN c = Settings, NEW changes
    PROVE  /\ Overlaid(changes, c) = [s \in Settings |-> Overlaid(changes, c)[s]]
           /\ \A s \in Settings :
                 Overlaid(changes, c)[s] = IF s \in DOMAIN changes THEN changes[s] ELSE c[s]
BY DEF Overlaid

LEMMA OverConfig ==
    ASSUME NEW c \in PolicyConfigs, NEW changes, DOMAIN changes \subseteq Settings,
           \A s \in DOMAIN changes : changes[s] \in CanHave(s)
    PROVE  Overlaid(changes, c) \in PolicyConfigs
<1>1. DOMAIN c = Settings /\ \A s \in Settings : c[s] \in CanHave(s)
  BY SettingsOfConfig
<1>2. /\ Overlaid(changes, c) = [s \in Settings |-> Overlaid(changes, c)[s]]
      /\ \A s \in Settings : Overlaid(changes, c)[s] \in CanHave(s)
  BY <1>1, OverFacts
<1> QED
  BY <1>2, ConfigOfSettings

LEMMA ValuesCanBe == \A s \in Settings : \A v \in Values(s) : v \in CanHave(s)
BY DEF Values, CanHave, Settings

LEMMA RuntimeOfSettings ==
    ASSUME NEW r, r = [s \in Settings |-> r[s]], \A s \in Settings : r[s] \in Values(s)
    PROVE  r \in Runtimes
<1>1. r["log"] \in BOOLEAN /\ r["limit"] \in Limits
  BY DEF Settings, Values
<1> QED
  BY <1>1 DEF Runtimes, Settings

LEMMA SettingsOfRuntime ==
    ASSUME NEW r \in Runtimes
    PROVE  DOMAIN r = Settings /\ \A s \in Settings : r[s] \in Values(s)
BY DEF Runtimes, Settings, Values

LEMMA OverlayFacts == ASSUME NEW o \in Overlays PROVE ChangesOfSave(o)
<1>1. CASE o = NoOverlay
  BY <1>1 DEF NoOverlay, ChangesOfSave
<1>2. CASE o \in Patches
  BY <1>2 DEF Patches, Changes, ChangesOfSave
<1> QED
  BY <1>1, <1>2 DEF Overlays

LEMMA OverlayOf ==
    ASSUME NEW o, o = [s \in DOMAIN o |-> o[s]], ChangesOfSave(o)
    PROVE  o \in Overlays
<1>1. CASE DOMAIN o = {}
  <2>1. o = NoOverlay
    BY <1>1 DEF NoOverlay
  <2> QED
    BY <2>1 DEF Overlays
<1>2. CASE DOMAIN o # {}
  <2>1. \A s \in DOMAIN o : o[s] \in Limits \cup BOOLEAN
    BY DEF ChangesOfSave, Values
  <2>2. o \in [DOMAIN o -> Limits \cup BOOLEAN]
    BY <2>1
  <2>3. o \in Changes(DOMAIN o)
    BY <2>2 DEF Changes, ChangesOfSave
  <2>4. DOMAIN o \in (SUBSET Settings) \ {{}}
    BY <1>2 DEF ChangesOfSave
  <2> QED
    BY <2>3, <2>4 DEF Overlays, Patches
<1> QED
  BY <1>1, <1>2

LEMMA InForceIsOverlay == ASSUME NEW m, NEW o \in Overlays PROVE InForce(m, o) \in Overlays
BY DEF InForce, Overlays

(* What the policy is for each setting. *)
LEMMA PolicyFacts ==
    ASSUME NEW c \in PolicyConfigs, NEW over \in Overlays
    PROVE  /\ Effective(c, over) \in PolicyConfigs
           /\ \A s \in Settings :
                 Effective(c, over)[s] = IF s \in DOMAIN over THEN over[s] ELSE c[s]
<1>1. DOMAIN over \subseteq Settings /\ \A s \in DOMAIN over : over[s] \in CanHave(s)
  BY OverlayFacts, ValuesCanBe DEF ChangesOfSave
<1> QED
  BY <1>1, OverConfig, OverFacts, SettingsOfConfig DEF Effective

LEMMA SamePolicy ==
    ASSUME NEW c \in PolicyConfigs, NEW d \in PolicyConfigs, NEW over \in Overlays,
           NEW s \in Settings, c[s] = d[s]
    PROVE  Effective(c, over)[s] = Effective(d, over)[s]
<1>1. Effective(c, over)[s] = IF s \in DOMAIN over THEN over[s] ELSE c[s]
  BY PolicyFacts
<1>2. Effective(d, over)[s] = IF s \in DOMAIN over THEN over[s] ELSE d[s]
  BY PolicyFacts
<1> QED
  BY <1>1, <1>2

-----------------------------------------------------------------------------
(* sync_runtime puts the policy into force, or the exception is on record. *)
LEMMA SyncFacts ==
    ASSUME policyRuntime \in Runtimes, policyConfig' \in PolicyConfigs,
           NEW over \in Overlays, overlay' \in Overlays, PolicySync(over)
    PROVE  /\ policyRuntime' \in Runtimes
           /\ unheeded' \subseteq Settings
           /\ Departing(policyConfig', mode', overlay', policyRuntime') \subseteq unheeded'
<1> DEFINE policy == Effective(policyConfig', over)
<1>1. /\ policyRuntime' = Applied(policy)
      /\ unheeded' = IF Raises(policy) \/ over # InForce(mode', overlay')
                     THEN Departing(policyConfig', mode', overlay', policyRuntime') ELSE {}
  BY DEF PolicySync
<1>2. policy \in PolicyConfigs
  BY PolicyFacts
<1>3. /\ policyRuntime'.log = policy.log
      /\ policyRuntime'.limit = IF Raises(policy) THEN policyRuntime.limit ELSE policy.limit
      /\ policyRuntime' = [log |-> policy.log,
                           limit |-> IF Raises(policy) THEN policyRuntime.limit ELSE policy.limit]
  BY <1>1 DEF Applied
<1>4. policyRuntime' \in Runtimes
  BY <1>2, <1>3 DEF PolicyConfigs, Runtimes, Raises
<1>5. Departing(policyConfig', mode', overlay', policyRuntime') \subseteq Settings
  BY DEF Departing
<1>6. CASE Raises(policy) \/ over # InForce(mode', overlay')
  BY <1>1, <1>4, <1>5, <1>6
<1>7. CASE ~(Raises(policy) \/ over # InForce(mode', overlay'))
  <2>1. policyRuntime'["log"] = policy["log"] /\ policyRuntime'["limit"] = policy["limit"]
    BY <1>3, <1>7
  <2>2. Departing(policyConfig', mode', overlay', policyRuntime') = {}
    BY <1>7, <2>1 DEF Departing, Settings
  <2> QED
    BY <1>1, <1>4, <1>7, <2>2
<1> QED
  BY <1>6, <1>7

LEMMA PolicyTypes == ASSUME PolicyInv
    PROVE  /\ policyConfig \in PolicyConfigs /\ policyFile \in PolicyConfigs
           /\ overlay \in Overlays /\ overlayFile \in Overlays /\ policyRuntime \in Runtimes
BY DEF PolicyInv, SavesAreKept, PolicyTypeOK, Overlays, Runtimes

-----------------------------------------------------------------------------
(* The saves. *)

LEMMA AskedKeeps ==
    ASSUME PolicyInv, NEW w \in Writers, saves[w].step = "idle", NEW r,
           saves' = [saves EXCEPT ![w] = r], r.step = "wait", ChangesOfSave(r.changes),
           w = "kernel" => /\ DOMAIN r.previous = DOMAIN r.changes
                           /\ \A s \in DOMAIN r.changes : r.previous[s] \in CanHave(s),
           UNCHANGED <<saved, overlays, policyRuntime, unheeded>>
    PROVE  PolicyInv'
<1>1. DOMAIN saves' = Writers /\ saves'[w] = r /\ \A v \in Writers : v # w => saves'[v] = saves[v]
  BY DEF PolicyInv, SavesInv
<1>2. \A v \in Writers : PolicySaving(v)' <=> PolicySaving(v)
  BY <1>1 DEF PolicySaving
<1>3. Pending' = Pending
  BY <1>1 DEF Pending
<1>4. SavesInv'
  <2>1. "dashboard" \in Writers
    BY DEF Writers
  <2>2. PolicySaving("dashboard")' =>
           \A s \in DOMAIN saves'["dashboard"].changes :
              saves'["dashboard"].previous[s] = policyFile'[s] \/ s \in undone'
    BY <1>1, <2>1 DEF PolicyInv, SavesInv, PolicySaving, saved
  <2>3. ASSUME NEW v \in Writers, saves'[v].step # "idle"
        PROVE  /\ ChangesOfSave(saves'[v].changes)
               /\ v = "kernel" \/ PolicySaving(v)' => CanPutBack(v)'
    <3>1. CASE v = w
      BY <1>1, <3>1 DEF CanPutBack, PolicySaving
    <3>2. CASE v # w
      BY <1>1, <1>2, <2>3, <3>2 DEF PolicyInv, SavesInv, CanPutBack
    <3> QED
      BY <3>1, <3>2
  <2> QED
    BY <1>1, <2>2, <2>3 DEF SavesInv
<1>5. SavesAreKept'
  BY <1>1, <1>2, <1>3 DEF PolicyInv, SavesAreKept, PolicyTypeOK, saved, overlays
<1>6. OverlayIsPersisted' /\ PolicyIsInForce'
  BY <1>3 DEF PolicyInv, OverlayIsPersisted, PolicyIsInForce, saved, overlays
<1> QED
  BY <1>4, <1>5, <1>6 DEF PolicyInv

LEMMA ChangesFacts ==
    ASSUME NEW ss \in SUBSET Settings, NEW c \in Changes(ss)
    PROVE  ChangesOfSave(c) /\ DOMAIN c = ss
BY DEF Changes, ChangesOfSave

LEMMA DashboardAsks ==
    ASSUME PolicyInv, SaveDiagnosticsSettings \/ SaveTtsSettings
    PROVE  PolicyInv'
<1>1. PICK ss \in SUBSET Settings : \E c \in Changes(ss) :
         saves' = [saves EXCEPT !["dashboard"] = [step |-> "wait", changes |-> c]]
  BY DEF SaveDiagnosticsSettings, SaveTtsSettings, Settings
<1>2. PICK c \in Changes(ss) :
         saves' = [saves EXCEPT !["dashboard"] = [step |-> "wait", changes |-> c]]
  BY <1>1
<1>3. /\ saves["dashboard"].step = "idle" /\ "dashboard" \in Writers /\ "dashboard" # "kernel"
      /\ UNCHANGED <<saved, overlays, policyRuntime, unheeded>>
  BY DEF SaveDiagnosticsSettings, SaveTtsSettings, NoSave, Writers
<1> DEFINE r == [step |-> "wait", changes |-> c]
<1>4. r.step = "wait" /\ ChangesOfSave(r.changes) /\ saves' = [saves EXCEPT !["dashboard"] = r]
  BY <1>2, ChangesFacts
<1> HIDE DEF r
<1> QED
  BY <1>3, <1>4, AskedKeeps

LEMMA KernelAsks == ASSUME PolicyInv, NativeWrite PROVE PolicyInv'
<1>1. PICK t \in Settings : \E c \in Changes({t}) :
         saves' = [saves EXCEPT !["kernel"] =
                      [step |-> "wait", changes |-> c, previous |-> Previous(c)]]
  BY DEF NativeWrite
<1>2. PICK c \in Changes({t}) :
         saves' = [saves EXCEPT !["kernel"] =
                      [step |-> "wait", changes |-> c, previous |-> Previous(c)]]
  BY <1>1
<1>3. /\ saves["kernel"].step = "idle" /\ "kernel" \in Writers
      /\ UNCHANGED <<saved, overlays, policyRuntime, unheeded>>
  BY DEF NativeWrite, NoSave, Writers
<1> DEFINE r == [step |-> "wait", changes |-> c, previous |-> Previous(c)]
<1>4. ChangesOfSave(c)
  BY ChangesFacts
<1>5. /\ r.step = "wait" /\ ChangesOfSave(r.changes) /\ saves' = [saves EXCEPT !["kernel"] = r]
      /\ DOMAIN r.previous = DOMAIN r.changes
      /\ \A s \in DOMAIN r.changes : r.previous[s] \in CanHave(s)
  BY <1>2, <1>4, PolicyTypes, SettingsOfConfig DEF Previous, ChangesOfSave
<1> HIDE DEF r
<1> QED
  BY <1>3, <1>5, AskedKeeps

LEMMA PolicyLockTakenKeeps ==
    ASSUME PolicyInv, NEW w \in Writers, PolicyLockTaken(w)
    PROVE  PolicyInv'
<1>1. /\ DOMAIN saves' = Writers
      /\ saves[w].step = "wait" /\ saves'[w].step = "saving"
      /\ saves'[w].changes = saves[w].changes
      /\ saves'[w].previous = IF w = "kernel" THEN saves[w].previous ELSE Previous(saves[w].changes)
      /\ \A v \in Writers : v # w => saves'[v] = saves[v]
      /\ UNCHANGED <<policyConfig, policyFile, undone, overlay, overlayFile, mode, unsaved>>
      /\ UNCHANGED <<policyRuntime, unheeded>>
  BY DEF PolicyInv, SavesInv, PolicyLockTaken, saved, overlays
<1>2. \A v \in Writers : ~PolicySaving(v)
  BY DEF PolicyLockTaken
<1>3. Pending = {} /\ Pending' = {}
  BY <1>1, <1>2 DEF Pending, PolicySaving
<1>4. \A v \in Writers : PolicySaving(v)' => v = w
  BY <1>1, <1>2 DEF PolicySaving
<1>5. \A s \in Settings : policyConfig[s] = policyFile[s] \/ s \in undone
  BY <1>3 DEF PolicyInv, SavesAreKept
<1>6. ChangesOfSave(saves[w].changes) /\ (w = "kernel" => CanPutBack(w))
  BY <1>1 DEF PolicyInv, SavesInv
<1>7. CanPutBack(w)'
  <2>1. CASE w = "kernel"
    BY <1>1, <1>6, <2>1 DEF CanPutBack
  <2>2. CASE w # "kernel"
    BY <1>1, <1>6, <2>2, PolicyTypes, SettingsOfConfig DEF CanPutBack, Previous, ChangesOfSave
  <2> QED
    BY <2>1, <2>2
<1>8. SavesInv'
  <2>1. ASSUME NEW v \in Writers, saves'[v].step # "idle"
        PROVE  /\ ChangesOfSave(saves'[v].changes)
               /\ v = "kernel" \/ PolicySaving(v)' => CanPutBack(v)'
    <3>1. CASE v = w
      BY <1>1, <1>6, <1>7, <3>1
    <3>2. CASE v # w
      BY <1>1, <1>4, <2>1, <3>2 DEF PolicyInv, SavesInv, CanPutBack
    <3> QED
      BY <3>1, <3>2
  <2>2. ASSUME PolicySaving("dashboard")', NEW s \in DOMAIN saves'["dashboard"].changes
        PROVE  saves'["dashboard"].previous[s] = policyFile'[s] \/ s \in undone'
    <3>1. w = "dashboard" /\ "dashboard" # "kernel"
      BY <1>4, <2>2 DEF Writers
    <3>2. saves'["dashboard"].previous[s] = policyConfig[s] /\ s \in Settings
      BY <1>1, <1>6, <2>2, <3>1 DEF Previous, ChangesOfSave
    <3> QED
      BY <1>1, <1>5, <3>2
  <2> QED
    BY <1>1, <2>1, <2>2 DEF SavesInv
<1>9. SavesAreKept'
  BY <1>1, <1>3, <1>4 DEF PolicyInv, SavesAreKept, PolicyTypeOK
<1>10. OverlayIsPersisted' /\ PolicyIsInForce'
  BY <1>1, <1>3 DEF PolicyInv, OverlayIsPersisted, PolicyIsInForce
<1> QED
  BY <1>8, <1>9, <1>10 DEF PolicyInv

LEMMA MemoryWrittenKeeps ==
    ASSUME PolicyInv, NEW w \in Writers, MemoryWritten(w)
    PROVE  PolicyInv'
<1>1. /\ DOMAIN saves' = Writers
      /\ saves[w].step = "saving" /\ saves'[w].step = "written"
      /\ saves'[w].changes = saves[w].changes /\ saves'[w].previous = saves[w].previous
      /\ \A v \in Writers : v # w => saves'[v] = saves[v]
      /\ policyConfig' = Overlaid(saves[w].changes, policyConfig)
      /\ UNCHANGED <<policyFile, undone, overlay, overlayFile, mode, unsaved>>
      /\ UNCHANGED <<policyRuntime, unheeded>>
  BY DEF PolicyInv, SavesInv, MemoryWritten, PolicyGoto, overlays
<1>2. PolicySaving(w)
  BY <1>1 DEF PolicySaving
<1>3. \A v \in Writers : PolicySaving(v) => v = w
  BY <1>2 DEF PolicyInv, SavesAreKept, PolicyTypeOK
<1>4. \A v \in Writers : PolicySaving(v)' => v = w
  BY <1>1, <1>3 DEF PolicySaving
<1>5. ChangesOfSave(saves[w].changes) /\ CanPutBack(w)
  BY <1>1, <1>2 DEF PolicyInv, SavesInv
<1>6. Pending = {}
  BY <1>1, <1>3 DEF Pending, PolicySaving
<1>7. \A s \in DOMAIN saves[w].changes : s \in Pending'
  BY <1>1 DEF Pending
<1>8. /\ policyConfig' \in PolicyConfigs
      /\ \A s \in Settings : policyConfig'[s] = IF s \in DOMAIN saves[w].changes
                                                THEN saves[w].changes[s] ELSE policyConfig[s]
  <2>1. DOMAIN saves[w].changes \subseteq Settings
    BY <1>5 DEF ChangesOfSave
  <2>2. \A s \in DOMAIN saves[w].changes : saves[w].changes[s] \in CanHave(s)
    BY <1>5, <2>1, ValuesCanBe DEF ChangesOfSave
  <2>3. policyConfig \in PolicyConfigs /\ DOMAIN policyConfig = Settings
    BY PolicyTypes, SettingsOfConfig
  <2>4. policyConfig' \in PolicyConfigs
    BY <1>1, <2>1, <2>2, <2>3, OverConfig
  <2> QED
    BY <1>1, <2>1, <2>3, <2>4, OverFacts
<1>9. SavesInv'
  <2>1. ASSUME NEW v \in Writers, saves'[v].step # "idle"
        PROVE  /\ ChangesOfSave(saves'[v].changes)
               /\ v = "kernel" \/ PolicySaving(v)' => CanPutBack(v)'
    <3>1. CASE v = w
      BY <1>1, <1>5, <3>1 DEF CanPutBack
    <3>2. CASE v # w
      BY <1>1, <1>4, <2>1, <3>2 DEF PolicyInv, SavesInv, CanPutBack
    <3> QED
      BY <3>1, <3>2
  <2>2. ASSUME PolicySaving("dashboard")', NEW s \in DOMAIN saves'["dashboard"].changes
        PROVE  saves'["dashboard"].previous[s] = policyFile'[s] \/ s \in undone'
    <3>1. w = "dashboard"
      BY <1>4, <2>2 DEF Writers
    <3> QED
      BY <1>1, <1>2, <2>2, <3>1 DEF PolicyInv, SavesInv
  <2> QED
    BY <1>1, <2>1, <2>2 DEF SavesInv
<1>10. SavesAreKept'
  <2>1. \A s \in Settings : policyConfig'[s] = policyFile'[s] \/ s \in undone' \cup Pending'
    BY <1>1, <1>6, <1>7, <1>8 DEF PolicyInv, SavesAreKept
  <2> QED
    BY <1>1, <1>4, <1>8, <2>1 DEF PolicyInv, SavesAreKept, PolicyTypeOK
<1>11. OverlayIsPersisted'
  BY <1>1 DEF PolicyInv, OverlayIsPersisted
<1>12. PolicyIsInForce'
  <2> SUFFICES ASSUME NEW s \in Departing(policyConfig', mode', overlay', policyRuntime'),
                      s \notin DOMAIN saves[w].changes
               PROVE  s \in unheeded'
    BY <1>7 DEF PolicyIsInForce
  <2>1. s \in Settings
    BY DEF Departing
  <2>2. InForce(mode, overlay) \in Overlays
    BY PolicyTypes, InForceIsOverlay
  <2>3. Effective(policyConfig', InForce(mode, overlay))[s]
           = Effective(policyConfig, InForce(mode, overlay))[s]
    BY <1>1, <1>8, <2>1, <2>2, PolicyTypes, SamePolicy
  <2>4. s \in Departing(policyConfig, mode, overlay, policyRuntime)
    BY <1>1, <2>1, <2>3 DEF Departing
  <2> QED
    BY <1>1, <1>6, <2>4 DEF PolicyInv, PolicyIsInForce
<1> QED
  BY <1>9, <1>10, <1>11, <1>12 DEF PolicyInv

(* A save that is over, however it ended, leaves the other one as it is. *)
LEMMA SaveIsOver ==
    ASSUME PolicyInv, NEW w \in Writers, PolicySaving(w),
           saves' = [saves EXCEPT ![w] = NoSave],
           policyFile' = policyFile \/ w = "kernel" \/ policyFile' = policyConfig
    PROVE  /\ SavesInv' /\ Pending' = {}
           /\ \A v \in Writers : saves'[v].step \in {"idle", "wait"}
           /\ \A s \in Pending : s \in DOMAIN saves[w].changes
           /\ ChangesOfSave(saves[w].changes) /\ CanPutBack(w)
<1>1. /\ DOMAIN saves' = Writers /\ saves'[w].step = "idle"
      /\ \A v \in Writers : v # w => saves'[v] = saves[v]
  BY DEF PolicyInv, SavesInv, NoSave
<1>2. \A v \in Writers : PolicySaving(v) => v = w
  BY DEF PolicyInv, SavesAreKept, PolicyTypeOK
<1>3. \A v \in Writers : saves[v].step \in {"idle", "wait", "saving", "written"}
  BY DEF PolicyInv, SavesAreKept, PolicyTypeOK
<1>4. \A v \in Writers : saves'[v].step \in {"idle", "wait"}
  BY <1>1, <1>2, <1>3 DEF PolicySaving
<1>5. \A v \in Writers : ~PolicySaving(v)'
  BY <1>4 DEF PolicySaving
<1>6. SavesInv'
  <2>1. ASSUME NEW v \in Writers, saves'[v].step # "idle"
        PROVE  /\ ChangesOfSave(saves'[v].changes)
               /\ v = "kernel" \/ PolicySaving(v)' => CanPutBack(v)'
    BY <1>1, <1>5, <2>1 DEF PolicyInv, SavesInv, CanPutBack
  <2> QED
    BY <1>1, <1>5, <2>1 DEF SavesInv, Writers
<1>7. Pending' = {}
  BY <1>4 DEF Pending
<1>8. \A s \in Pending : s \in DOMAIN saves[w].changes
  BY <1>2 DEF Pending, PolicySaving
<1>9. ChangesOfSave(saves[w].changes) /\ CanPutBack(w)
  BY DEF PolicyInv, SavesInv, PolicySaving
<1> QED
  BY <1>4, <1>6, <1>7, <1>8, <1>9

LEMMA DashboardSavedKeeps == ASSUME PolicyInv, DashboardSaved PROVE PolicyInv'
<1> DEFINE changes == saves["dashboard"].changes
<1>1. /\ PolicySaving("dashboard") /\ "dashboard" \in Writers
      /\ saves' = [saves EXCEPT !["dashboard"] = NoSave]
      /\ policyFile' = policyConfig /\ policyConfig' = policyConfig /\ undone' = {}
      /\ UNCHANGED <<overlay, overlayFile, mode, unsaved>>
      /\ policyRuntime' = Overlaid(changes, policyRuntime)
      /\ unheeded' = (unheeded \ DOMAIN changes)
                     \cup (DOMAIN changes \cap Departing(policyConfig, mode, overlay, policyRuntime'))
  BY DEF DashboardSaved, PolicyCommitted, PolicySaving, Writers, overlays
<1>2. /\ SavesInv' /\ Pending' = {}
      /\ \A v \in Writers : saves'[v].step \in {"idle", "wait"}
      /\ \A s \in Pending : s \in DOMAIN changes
      /\ ChangesOfSave(changes)
  BY <1>1, SaveIsOver
<1> HIDE DEF changes
<1>3. /\ policyRuntime' \in Runtimes
      /\ \A s \in Settings : policyRuntime'[s] = IF s \in DOMAIN changes THEN changes[s]
                                                 ELSE policyRuntime[s]
  <2>1. DOMAIN policyRuntime = Settings /\ \A s \in Settings : policyRuntime[s] \in Values(s)
    BY PolicyTypes, SettingsOfRuntime
  <2>2. /\ policyRuntime' = [s \in Settings |-> policyRuntime'[s]]
        /\ \A s \in Settings : policyRuntime'[s] = IF s \in DOMAIN changes THEN changes[s]
                                                   ELSE policyRuntime[s]
    BY <1>1, <1>2, <2>1, OverFacts DEF ChangesOfSave
  <2>3. \A s \in Settings : policyRuntime'[s] \in Values(s)
    BY <1>2, <2>1, <2>2 DEF ChangesOfSave
  <2> QED
    BY <2>2, <2>3, RuntimeOfSettings
<1>4. PolicyTypeOK'
  <2>1. unheeded' \subseteq Settings
    BY <1>1, <1>2 DEF PolicyInv, SavesAreKept, PolicyTypeOK, ChangesOfSave
  <2> QED
    BY <1>1, <1>2, <1>3, <2>1
       DEF PolicyInv, SavesAreKept, PolicyTypeOK, PolicySaving, Runtimes
<1>5. SavesAreKept'
  BY <1>1, <1>4 DEF SavesAreKept
<1>6. OverlayIsPersisted'
  BY <1>1 DEF PolicyInv, OverlayIsPersisted
<1>7. PolicyIsInForce'
  <2> SUFFICES ASSUME NEW s \in Departing(policyConfig', mode', overlay', policyRuntime')
               PROVE  s \in unheeded'
    BY DEF PolicyIsInForce
  <2>1. CASE s \in DOMAIN changes
    BY <1>1, <2>1
  <2>2. CASE s \notin DOMAIN changes
    <3>1. s \in Departing(policyConfig, mode, overlay, policyRuntime)
      BY <1>1, <1>3, <2>2 DEF Departing
    <3> QED
      BY <1>1, <1>2, <2>2, <3>1 DEF PolicyInv, PolicyIsInForce
  <2> QED
    BY <2>1, <2>2
<1> QED
  BY <1>2, <1>5, <1>6, <1>7 DEF PolicyInv

(* What a save that failed puts back. *)
LEMMA PutBack ==
    ASSUME PolicyInv, NEW w \in Writers, ChangesOfSave(saves[w].changes), CanPutBack(w),
           policyConfig' = Overlaid(saves[w].previous, policyConfig)
    PROVE  /\ policyConfig' \in PolicyConfigs
           /\ \A s \in Settings : policyConfig'[s] = IF s \in DOMAIN saves[w].changes
                                                     THEN saves[w].previous[s] ELSE policyConfig[s]
<1>1. DOMAIN saves[w].previous \subseteq Settings
  BY DEF ChangesOfSave, CanPutBack
<1>2. \A s \in DOMAIN saves[w].previous : saves[w].previous[s] \in CanHave(s)
  BY DEF CanPutBack
<1>3. policyConfig \in PolicyConfigs /\ DOMAIN policyConfig = Settings
  BY PolicyTypes, SettingsOfConfig
<1>4. policyConfig' \in PolicyConfigs
  BY <1>1, <1>2, <1>3, OverConfig
<1> QED
  BY <1>1, <1>3, <1>4, OverFacts DEF CanPutBack

LEMMA DashboardFailedKeeps == ASSUME PolicyInv, DashboardFailed PROVE PolicyInv'
<1> DEFINE changes == saves["dashboard"].changes
<1>1. /\ PolicySaving("dashboard") /\ "dashboard" \in Writers
      /\ saves' = [saves EXCEPT !["dashboard"] = NoSave]
      /\ policyConfig' = Overlaid(saves["dashboard"].previous, policyConfig)
      /\ unheeded' = unheeded \cup (DOMAIN changes
                                    \cap Departing(policyConfig', mode, overlay, policyRuntime))
      /\ UNCHANGED <<policyFile, undone, policyRuntime>>
      /\ UNCHANGED <<overlay, overlayFile, mode, unsaved>>
  BY DEF DashboardFailed, Writers, overlays
<1>2. /\ SavesInv' /\ Pending' = {}
      /\ \A v \in Writers : saves'[v].step \in {"idle", "wait"}
      /\ \A s \in Pending : s \in DOMAIN changes
      /\ ChangesOfSave(changes) /\ CanPutBack("dashboard")
  BY <1>1, SaveIsOver
<1>3. /\ policyConfig' \in PolicyConfigs
      /\ \A s \in Settings : policyConfig'[s] = IF s \in DOMAIN changes
                                                THEN saves["dashboard"].previous[s]
                                                ELSE policyConfig[s]
  BY <1>1, <1>2, PutBack
<1>4. PolicyTypeOK'
  <2>1. unheeded' \subseteq Settings
    BY <1>1, <1>2 DEF PolicyInv, SavesAreKept, PolicyTypeOK, ChangesOfSave
  <2> QED
    BY <1>1, <1>2, <1>3, <2>1 DEF PolicyInv, SavesAreKept, PolicyTypeOK, PolicySaving
<1>5. SavesAreKept'
  <2>1. \A s \in DOMAIN changes : saves["dashboard"].previous[s] = policyFile[s] \/ s \in undone
    BY <1>1 DEF PolicyInv, SavesInv
  <2>2. \A s \in Settings : policyConfig'[s] = policyFile'[s] \/ s \in undone'
    BY <1>1, <1>2, <1>3, <2>1 DEF PolicyInv, SavesAreKept
  <2> QED
    BY <1>4, <2>2 DEF SavesAreKept
<1>6. OverlayIsPersisted'
  BY <1>1 DEF PolicyInv, OverlayIsPersisted
<1>7. PolicyIsInForce'
  <2> SUFFICES ASSUME NEW s \in Departing(policyConfig', mode', overlay', policyRuntime')
               PROVE  s \in unheeded'
    BY DEF PolicyIsInForce
  <2>1. CASE s \in DOMAIN changes
    BY <1>1, <2>1
  <2>2. CASE s \notin DOMAIN changes
    <3>1. s \in Settings
      BY DEF Departing
    <3>2. InForce(mode, overlay) \in Overlays
      BY PolicyTypes, InForceIsOverlay
    <3>3. Effective(policyConfig', InForce(mode, overlay))[s]
             = Effective(policyConfig, InForce(mode, overlay))[s]
      BY <1>3, <2>2, <3>1, <3>2, PolicyTypes, SamePolicy
    <3>4. s \in Departing(policyConfig, mode, overlay, policyRuntime)
      BY <1>1, <3>1, <3>3 DEF Departing
    <3> QED
      BY <1>1, <1>2, <2>2, <3>4 DEF PolicyInv, PolicyIsInForce
  <2> QED
    BY <2>1, <2>2
<1> QED
  BY <1>2, <1>5, <1>6, <1>7 DEF PolicyInv

LEMMA NativeWrittenKeeps == ASSUME PolicyInv, NativeWritten PROVE PolicyInv'
<1>1. /\ PolicySaving("kernel") /\ "kernel" \in Writers
      /\ saves' = [saves EXCEPT !["kernel"] = NoSave]
      /\ policyFile' = policyConfig /\ policyConfig' = policyConfig /\ undone' = {}
      /\ UNCHANGED <<overlay, overlayFile, mode, unsaved>>
      /\ PolicySync(InForce(mode, overlay))
  BY DEF NativeWritten, PolicyCommitted, PolicySaving, Writers, overlays
<1>2. /\ SavesInv' /\ Pending' = {}
      /\ \A v \in Writers : saves'[v].step \in {"idle", "wait"}
  BY <1>1, SaveIsOver
<1>3. policyConfig' \in PolicyConfigs /\ overlay' \in Overlays /\ InForce(mode, overlay) \in Overlays
  BY <1>1, PolicyTypes, InForceIsOverlay
<1>4. /\ policyRuntime' \in Runtimes /\ unheeded' \subseteq Settings
      /\ Departing(policyConfig', mode', overlay', policyRuntime') \subseteq unheeded'
  BY <1>1, <1>3, PolicyTypes, SyncFacts
<1>5. PolicyTypeOK'
  BY <1>1, <1>2, <1>4 DEF PolicyInv, SavesAreKept, PolicyTypeOK, PolicySaving, Runtimes
<1>6. SavesAreKept'
  BY <1>1, <1>5 DEF SavesAreKept
<1>7. OverlayIsPersisted' /\ PolicyIsInForce'
  BY <1>1, <1>4 DEF PolicyInv, OverlayIsPersisted, PolicyIsInForce
<1> QED
  BY <1>2, <1>6, <1>7 DEF PolicyInv

LEMMA NativeFailedKeeps == ASSUME PolicyInv, NativeFailed PROVE PolicyInv'
<1>1. /\ PolicySaving("kernel") /\ "kernel" \in Writers
      /\ saves' = [saves EXCEPT !["kernel"] = NoSave]
      /\ policyConfig' = Overlaid(saves["kernel"].previous, policyConfig)
      /\ undone' = {s \in Settings : policyConfig'[s] # policyFile[s]}
      /\ UNCHANGED policyFile
      /\ UNCHANGED <<overlay, overlayFile, mode, unsaved>>
      /\ PolicySync(InForce(mode, overlay))
  BY DEF NativeFailed, Writers, overlays
<1>2. /\ SavesInv' /\ Pending' = {}
      /\ \A v \in Writers : saves'[v].step \in {"idle", "wait"}
      /\ ChangesOfSave(saves["kernel"].changes) /\ CanPutBack("kernel")
  BY <1>1, SaveIsOver
<1>3. /\ policyConfig' \in PolicyConfigs
      /\ overlay' \in Overlays /\ InForce(mode, overlay) \in Overlays
  BY <1>1, <1>2, PutBack, PolicyTypes, InForceIsOverlay
<1>4. /\ policyRuntime' \in Runtimes /\ unheeded' \subseteq Settings
      /\ Departing(policyConfig', mode', overlay', policyRuntime') \subseteq unheeded'
  BY <1>1, <1>3, PolicyTypes, SyncFacts
<1>5. PolicyTypeOK'
  BY <1>1, <1>2, <1>3, <1>4 DEF PolicyInv, SavesAreKept, PolicyTypeOK, PolicySaving, Runtimes
<1>6. SavesAreKept'
  BY <1>1, <1>5 DEF SavesAreKept
<1>7. OverlayIsPersisted' /\ PolicyIsInForce'
  BY <1>1, <1>4 DEF PolicyInv, OverlayIsPersisted, PolicyIsInForce
<1> QED
  BY <1>2, <1>6, <1>7 DEF PolicyInv

-----------------------------------------------------------------------------
(* The overlay. *)

LEMMA OverlayStep ==
    ASSUME PolicyInv, UNCHANGED <<policyConfig, policyFile, undone, saves>>,
           mode' \in {"native", "managed"}, overlay' \in Overlays, overlayFile' \in Overlays,
           unsaved' \in BOOLEAN, OverlayIsPersisted',
           NEW over \in Overlays, PolicySync(over)
    PROVE  PolicyInv'
<1>1. policyConfig' \in PolicyConfigs
  BY PolicyTypes
<1>2. /\ policyRuntime' \in Runtimes /\ unheeded' \subseteq Settings
      /\ Departing(policyConfig', mode', overlay', policyRuntime') \subseteq unheeded'
  BY <1>1, PolicyTypes, SyncFacts
<1>3. SavesInv'
  BY DEF PolicyInv, SavesInv, CanPutBack, PolicySaving
<1>4. PolicyTypeOK'
  BY <1>2 DEF PolicyInv, SavesAreKept, PolicyTypeOK, PolicySaving, Runtimes, Overlays
<1>5. SavesAreKept'
  BY <1>4 DEF PolicyInv, SavesAreKept, Pending
<1>6. PolicyIsInForce'
  BY <1>2 DEF PolicyIsInForce
<1> QED
  BY <1>3, <1>5, <1>6 DEF PolicyInv

LEMMA SetModeKeeps ==
    ASSUME PolicyInv, NEW m \in {"native", "managed"}, SetMode(m)
    PROVE  PolicyInv'
<1>1. /\ UNCHANGED <<policyConfig, policyFile, undone, saves>> /\ mode' = m
      /\ UNCHANGED <<overlay, overlayFile, unsaved>> /\ PolicySync(InForce(m, overlay))
  BY DEF SetMode, saved
<1>2. InForce(m, overlay) \in Overlays
  BY PolicyTypes, InForceIsOverlay
<1>3. overlay' \in Overlays /\ overlayFile' \in Overlays
  BY <1>1, PolicyTypes
<1>4. unsaved' \in BOOLEAN
  BY <1>1 DEF PolicyInv, SavesAreKept, PolicyTypeOK
<1>5. OverlayIsPersisted'
  BY <1>1 DEF PolicyInv, OverlayIsPersisted
<1> QED
  BY <1>1, <1>2, <1>3, <1>4, <1>5, OverlayStep

LEMMA RestoredKeeps ==
    ASSUME PolicyInv, NEW written \in Overlays, RestoredAfter(written),
           mode' \in {"native", "managed"}, UNCHANGED <<saved, saves>>
    PROVE  PolicyInv'
<1>1. /\ overlay' = overlay /\ overlay \in Overlays
      /\ \/ overlayFile' = overlay /\ unsaved' = FALSE
         \/ overlayFile' = written /\ unsaved' = (written # overlay)
      /\ PolicySync(overlay)
  BY PolicyTypes DEF RestoredAfter
<1>2. overlayFile' \in Overlays /\ unsaved' \in BOOLEAN
  BY <1>1
<1>3. OverlayIsPersisted'
  BY <1>1 DEF OverlayIsPersisted
<1>4. UNCHANGED <<policyConfig, policyFile, undone, saves>>
  BY DEF saved
<1> QED
  BY <1>1, <1>2, <1>3, <1>4, OverlayStep

LEMMA ChangedKeeps ==
    ASSUME PolicyInv, NEW over \in Overlays, Changed(over), mode' \in {"native", "managed"}
    PROVE  PolicyInv'
<1>1. CASE RestoredAfter(over)
  BY <1>1, RestoredKeeps DEF Changed
<1>2. CASE RestoredAfter(overlayFile)
  BY <1>2, PolicyTypes, RestoredKeeps DEF Changed
<1>3. CASE /\ overlay' = over /\ overlayFile' = over /\ unsaved' = FALSE
           /\ PolicySync(InForce(mode', over))
  <2>1. InForce(mode', over) \in Overlays
    BY InForceIsOverlay
  <2>2. UNCHANGED <<policyConfig, policyFile, undone, saves>>
    BY DEF Changed, saved
  <2>3. OverlayIsPersisted' /\ unsaved' \in BOOLEAN
    BY <1>3 DEF OverlayIsPersisted
  <2> QED
    BY <1>3, <2>1, <2>2, <2>3, OverlayStep
<1> QED
  BY <1>1, <1>2, <1>3 DEF Changed

LEMMA ApplyPatchKeeps == ASSUME PolicyInv, ApplyPatch PROVE PolicyInv'
<1>1. PICK patch \in Patches : Changed(Patched(patch))
  BY DEF ApplyPatch
<1>2. ChangesOfSave(patch) /\ ChangesOfSave(overlay)
  BY PolicyTypes, OverlayFacts DEF Overlays
<1> DEFINE over == Patched(patch)
<1>3. over = [s \in DOMAIN over |-> over[s]] /\ ChangesOfSave(over)
  <2>1. DOMAIN over = DOMAIN patch \cup DOMAIN overlay
    BY DEF Patched
  <2>2. \A s \in DOMAIN over : over[s] = IF s \in DOMAIN patch THEN patch[s] ELSE overlay[s]
    BY <2>1 DEF Patched
  <2>3. over = [s \in DOMAIN over |-> over[s]]
    BY DEF Patched
  <2> HIDE DEF over
  <2> QED
    BY <1>2, <2>1, <2>2, <2>3 DEF ChangesOfSave
<1> HIDE DEF over
<1>4. over \in Overlays
  BY <1>3, OverlayOf
<1>5. Changed(over) /\ mode' \in {"native", "managed"}
  BY <1>1 DEF over, ApplyPatch
<1> QED
  BY <1>4, <1>5, ChangedKeeps

LEMMA ResetOverrideKeeps == ASSUME PolicyInv, ResetOverride PROVE PolicyInv'
<1>1. PICK ss \in SUBSET Settings : Changed([s \in DOMAIN overlay \ ss |-> overlay[s]])
  BY DEF ResetOverride
<1> DEFINE over == [s \in DOMAIN overlay \ ss |-> overlay[s]]
<1>2. over = [s \in DOMAIN over |-> over[s]] /\ ChangesOfSave(over)
  BY PolicyTypes, OverlayFacts DEF ChangesOfSave
<1>3. Changed(over)
  BY <1>1
<1> HIDE DEF over
<1>4. over \in Overlays
  BY <1>2, OverlayOf
<1>5. mode' \in {"native", "managed"}
  BY DEF ResetOverride, PolicyInv, SavesAreKept, PolicyTypeOK
<1> QED
  BY <1>3, <1>4, <1>5, ChangedKeeps

LEMMA PolicyRestartKeeps == ASSUME PolicyInv, PolicyRestart PROVE PolicyInv'
<1>1. /\ policyConfig' = policyFile /\ policyFile' = policyFile
      /\ overlay' = overlayFile /\ overlayFile' = overlayFile
      /\ mode' \in {"native", "managed"}
      /\ unsaved' = FALSE /\ undone' = {} /\ PolicySync(overlayFile)
  BY DEF PolicyRestart
<1>2. DOMAIN saves' = Writers /\ \A w \in Writers : saves'[w].step = "idle"
  BY DEF PolicyRestart, NoSave
<1>3. policyConfig' \in PolicyConfigs /\ overlay' \in Overlays /\ overlayFile \in Overlays
  BY <1>1, PolicyTypes
<1>4. /\ policyRuntime' \in Runtimes /\ unheeded' \subseteq Settings
      /\ Departing(policyConfig', mode', overlay', policyRuntime') \subseteq unheeded'
  BY <1>1, <1>3, PolicyTypes, SyncFacts
<1>5. SavesInv'
  BY <1>2 DEF SavesInv, PolicySaving, Writers
<1>6. PolicyTypeOK'
  BY <1>1, <1>2, <1>3, <1>4
     DEF PolicyInv, SavesAreKept, PolicyTypeOK, PolicySaving, Runtimes, Overlays
<1>7. SavesAreKept'
  BY <1>1, <1>6 DEF SavesAreKept
<1>8. OverlayIsPersisted' /\ PolicyIsInForce'
  BY <1>1, <1>4 DEF OverlayIsPersisted, PolicyIsInForce
<1> QED
  BY <1>5, <1>7, <1>8 DEF PolicyInv

-----------------------------------------------------------------------------
LEMMA PolicyInitHolds == PolicyInit => PolicyInv
<1> SUFFICES ASSUME PolicyInit PROVE PolicyInv
  OBVIOUS
<1>1. /\ policyConfig \in PolicyConfigs /\ overlay \in Overlays
      /\ policyFile = policyConfig /\ overlayFile = overlay
      /\ policyRuntime = Effective(policyConfig, overlay) /\ ~Raises(policyRuntime)
      /\ mode \in {"native", "managed"} /\ InForce(mode, overlay) = overlay
      /\ undone = {} /\ unheeded = {} /\ unsaved = FALSE
  BY DEF PolicyInit, Overlays, InForce
<1>2. DOMAIN saves = Writers /\ \A w \in Writers : saves[w].step = "idle"
  BY DEF PolicyInit, NoSave
<1>3. SavesInv
  BY <1>2 DEF SavesInv, PolicySaving, Writers
<1>4. policyRuntime \in Runtimes
  <2>1. policyRuntime \in PolicyConfigs
    BY <1>1, PolicyFacts
  <2> QED
    BY <1>1, <2>1 DEF PolicyConfigs, Runtimes, Raises
<1>5. PolicyTypeOK
  BY <1>1, <1>2, <1>4 DEF PolicyTypeOK, PolicySaving, Runtimes, Overlays
<1>6. SavesAreKept
  BY <1>1, <1>5 DEF SavesAreKept
<1>7. OverlayIsPersisted
  BY <1>1 DEF OverlayIsPersisted
<1>8. PolicyIsInForce
  BY <1>1 DEF PolicyIsInForce, Departing
<1> QED
  BY <1>3, <1>6, <1>7, <1>8 DEF PolicyInv

LEMMA PolicyNextKeeps == PolicyInv /\ [PolicyNext]_policyVars => PolicyInv'
<1> SUFFICES ASSUME PolicyInv, [PolicyNext]_policyVars PROVE PolicyInv'
  OBVIOUS
<1>1. CASE PolicyNext
  BY <1>1, DashboardAsks, KernelAsks, PolicyLockTakenKeeps, MemoryWrittenKeeps,
     DashboardSavedKeeps, DashboardFailedKeeps, NativeWrittenKeeps, NativeFailedKeeps,
     SetModeKeeps, ApplyPatchKeeps, ResetOverrideKeeps, PolicyRestartKeeps
     DEF PolicyNext
<1>2. CASE UNCHANGED policyVars
  BY <1>2 DEF policyVars, saved, overlays, PolicyInv, SavesInv, CanPutBack, PolicySaving,
         SavesAreKept, PolicyTypeOK, Pending, OverlayIsPersisted, PolicyIsInForce
<1> QED
  BY <1>1, <1>2

(* No save loses another: memory, which the next save writes as a whole, has what the
   file has, for any number of values and however the saves of the dashboard and of the
   series kernel interleave. *)
THEOREM SavesAreKeptHolds == PolicySpec => []SavesAreKept
<1>1. PolicyInv => SavesAreKept
  BY DEF PolicyInv
<1> QED
  BY <1>1, PolicyInitHolds, PolicyNextKeeps, PTL DEF PolicySpec

(* The managed values outlive a restart as they are: series-control.json. *)
THEOREM OverlayIsPersistedHolds == PolicySpec => []OverlayIsPersisted
<1>1. PolicyInv => OverlayIsPersisted
  BY DEF PolicyInv
<1> QED
  BY <1>1, PolicyInitHolds, PolicyNextKeeps, PTL DEF PolicySpec

(* The components work with the overlay's value of what is managed and with the saved
   value of the rest: _apply_series_control_runtime, but for the cases in unheeded. *)
THEOREM PolicyIsInForceHolds == PolicySpec => []PolicyIsInForce
<1>1. PolicyInv => PolicyIsInForce
  BY DEF PolicyInv
<1> QED
  BY <1>1, PolicyInitHolds, PolicyNextKeeps, PTL DEF PolicySpec
=============================================================================
