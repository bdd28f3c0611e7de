------------------------- MODULE SessionRegistryProofs -------------------------
(***************************************************************************)
(* The safety properties of SessionRegistry for any number of clients,     *)
(* sessions, accounts, events and tasks.                                   *)
(***************************************************************************)
EXTENDS SessionRegistry, FiniteSetTheorems, TLAPS

-----------------------------------------------------------------------------
(* The inductive invariant. *)

Turns == UNION {[hs -> Tasks] : hs \in SUBSET Heads}

SessionStates ==
    [state : {"none", "open", "closed"}, id : Ids \cup {None}, account : Accounts \cup {None},
     granted : BOOLEAN, turns : Turns, seen : Seq(Events)]
TaskStates  == {NoTask} \cup [session : Objects, event : Events, cancelled : BOOLEAN]
StartStates ==
    {None} \cup [step : {"asked", "decided"}, id : Ids, account : Accounts, granted : BOOLEAN]
CloserStates == [left : SUBSET Objects, waiting : Objects \cup {None}]

TypeInv ==
    /\ account \in Accounts /\ accepting \in BOOLEAN /\ terminated \in BOOLEAN
    /\ registry \in [Ids -> Objects \cup {None}]
    /\ session \in [Objects -> SessionStates]
    /\ task \in [Tasks -> TaskStates]
    /\ starts \in [Requests -> StartStates]
    /\ closer \in [Closers -> CloserStates]

Registered == {i \in Ids : registry[i] # None}

(* Who is found in the registry is open and has that id; there is a limit. *)
RegistryInv ==
    /\ \A i \in Registered : Open(registry[i]) /\ session[registry[i]].id = i
    /\ IsFiniteSet(Registered) /\ Cardinality(Registered) <= MaxSessions

(* The limits of a session. *)
LimitsInv ==
    \A s \in Objects :
        /\ IsFiniteSet(DOMAIN session[s].turns)
        /\ Cardinality(DOMAIN session[s].turns) <= MaxInteractions
        /\ Len(session[s].seen) <= Window

(* Who is open is found under his id, unless a close dropped him. *)
FoundInv == \A s \in Objects : Open(s) => s \in lost \/ \E i \in Ids : registry[i] = s

(* Behind a closed gate, who is open is about to be closed by the service. *)
GateInv == ~accepting => \A s \in Objects : Open(s) => s \in lost \cup closer["service"].left

(* A task that runs is the turn of its name. *)
TurnOf(k) == session[task[k].session].turns
CurrentInv ==
    \A k \in Tasks : task[k] # NoTask /\ ~task[k].cancelled =>
        TurnId(task[k].event) \in DOMAIN TurnOf(k) /\ TurnOf(k)[TurnId(task[k].event)] = k

IInv == TypeInv /\ RegistryInv /\ LimitsInv /\ FoundInv /\ GateInv /\ CurrentInv /\ GrantIsCurrent
-----------------------------------------------------------------------------
(* What the operators of the model do. *)

(* A cancelled task is still the task it was. *)
LEMMA CancelledTasks ==
    ASSUME TypeInv, NEW ks
    PROVE  /\ Cancelled(ks) \in [Tasks -> TaskStates]
           /\ \A k \in Tasks :
                 /\ Cancelled(ks)[k] = NoTask <=> task[k] = NoTask
                 /\ Cancelled(ks)[k].session = task[k].session
                 /\ task[k] # NoTask => /\ Cancelled(ks)[k].event = task[k].event
                                        /\ Cancelled(ks)[k].cancelled <=> k \in ks \/ task[k].cancelled
<1>1. [NoTask EXCEPT !.cancelled = TRUE] = NoTask
  BY DEF NoTask
<1>2. SUFFICES ASSUME NEW k \in Tasks
               PROVE  /\ Cancelled(ks)[k] \in TaskStates
                      /\ Cancelled(ks)[k] = NoTask <=> task[k] = NoTask
                      /\ Cancelled(ks)[k].session = task[k].session
                      /\ task[k] # NoTask => /\ Cancelled(ks)[k].event = task[k].event
                                             /\ Cancelled(ks)[k].cancelled <=> k \in ks \/ task[k].cancelled
  BY DEF Cancelled
<1>3. Cancelled(ks)[k] = IF k \in ks THEN [task[k] EXCEPT !.cancelled = TRUE] ELSE task[k]
  BY DEF Cancelled
<1>4. CASE task[k] = NoTask
  BY <1>1, <1>3, <1>4 DEF TaskStates
<1>5. CASE task[k] \in [session : Objects, event : Events, cancelled : BOOLEAN]
  <2>1. task[k] # NoTask
    BY <1>5, RegistryAssumption DEF NoTask
  <2>2. /\ Cancelled(ks)[k] \in [session : Objects, event : Events, cancelled : BOOLEAN]
        /\ Cancelled(ks)[k].session = task[k].session /\ Cancelled(ks)[k].event = task[k].event
        /\ Cancelled(ks)[k].cancelled <=> k \in ks \/ task[k].cancelled
    BY <1>3, <1>5
  <2>3. Cancelled(ks)[k] # NoTask
    BY <2>2, RegistryAssumption DEF NoTask
  <2> QED
    BY <2>1, <2>2, <2>3 DEF TaskStates
<1> QED
  BY <1>4, <1>5 DEF TypeInv, TaskStates

(* A fresh session has no turns and remembers nothing. *)
LEMMA FreshSession == Fresh \in SessionStates /\ DOMAIN Fresh.turns = {} /\ Fresh.seen = << >>
<1>1. [h \in {} |-> None] \in Turns
  <2>1. [h \in {} |-> None] \in [{} -> Tasks] /\ {} \in SUBSET Heads
    OBVIOUS
  <2> QED
    BY <2>1 DEF Turns
<1>2. PICK e \in Turns : e = [h \in {} |-> None]
  BY <1>1
<1>3. Fresh = [state |-> "none", id |-> None, account |-> None, granted |-> FALSE,
               turns |-> e, seen |-> << >>]
  BY <1>2, Zenon DEF Fresh
<1>4. DOMAIN e = {} /\ << >> \in Seq(Events)
  BY <1>2
<1> QED
  BY <1>3, <1>4 DEF SessionStates

(* A closed session is empty, and no task runs on in it. *)
LEMMA ClosedSessions ==
    ASSUME TypeInv, NEW ss \in SUBSET Objects, Closed(ss)
    PROVE  /\ session' \in [Objects -> SessionStates]
           /\ \A s \in Objects \ ss : session'[s] = session[s]
           /\ \A s \in ss : /\ ~Open(s)' /\ DOMAIN session'[s].turns = {} /\ session'[s].seen = << >>
<1> DEFINE closed(s) == [Fresh EXCEPT !.state = "closed", !.id = session[s].id]
<1>1. \A s \in Objects : session'[s] = IF s \in ss THEN closed(s) ELSE session[s]
  BY DEF Closed
<1>2. ASSUME NEW s \in Objects
      PROVE  /\ closed(s) \in SessionStates /\ closed(s).state = "closed"
             /\ DOMAIN closed(s).turns = {} /\ closed(s).seen = << >>
  <2>1. session[s].id \in Ids \cup {None}
    BY DEF TypeInv, SessionStates
  <2>2. /\ [Fresh EXCEPT !.state = "closed"] \in SessionStates
        /\ DOMAIN [Fresh EXCEPT !.state = "closed"].turns = {}
        /\ [Fresh EXCEPT !.state = "closed"].seen = << >> /\ [Fresh EXCEPT !.state = "closed"].state = "closed"
    BY FreshSession DEF SessionStates
  <2>3. closed(s) = [[Fresh EXCEPT !.state = "closed"] EXCEPT !.id = session[s].id]
    OBVIOUS
  <2> QED
    BY <2>1, <2>2, <2>3 DEF SessionStates
<1> HIDE DEF closed
<1>3. DOMAIN session' = Objects /\ session' = [s \in Objects |-> session'[s]]
  BY DEF Closed
<1>4. \A s \in Objects : session'[s] \in SessionStates
  BY <1>1, <1>2 DEF TypeInv
<1> QED
  BY <1>1, <1>2, <1>3, <1>4 DEF Open

(* What a close of the sessions ss leaves: the registry, the limits and the tasks are in
   order, and who is open was so before and is not of ss. *)
Shut(ss) ==
    /\ ss \subseteq Objects /\ Closed(ss)
    /\ registry' = [i \in Ids |-> IF i \in {session[s].id : s \in ss} THEN None ELSE registry[i]]
    /\ lost \cup Dropped(ss) \subseteq lost'

LEMMA ShutKeeps ==
    ASSUME IInv, NEW ss, Shut(ss)
    PROVE  /\ registry' \in [Ids -> Objects \cup {None}] /\ session' \in [Objects -> SessionStates]
           /\ task' \in [Tasks -> TaskStates]
           /\ RegistryInv' /\ LimitsInv' /\ FoundInv' /\ CurrentInv'
           /\ \A s \in Objects : Open(s)' => Open(s) /\ s \notin ss /\ session'[s] = session[s]
           /\ lost \subseteq lost'
<1>1. ss \in SUBSET Objects /\ Closed(ss) /\ TypeInv
  BY DEF Shut, IInv
<1>2. /\ session' \in [Objects -> SessionStates]
      /\ \A s \in Objects \ ss : session'[s] = session[s]
      /\ \A s \in ss : ~Open(s)' /\ DOMAIN session'[s].turns = {} /\ session'[s].seen = << >>
  BY <1>1, ClosedSessions
<1>3. \A s \in Objects : Open(s)' => Open(s) /\ s \notin ss /\ session'[s] = session[s]
  BY <1>2 DEF Open
<1>4. registry' \in [Ids -> Objects \cup {None}]
  BY <1>1 DEF Shut, TypeInv
<1>5. RegistryInv'
  <2>1. Registered' \subseteq Registered /\ \A i \in Registered' : registry'[i] = registry[i]
    BY DEF Shut, Registered
  <2>2. \A i \in Registered' : registry[i] \in Objects \ ss
    <3> SUFFICES ASSUME NEW i \in Registered' PROVE registry[i] \in Objects \ ss
      OBVIOUS
    <3>1. registry[i] \in Objects /\ session[registry[i]].id = i
      BY <1>1, <2>1 DEF IInv, RegistryInv, Registered, TypeInv
    <3>2. i \notin {session[s].id : s \in ss}
      BY DEF Shut, Registered
    <3> QED
      BY <3>1, <3>2
  <2>3. ASSUME NEW i \in Registered'
        PROVE  session'[registry'[i]].state = "open" /\ session'[registry'[i]].id = i
    <3>1. /\ registry'[i] = registry[i] /\ i \in Registered
          /\ session'[registry[i]] = session[registry[i]]
      BY <1>2, <2>1, <2>2
    <3> QED
      BY <3>1 DEF IInv, RegistryInv, Open
  <2>4. IsFiniteSet(Registered') /\ Cardinality(Registered') <= MaxSessions
    <3>1. IsFiniteSet(Registered) /\ Cardinality(Registered) <= MaxSessions
      BY DEF IInv, RegistryInv
    <3>2. IsFiniteSet(Registered') /\ Cardinality(Registered') <= Cardinality(Registered)
      BY <2>1, <3>1, FS_Subset
    <3>3. Cardinality(Registered) \in Nat /\ Cardinality(Registered') \in Nat
      BY <3>1, <3>2, FS_CardinalityType
    <3> QED
      BY <3>1, <3>2, <3>3, RegistryAssumption
  <2> QED
    BY <2>3, <2>4 DEF RegistryInv, Open
<1>6. LimitsInv'
  <2> SUFFICES ASSUME NEW s \in Objects
               PROVE  /\ IsFiniteSet(DOMAIN session'[s].turns)
                      /\ Cardinality(DOMAIN session'[s].turns) <= MaxInteractions
                      /\ Len(session'[s].seen) <= Window
    BY DEF LimitsInv
  <2>1. CASE s \in ss
    <3>1. IsFiniteSet({}) /\ Cardinality({}) = 0
      BY FS_EmptySet
    <3>2. DOMAIN session'[s].turns = {} /\ Len(session'[s].seen) = 0
      BY <1>2, <2>1
    <3> QED
      BY <3>1, <3>2, RegistryAssumption
  <2>2. CASE s \notin ss
    BY <1>2, <2>2 DEF IInv, LimitsInv
  <2> QED
    BY <2>1, <2>2
<1>7. FoundInv'
  <2> SUFFICES ASSUME NEW s \in Objects, Open(s)', s \notin lost'
               PROVE  \E i \in Ids : registry'[i] = s
    BY DEF FoundInv
  <2>1. Open(s) /\ s \notin ss /\ s \notin lost /\ s \notin Dropped(ss)
    BY <1>3 DEF Shut
  <2>2. PICK i \in Ids : registry[i] = s
    BY <2>1 DEF IInv, FoundInv
  <2>3. i \notin {session[x].id : x \in ss}
    BY <2>1, <2>2, RegistryAssumption DEF Dropped
  <2> QED
    BY <2>2, <2>3 DEF Shut
<1>8. task' \in [Tasks -> TaskStates] /\ CurrentInv'
  <2> DEFINE ks == {k \in Tasks : task[k].session \in ss}
  <2>1. task' = Cancelled(ks)
    BY <1>1 DEF Closed
  <2> HIDE DEF ks
  <2>2. /\ task' \in [Tasks -> TaskStates]
        /\ \A k \in Tasks :
              /\ task'[k] = NoTask <=> task[k] = NoTask
              /\ task'[k].session = task[k].session
              /\ task[k] # NoTask => /\ task'[k].event = task[k].event
                                     /\ task'[k].cancelled <=> k \in ks \/ task[k].cancelled
    BY <1>1, <2>1, CancelledTasks
  <2>3. ASSUME NEW k \in Tasks, task'[k] # NoTask, ~task'[k].cancelled
        PROVE  TurnId(task'[k].event) \in DOMAIN TurnOf(k)' /\ TurnOf(k)'[TurnId(task'[k].event)] = k
    <3>1. task[k] # NoTask /\ ~task[k].cancelled /\ k \notin ks /\ task'[k].event = task[k].event
      BY <2>2, <2>3
    <3>2. task[k].session \in Objects \ ss
      <4>1. task[k] \in [session : Objects, event : Events, cancelled : BOOLEAN]
        BY <1>1, <3>1 DEF TypeInv, TaskStates
      <4> QED
        BY <3>1, <4>1 DEF ks
    <3>3. TurnOf(k)' = TurnOf(k)
      BY <1>2, <2>2, <3>2 DEF TurnOf
    <3> QED
      BY <3>1, <3>3 DEF IInv, CurrentInv
  <2> QED
    BY <2>2, <2>3 DEF CurrentInv
<1>9. lost \subseteq lost'
  BY DEF Shut
<1> QED
  BY <1>2, <1>3, <1>4, <1>5, <1>6, <1>7, <1>8, <1>9

(* A close of the sessions "all" shuts some of them and keeps the rest for later. *)
LEMMA CloseShuts ==
    ASSUME IInv, NEW c \in Closers, NEW all \in SUBSET Objects, Close(c, all)
    PROVE  /\ registry' \in [Ids -> Objects \cup {None}] /\ session' \in [Objects -> SessionStates]
           /\ task' \in [Tasks -> TaskStates] /\ closer' \in [Closers -> CloserStates]
           /\ RegistryInv' /\ LimitsInv' /\ FoundInv' /\ CurrentInv'
           /\ lost \subseteq lost'
           /\ \A s \in Objects : Open(s)' => Open(s) /\ session'[s] = session[s]
           /\ \A s \in all : Open(s)' => s \in closer'[c].left
           /\ \A d \in Closers \ {c} : closer'[d] = closer[d]
<1>1. PICK ss \in SUBSET all, w \in Objects \cup {None} : CloseUpTo(c, ss, all \ ss, w)
  BY DEF Close
<1>2. Shut(ss)
  BY <1>1 DEF CloseUpTo, Shut
<1>3. closer' = [closer EXCEPT ![c] = [left |-> all \ ss, waiting |-> w]]
  BY <1>1 DEF CloseUpTo
<1>4. closer \in [Closers -> CloserStates] /\ [left |-> all \ ss, waiting |-> w] \in CloserStates
  BY DEF IInv, TypeInv, CloserStates
<1>5. closer' \in [Closers -> CloserStates] /\ \A d \in Closers \ {c} : closer'[d] = closer[d]
  BY <1>3, <1>4
<1>6. closer'[c].left = all \ ss
  BY <1>3, <1>4
<1>7. /\ registry' \in [Ids -> Objects \cup {None}] /\ session' \in [Objects -> SessionStates]
      /\ task' \in [Tasks -> TaskStates]
      /\ RegistryInv' /\ LimitsInv' /\ FoundInv' /\ CurrentInv'
      /\ \A s \in Objects : Open(s)' => Open(s) /\ s \notin ss /\ session'[s] = session[s]
      /\ lost \subseteq lost'
  BY <1>2, ShutKeeps
<1>8. \A s \in all : Open(s)' => s \in closer'[c].left
  BY <1>6, <1>7
<1> QED
  BY <1>5, <1>7, <1>8

(* All that is registered are sessions, and all that is open and not lost is registered. *)
LEMMA RegisteredSessions ==
    ASSUME IInv
    PROVE  /\ {registry[i] : i \in Ids} \ {None} \in SUBSET Objects
           /\ \A s \in Objects : Open(s) => s \in lost \/ s \in {registry[i] : i \in Ids} \ {None}
BY RegistryAssumption DEF IInv, TypeInv, FoundInv

LEMMA CloseNextKeeps == ASSUME IInv, NEW c \in Closers, CloseNext(c) PROVE IInv'
<1>1. closer[c].left \in SUBSET Objects /\ Close(c, closer[c].left)
  BY DEF IInv, TypeInv, CloserStates, CloseNext
<1>2. UNCHANGED <<account, accepting, terminated, starts, late>>
  BY DEF CloseNext, control
<1>3. /\ registry' \in [Ids -> Objects \cup {None}] /\ session' \in [Objects -> SessionStates]
      /\ task' \in [Tasks -> TaskStates] /\ closer' \in [Closers -> CloserStates]
      /\ RegistryInv' /\ LimitsInv' /\ FoundInv' /\ CurrentInv'
      /\ lost \subseteq lost'
      /\ \A s \in Objects : Open(s)' => Open(s) /\ session'[s] = session[s]
      /\ \A s \in closer[c].left : Open(s)' => s \in closer'[c].left
      /\ \A d \in Closers \ {c} : closer'[d] = closer[d]
  BY <1>1, CloseShuts
<1>4. TypeInv'
  BY <1>2, <1>3 DEF IInv, TypeInv
<1>5. \A d \in Closers : \A s \in Objects : Open(s)' /\ s \in closer[d].left => s \in closer'[d].left
  BY <1>3
<1>6. GateInv'
  BY <1>2, <1>3, <1>5 DEF IInv, GateInv, Closers
<1>7. GrantIsCurrent'
  <2> SUFFICES ASSUME NEW s \in Objects, Open(s)', session'[s].granted
               PROVE  session'[s].account = account' \/ s \in closer'["operator"].left \cup late' \cup lost'
    BY DEF GrantIsCurrent
  <2>1. Open(s) /\ session'[s] = session[s]
    BY <1>3
  <2>2. session[s].account = account \/ s \in closer["operator"].left \cup late \cup lost
    BY <2>1 DEF IInv, GrantIsCurrent
  <2> QED
    BY <1>2, <1>3, <1>5, <2>1, <2>2 DEF Closers
<1> QED
  BY <1>3, <1>4, <1>6, <1>7 DEF IInv

(* The operator's and the service's closes start alike. *)
LEMMA CloseAllKeeps ==
    ASSUME IInv, NEW c \in Closers, CloseAllSessions(c), UNCHANGED <<terminated, starts, late>>,
           account' \in Accounts, accepting' \in BOOLEAN,
           account' = account \/ c = "operator",
           accepting' = accepting \/ (c = "service" /\ accepting' = FALSE)
    PROVE  IInv'
<1> DEFINE all == {registry[i] : i \in Ids} \ {None}
<1>1. all \in SUBSET Objects /\ Close(c, all) /\ closer[c] = Resting
  BY RegisteredSessions DEF CloseAllSessions
<1>2. \A s \in Objects : Open(s) => s \in lost \/ s \in all
  BY RegisteredSessions
<1> HIDE DEF all
<1>3. /\ registry' \in [Ids -> Objects \cup {None}] /\ session' \in [Objects -> SessionStates]
      /\ task' \in [Tasks -> TaskStates] /\ closer' \in [Closers -> CloserStates]
      /\ RegistryInv' /\ LimitsInv' /\ FoundInv' /\ CurrentInv'
      /\ lost \subseteq lost'
      /\ \A s \in Objects : Open(s)' => Open(s) /\ session'[s] = session[s]
      /\ \A s \in all : Open(s)' => s \in closer'[c].left
      /\ \A d \in Closers \ {c} : closer'[d] = closer[d]
  BY <1>1, CloseShuts
<1>4. TypeInv'
  BY <1>3 DEF IInv, TypeInv
<1>5. closer[c].left = {}
  BY <1>1 DEF Resting
<1>6. \A s \in Objects : Open(s)' => s \in lost' \/ s \in closer'[c].left
  BY <1>2, <1>3
<1>7. GateInv'
  <2>1. CASE c = "service"
    BY <1>6, <2>1 DEF GateInv
  <2>2. CASE c # "service"
    <3>1. closer'["service"] = closer["service"] /\ accepting' = accepting
      BY <1>3, <2>2 DEF Closers
    <3> QED
      BY <1>3, <3>1 DEF IInv, GateInv
  <2> QED
    BY <2>1, <2>2
<1>8. GrantIsCurrent'
  <2> SUFFICES ASSUME NEW s \in Objects, Open(s)', session'[s].granted
               PROVE  session'[s].account = account' \/ s \in closer'["operator"].left \cup late' \cup lost'
    BY DEF GrantIsCurrent
  <2>1. CASE c = "operator"
    BY <1>6, <2>1
  <2>2. CASE c # "operator"
    <3>1. closer'["operator"] = closer["operator"] /\ account' = account
      BY <1>3, <2>2 DEF Closers
    <3>2. Open(s) /\ session'[s] = session[s]
      BY <1>3
    <3>3. session[s].account = account \/ s \in closer["operator"].left \cup late \cup lost
      BY <3>2 DEF IInv, GrantIsCurrent
    <3> QED
      BY <1>3, <3>1, <3>2, <3>3
  <2> QED
    BY <2>1, <2>2
<1> QED
  BY <1>3, <1>4, <1>7, <1>8 DEF IInv

LEMMA DisconnectAllKeeps == ASSUME IInv, DisconnectAll PROVE IInv'
<1>1. CloseAllSessions("operator") /\ UNCHANGED <<account, accepting, terminated, starts, late>>
  BY DEF DisconnectAll, control
<1>2. account \in Accounts /\ accepting \in BOOLEAN /\ "operator" \in Closers
  BY DEF IInv, TypeInv, Closers
<1> QED
  BY <1>1, <1>2, CloseAllKeeps

LEMMA IdentitySavedKeeps == ASSUME IInv, NEW a \in Accounts, IdentitySaved(a) PROVE IInv'
<1>1. CloseAllSessions("operator") /\ account' = a /\ UNCHANGED <<accepting, terminated, starts, late>>
  BY DEF IdentitySaved
<1>2. accepting \in BOOLEAN /\ "operator" \in Closers
  BY DEF IInv, TypeInv, Closers
<1> QED
  BY <1>1, <1>2, CloseAllKeeps

LEMMA ServiceOffKeeps == ASSUME IInv, ServiceOff PROVE IInv'
<1>1. CloseAllSessions("service") /\ accepting' = FALSE /\ UNCHANGED <<account, terminated, starts, late>>
  BY DEF ServiceOff
<1>2. account \in Accounts /\ "service" \in Closers
  BY DEF IInv, TypeInv, Closers
<1> QED
  BY <1>1, <1>2, CloseAllKeeps

LEMMA SessionCloseKeeps == ASSUME IInv, NEW i \in Ids, SessionClose(i) PROVE IInv'
<1>1. /\ registry[i] # None /\ Closed({registry[i]}) /\ registry' = [registry EXCEPT ![i] = None]
      /\ UNCHANGED <<account, accepting, terminated, starts, closer, lost, late>>
  BY DEF SessionClose, control
<1>2. registry \in [Ids -> Objects \cup {None}] /\ registry[i] \in Objects /\ session[registry[i]].id = i
  BY <1>1 DEF IInv, TypeInv, RegistryInv, Registered
<1>3. Shut({registry[i]})
  <2>1. {session[s].id : s \in {registry[i]}} = {i}
    BY <1>2
  <2>2. registry' = [j \in Ids |-> IF j \in {i} THEN None ELSE registry[j]]
    BY <1>1, <1>2
  <2>3. Dropped({registry[i]}) = {}
    BY <1>2 DEF Dropped
  <2> QED
    BY <1>1, <1>2, <2>1, <2>2, <2>3 DEF Shut
<1>4. /\ registry' \in [Ids -> Objects \cup {None}] /\ session' \in [Objects -> SessionStates]
      /\ task' \in [Tasks -> TaskStates]
      /\ RegistryInv' /\ LimitsInv' /\ FoundInv' /\ CurrentInv'
      /\ \A s \in Objects : Open(s)' => Open(s) /\ session'[s] = session[s]
  BY <1>3, ShutKeeps
<1>5. TypeInv'
  BY <1>1, <1>4 DEF IInv, TypeInv
<1>6. GateInv' /\ GrantIsCurrent'
  BY <1>1, <1>4 DEF IInv, GateInv, GrantIsCurrent
<1> QED
  BY <1>4, <1>5, <1>6 DEF IInv

LEMMA TerminateKeeps == ASSUME IInv, Terminate PROVE IInv'
<1> DEFINE all == {registry[i] : i \in Ids} \ {None}
<1>1. /\ Closed(all) /\ registry' = [i \in Ids |-> None] /\ terminated' = TRUE /\ accepting' = FALSE
      /\ UNCHANGED <<account, starts, closer, lost, late>>
  BY DEF Terminate
<1>2. all \in SUBSET Objects /\ \A s \in Objects : Open(s) => s \in lost \/ s \in all
  BY RegisteredSessions
<1>3. \A s \in all : registry[session[s].id] = s
  <2> SUFFICES ASSUME NEW i \in Ids, registry[i] # None PROVE registry[session[registry[i]].id] = registry[i]
    OBVIOUS
  <2>1. session[registry[i]].id = i
    BY DEF IInv, RegistryInv, Registered
  <2> QED
    BY <2>1
<1>4. \A i \in Ids : registry[i] # None => i \in {session[s].id : s \in all}
  BY DEF IInv, RegistryInv, Registered
<1> HIDE DEF all
<1>5. Shut(all)
  <2>1. \A i \in Ids : registry'[i] = IF i \in {session[s].id : s \in all} THEN None ELSE registry[i]
    BY <1>1, <1>4
  <2>2. registry' = [i \in Ids |-> IF i \in {session[s].id : s \in all} THEN None ELSE registry[i]]
    BY <1>1, <2>1
  <2>3. Dropped(all) = {}
    BY <1>3 DEF Dropped
  <2> QED
    BY <1>1, <1>2, <2>2, <2>3 DEF Shut
<1>6. /\ registry' \in [Ids -> Objects \cup {None}] /\ session' \in [Objects -> SessionStates]
      /\ task' \in [Tasks -> TaskStates]
      /\ RegistryInv' /\ LimitsInv' /\ FoundInv' /\ CurrentInv'
      /\ \A s \in Objects : Open(s)' => Open(s) /\ s \notin all /\ session'[s] = session[s]
  BY <1>5, ShutKeeps
<1>7. TypeInv'
  BY <1>1, <1>6 DEF IInv, TypeInv
<1>8. GateInv' /\ GrantIsCurrent'
  BY <1>1, <1>2, <1>6 DEF IInv, GateInv, GrantIsCurrent
<1> QED
  BY <1>6, <1>7, <1>8 DEF IInv

LEMMA ServiceOnKeeps == ASSUME IInv, ServiceOn PROVE IInv'
<1>1. /\ closer["service"] = Resting /\ ~accepting /\ (accepting' <=> ~terminated) /\ accepting' \in BOOLEAN
      /\ UNCHANGED <<account, terminated, registry, session, task, starts, closer, lost, late>>
  BY DEF ServiceOn, IInv, TypeInv
<1>2. TypeInv'
  BY <1>1 DEF IInv, TypeInv
<1>3. RegistryInv' /\ LimitsInv' /\ FoundInv' /\ CurrentInv'
  BY <1>1 DEF IInv, RegistryInv, Registered, LimitsInv, FoundInv, CurrentInv, TurnOf, Open
<1>4. GateInv'
  BY <1>1 DEF IInv, GateInv, Open
<1>5. GrantIsCurrent'
  BY <1>1 DEF IInv, GrantIsCurrent, Open
<1> QED
  BY <1>2, <1>3, <1>4, <1>5 DEF IInv

LEMMA SessionStartKeeps == ASSUME IInv, NEW q \in Requests, NEW i \in Ids, SessionStart(q, i) PROVE IInv'
<1>1. /\ starts' = [starts EXCEPT ![q] =
                      [step |-> "asked", id |-> i, account |-> account, granted |-> FALSE]]
      /\ UNCHANGED <<account, accepting, terminated, registry, session, task, closer, lost, late>>
  BY DEF SessionStart, control
<1>2. TypeInv'
  <2>1. [step |-> "asked", id |-> i, account |-> account, granted |-> FALSE] \in StartStates
    BY DEF IInv, TypeInv, StartStates
  <2>2. starts' \in [Requests -> StartStates]
    BY <1>1, <2>1 DEF IInv, TypeInv
  <2> QED
    BY <1>1, <2>2 DEF IInv, TypeInv
<1>3. RegistryInv' /\ LimitsInv' /\ FoundInv' /\ CurrentInv' /\ GateInv' /\ GrantIsCurrent'
  BY <1>1 DEF IInv, RegistryInv, Registered, LimitsInv, FoundInv, CurrentInv, TurnOf, Open, GateInv,
     GrantIsCurrent
<1> QED
  BY <1>2, <1>3 DEF IInv

LEMMA AuthorizedKeeps ==
    ASSUME IInv, NEW q \in Requests, NEW granted \in BOOLEAN, Authorized(q, granted) PROVE IInv'
<1>1. /\ starts[q] # None
      /\ starts' = [starts EXCEPT ![q].step = "decided", ![q].granted = granted]
      /\ UNCHANGED <<account, accepting, terminated, registry, session, task, closer, lost, late>>
  BY DEF Authorized, control
<1>2. TypeInv'
  <2>1. starts \in [Requests -> StartStates]
    BY DEF IInv, TypeInv
  <2>2. starts[q] \in [step : {"asked", "decided"}, id : Ids, account : Accounts, granted : BOOLEAN]
    BY <1>1, <2>1 DEF StartStates
  <2>3. [[starts[q] EXCEPT !.step = "decided"] EXCEPT !.granted = granted] \in StartStates
    BY <2>2 DEF StartStates
  <2>4. starts' = [starts EXCEPT ![q] = [[starts[q] EXCEPT !.step = "decided"] EXCEPT !.granted = granted]]
    BY <1>1, <2>1
  <2>5. starts' \in [Requests -> StartStates]
    BY <2>1, <2>3, <2>4
  <2> QED
    BY <1>1, <2>5 DEF IInv, TypeInv
<1>3. RegistryInv' /\ LimitsInv' /\ FoundInv' /\ CurrentInv' /\ GateInv' /\ GrantIsCurrent'
  BY <1>1 DEF IInv, RegistryInv, Registered, LimitsInv, FoundInv, CurrentInv, TurnOf, Open, GateInv,
     GrantIsCurrent
<1> QED
  BY <1>2, <1>3 DEF IInv

LEMMA StartRefusedKeeps == ASSUME IInv, NEW q \in Requests, StartRefused(q) PROVE IInv'
<1>1. /\ starts' = [starts EXCEPT ![q] = None]
      /\ UNCHANGED <<account, accepting, terminated, registry, session, task, closer, lost, late>>
  BY DEF StartRefused, control
<1>2. TypeInv'
  BY <1>1 DEF IInv, TypeInv, StartStates
<1>3. RegistryInv' /\ LimitsInv' /\ FoundInv' /\ CurrentInv' /\ GateInv' /\ GrantIsCurrent'
  BY <1>1 DEF IInv, RegistryInv, Registered, LimitsInv, FoundInv, CurrentInv, TurnOf, Open, GateInv,
     GrantIsCurrent
<1> QED
  BY <1>2, <1>3 DEF IInv

(* The type of a request that was decided. *)
LEMMA DecidedRequest ==
    ASSUME TypeInv, NEW q \in Requests, Decided(q)
    PROVE  starts[q] \in [step : {"asked", "decided"}, id : Ids, account : Accounts, granted : BOOLEAN]
BY DEF TypeInv, StartStates, Decided

(* A new session in an object nobody referred to. *)
LEMMA StartedKeeps ==
    ASSUME IInv, NEW q \in Requests, NEW s \in Objects, SessionStarted(q), Started(q, s) PROVE IInv'
<1> DEFINE i == starts[q].id
           new == [Fresh EXCEPT !.state = "open", !.id = i, !.account = starts[q].account,
                                !.granted = starts[q].granted]
<1>1. /\ accepting /\ Decided(q) /\ starts' = [starts EXCEPT ![q] = None]
      /\ UNCHANGED <<account, accepting, terminated, task, closer>>
  BY DEF SessionStarted, control
<1>2. /\ registry[i] = None /\ ~Referred(s) /\ Cardinality(Registered) < MaxSessions
      /\ registry' = [registry EXCEPT ![i] = s] /\ session' = [session EXCEPT ![s] = new]
      /\ late' = IF Outdated(q) THEN late \cup {s} ELSE late \ {s}
      /\ lost' = lost \ {s}
  BY DEF Started, Registered
<1>3. starts[q] \in [step : {"asked", "decided"}, id : Ids, account : Accounts, granted : BOOLEAN]
  BY <1>1, DecidedRequest DEF IInv
<1>4. /\ new \in SessionStates /\ new.state = "open" /\ new.id = i /\ new.account = starts[q].account
      /\ new.granted = starts[q].granted /\ DOMAIN new.turns = {} /\ new.seen = << >>
  <2>1. PICK a \in SessionStates : a = [Fresh EXCEPT !.state = "open"]
    BY FreshSession DEF SessionStates
  <2>2. a.state = "open" /\ DOMAIN a.turns = {} /\ a.seen = << >>
    BY <2>1, FreshSession DEF SessionStates
  <2>3. PICK b \in SessionStates : b = [a EXCEPT !.id = i]
    BY <1>3 DEF SessionStates
  <2>4. b.state = "open" /\ b.id = i /\ DOMAIN b.turns = {} /\ b.seen = << >>
    BY <2>2, <2>3 DEF SessionStates
  <2>5. PICK c \in SessionStates : c = [b EXCEPT !.account = starts[q].account]
    BY <1>3 DEF SessionStates
  <2>6. /\ c.state = "open" /\ c.id = i /\ c.account = starts[q].account
        /\ DOMAIN c.turns = {} /\ c.seen = << >>
    BY <2>4, <2>5 DEF SessionStates
  <2>7. new = [c EXCEPT !.granted = starts[q].granted]
    BY <2>1, <2>3, <2>5
  <2> QED
    BY <1>3, <2>6, <2>7 DEF SessionStates
<1> HIDE DEF new
<1>5. /\ registry \in [Ids -> Objects \cup {None}] /\ session \in [Objects -> SessionStates] /\ i \in Ids
  BY <1>3 DEF IInv, TypeInv
<1>6. /\ session' \in [Objects -> SessionStates] /\ session'[s] = new
      /\ \A x \in Objects \ {s} : session'[x] = session[x]
      /\ registry' \in [Ids -> Objects \cup {None}] /\ registry'[i] = s
      /\ \A j \in Ids \ {i} : registry'[j] = registry[j]
  BY <1>2, <1>4, <1>5
<1>7. TypeInv'
  <2>1. starts' \in [Requests -> StartStates]
    BY <1>1 DEF IInv, TypeInv, StartStates
  <2> QED
    BY <1>1, <1>6, <2>1 DEF IInv, TypeInv
<1>8. ~Open(s) /\ (\A j \in Ids : registry[j] # s) /\ (\A k \in Tasks : task[k].session # s)
  BY <1>2 DEF Referred, Busy, Tasked
<1>9. RegistryInv'
  <2>1. Registered' = Registered \cup {i} /\ i \notin Registered
    BY <1>2, <1>5, <1>6, RegistryAssumption DEF Registered
  <2>2. IsFiniteSet(Registered) /\ Cardinality(Registered) \in Nat
    BY FS_CardinalityType DEF IInv, RegistryInv
  <2>3. IsFiniteSet(Registered') /\ Cardinality(Registered') = Cardinality(Registered) + 1
    BY <2>1, <2>2, FS_AddElement
  <2>4. Cardinality(Registered') <= MaxSessions
    BY <1>2, <2>2, <2>3, RegistryAssumption
  <2>5. ASSUME NEW j \in Registered'
        PROVE  session'[registry'[j]].state = "open" /\ session'[registry'[j]].id = j
    <3>1. CASE j = i
      BY <1>4, <1>6, <3>1
    <3>2. CASE j # i
      <4>1. j \in Registered /\ registry'[j] = registry[j] /\ registry[j] \in Objects \ {s}
        BY <1>5, <1>6, <1>8, <2>1, <2>5, <3>2 DEF Registered
      <4> QED
        BY <1>6, <4>1 DEF IInv, RegistryInv, Open
    <3> QED
      BY <3>1, <3>2
  <2> QED
    BY <2>3, <2>4, <2>5 DEF RegistryInv, Open
<1>10. LimitsInv'
  <2>1. IsFiniteSet({}) /\ Cardinality({}) = 0 /\ Len(<< >>) = 0
    BY FS_EmptySet
  <2>2. /\ IsFiniteSet(DOMAIN new.turns) /\ Cardinality(DOMAIN new.turns) <= MaxInteractions
        /\ Len(new.seen) <= Window
    BY <1>4, <2>1, RegistryAssumption
  <2> QED
    BY <1>6, <2>2 DEF IInv, LimitsInv
<1>11. FoundInv'
  <2> SUFFICES ASSUME NEW x \in Objects, session'[x].state = "open", x \notin lost'
               PROVE  \E j \in Ids : registry'[j] = x
    BY DEF FoundInv, Open
  <2>1. CASE x = s
    BY <1>5, <1>6, <2>1
  <2>2. CASE x # s
    <3>1. PICK j \in Ids : registry[j] = x
      BY <1>2, <1>6, <2>2 DEF IInv, FoundInv, Open
    <3>2. j # i
      BY <1>2, <3>1, RegistryAssumption
    <3> QED
      BY <1>6, <3>1, <3>2
  <2> QED
    BY <2>1, <2>2
<1>12. GateInv'
  BY <1>1 DEF GateInv
<1>13. CurrentInv'
  <2> SUFFICES ASSUME NEW k \in Tasks, task[k] # NoTask, ~task[k].cancelled
               PROVE  LET turns == session'[task[k].session].turns
                      IN TurnId(task[k].event) \in DOMAIN turns /\ turns[TurnId(task[k].event)] = k
    BY <1>1 DEF CurrentInv, TurnOf
  <2>1. task[k].session \in Objects \ {s}
    BY <1>8 DEF IInv, TypeInv, TaskStates
  <2> QED
    BY <1>6, <2>1 DEF IInv, CurrentInv, TurnOf
<1>14. GrantIsCurrent'
  <2> SUFFICES ASSUME NEW x \in Objects, session'[x].state = "open", session'[x].granted
               PROVE  session'[x].account = account \/ x \in closer["operator"].left \cup late' \cup lost'
    BY <1>1 DEF GrantIsCurrent, Open
  <2>1. CASE x = s
    BY <1>2, <1>4, <1>6, <2>1 DEF Outdated
  <2>2. CASE x # s
    <3>1. session[x].account = account \/ x \in closer["operator"].left \cup late \cup lost
      BY <1>6, <2>2 DEF IInv, GrantIsCurrent, Open
    <3> QED
      BY <1>2, <1>6, <2>2, <3>1
  <2> QED
    BY <2>1, <2>2
<1> QED
  BY <1>7, <1>9, <1>10, <1>11, <1>12, <1>13, <1>14 DEF IInv

(* A session taken up again gets the new decision. *)
LEMMA ResumedKeeps ==
    ASSUME IInv, NEW q \in Requests, NEW s \in Objects, SessionStarted(q), Resumed(q, s) PROVE IInv'
<1>1. /\ accepting /\ Decided(q) /\ starts' = [starts EXCEPT ![q] = None]
      /\ UNCHANGED <<account, accepting, terminated, task, closer, registry, lost>>
      /\ session[s].account = starts[q].account
      /\ session' = [session EXCEPT ![s].granted = starts[q].granted]
      /\ late' = IF Outdated(q) THEN late \cup {s} ELSE late
  BY DEF SessionStarted, control, Resumed
<1>2. starts[q] \in [step : {"asked", "decided"}, id : Ids, account : Accounts, granted : BOOLEAN]
  BY <1>1, DecidedRequest DEF IInv
<1>3. session \in [Objects -> SessionStates] /\ session[s] \in SessionStates
  BY DEF IInv, TypeInv
<1>4. /\ session' \in [Objects -> SessionStates]
      /\ \A x \in Objects \ {s} : session'[x] = session[x]
      /\ session'[s].granted = starts[q].granted
      /\ \A x \in Objects : /\ session'[x].state = session[x].state /\ session'[x].id = session[x].id
                            /\ session'[x].account = session[x].account
                            /\ session'[x].turns = session[x].turns /\ session'[x].seen = session[x].seen
  <2>1. PICK a : a = [session[s] EXCEPT !.granted = starts[q].granted]
    OBVIOUS
  <2>2. /\ a \in SessionStates /\ a.granted = starts[q].granted /\ a.state = session[s].state
        /\ a.id = session[s].id /\ a.account = session[s].account /\ a.turns = session[s].turns
        /\ a.seen = session[s].seen
    BY <1>2, <1>3, <2>1 DEF SessionStates
  <2>3. session' = [session EXCEPT ![s] = a]
    BY <1>1, <2>1
  <2> QED
    BY <1>3, <2>2, <2>3
<1>5. TypeInv'
  BY <1>1, <1>4 DEF IInv, TypeInv, StartStates
<1>6. RegistryInv'
  <2>1. Registered' = Registered /\ \A j \in Registered : registry[j] \in Objects
    BY <1>1 DEF Registered, IInv, TypeInv
  <2> QED
    BY <1>1, <1>4, <2>1 DEF IInv, RegistryInv, Open
<1>7. LimitsInv'
  BY <1>4 DEF IInv, LimitsInv
<1>8. FoundInv' /\ GateInv'
  BY <1>1, <1>4 DEF IInv, FoundInv, GateInv, Open
<1>9. CurrentInv'
  <2> SUFFICES ASSUME NEW k \in Tasks, task[k] # NoTask, ~task[k].cancelled
               PROVE  LET turns == session'[task[k].session].turns
                      IN TurnId(task[k].event) \in DOMAIN turns /\ turns[TurnId(task[k].event)] = k
    BY <1>1 DEF CurrentInv, TurnOf
  <2>1. task[k].session \in Objects
    BY DEF IInv, TypeInv, TaskStates
  <2> QED
    BY <1>4, <2>1 DEF IInv, CurrentInv, TurnOf
<1>10. GrantIsCurrent'
  <2> SUFFICES ASSUME NEW x \in Objects, session'[x].state = "open", session'[x].granted
               PROVE  session'[x].account = account \/ x \in closer["operator"].left \cup late' \cup lost
    BY <1>1 DEF GrantIsCurrent, Open
  <2>1. CASE x = s
    BY <1>1, <1>4, <2>1 DEF Outdated
  <2>2. CASE x # s
    <3>1. session[x].account = account \/ x \in closer["operator"].left \cup late \cup lost
      BY <1>4, <2>2 DEF IInv, GrantIsCurrent, Open
    <3> QED
      BY <1>1, <1>4, <2>2, <3>1
  <2> QED
    BY <2>1, <2>2
<1> QED
  BY <1>5, <1>6, <1>7, <1>8, <1>9, <1>10 DEF IInv

LEMMA SessionStartedKeeps == ASSUME IInv, NEW q \in Requests, SessionStarted(q) PROVE IInv'
<1>1. PICK s \in Objects : Started(q, s) \/ Resumed(q, s)
  BY DEF SessionStarted
<1> QED
  BY <1>1, StartedKeeps, ResumedKeeps

(* A session's turns change, and what it remembers; nothing else. *)
Retold(s, turns, seen) ==
    /\ session' \in [Objects -> SessionStates]
    /\ \A x \in Objects \ {s} : session'[x] = session[x]
    /\ session'[s].turns = turns /\ session'[s].seen = seen
    /\ \A x \in Objects : /\ session'[x].state = session[x].state /\ session'[x].id = session[x].id
                          /\ session'[x].account = session[x].account
                          /\ session'[x].granted = session[x].granted
    /\ UNCHANGED <<account, accepting, terminated, registry, starts, closer, lost, late>>

LEMMA TurnsRetold ==
    ASSUME TypeInv, NEW s \in Objects, NEW turns \in Turns, NEW seen \in Seq(Events),
           session' = [session EXCEPT ![s] = [[session[s] EXCEPT !.seen = seen] EXCEPT !.turns = turns]],
           UNCHANGED <<account, accepting, terminated, registry, starts, closer, lost, late>>
    PROVE  Retold(s, turns, seen)
<1>1. session \in [Objects -> SessionStates] /\ session[s] \in SessionStates
  BY DEF TypeInv
<1>2. PICK a : a = [[session[s] EXCEPT !.seen = seen] EXCEPT !.turns = turns]
  OBVIOUS
<1>3. /\ a \in SessionStates /\ a.turns = turns /\ a.seen = seen /\ a.state = session[s].state
      /\ a.id = session[s].id /\ a.account = session[s].account /\ a.granted = session[s].granted
  BY <1>1, <1>2 DEF SessionStates
<1>4. session' = [session EXCEPT ![s] = a]
  BY <1>2
<1> QED
  BY <1>1, <1>3, <1>4 DEF Retold

LEMMA RetoldKeeps ==
    ASSUME IInv, NEW s \in Objects, NEW turns \in Turns, NEW seen, Retold(s, turns, seen),
           IsFiniteSet(DOMAIN turns) /\ Cardinality(DOMAIN turns) <= MaxInteractions,
           Len(seen) <= Window,
           task' \in [Tasks -> TaskStates], CurrentInv'
    PROVE  IInv'
<1>1. TypeInv'
  BY DEF IInv, TypeInv, Retold
<1>2. RegistryInv'
  <2>1. Registered' = Registered /\ \A j \in Registered : registry[j] \in Objects
    BY DEF Registered, IInv, TypeInv, Retold
  <2> QED
    BY <2>1 DEF IInv, RegistryInv, Open, Retold
<1>3. LimitsInv'
  BY DEF IInv, LimitsInv, Retold
<1>4. FoundInv' /\ GateInv'
  BY DEF IInv, FoundInv, GateInv, Open, Retold
<1>5. GrantIsCurrent'
  BY DEF IInv, GrantIsCurrent, Open, Retold
<1> QED
  BY <1>1, <1>2, <1>3, <1>4, <1>5 DEF IInv

(* What a session remembers stays within its window. *)
LEMMA RememberedInWindow ==
    ASSUME NEW seen \in Seq(Events), Len(seen) <= Window, NEW event \in Events
    PROVE  Remembered(seen, event) \in Seq(Events) /\ Len(Remembered(seen, event)) <= Window
<1>1. CASE Len(seen) = Window
  <2>1. seen # << >>
    BY <1>1, RegistryAssumption
  <2>2. Tail(seen) \in Seq(Events) /\ Len(Tail(seen)) = Window - 1
    BY <1>1, <2>1
  <2> HIDE DEF Events
  <2> QED
    BY <1>1, <2>2, RegistryAssumption DEF Remembered
<1>2. CASE Len(seen) # Window
  <2> HIDE DEF Events
  <2> QED
    BY <1>2, RegistryAssumption DEF Remembered
<1> QED
  BY <1>1, <1>2

LEMMA InteractionKeeps ==
    ASSUME IInv, NEW i \in Ids, NEW event \in Events, Interaction(i, event) PROVE IInv'
<1> DEFINE s == registry[i]
           seen == Remembered(session[s].seen, event)
<1>1. /\ s \in Objects /\ session[s] \in SessionStates
      /\ UNCHANGED <<account, accepting, terminated, registry, starts, closer, lost, late>>
  BY DEF Interaction, control, IInv, TypeInv
<1>2. seen \in Seq(Events) /\ Len(seen) <= Window
  <2>1. session[s].seen \in Seq(Events) /\ Len(session[s].seen) <= Window
    BY <1>1 DEF SessionStates, IInv, LimitsInv
  <2> QED
    BY <2>1, RememberedInWindow
<1>3. CASE /\ session' = [session EXCEPT ![s] = [session[s] EXCEPT !.seen = seen]]
           /\ UNCHANGED task
  <2>1. /\ session[s].turns \in Turns /\ IsFiniteSet(DOMAIN session[s].turns)
        /\ Cardinality(DOMAIN session[s].turns) <= MaxInteractions
    BY <1>1 DEF SessionStates, IInv, LimitsInv
  <2> HIDE DEF seen
  <2>2. [session[s] EXCEPT !.seen = seen] =
           [[session[s] EXCEPT !.seen = seen] EXCEPT !.turns = session[s].turns]
    BY <1>1 DEF SessionStates
  <2>3. Retold(s, session[s].turns, seen)
    BY <1>1, <1>2, <1>3, <2>1, <2>2, TurnsRetold DEF IInv
  <2>4. task' \in [Tasks -> TaskStates] /\ CurrentInv'
    <3>1. task' = task /\ \A x \in Objects : session'[x].turns = session[x].turns
      BY <1>1, <1>3, <2>3 DEF Retold
    <3>2. \A k \in Tasks : task[k] # NoTask => task[k].session \in Objects
      BY DEF IInv, TypeInv, TaskStates
    <3> QED
      BY <3>1, <3>2 DEF IInv, TypeInv, CurrentInv, TurnOf
  <2> QED
    BY <1>1, <1>2, <2>1, <2>3, <2>4, RetoldKeeps
<1>4. ASSUME NEW k \in Tasks, task[k] = NoTask, HasPlace(s, event),
             task' = [task EXCEPT ![k] = [session |-> s, event |-> event, cancelled |-> FALSE]],
             session' = [session EXCEPT ![s] =
                 [[session[s] EXCEPT !.seen = seen] EXCEPT !.turns = With(session[s].turns, TurnId(event), k)]]
      PROVE  IInv'
  <2> DEFINE old == session[s].turns
             turns == With(old, TurnId(event), k)
             h == TurnId(event)
  <2>1. old \in Turns /\ IsFiniteSet(DOMAIN old) /\ h \in Heads /\ h \notin DOMAIN old
    BY <1>1, <1>4 DEF SessionStates, IInv, LimitsInv, HasPlace, TurnId, Events
  <2>2. PICK hs \in SUBSET Heads : old \in [hs -> Tasks]
    BY <2>1 DEF Turns
  <2>3. DOMAIN turns = {h} \cup DOMAIN old /\ turns[h] = k /\ \A x \in DOMAIN old : turns[x] = old[x]
    BY <2>1 DEF With
  <2>4. turns \in Turns
    <3>1. turns \in [{h} \cup hs -> Tasks]
      BY <2>2 DEF With
    <3>2. {h} \cup hs \in SUBSET Heads
      BY <2>1
    <3> QED
      BY <3>1, <3>2 DEF Turns
  <2>5. IsFiniteSet(DOMAIN turns) /\ Cardinality(DOMAIN turns) <= MaxInteractions
    <3>1. Cardinality(DOMAIN old) \in Nat /\ Cardinality(DOMAIN old) < MaxInteractions
      BY <1>4, <2>1, FS_CardinalityType DEF HasPlace
    <3>2. IsFiniteSet(DOMAIN old \cup {h}) /\ Cardinality(DOMAIN old \cup {h}) = Cardinality(DOMAIN old) + 1
      BY <2>1, FS_AddElement
    <3>3. DOMAIN turns = DOMAIN old \cup {h}
      BY <2>3
    <3> HIDE DEF old, turns
    <3> QED
      BY <3>1, <3>2, <3>3, RegistryAssumption
  <2>6. Retold(s, turns, seen)
    <3> HIDE DEF seen
    <3> QED
      BY <1>1, <1>2, <1>4, <2>4, TurnsRetold DEF IInv
  <2>7. task' \in [Tasks -> TaskStates]
    <3>1. [session |-> s, event |-> event, cancelled |-> FALSE] \in TaskStates
      BY <1>1 DEF TaskStates
    <3> QED
      BY <1>4, <3>1 DEF IInv, TypeInv
  <2> HIDE DEF turns, seen
  <2>8. CurrentInv'
    <3> SUFFICES ASSUME NEW x \in Tasks, task'[x] # NoTask, ~task'[x].cancelled
                 PROVE  TurnId(task'[x].event) \in DOMAIN TurnOf(x)' /\ TurnOf(x)'[TurnId(task'[x].event)] = x
      BY DEF CurrentInv
    <3>0. task \in [Tasks -> TaskStates]
      BY DEF IInv, TypeInv
    <3>1. CASE x = k
      <4>1. task'[x].session = s /\ task'[x].event = event
        BY <1>4, <3>0, <3>1
      <4>2. TurnOf(x)' = turns
        BY <2>6, <4>1 DEF TurnOf, Retold
      <4> QED
        BY <2>3, <3>1, <4>1, <4>2
    <3>2. CASE x # k
      <4>1. task'[x] = task[x]
        BY <1>4, <3>0, <3>2
      <4>2. /\ TurnId(task[x].event) \in DOMAIN TurnOf(x) /\ TurnOf(x)[TurnId(task[x].event)] = x
        BY <4>1 DEF IInv, CurrentInv
      <4>3. task[x].session \in Objects
        BY <3>0, <4>1 DEF TaskStates
      <4>4. CASE task[x].session = s
        <5>1. TurnOf(x) = old /\ TurnOf(x)' = turns
          BY <2>6, <4>1, <4>4 DEF TurnOf, Retold
        <5> QED
          BY <2>3, <4>1, <4>2, <5>1
      <4>5. CASE task[x].session # s
        <5>1. TurnOf(x)' = TurnOf(x)
          BY <2>6, <4>1, <4>3, <4>5 DEF TurnOf, Retold
        <5> QED
          BY <4>1, <4>2, <5>1
      <4> QED
        BY <4>4, <4>5
    <3> QED
      BY <3>1, <3>2
  <2> QED
    BY <1>1, <1>2, <2>4, <2>5, <2>6, <2>7, <2>8, RetoldKeeps
<1>5. CASE HasPlace(s, event)
  <2>1. PICK k \in Tasks :
           /\ task[k] = NoTask
           /\ task' = [task EXCEPT ![k] = [session |-> s, event |-> event, cancelled |-> FALSE]]
           /\ session' = [session EXCEPT ![s] =
                 [[session[s] EXCEPT !.seen = seen] EXCEPT !.turns = With(@, TurnId(event), k)]]
    BY <1>5 DEF Interaction
  <2>2. [session[s] EXCEPT !.seen = seen].turns = session[s].turns
    BY <1>1 DEF SessionStates
  <2>3. session' = [session EXCEPT ![s] =
           [[session[s] EXCEPT !.seen = seen] EXCEPT !.turns = With(session[s].turns, TurnId(event), k)]]
    BY <2>1, <2>2
  <2> QED
    BY <1>4, <1>5, <2>1, <2>3
<1>6. CASE ~HasPlace(s, event)
  BY <1>3, <1>6 DEF Interaction
<1> QED
  BY <1>5, <1>6

(* A turn that is left out of its session. *)
LEMMA WithoutTurn ==
    ASSUME NEW turns \in Turns, NEW h, IsFiniteSet(DOMAIN turns),
           Cardinality(DOMAIN turns) <= MaxInteractions
    PROVE  /\ Without(turns, h) \in Turns
           /\ DOMAIN Without(turns, h) = DOMAIN turns \ {h}
           /\ \A x \in DOMAIN turns \ {h} : Without(turns, h)[x] = turns[x]
           /\ IsFiniteSet(DOMAIN Without(turns, h))
           /\ Cardinality(DOMAIN Without(turns, h)) <= MaxInteractions
<1>1. PICK hs \in SUBSET Heads : turns \in [hs -> Tasks]
  BY DEF Turns
<1>2. Without(turns, h) \in [hs \ {h} -> Tasks] /\ hs \ {h} \in SUBSET Heads
  BY <1>1 DEF Without
<1>3. Without(turns, h) \in Turns
  BY <1>2 DEF Turns
<1>4. /\ DOMAIN Without(turns, h) = DOMAIN turns \ {h}
      /\ \A x \in DOMAIN turns \ {h} : Without(turns, h)[x] = turns[x]
  BY DEF Without
<1>5. /\ IsFiniteSet(DOMAIN turns \ {h})
      /\ Cardinality(DOMAIN turns \ {h}) <= Cardinality(DOMAIN turns)
  BY FS_Subset
<1>6. Cardinality(DOMAIN turns) \in Nat /\ Cardinality(DOMAIN turns \ {h}) \in Nat
  BY <1>5, FS_CardinalityType
<1>7. Cardinality(DOMAIN turns \ {h}) <= MaxInteractions
  BY <1>5, <1>6, RegistryAssumption
<1> QED
  BY <1>3, <1>4, <1>5, <1>7

LEMMA CompleteTurnKeeps == ASSUME IInv, NEW k \in Tasks, CompleteTurn(k) PROVE IInv'
<1> DEFINE s == task[k].session
           h == TurnId(task[k].event)
           old == session[s].turns
           turns == IF h \in DOMAIN old /\ old[h] = k THEN Without(old, h) ELSE old
<1>1. /\ task[k] # NoTask /\ task' = [task EXCEPT ![k] = NoTask]
      /\ session' = [session EXCEPT ![s].turns = turns]
      /\ UNCHANGED <<account, accepting, terminated, registry, starts, closer, lost, late>>
  BY DEF CompleteTurn, control
<1>2. s \in Objects /\ session[s] \in SessionStates /\ task \in [Tasks -> TaskStates]
  BY <1>1 DEF IInv, TypeInv, TaskStates
<1>3. /\ old \in Turns /\ IsFiniteSet(DOMAIN old) /\ Cardinality(DOMAIN old) <= MaxInteractions
      /\ session[s].seen \in Seq(Events) /\ Len(session[s].seen) <= Window
  BY <1>2 DEF SessionStates, IInv, LimitsInv
<1>4. /\ turns \in Turns /\ IsFiniteSet(DOMAIN turns) /\ Cardinality(DOMAIN turns) <= MaxInteractions
      /\ \A x \in DOMAIN old : old[x] # k => x \in DOMAIN turns /\ turns[x] = old[x]
  <2>1. CASE h \in DOMAIN old /\ old[h] = k
    <3>1. turns = Without(old, h)
      BY <2>1
    <3>2. /\ Without(old, h) \in Turns
          /\ DOMAIN Without(old, h) = DOMAIN old \ {h}
          /\ \A x \in DOMAIN old \ {h} : Without(old, h)[x] = old[x]
          /\ IsFiniteSet(DOMAIN Without(old, h))
          /\ Cardinality(DOMAIN Without(old, h)) <= MaxInteractions
      BY <1>3, WithoutTurn
    <3> HIDE DEF old, turns
    <3> QED
      BY <2>1, <3>1, <3>2
  <2>2. CASE ~(h \in DOMAIN old /\ old[h] = k)
    BY <1>3, <2>2
  <2> QED
    BY <2>1, <2>2
<1> HIDE DEF turns
<1>5. Retold(s, turns, session[s].seen)
  <2>1. [session[s] EXCEPT !.turns = turns] =
           [[session[s] EXCEPT !.seen = session[s].seen] EXCEPT !.turns = turns]
    BY <1>2 DEF SessionStates
  <2>2. session' = [session EXCEPT ![s] = [session[s] EXCEPT !.turns = turns]]
    BY <1>1
  <2> QED
    BY <1>1, <1>2, <1>3, <1>4, <2>1, <2>2, TurnsRetold DEF IInv
<1>6. task' \in [Tasks -> TaskStates]
  BY <1>1, <1>2 DEF TaskStates
<1>7. CurrentInv'
  <2> SUFFICES ASSUME NEW x \in Tasks, task'[x] # NoTask, ~task'[x].cancelled
               PROVE  TurnId(task'[x].event) \in DOMAIN TurnOf(x)' /\ TurnOf(x)'[TurnId(task'[x].event)] = x
    BY DEF CurrentInv
  <2>1. x # k /\ task'[x] = task[x]
    BY <1>1, <1>2
  <2>2. TurnId(task[x].event) \in DOMAIN TurnOf(x) /\ TurnOf(x)[TurnId(task[x].event)] = x
    BY <2>1 DEF IInv, CurrentInv
  <2>3. task[x].session \in Objects
    BY <1>2, <2>1 DEF TaskStates
  <2>4. CASE task[x].session = s
    <3>1. TurnOf(x) = old /\ TurnOf(x)' = turns
      BY <1>5, <2>1, <2>4 DEF TurnOf, Retold
    <3> QED
      BY <1>4, <2>1, <2>2, <3>1
  <2>5. CASE task[x].session # s
    <3>1. TurnOf(x)' = TurnOf(x)
      BY <1>5, <2>1, <2>3, <2>5 DEF TurnOf, Retold
    <3> QED
      BY <2>1, <2>2, <3>1
  <2> QED
    BY <2>4, <2>5
<1> QED
  BY <1>2, <1>3, <1>4, <1>5, <1>6, <1>7, RetoldKeeps

LEMMA InterruptKeeps == ASSUME IInv, NEW i \in Ids, NEW h \in Heads, Interrupt(i, h) PROVE IInv'
<1> DEFINE s == registry[i]
           old == session[s].turns
           turns == Without(old, h)
           ks == {old[h]}
<1>1. /\ s # None /\ h \in DOMAIN old /\ task' = Cancelled(ks)
      /\ session' = [session EXCEPT ![s].turns = turns]
      /\ UNCHANGED <<account, accepting, terminated, registry, starts, closer, lost, late>>
  BY DEF Interrupt, control
<1>2. s \in Objects /\ session[s] \in SessionStates /\ task \in [Tasks -> TaskStates]
  BY <1>1 DEF IInv, TypeInv
<1>3. /\ old \in Turns /\ IsFiniteSet(DOMAIN old) /\ Cardinality(DOMAIN old) <= MaxInteractions
      /\ session[s].seen \in Seq(Events) /\ Len(session[s].seen) <= Window
  BY <1>2 DEF SessionStates, IInv, LimitsInv
<1>4. /\ turns \in Turns /\ IsFiniteSet(DOMAIN turns) /\ Cardinality(DOMAIN turns) <= MaxInteractions
      /\ \A x \in DOMAIN old \ {h} : x \in DOMAIN turns /\ turns[x] = old[x]
  BY <1>3, WithoutTurn
<1> HIDE DEF turns
<1>5. Retold(s, turns, session[s].seen)
  <2>1. [session[s] EXCEPT !.turns = turns] =
           [[session[s] EXCEPT !.seen = session[s].seen] EXCEPT !.turns = turns]
    BY <1>2 DEF SessionStates
  <2>2. session' = [session EXCEPT ![s] = [session[s] EXCEPT !.turns = turns]]
    BY <1>1
  <2> QED
    BY <1>1, <1>2, <1>3, <1>4, <2>1, <2>2, TurnsRetold DEF IInv
<1>6. /\ task' \in [Tasks -> TaskStates]
      /\ \A x \in Tasks :
            /\ task'[x] = NoTask <=> task[x] = NoTask
            /\ task'[x].session = task[x].session
            /\ task[x] # NoTask => /\ task'[x].event = task[x].event
                                   /\ task'[x].cancelled <=> x \in ks \/ task[x].cancelled
  <2> HIDE DEF ks
  <2> QED
    BY <1>1, CancelledTasks DEF IInv
<1>7. CurrentInv'
  <2> SUFFICES ASSUME NEW x \in Tasks, task'[x] # NoTask, ~task'[x].cancelled
               PROVE  TurnId(task'[x].event) \in DOMAIN TurnOf(x)' /\ TurnOf(x)'[TurnId(task'[x].event)] = x
    BY DEF CurrentInv
  <2>1. /\ task[x] # NoTask /\ x # old[h] /\ ~task[x].cancelled
        /\ task'[x].event = task[x].event /\ task'[x].session = task[x].session
    BY <1>6
  <2>2. TurnId(task[x].event) \in DOMAIN TurnOf(x) /\ TurnOf(x)[TurnId(task[x].event)] = x
    BY <2>1 DEF IInv, CurrentInv
  <2>3. task[x].session \in Objects
    BY <1>2, <2>1 DEF TaskStates
  <2>4. CASE task[x].session = s
    <3>1. TurnOf(x) = old /\ TurnOf(x)' = turns
      BY <1>5, <2>1, <2>4 DEF TurnOf, Retold
    <3> QED
      BY <1>4, <2>1, <2>2, <3>1
  <2>5. CASE task[x].session # s
    <3>1. TurnOf(x)' = TurnOf(x)
      BY <1>5, <2>1, <2>3, <2>5 DEF TurnOf, Retold
    <3> QED
      BY <2>1, <2>2, <3>1
  <2> QED
    BY <2>4, <2>5
<1> QED
  BY <1>2, <1>3, <1>4, <1>5, <1>6, <1>7, RetoldKeeps

-----------------------------------------------------------------------------
(* The plugin starts without a session. *)
LEMMA InitHolds == Init => IInv
<1> SUFFICES ASSUME Init PROVE IInv
  OBVIOUS
<1>1. /\ registry = [i \in Ids |-> None] /\ session = [s \in Objects |-> Fresh]
      /\ task = [k \in Tasks |-> NoTask]
  BY DEF Init
<1>2. \A s \in Objects : session[s] = Fresh /\ ~Open(s)
  <2>1. Fresh.state # "open"
    BY DEF Fresh
  <2> QED
    BY <1>1, <2>1 DEF Open
<1>3. TypeInv
  <2>1. session \in [Objects -> SessionStates] /\ task \in [Tasks -> TaskStates]
    BY <1>1, FreshSession DEF TaskStates
  <2>2. starts \in [Requests -> StartStates]
    BY DEF Init, StartStates
  <2>3. closer \in [Closers -> CloserStates]
    BY DEF Init, CloserStates, Resting
  <2>4. registry \in [Ids -> Objects \cup {None}] /\ account \in Accounts /\ accepting \in BOOLEAN
    BY DEF Init
  <2>5. terminated \in BOOLEAN
    BY DEF Init
  <2> QED
    BY <2>1, <2>2, <2>3, <2>4, <2>5, Zenon DEF TypeInv
<1>4. RegistryInv
  <2>1. Registered = {}
    BY <1>1 DEF Registered
  <2>2. IsFiniteSet({}) /\ Cardinality({}) = 0
    BY FS_EmptySet
  <2> QED
    BY <2>1, <2>2, RegistryAssumption DEF RegistryInv
<1>5. LimitsInv
  <2>1. IsFiniteSet({}) /\ Cardinality({}) = 0 /\ Len(<< >>) = 0
    BY FS_EmptySet
  <2>2. /\ IsFiniteSet(DOMAIN Fresh.turns) /\ Cardinality(DOMAIN Fresh.turns) <= MaxInteractions
        /\ Len(Fresh.seen) <= Window
    BY <2>1, FreshSession, RegistryAssumption
  <2> QED
    BY <1>2, <2>2 DEF LimitsInv
<1>6. FoundInv /\ GateInv /\ GrantIsCurrent
  BY <1>2 DEF FoundInv, GateInv, GrantIsCurrent
<1>7. CurrentInv
  BY <1>1 DEF CurrentInv
<1> QED
  BY <1>3, <1>4, <1>5, <1>6, <1>7 DEF IInv

LEMMA NextKeeps == IInv /\ [Next]_vars => IInv'
<1> SUFFICES ASSUME IInv, [Next]_vars PROVE IInv'
  OBVIOUS
<1>1. CASE \E q \in Requests :
              \/ \E i \in Ids : SessionStart(q, i)
              \/ \E granted \in BOOLEAN : Authorized(q, granted)
              \/ SessionStarted(q) \/ StartRefused(q)
  BY <1>1, SessionStartKeeps, AuthorizedKeeps, SessionStartedKeeps, StartRefusedKeeps
<1>2. CASE \E i \in Ids :
              \/ \E event \in Events : Interaction(i, event)
              \/ \E h \in Heads : Interrupt(i, h)
              \/ SessionClose(i)
  BY <1>2, InteractionKeeps, InterruptKeeps, SessionCloseKeeps
<1>3. CASE (\E k \in Tasks : CompleteTurn(k)) \/ (\E c \in Closers : CloseNext(c))
  BY <1>3, CompleteTurnKeeps, CloseNextKeeps
<1>4. CASE DisconnectAll \/ (\E a \in Accounts : IdentitySaved(a)) \/ ServiceOff \/ ServiceOn \/ Terminate
  BY <1>4, DisconnectAllKeeps, IdentitySavedKeeps, ServiceOffKeeps, ServiceOnKeeps, TerminateKeeps
<1>5. CASE UNCHANGED vars
  <2>1. UNCHANGED <<account, accepting, terminated, registry, session, task, starts, closer, lost, late>>
    BY <1>5 DEF vars, control
  <2>2. TypeInv'
    BY <2>1 DEF IInv, TypeInv
  <2>3. RegistryInv' /\ LimitsInv' /\ FoundInv' /\ CurrentInv' /\ GateInv' /\ GrantIsCurrent'
    BY <2>1 DEF IInv, RegistryInv, Registered, LimitsInv, FoundInv, CurrentInv, TurnOf, Open, GateInv,
       GrantIsCurrent
  <2> QED
    BY <2>2, <2>3 DEF IInv
<1> QED
  BY <1>1, <1>2, <1>3, <1>4, <1>5 DEF Next

LEMMA InvariantHolds == Spec => []IInv
BY InitHolds, NextKeeps, PTL DEF Spec

-----------------------------------------------------------------------------
(* However starts, closes and the gate interleave, behind a closed gate no session is
   left once close_all_sessions of the service is through, and none is started. *)
THEOREM NothingSurvivesTheGateHolds == Spec => []NothingSurvivesTheGate
<1>1. IInv => NothingSurvivesTheGate
  BY DEF IInv, GateInv, NothingSurvivesTheGate, Resting
<1> QED
  BY <1>1, InvariantHolds, PTL

(* A grant is for the account that is configured, or its session is about to be
   closed by the operator's close, except for a start that overtook the change. *)
THEOREM GrantIsCurrentHolds == Spec => []GrantIsCurrent
<1>1. IInv => GrantIsCurrent
  BY DEF IInv
<1> QED
  BY <1>1, InvariantHolds, PTL

(* A running interaction is its session's turn of that name until it ends or is
   cancelled (begin_interaction_turn, complete_turn, interrupt, close_session). *)
THEOREM TurnStaysCurrentHolds == Spec => []TurnStaysCurrent
<1>1. ASSUME IInv PROVE TypeOK
  <2>1. account \in Accounts /\ accepting \in BOOLEAN /\ terminated \in BOOLEAN
    BY <1>1 DEF IInv, TypeInv
  <2>2. registry \in [Ids -> Objects \cup {None}] /\ Cardinality({i \in Ids : registry[i] # None}) <= MaxSessions
    BY <1>1 DEF IInv, TypeInv, RegistryInv, Registered
  <2>3. \A i \in Ids : registry[i] # None => Open(registry[i]) /\ session[registry[i]].id = i
    BY <1>1 DEF IInv, RegistryInv, Registered
  <2>4. \A s \in Objects : /\ Cardinality(DOMAIN session[s].turns) <= MaxInteractions
                           /\ Len(session[s].seen) <= Window
    BY <1>1 DEF IInv, LimitsInv
  <2>5. \A c \in Closers : closer[c].left \subseteq Objects
    BY <1>1 DEF IInv, TypeInv, CloserStates
  <2> QED
    BY <2>1, <2>2, <2>3, <2>4, <2>5, Zenon DEF TypeOK
<1>2. IInv => TurnStaysCurrent
  BY <1>1 DEF IInv, CurrentInv, TurnOf, TurnStaysCurrent
<1> QED
  BY <1>2, InvariantHolds, PTL
=============================================================================
