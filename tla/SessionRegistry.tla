---------------------------- MODULE SessionRegistry ----------------------------
(***************************************************************************)
(* The sessions of the bridge from their start to their end                *)
(* (core/session_manager.py): clients start, resume and close them and     *)
(* report touches, each of which gets a turn of its own; the service opens *)
(* and closes its gate; the operator disconnects everybody or gives the    *)
(* bridge another identity; the plugin ends.                               *)
(*                                                                         *)
(* Nobody waits while holding the manager's lock or a session's, so these  *)
(* never suspend.  What does are the authorization of a start, between the *)
(* request and the session, and the wait of a close for the tasks it       *)
(* cancelled.  Voice and text turns are EventStream's; here a session has  *)
(* only the turns of its interactions.                                     *)
(***************************************************************************)
EXTENDS Naturals, FiniteSets, SequencesExt

CONSTANTS Ids,            \* session ids that clients use
          Requests,       \* bound: starts that are under way at a time
          Objects,        \* bound: SessionState objects that somebody refers to
          Accounts,       \* bot and user that the operator may configure
          MaxSessions,    \* max_sessions
          MaxInteractions,\* max_concurrent_interactions
          Window,         \* event ids that a session remembers
          Heads, Tails,   \* an event id is its first 62 characters and the rest
          Tasks,          \* bound: interactions that run at a time
          None

ASSUME RegistryAssumption ==
    /\ {MaxSessions, MaxInteractions, Window} \subseteq Nat \ {0}
    /\ None \notin Objects \cup Tasks \cup Ids

VARIABLES account,        \* the configured identity
          accepting, terminated,
          registry,       \* _sessions
          session,        \* the SessionState objects
          task,           \* the turns of interactions, until their tasks have ended
          starts,         \* requests to start a session that are under way
          closer,         \* close_all_sessions of the service and of the operator
          lost,           \* history: open sessions that a close dropped from the registry
          late            \* history: sessions with a grant that came after another identity

control == <<account, accepting, terminated>>
vars == <<control, registry, session, task, starts, closer, lost, late>>

Closers == {"service", "operator"}
Events  == Heads \X Tails
TurnId(event) == event[1]                      \* f"i:{event_id}"[:64]

Fresh == [state |-> "none", id |-> None, account |-> None, granted |-> FALSE,
          turns |-> [h \in {} |-> None], seen |-> << >>]
Open(s) == session[s].state = "open"

NoTask == [session |-> None]
Tasked(s) == {k \in Tasks : task[k].session = s}
Busy(s) == Tasked(s) # {}

Resting == [left |-> {}, waiting |-> None]

(* Everybody who may still refer to the object. *)
Referred(s) ==
    \/ s \in {registry[i] : i \in Ids} \/ Open(s) \/ Busy(s)
    \/ \E c \in Closers : s \in closer[c].left \cup {closer[c].waiting}

Init ==
    /\ account \in Accounts
    /\ accepting \in BOOLEAN /\ terminated = FALSE
    /\ registry = [i \in Ids |-> None]
    /\ session = [s \in Objects |-> Fresh]
    /\ task = [k \in Tasks |-> NoTask]
    /\ starts = [q \in Requests |-> None]
    /\ closer = [c \in Closers |-> Resting]
    /\ lost = {} /\ late = {}

-----------------------------------------------------------------------------
(* session/start.  The request gets the configured account, is authorized for that
   account, and then makes or resumes the session. *)

SessionStart(q, i) ==
    /\ starts[q] = None
    /\ starts' = [starts EXCEPT ![q] =
                    [step |-> "asked", id |-> i, account |-> account, granted |-> FALSE]]
    /\ UNCHANGED <<control, registry, session, task, closer, lost, late>>

Authorized(q, granted) ==
    /\ starts[q] # None /\ starts[q].step = "asked"
    /\ granted => starts[q].account = account
    /\ starts' = [starts EXCEPT ![q].step = "decided", ![q].granted = granted]
    /\ UNCHANGED <<control, registry, session, task, closer, lost, late>>

(* A grant for an account that the operator has replaced since. *)
Outdated(q) == starts[q].granted /\ starts[q].account # account

Started(q, s) ==
    /\ registry[starts[q].id] = None /\ ~Referred(s)
    /\ Cardinality({j \in Ids : registry[j] # None}) < MaxSessions
    /\ registry' = [registry EXCEPT ![starts[q].id] = s]
    /\ session' = [session EXCEPT ![s] = [Fresh EXCEPT
                      !.state = "open", !.id = starts[q].id, !.account = starts[q].account,
                      !.granted = starts[q].granted]]
    /\ late' = IF Outdated(q) THEN late \cup {s} ELSE late \ {s}
    /\ lost' = lost \ {s}

Resumed(q, s) ==
    /\ registry[starts[q].id] = s /\ session[s].account = starts[q].account
    /\ session' = [session EXCEPT ![s].granted = starts[q].granted]
    /\ late' = IF Outdated(q) THEN late \cup {s} ELSE late
    /\ UNCHANGED <<registry, lost>>

Decided(q) == starts[q] # None /\ starts[q].step = "decided"

(* Seeded fault: the gate was looked at when the request came. *)
SessionStartedUngated(q) ==
    /\ Decided(q) /\ ~terminated
    /\ starts' = [starts EXCEPT ![q] = None]
    /\ \E s \in Objects : Started(q, s) \/ Resumed(q, s)
    /\ UNCHANGED <<control, task, closer>>

SessionStarted(q) ==
    /\ Decided(q) /\ accepting
    /\ starts' = [starts EXCEPT ![q] = None]
    /\ \E s \in Objects : Started(q, s) \/ Resumed(q, s)
    /\ UNCHANGED <<control, task, closer>>

(* The gate is closed, the limit reached, or the id is another client's. *)
StartRefused(q) ==
    /\ Decided(q)
    /\ LET s == registry[starts[q].id]
       IN \/ ~accepting
          \/ s = None /\ Cardinality({j \in Ids : registry[j] # None}) >= MaxSessions
          \/ s # None /\ session[s].account # starts[q].account
    /\ starts' = [starts EXCEPT ![q] = None]
    /\ UNCHANGED <<control, registry, session, task, closer, lost, late>>

-----------------------------------------------------------------------------
(* Interactions. *)

(* The remembered events with one more; the oldest gives way. *)
Remembered(seen, event) ==
    Append(IF Len(seen) = Window THEN Tail(seen) ELSE seen, event)

(* record_interaction: a repeated event, and one that comes too soon after another,
   changes nothing. *)
Recorded(s, event) == ~Contains(session[s].seen, event)

HasPlace(s, event) ==
    /\ TurnId(event) \notin DOMAIN session[s].turns
    /\ Cardinality(DOMAIN session[s].turns) < MaxInteractions

With(turns, h, k) == [x \in DOMAIN turns \cup {h} |-> IF x = h THEN k ELSE turns[x]]

(* submit_interaction: the event is remembered, whether it then gets a turn or is
   refused for the limit or for a turn of the same name. *)
Interaction(i, event) ==
    LET s == registry[i]
        recorded == [session[s] EXCEPT !.seen = Remembered(@, event)]
    IN /\ s # None
       /\ Recorded(s, event)
       /\ \/ /\ ~HasPlace(s, event)
             /\ session' = [session EXCEPT ![s] = recorded]
             /\ UNCHANGED task
          \/ /\ HasPlace(s, event)
             /\ \E k \in Tasks :
                   /\ task[k] = NoTask
                   /\ task' = [task EXCEPT ![k] = [session |-> s, event |-> event, cancelled |-> FALSE]]
                   /\ session' = [session EXCEPT ![s] =
                         [recorded EXCEPT !.turns = With(@, TurnId(event), k)]]
       /\ UNCHANGED <<control, registry, starts, closer, lost, late>>

Without(turns, h) == [x \in DOMAIN turns \ {h} |-> turns[x]]

(* Seeded fault: whoever has the turn's name is taken for the turn. *)
CompleteTurnByName(k) ==
    LET s == task[k].session  h == TurnId(task[k].event)
    IN /\ task[k] # NoTask
       /\ task' = [task EXCEPT ![k] = NoTask]
       /\ session' = [session EXCEPT ![s].turns = Without(@, h)]
       /\ UNCHANGED <<control, registry, starts, closer, lost, late>>

(* The task ends, by itself or because it was cancelled. *)
CompleteTurn(k) ==
    LET s == task[k].session  h == TurnId(task[k].event)
    IN /\ task[k] # NoTask
       /\ task' = [task EXCEPT ![k] = NoTask]
       /\ session' = [session EXCEPT ![s].turns =
                         IF h \in DOMAIN @ /\ @[h] = k THEN Without(@, h) ELSE @]
       /\ UNCHANGED <<control, registry, starts, closer, lost, late>>

Cancelled(ks) == [k \in Tasks |-> IF k \in ks THEN [task[k] EXCEPT !.cancelled = TRUE] ELSE task[k]]

(* interrupt, with the name of the interaction's turn *)
Interrupt(i, h) ==
    LET s == registry[i]
    IN /\ s # None /\ h \in DOMAIN session[s].turns
       /\ session' = [session EXCEPT ![s].turns = Without(@, h)]
       /\ task' = Cancelled({session[s].turns[h]})
       /\ UNCHANGED <<control, registry, starts, closer, lost, late>>

-----------------------------------------------------------------------------
(* close_session: the id is taken from the registry, whoever has it by then, and
   the session is emptied and its tasks are cancelled. *)
Closed(ss) ==
    /\ session' = [s \in Objects |->
          IF s \in ss THEN [Fresh EXCEPT !.state = "closed", !.id = session[s].id]
          ELSE session[s]]
    /\ task' = Cancelled({k \in Tasks : task[k].session \in ss})

SessionClose(i) ==
    /\ registry[i] # None
    /\ Closed({registry[i]})
    /\ registry' = [registry EXCEPT ![i] = None]
    /\ UNCHANGED <<control, starts, closer, lost, late>>

Dropped(ss) == {registry[session[s].id] : s \in ss} \ (ss \cup {None})

(* close_all_sessions closes one session after the other, in some order, up to the
   first that is busy, and waits for its tasks. *)
CloseUpTo(c, ss, left, w) ==
    /\ \A s \in ss \ {w} : ~Busy(s)
    /\ IF w = None THEN left = {} ELSE w \in ss /\ Busy(w)
    /\ closer' = [closer EXCEPT ![c] = [left |-> left, waiting |-> w]]
    /\ Closed(ss)
    /\ registry' = [i \in Ids |-> IF i \in {session[s].id : s \in ss} THEN None ELSE registry[i]]
    /\ lost' = lost \cup Dropped(ss)

Close(c, all) == \E ss \in SUBSET all, w \in Objects \cup {None} : CloseUpTo(c, ss, all \ ss, w)

CloseAllSessions(c) == closer[c] = Resting /\ Close(c, {registry[i] : i \in Ids} \ {None})

CloseNext(c) ==
    /\ closer[c].waiting # None /\ ~Busy(closer[c].waiting)
    /\ Close(c, closer[c].left)
    /\ UNCHANGED <<control, starts, late>>

(* The operator disconnects everybody, or saves another identity and then does. *)
DisconnectAll ==
    /\ CloseAllSessions("operator")
    /\ UNCHANGED <<control, starts, late>>

(* Seeded fault: who is connected stays connected. *)
IdentitySavedOnly(a) ==
    /\ closer["operator"] = Resting /\ a # account
    /\ account' = a
    /\ late' = {}
    /\ UNCHANGED <<accepting, terminated, registry, session, task, starts, closer, lost>>

IdentitySaved(a) ==
    /\ a # account
    /\ account' = a
    /\ CloseAllSessions("operator")
    /\ UNCHANGED <<accepting, terminated, starts, late>>

(* Turning the service off, or moving its port: the gate is closed first. *)

ServiceOff ==
    /\ accepting' = FALSE
    /\ CloseAllSessions("service")
    /\ UNCHANGED <<account, terminated, starts, late>>

ServiceOn ==
    /\ closer["service"] = Resting /\ ~accepting
    /\ accepting' = ~terminated
    /\ UNCHANGED <<account, terminated, registry, session, task, starts, closer, lost, late>>

(* The end of the plugin closes everything at once and then waits. *)
Terminate ==
    /\ ~terminated
    /\ terminated' = TRUE /\ accepting' = FALSE
    /\ registry' = [i \in Ids |-> None]
    /\ Closed({registry[i] : i \in Ids} \ {None})
    /\ UNCHANGED <<account, starts, closer, lost, late>>

-----------------------------------------------------------------------------
Next ==
    \/ \E q \in Requests :
          \/ \E i \in Ids : SessionStart(q, i)
          \/ \E granted \in BOOLEAN : Authorized(q, granted)
          \/ SessionStarted(q) \/ StartRefused(q)
    \/ \E i \in Ids :
          \/ \E event \in Events : Interaction(i, event)
          \/ \E h \in Heads : Interrupt(i, h)
          \/ SessionClose(i)
    \/ \E k \in Tasks : CompleteTurn(k)
    \/ \E c \in Closers : CloseNext(c)
    \/ DisconnectAll \/ \E a \in Accounts : IdentitySaved(a)
    \/ ServiceOff \/ ServiceOn \/ Terminate

Spec == Init /\ [][Next]_vars

-----------------------------------------------------------------------------
TypeOK ==
    /\ account \in Accounts /\ accepting \in BOOLEAN /\ terminated \in BOOLEAN
    /\ registry \in [Ids -> Objects \cup {None}]
    /\ Cardinality({i \in Ids : registry[i] # None}) <= MaxSessions
    /\ \A i \in Ids : registry[i] # None => Open(registry[i]) /\ session[registry[i]].id = i
    /\ \A s \in Objects : /\ Cardinality(DOMAIN session[s].turns) <= MaxInteractions
                          /\ Len(session[s].seen) <= Window
    /\ \A c \in Closers : closer[c].left \subseteq Objects

(* Once the gate is closed and the sessions were closed behind it, by the service or
   by the end of the plugin, no session is open and none comes.  What is excused: a
   session that another close had dropped from the registry, which nobody finds. *)
NothingSurvivesTheGate ==
    ~accepting /\ closer["service"] = Resting => \A s \in Objects : Open(s) => s \in lost

(* A session that was granted the protected context has it for the account that is
   configured, or it is about to be closed.  What is excused: a start whose
   authorization came before the account was replaced, and its session after. *)
GrantIsCurrent ==
    \A s \in Objects : Open(s) /\ session[s].granted =>
        \/ session[s].account = account
        \/ s \in closer["operator"].left \cup late \cup lost

(* A turn is current until it ends or is cancelled, whatever becomes of an earlier
   turn of the same name that is still about; and nothing runs on in a session that
   was closed. *)
TurnStaysCurrent ==
    TypeOK /\ \A k \in Tasks : task[k] # NoTask /\ ~task[k].cancelled =>
        LET turns == session[task[k].session].turns
        IN TurnId(task[k].event) \in DOMAIN turns /\ turns[TurnId(task[k].event)] = k

==============================================================================
