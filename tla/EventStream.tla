----------------------------- MODULE EventStream -----------------------------
(***************************************************************************)
(* One client session of core/session_manager.py: the bounded queue of     *)
(* downstream events (BoundedEventQueue), the turns that fill it and the   *)
(* SSE stream that empties it.                                             *)
(*                                                                         *)
(* The program is one asyncio event loop.  No body of a session.lock or of *)
(* the queue's condition awaits anything but Condition.wait, so both locks *)
(* are free whenever they are asked for and every operation is one step of *)
(* the loop.  A producer is suspended in one place only: a critical event  *)
(* on a full queue.                                                        *)
(*                                                                         *)
(* A turn is known by its generation, turn_ids may be used again.  The     *)
(* deque is the set of its items, ordered by their arrival number "at".    *)
(* What each task says, and in which order, is the matter of TurnDelivery. *)
(***************************************************************************)
EXTENDS Naturals, Sequences, FiniteSets

CONSTANTS TurnIds,           \* turn_id values
          Capacity,          \* BoundedEventQueue.capacity
          MaxInteractions,   \* SessionManager.max_concurrent_interactions
          MaxTurns,          \* bound: turns begun in the session
          MaxArrivals        \* bound: events accepted in the session

ASSUME CapacityAssumption == Capacity \in Nat \ {0}
ASSUME BoundAssumption == MaxInteractions \in Nat /\ MaxTurns \in Nat /\ MaxArrivals \in Nat

Critical  == {"critical"}             \* CRITICAL_EVENT_TYPES, one class
Droppable == {"partial", "delta"}     \* DROPPABLE_EVENT_TYPES
Kinds     == Critical \cup Droppable \cup {"suggestions"}

(* The tasks of a turn that emit: the reply pipeline, the explicit-action  *)
(* task, the streaming STT worker and the task of the quick replies.       *)
Roles == {"reply", "action", "stt", "suggest"}
Says(role) == CASE role = "reply"   -> {"delta", "critical"}
                [] role = "action"  -> {"critical"}
                [] role = "stt"     -> {"partial"}
                [] role = "suggest" -> {"suggestions"}

VARIABLES turn,          \* turn[g]: the turn begun as generation g
          current,       \* session.current_turn, 0 for None
          interactions,  \* session.interaction_turns
          closed,        \* session.closed
          attached,      \* session.stream_attached
          items,         \* queue._items
          arrivals,      \* number of items ever appended
          consumed,      \* arrival number of the item the SSE stream took last
          waiting,       \* producers inside Condition.wait: <<generation, role>>
          woken          \* those of them that are notified or cancelled

turnVars  == <<turn, current, interactions, closed>>
queueVars == <<items, arrivals, consumed, waiting, woken>>
vars      == <<turnVars, attached, queueVars>>

generation  == Len(turn)              \* session.generation
Generations == 1..generation

Turn == [id : TurnIds, interaction : BOOLEAN, phase : {"running", "done", "revoked"}]
Item == [gen : Generations, kind : Kinds, at : 1..arrivals]

Init == /\ turn = << >> /\ current = 0 /\ interactions = {} /\ closed = FALSE
        /\ attached = FALSE
        /\ items = {} /\ arrivals = 0 /\ consumed = 0
        /\ waiting = {} /\ woken = {}

Active       == ({current} \ {0}) \cup interactions
IsCurrent(g) == ~closed /\ g \in Active

-----------------------------------------------------------------------------
(* The queue. *)

Oldest(S) == CHOOSE i \in S : \A j \in S : i.at <= j.at

(* A newer hypothesis replaces the queued one of the same turn_id. *)
Coalesced(g, kind) ==
    IF kind = "partial"
    THEN {i \in items : i.kind # "partial" \/ turn[i.gen].id # turn[g].id}
    ELSE items

HasRoom(S) == Cardinality(S) < Capacity \/ \E i \in S : i.kind \in Droppable

(* Seeded fault: the oldest item gives way, droppable or not. *)
MakeRoomOfAnyKind(S) == IF Cardinality(S) < Capacity THEN S ELSE S \ {Oldest(S)}

(* Seeded fault: a full queue is noticed one item too late. *)
MakeRoomTooLate(S) == IF Cardinality(S) <= Capacity THEN S
                      ELSE S \ {Oldest({i \in S : i.kind \in Droppable})}

(* On a full queue the oldest droppable item gives way. *)
MakeRoom(S) == IF Cardinality(S) < Capacity THEN S
               ELSE S \ {Oldest({i \in S : i.kind \in Droppable})}

Enqueue(S, g, kind) ==
    /\ items' = MakeRoom(S) \cup {[gen |-> g, kind |-> kind, at |-> arrivals + 1]}
    /\ arrivals' = arrivals + 1
    /\ UNCHANGED consumed

(* A task that may call emit(): those of a running turn, and the one of the
   quick replies, which is spawned after reply.end and outlives the turn. *)
CanEmit(g, role) ==
    /\ turn[g].phase = (IF role = "suggest" THEN "done" ELSE "running")
    /\ turn[g].interaction => role \in {"reply", "suggest"}
    /\ <<g, role>> \notin waiting
    /\ arrivals + Cardinality(waiting) < MaxArrivals

(* emit() up to its return or its first wait. *)
Emit(g, role, kind) ==
    /\ CanEmit(g, role)
    /\ IsCurrent(g)
    /\ LET S == Coalesced(g, kind) IN
       \/ /\ HasRoom(S)
          /\ Enqueue(S, g, kind)
          /\ woken' = waiting
          /\ UNCHANGED waiting
       \/ /\ ~HasRoom(S)
          /\ kind \in Critical
          /\ waiting' = waiting \cup {<<g, role>>}
          /\ UNCHANGED <<items, arrivals, consumed, woken>>
    /\ UNCHANGED <<turnVars, attached>>

(* A waiting producer runs again: one that was cancelled or whose turn is
   stale gives up, the others look for room again. *)
ResumePut(g, role) ==
    /\ <<g, role>> \in woken
    /\ \/ /\ ~IsCurrent(g)
          /\ waiting' = waiting \ {<<g, role>>}
          /\ woken' = woken \ {<<g, role>>}
          /\ UNCHANGED <<items, arrivals, consumed>>
       \/ /\ IsCurrent(g)
          /\ HasRoom(items)
          /\ Enqueue(items, g, "critical")
          /\ waiting' = waiting \ {<<g, role>>}
          /\ woken' = waiting'
       \/ /\ IsCurrent(g)
          /\ ~HasRoom(items)
          /\ woken' = woken \ {<<g, role>>}
          /\ UNCHANGED <<waiting, items, arrivals, consumed>>
    /\ UNCHANGED <<turnVars, attached>>

(* The tasks of the turns gs are cancelled and discard_turn drops the items
   of their turn_id, in one step of the loop; every producer wakes up. *)
Discard(gs) ==
    /\ items' = {i \in items : \A g \in gs : turn[i.gen].id # turn[g].id}
    /\ woken' = waiting
    /\ UNCHANGED <<arrivals, consumed, waiting>>

Revoke(gs) == [g \in Generations |->
                 IF g \in gs THEN [turn[g] EXCEPT !.phase = "revoked"] ELSE turn[g]]

-----------------------------------------------------------------------------
(* The turns. *)

NewTurn(id, interaction) == [id |-> id, interaction |-> interaction, phase |-> "running"]

CanBegin(id) == /\ ~closed
                /\ \A g \in Active : turn[g].id # id
                /\ generation < MaxTurns

(* POST /turn/start.  A turn that has completed is still the current one. *)
BeginTurn(id, cancelPrevious) ==
    LET old == {current} \ {0} IN
    /\ CanBegin(id)
    /\ old = {} \/ cancelPrevious
    /\ turn' = Append(Revoke(old), NewTurn(id, FALSE))
    /\ current' = generation + 1
    /\ IF old = {} THEN UNCHANGED queueVars ELSE Discard(old)
    /\ UNCHANGED <<interactions, closed, attached>>

BeginInteraction(id) ==
    /\ CanBegin(id)
    /\ Cardinality(interactions) < MaxInteractions
    /\ turn' = Append(turn, NewTurn(id, TRUE))
    /\ interactions' = interactions \cup {generation + 1}
    /\ UNCHANGED <<current, closed, attached, queueVars>>

(* The runner's finally block.  Only an interaction leaves its slot. *)
CompleteTurn(g) ==
    /\ turn[g].phase = "running"
    /\ \A p \in waiting : p[1] # g
    /\ turn' = [turn EXCEPT ![g].phase = "done"]
    /\ interactions' = interactions \ {g}
    /\ UNCHANGED <<current, closed, attached, queueVars>>

(* Seeded fault: the interrupted turn's items stay in the queue. *)
CancelWithoutDiscard(g) ==
    /\ g \in Active
    /\ current' = IF g = current THEN 0 ELSE current
    /\ interactions' = interactions \ {g}
    /\ turn' = Revoke({g})
    /\ UNCHANGED <<closed, attached, queueVars>>

(* POST /interrupt: the current turn, or the turn that bears the name. *)
CancelCurrent(g) ==
    /\ g \in Active
    /\ current' = IF g = current THEN 0 ELSE current
    /\ interactions' = interactions \ {g}
    /\ turn' = Revoke({g})
    /\ Discard({g})
    /\ UNCHANGED <<closed, attached>>

(* close_session, and terminate for each session. *)
CloseSession ==
    /\ ~closed
    /\ closed' = TRUE
    /\ current' = 0
    /\ interactions' = {}
    /\ turn' = Revoke(Active)
    /\ items' = {}
    /\ woken' = waiting
    /\ UNCHANGED <<attached, arrivals, consumed, waiting>>

-----------------------------------------------------------------------------
(* The SSE stream. *)

AttachStream ==
    /\ ~attached /\ ~closed
    /\ attached' = TRUE
    /\ UNCHANGED <<turnVars, queueVars>>

(* The connection ends: the client went away, or get() raised QueueClosed. *)
DetachStream ==
    /\ attached
    /\ attached' = FALSE
    /\ woken' = waiting
    /\ UNCHANGED <<turnVars, items, arrivals, consumed, waiting>>

(* Seeded fault: the consumer takes an item and notifies nobody. *)
GetWithoutNotify ==
    /\ attached
    /\ items # {}
    /\ items' = items \ {Oldest(items)}
    /\ consumed' = Oldest(items).at
    /\ UNCHANGED <<turnVars, attached, arrivals, waiting, woken>>

Get ==
    /\ attached
    /\ items # {}
    /\ items' = items \ {Oldest(items)}
    /\ consumed' = Oldest(items).at
    /\ woken' = waiting
    /\ UNCHANGED <<turnVars, attached, arrivals, waiting>>

-----------------------------------------------------------------------------
Next ==
    \/ \E id \in TurnIds, cancelPrevious \in BOOLEAN : BeginTurn(id, cancelPrevious)
    \/ \E id \in TurnIds : BeginInteraction(id)
    \/ \E g \in Generations : CompleteTurn(g) \/ CancelCurrent(g)
    \/ \E g \in Generations, role \in Roles : \E kind \in Says(role) : Emit(g, role, kind)
    \/ \E g \in Generations, role \in Roles : ResumePut(g, role)
    \/ CloseSession
    \/ AttachStream \/ DetachStream \/ Get

Spec == Init /\ [][Next]_vars

(* The loop runs every task it has made ready; a client reads the stream it
   holds.  FairSpec adds that a client without a stream opens one again. *)
Ready == \E g \in Generations, role \in Roles : ResumePut(g, role)
FairSpec == Spec /\ WF_vars(Ready) /\ SF_vars(Get) /\ WF_vars(AttachStream)

-----------------------------------------------------------------------------
TypeOK ==
    /\ turn \in Seq(Turn)
    /\ current \in Generations \cup {0}
    /\ interactions \subseteq Generations
    /\ closed \in BOOLEAN /\ attached \in BOOLEAN
    /\ arrivals \in Nat /\ consumed \in 0..arrivals
    /\ items \subseteq Item
    /\ waiting \subseteq Generations \X Roles
    /\ woken \subseteq waiting

(* The queue never holds more than its capacity, in spite of the break after
   one discard in put() and of producers that go on after a wait. *)
Fits == Cardinality(items) <= Capacity
QueueBounded == TypeOK /\ Fits

(* No wake-up is lost: a producer that sleeps un-notified has a live turn and
   a full queue with nothing to discard; in any other state it is runnable. *)
NoLostWakeup ==
    \A p \in waiting \ woken : IsCurrent(p[1]) /\ ~HasRoom(items)

(* After an interrupt, a new turn or a close has returned, the queue holds
   nothing of the turns it ended ("the interrupted turn sends no more text,
   audio, action or reply.end"), and a normal turn's items are the current's. *)
NothingOfRevokedTurns ==
    \A i \in items : /\ ~closed
                     /\ turn[i.gen].phase # "revoked"
                     /\ ~turn[i.gen].interaction => i.gen = current

(* What the proofs of the above rest on: arrival numbers tell items apart and
   lie behind the stream's position; the slots hold turns that were not ended,
   of the right sort, and a closed session holds none. *)
Stamped == /\ IsFiniteSet(items)
           /\ \A i, j \in items : i.at = j.at => i = j
           /\ \A i \in items : consumed < i.at
Slots == /\ \A g \in interactions : turn[g].interaction /\ turn[g].phase # "revoked"
         /\ current # 0 => ~turn[current].interaction /\ turn[current].phase # "revoked"
         /\ closed => Active = {}
IInv == TypeOK /\ Stamped /\ Fits /\ Slots /\ NoLostWakeup /\ NothingOfRevokedTurns

(* The queue with its drops, waits and discards is an event stream as
   EventDelivery promises it: critical events are never lost or reordered. *)
Promise == INSTANCE EventDelivery WITH
    names   <- [g \in Generations |-> turn[g].id],
    live    <- IF closed THEN {} ELSE Active,
    pending <- items,
    last    <- consumed
Delivers == Promise!ASpec

(* A producer that waits for room goes on at last: its event is taken, or its
   turn ends.  Needs a client that keeps coming back to read. *)
BlockedEmitReturns ==
    \A p \in (1..MaxTurns) \X Roles : (p \in waiting) ~> (p \notin waiting)

==============================================================================
