----------------------------- MODULE QuestChain ------------------------------
(***************************************************************************)
(* The turns of all sessions that run through the one quest chain          *)
(* (adapters/quest_enriched_pipeline.py) and the single slot in which it   *)
(* keeps "the current" synthetic event.  The chain suspends in the         *)
(* provider route, in each request hook and in the model call; a turn that *)
(* is interrupted aborts its own event inside generate() and, when it has  *)
(* unwound (turn_orchestrator.py awaits its action task and its TTS        *)
(* producer on the way), the event it then finds in the slot.              *)
(***************************************************************************)
EXTENDS Naturals, FiniteSets

CONSTANTS Turns,       \* normal turns, of any session
          MaxHooks,    \* bound: request hooks that another one follows
          None

ASSUME HookAssumption == MaxHooks \in Nat
ASSUME NoneAssumption == None \notin Turns

VARIABLES phase,       \* where the turn's task stands
          hook,        \* request hooks that have run for it
          slot,        \* _current_event
          events,      \* turns whose event was created
          aborted,     \* events with _quest_bridge_aborted
          stopped,     \* events that one of their own hooks stopped
          verdict      \* what generate() returned or raised

vars == <<phase, hook, slot, events, aborted, stopped, verdict>>

InChain == {"hooks", "llm"}     \* inside generate()'s try block

Init == /\ phase = [t \in Turns |-> "idle"]
        /\ hook = [t \in Turns |-> 0]
        /\ slot = None
        /\ events = {} /\ aborted = {} /\ stopped = {}
        /\ verdict = [t \in Turns |-> "none"]

Go(t, from, to) == phase[t] = from /\ phase' = [phase EXCEPT ![t] = to]

InSlot(s) == {s} \ {None}

-----------------------------------------------------------------------------
(* The turn comes to generate(), which looks up the provider's route. *)
Start(t) ==
    /\ Go(t, "idle", "route")
    /\ UNCHANGED <<hook, slot, events, aborted, stopped, verdict>>

(* The event is created.  Without a hook to run the model is called at once. *)
CreateEvent(t) ==
    /\ \E to \in InChain : Go(t, "route", to)
    /\ slot' = t
    /\ events' = events \cup {t}
    /\ UNCHANGED <<hook, aborted, stopped, verdict>>

(* A chain that fails ends the turn, or hands over to the direct provider. *)
Fails(t, from) ==
    /\ \E to \in {"over", "delivering"} : Go(t, from, to)
    /\ verdict' = [verdict EXCEPT ![t] = "error"]

(* No provider, or no platform. *)
Unavailable(t) ==
    /\ Fails(t, "route")
    /\ UNCHANGED <<hook, slot, events, aborted, stopped>>

(* A request hook ends; it may have stopped the event.  After one that timed
   out or raised, the event is not looked at until the next hook is over.
   "last": there is no other hook, or no time is left for it. *)
HookEnds(t, stops, returns, last) ==
    LET halted == aborted \cup stopped'
        leaves == last \/ (returns /\ t \in halted)
    IN
    /\ phase[t] = "hooks"
    /\ last \/ hook[t] < MaxHooks
    /\ stopped' = IF stops THEN stopped \cup {t} ELSE stopped
    /\ hook' = [hook EXCEPT ![t] = @ + 1]
    /\ \/ /\ ~leaves
          /\ UNCHANGED <<phase, slot, verdict>>
       \/ /\ leaves /\ t \notin halted
          /\ Go(t, "hooks", "llm")
          /\ UNCHANGED <<slot, verdict>>
       \/ /\ leaves /\ t \in halted                 \* _stopped_decision
          /\ Go(t, "hooks", "delivering")
          /\ slot' = None
          /\ \E said \in {"reply", "silent"} : verdict' = [verdict EXCEPT ![t] = said]
    /\ UNCHANGED <<events, aborted>>

(* The model answers and the response hooks have run, which may leave no text. *)
Reply(t) ==
    /\ Go(t, "llm", "delivering")
    /\ slot' = None
    /\ \E said \in {"reply", "empty"} : verdict' = [verdict EXCEPT ![t] = said]
    /\ UNCHANGED <<hook, events, aborted, stopped>>

(* Seeded fault: the slot is emptied on success only. *)
NoReplyKeepingSlot(t) ==
    /\ Fails(t, "llm")
    /\ UNCHANGED <<hook, slot, events, aborted, stopped>>

(* The model fails, times out, or leaves a question without an answer. *)
NoReply(t) ==
    /\ Fails(t, "llm")
    /\ slot' = None
    /\ UNCHANGED <<hook, events, aborted, stopped>>

Delivered(t) ==
    /\ Go(t, "delivering", "over")
    /\ UNCHANGED <<hook, slot, events, aborted, stopped, verdict>>

(* Seeded fault: only the event in the slot is aborted. *)
CancelledInSlot(t) == IF phase[t] \in InChain /\ slot = t THEN {t} ELSE {}

(* generate() is cancelled: its own event is aborted and the slot is emptied,
   whosever event is in it. *)
Cancelled(t) == IF phase[t] \in InChain THEN {t} ELSE {}
SlotAfterCancel(t) == IF phase[t] \in InChain THEN None ELSE slot

(* wait_for's deadline: cancellation, then abort_current_event at once. *)
Deadline(t) ==
    /\ \E from \in InChain \cup {"route"} : Fails(t, from)
    /\ slot' = SlotAfterCancel(t)
    /\ aborted' = aborted \cup Cancelled(t) \cup InSlot(slot')
    /\ UNCHANGED <<hook, events, stopped>>

(* The turn's task is cancelled wherever it stands, also before or after its
   time in the chain, and when it has unwound its handler aborts the event in
   the slot. *)
Interrupt(t) ==
    /\ phase[t] \in InChain \cup {"idle", "route", "delivering"}
    /\ phase' = [phase EXCEPT ![t] = "unwinding"]
    /\ slot' = SlotAfterCancel(t)
    /\ aborted' = aborted \cup Cancelled(t)
    /\ UNCHANGED <<hook, events, stopped, verdict>>

Unwound(t) ==
    /\ Go(t, "unwinding", "over")
    /\ aborted' = aborted \cup InSlot(slot)
    /\ UNCHANGED <<hook, slot, events, stopped, verdict>>

-----------------------------------------------------------------------------
Next == \E t \in Turns :
    \/ Start(t) \/ CreateEvent(t) \/ Unavailable(t)
    \/ \E stops, returns, last \in BOOLEAN : HookEnds(t, stops, returns, last)
    \/ Reply(t) \/ NoReply(t) \/ Delivered(t)
    \/ Deadline(t) \/ Interrupt(t) \/ Unwound(t)

Spec == Init /\ [][Next]_vars

-----------------------------------------------------------------------------
TypeOK ==
    /\ phase \in [Turns -> InChain \cup {"idle", "route", "delivering", "unwinding", "over"}]
    /\ hook \in [Turns -> 0..(MaxHooks + 1)]
    /\ slot \in events \cup {None}
    /\ events \subseteq Turns /\ aborted \subseteq events /\ stopped \subseteq events
    /\ verdict \in [Turns -> {"none", "reply", "empty", "silent", "error"}]

(* The slot never keeps the event of a turn that has left the chain, although
   every turn empties it without asking whose event is there: an interrupt
   that comes late aborts at most an event that is still being worked on. *)
NoStaleEvent == slot # None => phase[slot] \in InChain

(* An interrupted turn leaves an aborted event behind, also when another turn
   took or emptied the slot meanwhile: no late hook can speak for it. *)
InterruptedEventIsAborted ==
    \A t \in events :
        phase[t] \in {"unwinding", "over"} /\ verdict[t] = "none" => t \in aborted

(* What the proofs of the above rest on: an event exists from the first hook
   on, and a turn that delivers has been given its verdict. *)
Entered == \A t \in Turns :
    /\ phase[t] \in {"idle", "route", "hooks"} => hook[t] <= MaxHooks
    /\ phase[t] \in {"idle", "route"} => t \notin events
    /\ phase[t] \in InChain => t \in events
    /\ phase[t] = "delivering" => verdict[t] # "none"
IInv == TypeOK /\ Entered /\ NoStaleEvent /\ InterruptedEventIsAborted

(* The comment in _stopped_decision: a turn that ends there without a text is
   a legitimate silence, because a hook of its own has stopped the event. *)
SilenceIsAHooksWish == \A t \in Turns : verdict[t] = "silent" => t \in stopped
==============================================================================
