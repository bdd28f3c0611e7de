-------------------------- MODULE QuestChainProofs ---------------------------
(***************************************************************************)
(* The safety properties of QuestChain for any number of turns and hooks.  *)
(***************************************************************************)
EXTENDS QuestChain, TLAPS

LEMMA InitInvariant == Init => IInv
BY HookAssumption, NoneAssumption
   DEF Init, IInv, TypeOK, Entered, NoStaleEvent, InterruptedEventIsAborted, InChain

LEMMA StartKeeps ==
    ASSUME IInv, NEW t \in Turns, Start(t) PROVE IInv'
<1>1. /\ phase[t] = "idle" /\ phase' = [phase EXCEPT ![t] = "route"]
      /\ UNCHANGED <<hook, slot, events, aborted, stopped, verdict>>
  BY DEF Start, Go
<1>2. TypeOK'
  BY <1>1 DEF IInv, TypeOK
<1>3. Entered'
  BY <1>1 DEF IInv, TypeOK, Entered, InChain
<1>4. NoStaleEvent' /\ InterruptedEventIsAborted'
  BY <1>1 DEF IInv, TypeOK, NoStaleEvent, InterruptedEventIsAborted, InChain
<1> QED
  BY <1>2, <1>3, <1>4 DEF IInv

LEMMA CreateEventKeeps ==
    ASSUME IInv, NEW t \in Turns, CreateEvent(t) PROVE IInv'
<1>1. PICK to \in InChain :
        /\ phase[t] = "route" /\ phase' = [phase EXCEPT ![t] = to]
        /\ slot' = t /\ events' = events \cup {t}
        /\ UNCHANGED <<hook, aborted, stopped, verdict>>
  BY DEF CreateEvent, Go
<1>2. TypeOK'
  BY <1>1 DEF IInv, TypeOK, InChain
<1>3. Entered'
  BY <1>1 DEF IInv, TypeOK, Entered, InChain
<1>4. NoStaleEvent' /\ InterruptedEventIsAborted'
  BY <1>1 DEF IInv, TypeOK, NoStaleEvent, InterruptedEventIsAborted, InChain
<1> QED
  BY <1>2, <1>3, <1>4 DEF IInv

(* The steps that give a turn its verdict: it has left the chain and the slot
   is empty, or it never was in the chain. *)
LEMMA VerdictKeeps ==
    ASSUME IInv, NEW t \in Turns, NEW to \in {"over", "delivering"},
           NEW said \in {"reply", "empty", "silent", "error"},
           phase[t] \in InChain \cup {"route"},
           phase' = [phase EXCEPT ![t] = to],
           verdict' = [verdict EXCEPT ![t] = said],
           slot' = IF phase[t] \in InChain THEN None ELSE slot,
           hook' \in [Turns -> 0..(MaxHooks + 1)],
           \A u \in Turns \ {t} : hook'[u] = hook[u],
           events' = events,
           aborted \subseteq aborted', aborted' \subseteq events, stopped' \subseteq events
    PROVE  IInv'
<1>1. TypeOK'
  BY DEF IInv, TypeOK, InChain
<1>2. Entered'
  BY DEF IInv, TypeOK, Entered, InChain
<1>3. NoStaleEvent'
  BY DEF IInv, TypeOK, NoStaleEvent, InChain
<1>4. InterruptedEventIsAborted'
  BY DEF IInv, TypeOK, InterruptedEventIsAborted, InChain
<1> QED
  BY <1>1, <1>2, <1>3, <1>4 DEF IInv

LEMMA UnavailableKeeps ==
    ASSUME IInv, NEW t \in Turns, Unavailable(t) PROVE IInv'
<1>1. PICK to \in {"over", "delivering"} :
        /\ phase[t] = "route" /\ phase' = [phase EXCEPT ![t] = to]
        /\ verdict' = [verdict EXCEPT ![t] = "error"]
        /\ UNCHANGED <<hook, slot, events, aborted, stopped>>
  BY DEF Unavailable, Fails, Go
<1>2. hook' \in [Turns -> 0..(MaxHooks + 1)] /\ aborted' \subseteq events /\ stopped' \subseteq events
  BY <1>1 DEF IInv, TypeOK
<1> QED
  BY <1>1, <1>2, VerdictKeeps DEF InChain

LEMMA ReplyKeeps ==
    ASSUME IInv, NEW t \in Turns, Reply(t) \/ NoReply(t) PROVE IInv'
<1>1. PICK to \in {"over", "delivering"}, said \in {"reply", "empty", "error"} :
        /\ phase[t] = "llm" /\ phase' = [phase EXCEPT ![t] = to]
        /\ verdict' = [verdict EXCEPT ![t] = said]
        /\ slot' = None
        /\ UNCHANGED <<hook, events, aborted, stopped>>
  BY DEF Reply, NoReply, Fails, Go
<1>2. hook' \in [Turns -> 0..(MaxHooks + 1)] /\ aborted' \subseteq events /\ stopped' \subseteq events
  BY <1>1 DEF IInv, TypeOK
<1> QED
  BY <1>1, <1>2, VerdictKeeps DEF InChain

LEMMA HookEndsKeeps ==
    ASSUME IInv, NEW t \in Turns, NEW stops \in BOOLEAN, NEW returns \in BOOLEAN,
           NEW last \in BOOLEAN, HookEnds(t, stops, returns, last)
    PROVE  IInv'
<1> DEFINE leaves == last \/ (returns /\ t \in aborted \cup stopped')
<1>1. /\ phase[t] = "hooks"
      /\ last \/ hook[t] < MaxHooks
      /\ hook' = [hook EXCEPT ![t] = @ + 1]
      /\ UNCHANGED <<events, aborted>>
  BY DEF HookEnds
<1>2. t \in events /\ stopped' \subseteq events
  BY <1>1 DEF HookEnds, IInv, TypeOK, Entered, InChain
<1>3. /\ hook' \in [Turns -> 0..(MaxHooks + 1)]
      /\ \A u \in Turns \ {t} : hook'[u] = hook[u]
      /\ ~last => hook'[t] <= MaxHooks
  BY <1>1, HookAssumption DEF IInv, TypeOK, Entered
<1>4. CASE ~leaves
  <2>1. UNCHANGED <<phase, slot, verdict>>
    BY <1>4 DEF HookEnds
  <2>2. TypeOK'
    BY <1>1, <1>2, <1>3, <2>1 DEF IInv, TypeOK
  <2>3. Entered'
    BY <1>1, <1>3, <1>4, <2>1 DEF IInv, TypeOK, Entered
  <2> QED
    BY <1>1, <2>1, <2>2, <2>3 DEF IInv, NoStaleEvent, InterruptedEventIsAborted
<1>5. CASE leaves /\ t \notin aborted \cup stopped'
  <2>1. phase' = [phase EXCEPT ![t] = "llm"] /\ UNCHANGED <<slot, verdict>>
    BY <1>5 DEF HookEnds, Go
  <2>2. TypeOK'
    BY <1>1, <1>2, <1>3, <2>1 DEF IInv, TypeOK, InChain
  <2>3. Entered'
    BY <1>1, <1>2, <1>3, <2>1 DEF IInv, TypeOK, Entered, InChain
  <2>4. NoStaleEvent' /\ InterruptedEventIsAborted'
    BY <1>1, <2>1 DEF IInv, TypeOK, NoStaleEvent, InterruptedEventIsAborted, InChain
  <2> QED
    BY <2>2, <2>3, <2>4 DEF IInv
<1>6. CASE leaves /\ t \in aborted \cup stopped'
  <2>1. PICK said \in {"reply", "silent"} :
          /\ phase' = [phase EXCEPT ![t] = "delivering"]
          /\ slot' = None /\ verdict' = [verdict EXCEPT ![t] = said]
    BY <1>6 DEF HookEnds, Go
  <2>2. aborted' \subseteq events /\ aborted \subseteq aborted'
    BY <1>1 DEF IInv, TypeOK
  <2>3. /\ phase[t] \in InChain \cup {"route"}
        /\ slot' = IF phase[t] \in InChain THEN None ELSE slot
    BY <1>1, <2>1 DEF InChain
  <2>4. events' = events
    BY <1>1
  <2> HIDE DEF leaves
  <2> QED
    BY <1>2, <1>3, <2>1, <2>2, <2>3, <2>4, VerdictKeeps
<1> QED
  BY <1>4, <1>5, <1>6

LEMMA DeliveredKeeps ==
    ASSUME IInv, NEW t \in Turns, Delivered(t) PROVE IInv'
<1>1. /\ phase[t] = "delivering" /\ phase' = [phase EXCEPT ![t] = "over"]
      /\ UNCHANGED <<hook, slot, events, aborted, stopped, verdict>>
  BY DEF Delivered, Go
<1>2. TypeOK' /\ Entered'
  BY <1>1 DEF IInv, TypeOK, Entered, InChain
<1>3. NoStaleEvent' /\ InterruptedEventIsAborted'
  BY <1>1 DEF IInv, TypeOK, Entered, NoStaleEvent, InterruptedEventIsAborted, InChain
<1> QED
  BY <1>2, <1>3 DEF IInv

(* What a cancelled turn and the slot give to the aborted events exists. *)
LEMMA AbortsEvents ==
    ASSUME IInv, NEW t \in Turns
    PROVE  Cancelled(t) \subseteq events /\ InSlot(slot) \subseteq events
BY DEF IInv, TypeOK, Entered, Cancelled, InSlot

LEMMA DeadlineKeeps ==
    ASSUME IInv, NEW t \in Turns, Deadline(t) PROVE IInv'
<1>1. PICK from \in InChain \cup {"route"}, to \in {"over", "delivering"} :
        /\ phase[t] = from /\ phase' = [phase EXCEPT ![t] = to]
        /\ verdict' = [verdict EXCEPT ![t] = "error"]
        /\ slot' = IF phase[t] \in InChain THEN None ELSE slot
        /\ aborted' = aborted \cup Cancelled(t) \cup InSlot(slot')
        /\ UNCHANGED <<hook, events, stopped>>
  BY DEF Deadline, Fails, Go, SlotAfterCancel
<1>2. InSlot(slot') \subseteq events
  BY <1>1, AbortsEvents DEF InSlot
<1>3. aborted' \subseteq events /\ aborted \subseteq aborted'
  BY <1>1, <1>2, AbortsEvents DEF IInv, TypeOK
<1>4. hook' \in [Turns -> 0..(MaxHooks + 1)] /\ stopped' \subseteq events
  BY <1>1 DEF IInv, TypeOK
<1> QED
  BY <1>1, <1>3, <1>4, VerdictKeeps

LEMMA InterruptKeeps ==
    ASSUME IInv, NEW t \in Turns, Interrupt(t) PROVE IInv'
<1>1. /\ phase[t] \in InChain \cup {"idle", "route", "delivering"}
      /\ phase' = [phase EXCEPT ![t] = "unwinding"]
      /\ slot' = IF phase[t] \in InChain THEN None ELSE slot
      /\ aborted' = aborted \cup Cancelled(t)
      /\ UNCHANGED <<hook, events, stopped, verdict>>
  BY DEF Interrupt, SlotAfterCancel
<1>2. TypeOK'
  BY <1>1, AbortsEvents DEF IInv, TypeOK
<1>3. Entered'
  BY <1>1 DEF IInv, TypeOK, Entered, InChain
<1>4. NoStaleEvent'
  BY <1>1 DEF IInv, TypeOK, NoStaleEvent, InChain
<1>5. InterruptedEventIsAborted'
  BY <1>1 DEF IInv, TypeOK, Entered, InterruptedEventIsAborted, Cancelled, InChain
<1> QED
  BY <1>2, <1>3, <1>4, <1>5 DEF IInv

LEMMA UnwoundKeeps ==
    ASSUME IInv, NEW t \in Turns, Unwound(t) PROVE IInv'
<1>1. /\ phase[t] = "unwinding" /\ phase' = [phase EXCEPT ![t] = "over"]
      /\ aborted' = aborted \cup InSlot(slot)
      /\ UNCHANGED <<hook, slot, events, stopped, verdict>>
  BY DEF Unwound, Go
<1>2. TypeOK'
  BY <1>1, AbortsEvents DEF IInv, TypeOK
<1>3. Entered' /\ NoStaleEvent'
  BY <1>1 DEF IInv, TypeOK, Entered, NoStaleEvent, InChain
<1>4. InterruptedEventIsAborted'
  BY <1>1 DEF IInv, TypeOK, InterruptedEventIsAborted
<1> QED
  BY <1>2, <1>3, <1>4 DEF IInv

-----------------------------------------------------------------------------
(* The inductive invariant holds of every state the chain can reach. *)
THEOREM InvariantHolds == Spec => []IInv
<1>1. IInv /\ [Next]_vars => IInv'
  <2> SUFFICES ASSUME IInv, [Next]_vars PROVE IInv'
    OBVIOUS
  <2>1. CASE UNCHANGED vars
    BY <2>1 DEF vars, IInv, TypeOK, Entered, NoStaleEvent, InterruptedEventIsAborted
  <2>2. CASE Next
    <3>1. PICK t \in Turns :
            \/ Start(t) \/ CreateEvent(t) \/ Unavailable(t)
            \/ \E stops, returns, last \in BOOLEAN : HookEnds(t, stops, returns, last)
            \/ Reply(t) \/ NoReply(t) \/ Delivered(t)
            \/ Deadline(t) \/ Interrupt(t) \/ Unwound(t)
      BY <2>2 DEF Next
    <3> QED
      BY <3>1, StartKeeps, CreateEventKeeps, UnavailableKeeps, HookEndsKeeps, ReplyKeeps,
         DeliveredKeeps, DeadlineKeeps, InterruptKeeps, UnwoundKeeps
  <2> QED
    BY <2>1, <2>2
<1> QED
  BY InitInvariant, <1>1, PTL DEF Spec

(* The single slot of quest_enriched_pipeline.py never keeps the event of a
   turn that has left the chain, for any number of turns in any sessions. *)
THEOREM SlotIsNeverStale == Spec => []NoStaleEvent
<1>1. IInv => NoStaleEvent
  BY DEF IInv
<1> QED
  BY InvariantHolds, <1>1, PTL

(* An interrupted turn never leaves an event behind that hooks could still
   speak through (the except clause of generate()). *)
THEOREM InterruptsAbort == Spec => []InterruptedEventIsAborted
<1>1. IInv => InterruptedEventIsAborted
  BY DEF IInv
<1> QED
  BY InvariantHolds, <1>1, PTL

(* Every variable keeps its type; only events that exist are in the slot, or
   aborted, or stopped. *)
THEOREM TypeCorrect == Spec => []TypeOK
<1>1. IInv => TypeOK
  BY DEF IInv
<1> QED
  BY InvariantHolds, <1>1, PTL
==============================================================================
