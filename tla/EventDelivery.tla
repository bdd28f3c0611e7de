---------------------------- MODULE EventDelivery ----------------------------
(***************************************************************************)
(* What the event stream of one session promises its client, whatever      *)
(* buffer stands in between (docs/API_CN.md sections 7 and 17, README on   *)
(* interruption, as the code keeps them):                                  *)
(*   - only a live turn adds an event;                                     *)
(*   - a critical event that was accepted is handed over, in the order of  *)
(*     acceptance, unless its turn, or one of the same name, is silenced;  *)
(*   - a silenced turn has nothing left to say;                            *)
(*   - only events that are not critical give way to others.               *)
(***************************************************************************)
EXTENDS Naturals, Sequences

CONSTANTS TurnIds,      \* the names turns may bear
          Critical      \* the kinds of event that must not be given up

VARIABLES names,        \* names[g]: the name of the turn opened g-th
          live,         \* the turns that may speak
          pending,      \* accepted events: [gen, kind, at], at = order of acceptance
          last          \* the order number of the event handed over last

avars == <<names, live, pending, last>>

AInit == names = << >> /\ live = {} /\ pending = {} /\ last = 0

Without(gs) == {e \in pending : \A g \in gs : names[e.gen] # names[g]}

(* A turn opens and may silence others. *)
Open == \E id \in TurnIds, old \in SUBSET live :
    /\ names' = Append(names, id)
    /\ live' = (live \ old) \cup {Len(names) + 1}
    /\ pending' = Without(old)
    /\ UNCHANGED last

Silence == \E g \in live :
    /\ live' = live \ {g}
    /\ pending' = Without({g})
    /\ UNCHANGED <<names, last>>

(* A turn that has said all it had to say leaves; its events stay. *)
Retire == \E g \in live :
    /\ live' = live \ {g}
    /\ UNCHANGED <<names, pending, last>>

(* An event joins behind all others; some that are not critical may go. *)
Accept == \E e \in pending' \ pending :
    /\ e.gen \in live
    /\ last < e.at
    /\ \A f \in pending : f.at < e.at
    /\ pending' \ pending = {e}
    /\ \A f \in pending \ pending' : f.kind \notin Critical
    /\ UNCHANGED <<names, live, last>>

Deliver == \E e \in pending :
    /\ \A f \in pending : e.at <= f.at
    /\ pending' = pending \ {e}
    /\ last' = e.at
    /\ UNCHANGED <<names, live>>

Close == live' = {} /\ pending' = {} /\ UNCHANGED <<names, last>>

ANext == Open \/ Silence \/ Retire \/ Accept \/ Deliver \/ Close

ASpec == AInit /\ [][ANext]_avars
==============================================================================
