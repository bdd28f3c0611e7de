-------------------------- MODULE EventStreamProofs --------------------------
(***************************************************************************)
(* The safety properties of EventStream for every value of its constants,  *)
(* and that it implements EventDelivery.                                   *)
(***************************************************************************)
EXTENDS EventStream, FiniteSetTheorems, WellFoundedInduction, TLAPS

-----------------------------------------------------------------------------
(* The oldest item. *)

(* Every non-empty set of natural numbers has a least element. *)
LEMMA LeastNatural ==
    ASSUME NEW T \in SUBSET Nat, T # {}
    PROVE  \E x \in T : \A y \in T : x <= y
<1> DEFINE R == OpToRel(<, Nat)
<1>1. IsWellFoundedOn(R, Nat)
  BY NatLessThanWellFounded
<1>2. \E x \in T : \A y \in T : ~(<<y, x>> \in R)
  BY <1>1, WFMin, Zenon
<1>3. \A x, y \in Nat : <<y, x>> \in R <=> y < x
  BY DEF OpToRel
<1> HIDE DEF R
<1>4. PICK x \in T : \A y \in T : ~(<<y, x>> \in R)
  BY <1>2
<1>5. \A y \in T : y \in Nat /\ x \in Nat /\ ~(y < x)
  BY <1>3, <1>4, Zenon
<1>6. \A m, n \in Nat : ~(m < n) => n <= m
  BY SMT
<1> QED
  BY <1>5, <1>6, Zenon

(* Oldest returns an item of a non-empty set, none of which arrived earlier. *)
LEMMA OldestIsFirst ==
    ASSUME NEW S, S # {}, \A i \in S : i.at \in Nat
    PROVE  Oldest(S) \in S /\ \A j \in S : Oldest(S).at <= j.at
<1> DEFINE T == {i.at : i \in S}
<1>1. T \in SUBSET Nat /\ T # {}
  OBVIOUS
<1>2. PICK n \in T : \A m \in T : n <= m
  BY <1>1, LeastNatural, Zenon
<1>3. PICK i \in S : i.at = n
  BY <1>2
<1>4. \A j \in S : i.at <= j.at
  BY <1>2, <1>3
<1> QED
  BY <1>3, <1>4 DEF Oldest

-----------------------------------------------------------------------------
(* The building blocks of the actions. *)

(* Append adds one turn and keeps the others where they are. *)
LEMMA AppendFacts ==
    \A s \in Seq(Turn), e \in Turn :
        /\ Append(s, e) \in Seq(Turn)
        /\ Len(s) \in Nat /\ Len(Append(s, e)) = Len(s) + 1
        /\ Append(s, e)[Len(s) + 1] = e
        /\ \A k \in 1..Len(s) : Append(s, e)[k] = s[k]
OBVIOUS

(* Revoke touches nothing but the phases of the turns it is given. *)
LEMMA RevokeFacts ==
    ASSUME turn \in Seq(Turn), NEW gs
    PROVE  /\ Revoke(gs) \in Seq(Turn)
           /\ Len(Revoke(gs)) = Len(turn)
           /\ \A g \in Generations :
                /\ Revoke(gs)[g].id = turn[g].id
                /\ Revoke(gs)[g].interaction = turn[g].interaction
                /\ Revoke(gs)[g].phase = IF g \in gs THEN "revoked" ELSE turn[g].phase
<1>1. \A g \in Generations : turn[g] \in Turn
  BY DEF Generations, generation
<1>2. \A g \in Generations : [turn[g] EXCEPT !.phase = "revoked"] \in Turn
  BY <1>1 DEF Turn
<1>3. Revoke(gs) \in [1..Len(turn) -> Turn]
  BY <1>1, <1>2 DEF Revoke, Generations, generation
<1>4. Len(turn) \in Nat
  OBVIOUS
<1>5. Revoke(gs) \in Seq(Turn) /\ Len(Revoke(gs)) = Len(turn)
  BY <1>3, <1>4
<1>6. ASSUME NEW g \in Generations
      PROVE  /\ Revoke(gs)[g].id = turn[g].id
             /\ Revoke(gs)[g].interaction = turn[g].interaction
             /\ Revoke(gs)[g].phase = IF g \in gs THEN "revoked" ELSE turn[g].phase
  BY <1>1, <1>6 DEF Revoke, Turn
<1> QED
  BY <1>5, <1>6

(* MakeRoom leaves place for one more item and gives up droppable ones only. *)
LEMMA MakeRoomFacts ==
    ASSUME TypeOK, Stamped, Fits, NEW S \in SUBSET items, HasRoom(S)
    PROVE  /\ MakeRoom(S) \subseteq S
           /\ IsFiniteSet(MakeRoom(S))
           /\ Cardinality(MakeRoom(S)) + 1 <= Capacity
           /\ \A i \in S \ MakeRoom(S) : i.kind \in Droppable
<1> DEFINE D == {i \in S : i.kind \in Droppable}
<1>1. IsFiniteSet(S) /\ Cardinality(S) \in Nat /\ Cardinality(S) <= Capacity
  BY FS_Subset, FS_CardinalityType, CapacityAssumption DEF Stamped, Fits
<1>2. CASE Cardinality(S) < Capacity
  BY <1>1, <1>2, CapacityAssumption DEF MakeRoom
<1>3. CASE ~(Cardinality(S) < Capacity)
  <2>1. D # {} /\ \A i \in D : i.at \in Nat
    BY <1>3 DEF HasRoom, TypeOK, Item
  <2>2. Oldest(D) \in D
    BY <2>1, OldestIsFirst, Zenon
  <2>3. MakeRoom(S) = S \ {Oldest(D)}
    BY <1>3 DEF MakeRoom
  <2>4. IsFiniteSet(S \ {Oldest(D)}) /\ Cardinality(S \ {Oldest(D)}) = Cardinality(S) - 1
    BY <1>1, <2>2, FS_RemoveElement
  <2> QED
    BY <1>1, <2>2, <2>3, <2>4, CapacityAssumption
<1> QED
  BY <1>2, <1>3

(* One item more in a queue that had room keeps all that is said of items. *)
LEMMA EnqueueKeeps ==
    ASSUME IInv, NEW g \in Generations, NEW kind \in Kinds, NEW S \in SUBSET items,
           HasRoom(S), IsCurrent(g), Enqueue(S, g, kind), UNCHANGED turnVars
    PROVE  /\ items' \subseteq Item'
           /\ arrivals' \in Nat /\ consumed' \in 0..arrivals'
           /\ Stamped' /\ Fits' /\ NothingOfRevokedTurns'
<1> DEFINE R == MakeRoom(S)
           e == [gen |-> g, kind |-> kind, at |-> arrivals + 1]
<1>1. /\ R \subseteq items /\ IsFiniteSet(R)
      /\ Cardinality(R) + 1 <= Capacity
  BY MakeRoomFacts DEF IInv
<1>2. items' = R \cup {e} /\ arrivals' = arrivals + 1 /\ consumed' = consumed
  BY DEF Enqueue
<1>3. \A i \in items : i \in Item /\ i.at \in 1..arrivals /\ i.at < arrivals + 1
  BY DEF IInv, TypeOK, Item
<1>4. e \in Item' /\ \A i \in items : i \in Item'
  BY <1>2, <1>3 DEF IInv, TypeOK, Item, turnVars, Generations, generation
<1>5. items' \subseteq Item' /\ arrivals' \in Nat /\ consumed' \in 0..arrivals'
  BY <1>1, <1>2, <1>4 DEF IInv, TypeOK
<1>6. IsFiniteSet(items') /\ Cardinality(items') <= Capacity
  <2>1. Cardinality(R) \in Nat
    BY <1>1, FS_CardinalityType
  <2>2. /\ IsFiniteSet(R \cup {e})
        /\ Cardinality(R \cup {e}) = IF e \in R THEN Cardinality(R) ELSE Cardinality(R) + 1
    BY <1>1, FS_AddElement
  <2> QED
    BY <1>1, <1>2, <2>1, <2>2, CapacityAssumption
<1>7. Stamped'
  BY <1>1, <1>2, <1>3, <1>6 DEF IInv, TypeOK, Stamped
<1>8. NothingOfRevokedTurns'
  BY <1>1, <1>2 DEF IInv, NothingOfRevokedTurns, IsCurrent, Active, Slots, turnVars
<1> QED
  BY <1>5, <1>6, <1>7, <1>8 DEF Fits

(* Fewer items, none of them new, keep what is said of the buffer alone. *)
LEMMA FewerItems ==
    ASSUME IInv, items' \subseteq items, arrivals' = arrivals,
           \A i \in items' : consumed' < i.at
    PROVE  Stamped' /\ Fits'
<1>1. IsFiniteSet(items') /\ Cardinality(items') <= Cardinality(items)
  BY FS_Subset DEF IInv, Stamped
<1>2. Cardinality(items) \in Nat /\ Cardinality(items') \in Nat
  BY <1>1, FS_CardinalityType DEF IInv, Stamped
<1> QED
  BY <1>1, <1>2, CapacityAssumption DEF IInv, Stamped, Fits

-----------------------------------------------------------------------------
(* The inductive invariant, one lemma per group of actions. *)

LEMMA InitInvariant == Init => IInv
<1> SUFFICES ASSUME Init PROVE IInv
  OBVIOUS
<1>1. IsFiniteSet({}) /\ Cardinality({}) = 0
  BY FS_EmptySet
<1>2. turn \in Seq(Turn) /\ Len(turn) = 0
  BY DEF Init
<1>3. TypeOK
  <2>1. Generations = {} /\ Generations \X Roles = {}
    BY <1>2 DEF Generations, generation
  <2>2. 0 \in Nat /\ 0 \in 0..0
    OBVIOUS
  <2> QED
    BY <1>2, <2>1, <2>2, Zenon DEF Init, TypeOK
<1> QED
  BY <1>1, <1>3, CapacityAssumption
     DEF Init, IInv, Stamped, Fits, Slots, NoLostWakeup, NothingOfRevokedTurns, Active

(* What the turns' own steps do to the queue: nothing, or the discard. *)
LEMMA DiscardKeeps ==
    ASSUME IInv, NEW gs \in SUBSET Generations, Discard(gs)
    PROVE  /\ items' \subseteq items
           /\ \A i \in items' : i.gen \notin gs
           /\ arrivals' = arrivals /\ consumed' = consumed
           /\ waiting' = waiting /\ woken' = waiting
           /\ Stamped' /\ Fits'
<1>1. /\ items' \subseteq items
      /\ arrivals' = arrivals /\ consumed' = consumed
      /\ waiting' = waiting /\ woken' = waiting
  BY DEF Discard
<1>2. \A i \in items' : i.gen \notin gs
  BY DEF Discard
<1>3. Stamped' /\ Fits'
  BY <1>1, FewerItems DEF IInv, Stamped
<1> QED
  BY <1>1, <1>2, <1>3

LEMMA BeginTurnKeeps ==
    ASSUME IInv, NEW id \in TurnIds, NEW cp \in BOOLEAN, BeginTurn(id, cp)
    PROVE  IInv'
<1> DEFINE old == {current} \ {0}
           n == generation + 1
<1>1. turn \in Seq(Turn) /\ Len(turn) \in Nat /\ old \in SUBSET Generations
  BY DEF IInv, TypeOK, Generations, generation
<1>2. /\ Revoke(old) \in Seq(Turn) /\ Len(Revoke(old)) = Len(turn)
      /\ \A g \in Generations : /\ Revoke(old)[g].id = turn[g].id
                                /\ Revoke(old)[g].interaction = turn[g].interaction
                                /\ Revoke(old)[g].phase =
                                     IF g \in old THEN "revoked" ELSE turn[g].phase
  BY <1>1, RevokeFacts
<1>3. /\ NewTurn(id, FALSE) \in Turn
      /\ ~NewTurn(id, FALSE).interaction /\ NewTurn(id, FALSE).phase = "running"
  BY DEF NewTurn, Turn
<1>4. turn' = Append(Revoke(old), NewTurn(id, FALSE))
  BY DEF BeginTurn
<1>5. /\ turn' \in Seq(Turn) /\ Len(turn') = n /\ turn'[n] = NewTurn(id, FALSE)
      /\ \A g \in Generations : turn'[g] = Revoke(old)[g]
  <2> HIDE DEF old
  <2> DEFINE s == Revoke(old)
             e == NewTurn(id, FALSE)
  <2>1. s \in Seq(Turn) /\ e \in Turn /\ Len(s) = Len(turn)
    BY <1>2, <1>3
  <2> HIDE DEF s, e
  <2>2. /\ Append(s, e) \in Seq(Turn)
        /\ Len(Append(s, e)) = Len(s) + 1
        /\ Append(s, e)[Len(s) + 1] = e
        /\ \A k \in 1..Len(s) : Append(s, e)[k] = s[k]
    BY <2>1, AppendFacts, Zenon
  <2>3. turn' = Append(s, e)
    BY <1>4 DEF s, e
  <2> QED
    BY <2>1, <2>2, <2>3 DEF Generations, generation, s, e
<1>6. current' = n /\ interactions' = interactions /\ closed' = closed
      /\ attached' = attached /\ ~closed
  BY DEF BeginTurn, CanBegin
<1>7. Generations' = 1..n /\ Generations \subseteq Generations' /\ n \in Generations'
      /\ n \notin Generations
  BY <1>1, <1>5 DEF Generations, generation
<1>8. /\ items' \subseteq items
      /\ \A i \in items' : i.gen \notin old
      /\ arrivals' = arrivals /\ consumed' = consumed
      /\ waiting' = waiting
      /\ Stamped' /\ Fits'
      /\ IF old = {} THEN woken' = woken /\ items' = items ELSE woken' = waiting
  <2>1. CASE old = {}
    <3>1. UNCHANGED queueVars
      BY <2>1 DEF BeginTurn
    <3> QED
      BY <2>1, <3>1 DEF queueVars, IInv, Stamped, Fits
  <2>2. CASE old # {}
    <3>1. Discard(old)
      BY <2>2 DEF BeginTurn
    <3> QED
      BY <1>1, <2>2, <3>1, DiscardKeeps
  <2> QED
    BY <2>1, <2>2
<1>9. TypeOK'
  BY <1>5, <1>6, <1>7, <1>8 DEF IInv, TypeOK, Item
<1>10. Slots'
  <2>1. ASSUME NEW g \in interactions'
        PROVE  turn'[g].interaction /\ turn'[g].phase # "revoked"
    <3>1. g \in Generations /\ turn[g].interaction /\ turn[g].phase # "revoked"
      BY <1>6, <2>1 DEF IInv, TypeOK, Slots
    <3>2. g \notin old
      BY <3>1 DEF IInv, Slots
    <3> QED
      BY <1>2, <1>5, <3>1, <3>2, Zenon
  <2>2. ~turn'[current'].interaction /\ turn'[current'].phase # "revoked"
    BY <1>3, <1>5, <1>6
  <2> QED
    BY <1>6, <2>1, <2>2 DEF Slots
<1>11. NothingOfRevokedTurns'
  <2> SUFFICES ASSUME NEW i \in items'
               PROVE  /\ ~closed' /\ turn'[i.gen].phase # "revoked"
                      /\ ~turn'[i.gen].interaction => i.gen = current'
    BY DEF NothingOfRevokedTurns
  <2>1. i \in items /\ i.gen \in Generations /\ i.gen \notin old
    BY <1>8 DEF IInv, TypeOK, Item
  <2>2. /\ turn[i.gen].phase # "revoked"
        /\ ~turn[i.gen].interaction => i.gen = current
    BY <2>1 DEF IInv, NothingOfRevokedTurns
  <2>3. turn[i.gen].interaction
    BY <2>1, <2>2 DEF Generations
  <2>4. turn'[i.gen] = Revoke(old)[i.gen]
    BY <1>5, <2>1, Zenon
  <2>5. Revoke(old)[i.gen].interaction /\ Revoke(old)[i.gen].phase = turn[i.gen].phase
    BY <1>2, <2>1, <2>3, Zenon
  <2> QED
    BY <1>6, <2>2, <2>4, <2>5
<1>12. NoLostWakeup'
  <2> SUFFICES ASSUME NEW p \in waiting' \ woken'
               PROVE  IsCurrent(p[1])' /\ ~HasRoom(items)'
    BY DEF NoLostWakeup
  <2>1. old = {} /\ p \in waiting \ woken /\ items' = items
    BY <1>8
  <2>2. IsCurrent(p[1]) /\ ~HasRoom(items)
    BY <2>1 DEF IInv, NoLostWakeup
  <2> QED
    BY <1>6, <2>1, <2>2 DEF IsCurrent, Active, HasRoom
<1> QED
  BY <1>8, <1>9, <1>10, <1>11, <1>12 DEF IInv

LEMMA BeginInteractionKeeps ==
    ASSUME IInv, NEW id \in TurnIds, BeginInteraction(id)
    PROVE  IInv'
<1> DEFINE n == generation + 1
           e == NewTurn(id, TRUE)
<1>1. turn \in Seq(Turn) /\ Len(turn) \in Nat
  BY DEF IInv, TypeOK
<1>2. e \in Turn /\ e.interaction /\ e.phase = "running"
  BY DEF NewTurn, Turn
<1>3. turn' = Append(turn, e)
  BY DEF BeginInteraction
<1>4. /\ interactions' = interactions \cup {n}
      /\ current' = current /\ closed' = closed /\ attached' = attached /\ ~closed
      /\ UNCHANGED queueVars
  BY DEF BeginInteraction, CanBegin
<1> HIDE DEF e
<1>5. /\ turn' \in Seq(Turn) /\ Len(turn') = n /\ turn'[n] = e
      /\ \A g \in Generations : turn'[g] = turn[g]
  <2>1. /\ Append(turn, e) \in Seq(Turn)
        /\ Len(Append(turn, e)) = Len(turn) + 1
        /\ Append(turn, e)[Len(turn) + 1] = e
        /\ \A k \in 1..Len(turn) : Append(turn, e)[k] = turn[k]
    BY <1>1, <1>2, AppendFacts, Zenon
  <2> QED
    BY <1>3, <2>1 DEF Generations, generation
<1>6. Generations' = 1..n /\ Generations \subseteq Generations' /\ n \in Generations'
      /\ n \notin Generations
  BY <1>1, <1>5 DEF Generations, generation
<1>7. TypeOK'
  BY <1>4, <1>5, <1>6 DEF IInv, TypeOK, Item, queueVars
<1>8. Stamped' /\ Fits'
  BY <1>4 DEF IInv, Stamped, Fits, queueVars
<1>9. Slots'
  <2>1. ASSUME NEW g \in interactions'
        PROVE  turn'[g].interaction /\ turn'[g].phase # "revoked"
    BY <1>2, <1>4, <1>5, <2>1 DEF IInv, TypeOK, Slots
  <2>2. current' # 0 => ~turn'[current'].interaction /\ turn'[current'].phase # "revoked"
    BY <1>4, <1>5 DEF IInv, TypeOK, Slots
  <2> QED
    BY <1>4, <2>1, <2>2 DEF Slots
<1>10. NothingOfRevokedTurns'
  BY <1>4, <1>5 DEF IInv, TypeOK, Item, NothingOfRevokedTurns, queueVars
<1>11. NoLostWakeup'
  BY <1>4 DEF IInv, NoLostWakeup, IsCurrent, Active, HasRoom, queueVars
<1> QED
  BY <1>7, <1>8, <1>9, <1>10, <1>11 DEF IInv

LEMMA CompleteTurnKeeps ==
    ASSUME IInv, NEW g \in Generations, CompleteTurn(g)
    PROVE  IInv'
<1>1. turn \in Seq(Turn) /\ Len(turn) \in Nat /\ turn[g] \in Turn
  BY DEF IInv, TypeOK, Generations, generation
<1>2. [turn[g] EXCEPT !.phase = "done"] \in Turn
  BY <1>1 DEF Turn
<1>3. /\ turn' \in Seq(Turn) /\ Len(turn') = Len(turn)
      /\ \A h \in Generations : /\ turn'[h].interaction = turn[h].interaction
                                /\ turn'[h].phase = IF h = g THEN "done" ELSE turn[h].phase
  BY <1>1, <1>2 DEF CompleteTurn, Generations, generation, Turn
<1>4. /\ interactions' = interactions \ {g}
      /\ current' = current /\ closed' = closed /\ attached' = attached
      /\ UNCHANGED queueVars
  BY DEF CompleteTurn
<1>5. Generations' = Generations
  BY <1>3 DEF Generations, generation
<1>6. TypeOK'
  BY <1>3, <1>4, <1>5 DEF IInv, TypeOK, Item, queueVars
<1>7. Stamped' /\ Fits'
  BY <1>4 DEF IInv, Stamped, Fits, queueVars
<1>8. Slots'
  <2>1. ASSUME NEW h \in interactions'
        PROVE  turn'[h].interaction /\ turn'[h].phase # "revoked"
    BY <1>3, <1>4, <2>1 DEF IInv, TypeOK, Slots
  <2>2. current' # 0 => ~turn'[current'].interaction /\ turn'[current'].phase # "revoked"
    BY <1>3, <1>4 DEF IInv, TypeOK, Slots
  <2> QED
    BY <1>4, <2>1, <2>2 DEF IInv, Slots, Active
<1>9. NothingOfRevokedTurns'
  BY <1>3, <1>4 DEF IInv, TypeOK, Item, NothingOfRevokedTurns, queueVars
<1>10. NoLostWakeup'
  BY <1>4 DEF CompleteTurn, IInv, TypeOK, NoLostWakeup, IsCurrent, Active, HasRoom, queueVars
<1> QED
  BY <1>6, <1>7, <1>8, <1>9, <1>10 DEF IInv

LEMMA CancelCurrentKeeps ==
    ASSUME IInv, NEW g \in Generations, CancelCurrent(g)
    PROVE  IInv'
<1>1. turn \in Seq(Turn) /\ {g} \in SUBSET Generations
  BY DEF IInv, TypeOK
<1>2. /\ turn' \in Seq(Turn) /\ Len(turn') = Len(turn)
      /\ \A h \in Generations :
            /\ turn'[h].interaction = turn[h].interaction
            /\ turn'[h].phase = IF h \in {g} THEN "revoked" ELSE turn[h].phase
  BY <1>1, RevokeFacts DEF CancelCurrent
<1>3. /\ items' \subseteq items
      /\ \A i \in items' : i.gen \notin {g}
      /\ arrivals' = arrivals /\ consumed' = consumed
      /\ waiting' = waiting /\ woken' = waiting
      /\ Stamped' /\ Fits'
  BY <1>1, DiscardKeeps DEF CancelCurrent
<1>4. /\ current' = IF g = current THEN 0 ELSE current
      /\ interactions' = interactions \ {g}
      /\ closed' = closed /\ attached' = attached
      /\ g \in Active
  BY DEF CancelCurrent
<1>5. Generations' = Generations
  BY <1>2 DEF Generations, generation
<1>6. TypeOK'
  BY <1>2, <1>3, <1>4, <1>5 DEF IInv, TypeOK, Item
<1>7. Slots'
  <2>1. ASSUME NEW h \in interactions'
        PROVE  turn'[h].interaction /\ turn'[h].phase # "revoked"
    BY <1>2, <1>4, <2>1 DEF IInv, TypeOK, Slots
  <2>2. current' # 0 => ~turn'[current'].interaction /\ turn'[current'].phase # "revoked"
    BY <1>2, <1>4 DEF IInv, TypeOK, Slots
  <2> QED
    BY <1>4, <2>1, <2>2 DEF IInv, Slots, Active
<1>8. NothingOfRevokedTurns'
  BY <1>2, <1>3, <1>4 DEF IInv, TypeOK, Item, NothingOfRevokedTurns
<1>9. NoLostWakeup'
  BY <1>3 DEF NoLostWakeup
<1> QED
  BY <1>3, <1>6, <1>7, <1>8, <1>9 DEF IInv

LEMMA CloseSessionKeeps == ASSUME IInv, CloseSession PROVE IInv'
<1>1. turn \in Seq(Turn)
  BY DEF IInv, TypeOK
<1>2. turn' \in Seq(Turn) /\ Len(turn') = Len(turn)
  BY <1>1, RevokeFacts DEF CloseSession
<1>3. /\ items' = {} /\ closed' = TRUE /\ current' = 0 /\ interactions' = {}
      /\ attached' = attached /\ arrivals' = arrivals /\ consumed' = consumed
      /\ waiting' = waiting /\ woken' = waiting
  BY DEF CloseSession
<1>4. Generations' = Generations
  BY <1>2 DEF Generations, generation
<1>5. TypeOK'
  BY <1>2, <1>3, <1>4 DEF IInv, TypeOK, Item
<1>6. Stamped' /\ Fits'
  BY <1>3, FewerItems
<1>7. Slots' /\ NothingOfRevokedTurns' /\ NoLostWakeup'
  BY <1>3 DEF Slots, Active, NothingOfRevokedTurns, NoLostWakeup
<1> QED
  BY <1>5, <1>6, <1>7 DEF IInv

LEMMA EmitKeeps ==
    ASSUME IInv, NEW g \in Generations, NEW role \in Roles, NEW kind \in Says(role),
           Emit(g, role, kind)
    PROVE  IInv'
<1> DEFINE S == Coalesced(g, kind)
<1>1. S \in SUBSET items /\ kind \in Kinds
  BY DEF Coalesced, Says, Kinds, Critical, Droppable, Roles
<1>2. UNCHANGED turnVars /\ attached' = attached /\ Generations' = Generations
  BY DEF Emit, turnVars, Generations, generation
<1>3. Slots'
  BY <1>2 DEF IInv, Slots, Active, turnVars
<1>4. CASE HasRoom(S) /\ Enqueue(S, g, kind) /\ woken' = waiting /\ UNCHANGED waiting
  <2>1. /\ items' \subseteq Item' /\ arrivals' \in Nat /\ consumed' \in 0..arrivals'
        /\ Stamped' /\ Fits' /\ NothingOfRevokedTurns'
    BY <1>1, <1>2, <1>4, EnqueueKeeps DEF Emit
  <2>2. TypeOK'
    BY <1>2, <1>4, <2>1 DEF IInv, TypeOK, turnVars
  <2> QED
    BY <1>3, <1>4, <2>1, <2>2 DEF IInv, NoLostWakeup
<1>5. CASE /\ ~HasRoom(S) /\ kind \in Critical
           /\ waiting' = waiting \cup {<<g, role>>}
           /\ UNCHANGED <<items, arrivals, consumed, woken>>
  <2>1. S = items
    BY <1>5 DEF Coalesced, Critical
  <2>2. TypeOK'
    BY <1>2, <1>5 DEF IInv, TypeOK, Item, turnVars
  <2>3. Stamped' /\ Fits' /\ NothingOfRevokedTurns'
    BY <1>2, <1>5 DEF IInv, Stamped, Fits, NothingOfRevokedTurns, turnVars
  <2>4. NoLostWakeup'
    BY <1>2, <1>5, <2>1
       DEF Emit, IInv, NoLostWakeup, IsCurrent, Active, HasRoom, turnVars
  <2> QED
    BY <1>3, <2>2, <2>3, <2>4 DEF IInv
<1> QED
  BY <1>4, <1>5 DEF Emit

LEMMA ResumePutKeeps ==
    ASSUME IInv, NEW g \in Generations, NEW role \in Roles, ResumePut(g, role)
    PROVE  IInv'
<1> DEFINE p == <<g, role>>
<1>1. UNCHANGED turnVars /\ attached' = attached /\ Generations' = Generations
  BY DEF ResumePut, turnVars, Generations, generation
<1>2. Slots'
  BY <1>1 DEF IInv, Slots, Active, turnVars
<1>3. CASE /\ ~IsCurrent(g)
           /\ waiting' = waiting \ {p} /\ woken' = woken \ {p}
           /\ UNCHANGED <<items, arrivals, consumed>>
  BY <1>1, <1>2, <1>3
     DEF IInv, TypeOK, Item, Stamped, Fits, NothingOfRevokedTurns, NoLostWakeup,
         IsCurrent, Active, HasRoom, turnVars
<1>4. CASE /\ IsCurrent(g) /\ HasRoom(items) /\ Enqueue(items, g, "critical")
           /\ waiting' = waiting \ {p} /\ woken' = waiting'
  <2>1. /\ items' \subseteq Item' /\ arrivals' \in Nat /\ consumed' \in 0..arrivals'
        /\ Stamped' /\ Fits' /\ NothingOfRevokedTurns'
    BY <1>1, <1>4, EnqueueKeeps DEF Kinds, Critical
  <2>2. TypeOK'
    BY <1>1, <1>4, <2>1 DEF IInv, TypeOK, turnVars
  <2> QED
    BY <1>2, <1>4, <2>1, <2>2 DEF IInv, NoLostWakeup
<1>5. CASE /\ IsCurrent(g) /\ ~HasRoom(items)
           /\ woken' = woken \ {p}
           /\ UNCHANGED <<waiting, items, arrivals, consumed>>
  BY <1>1, <1>2, <1>5
     DEF IInv, TypeOK, Item, Stamped, Fits, NothingOfRevokedTurns, NoLostWakeup,
         IsCurrent, Active, HasRoom, turnVars
<1> QED
  BY <1>3, <1>4, <1>5 DEF ResumePut

LEMMA StreamKeeps ==
    ASSUME IInv, AttachStream \/ DetachStream \/ Get \/ UNCHANGED vars
    PROVE  IInv'
<1>1. UNCHANGED turnVars /\ Generations' = Generations
  BY DEF AttachStream, DetachStream, Get, vars, turnVars, Generations, generation
<1>2. Slots'
  BY <1>1 DEF IInv, Slots, Active, turnVars
<1>3. CASE AttachStream \/ DetachStream \/ UNCHANGED vars
  <2>1. /\ UNCHANGED <<items, arrivals, consumed, waiting>> /\ attached' \in BOOLEAN
        /\ woken' = woken \/ woken' = waiting
    BY <1>3 DEF AttachStream, DetachStream, vars, queueVars, IInv, TypeOK
  <2> QED
    BY <1>1, <1>2, <2>1
       DEF IInv, TypeOK, Item, Stamped, Fits, NothingOfRevokedTurns, NoLostWakeup,
           IsCurrent, Active, HasRoom, turnVars
<1>4. CASE Get
  <2>1. \A i \in items : i.at \in 1..arrivals /\ i.at \in Nat
    BY DEF IInv, TypeOK, Item
  <2>2. Oldest(items) \in items /\ \A j \in items : Oldest(items).at <= j.at
    BY <1>4, <2>1, OldestIsFirst DEF Get
  <2>3. /\ items' = items \ {Oldest(items)} /\ consumed' = Oldest(items).at
        /\ attached' = attached /\ arrivals' = arrivals
        /\ waiting' = waiting /\ woken' = waiting
    BY <1>4 DEF Get
  <2>4. \A i \in items' : consumed' < i.at
    BY <2>1, <2>2, <2>3 DEF IInv, Stamped
  <2>5. Stamped' /\ Fits'
    BY <2>3, <2>4, FewerItems
  <2>6. TypeOK'
    BY <1>1, <2>1, <2>2, <2>3 DEF IInv, TypeOK, Item, turnVars
  <2>7. NothingOfRevokedTurns' /\ NoLostWakeup'
    BY <1>1, <2>3 DEF IInv, NothingOfRevokedTurns, NoLostWakeup, turnVars
  <2> QED
    BY <1>2, <2>5, <2>6, <2>7 DEF IInv
<1> QED
  BY <1>3, <1>4

LEMMA NextKeeps == IInv /\ [Next]_vars => IInv'
<1> SUFFICES ASSUME IInv, [Next]_vars PROVE IInv'
  OBVIOUS
<1>1. ASSUME NEW id \in TurnIds, NEW cp \in BOOLEAN, BeginTurn(id, cp) PROVE IInv'
  BY <1>1, BeginTurnKeeps
<1>2. ASSUME NEW id \in TurnIds, BeginInteraction(id) PROVE IInv'
  BY <1>2, BeginInteractionKeeps
<1>3. ASSUME NEW g \in Generations, CompleteTurn(g) PROVE IInv'
  BY <1>3, CompleteTurnKeeps
<1>4. ASSUME NEW g \in Generations, CancelCurrent(g) PROVE IInv'
  BY <1>4, CancelCurrentKeeps
<1>5. ASSUME NEW g \in Generations, NEW role \in Roles, NEW kind \in Says(role),
             Emit(g, role, kind)
      PROVE  IInv'
  BY <1>5, EmitKeeps
<1>6. ASSUME NEW g \in Generations, NEW role \in Roles, ResumePut(g, role) PROVE IInv'
  BY <1>6, ResumePutKeeps
<1>7. CASE CloseSession
  BY <1>7, CloseSessionKeeps
<1>8. CASE AttachStream \/ DetachStream \/ Get \/ UNCHANGED vars
  BY <1>8, StreamKeeps
<1> QED
  BY <1>1, <1>2, <1>3, <1>4, <1>5, <1>6, <1>7, <1>8 DEF Next

(* The strengthened invariant holds in every reachable state. *)
THEOREM InvariantHolds == Spec => []IInv
<1> QED
  BY InitInvariant, NextKeeps, PTL DEF Spec

(* Every variable keeps its type: TurnState, queue and stream fields. *)
THEOREM TypeCorrect == Spec => []TypeOK
<1>1. IInv => TypeOK
  BY DEF IInv
<1> QED
  BY <1>1, InvariantHolds, PTL

(* However producers, wake-ups and discards interleave, the event queue never
   holds more than its capacity. *)
THEOREM QueueIsBounded == Spec => []QueueBounded
<1>1. IInv => QueueBounded
  BY DEF IInv, QueueBounded
<1> QED
  BY <1>1, InvariantHolds, PTL

(* A producer sleeps un-notified only while its turn is live and the queue is
   full of items that must be kept. *)
THEOREM WakeupsAreNotLost == Spec => []NoLostWakeup
<1>1. IInv => NoLostWakeup
  BY DEF IInv
<1> QED
  BY <1>1, InvariantHolds, PTL

(* The queue never holds an item of a turn that was interrupted, replaced or
   closed, whatever turn_ids the client uses again. *)
THEOREM RevokedTurnsAreSilent == Spec => []NothingOfRevokedTurns
<1>1. IInv => NothingOfRevokedTurns
  BY DEF IInv
<1> QED
  BY <1>1, InvariantHolds, PTL

-----------------------------------------------------------------------------
(* EventStream implements EventDelivery: each step of the session is a step of the
   promise, or a stutter. *)

(* The refinement mapping of Promise, by name. *)
Names == [g \in Generations |-> turn[g].id]
Live  == IF closed THEN {} ELSE Active

(* The names form a sequence as long as that of the turns. *)
LEMMA NamesAreSequence ==
    ASSUME turn \in Seq(Turn)
    PROVE  /\ Names \in Seq(TurnIds) /\ Len(Names) = Len(turn)
           /\ \A g \in Generations : Names[g] = turn[g].id
<1>1. Len(turn) \in Nat /\ Names \in [1..Len(turn) -> TurnIds]
  <2>1. \A g \in 1..Len(turn) : turn[g] \in Turn
    OBVIOUS
  <2>2. \A g \in 1..Len(turn) : turn[g].id \in TurnIds
    BY <2>1 DEF Turn
  <2> QED
    BY <2>2 DEF Names, Generations, generation
<1>2. Names \in Seq(TurnIds) /\ Len(Names) = Len(turn)
  BY <1>1
<1>3. \A g \in Generations : Names[g] = turn[g].id
  BY DEF Names
<1> QED
  BY <1>2, <1>3

(* A turn that is appended appends its name. *)
LEMMA NamesGrow ==
    ASSUME turn \in Seq(Turn), turn' \in Seq(Turn), NEW id \in TurnIds,
           Len(turn') = generation + 1, turn'[generation + 1].id = id,
           \A g \in Generations : turn'[g].id = turn[g].id
    PROVE  Names' = Append(Names, id) /\ Len(Names) + 1 = generation + 1
<1>1. /\ Names \in Seq(TurnIds) /\ Len(Names) = Len(turn) /\ Len(turn) \in Nat
      /\ \A g \in Generations : Names[g] = turn[g].id
  BY NamesAreSequence
<1>2. /\ Append(Names, id) \in Seq(TurnIds) /\ Len(Append(Names, id)) = Len(turn) + 1
      /\ Append(Names, id)[Len(turn) + 1] = id
      /\ \A g \in 1..Len(turn) : Append(Names, id)[g] = Names[g]
  BY <1>1
<1>3. Append(Names, id) = [g \in 1..(Len(turn) + 1) |-> Append(Names, id)[g]]
  <2> DEFINE s == Append(Names, id)
  <2>1. s \in Seq(TurnIds) /\ Len(s) = Len(turn) + 1
    BY <1>2
  <2> HIDE DEF s
  <2>2. s = [g \in 1..Len(s) |-> s[g]]
    BY <2>1
  <2> QED
    BY <2>1, <2>2 DEF s
<1>4. Names' = [g \in 1..(Len(turn) + 1) |-> turn'[g].id]
  BY <1>1 DEF Names, Generations, generation
<1>5. \A g \in 1..(Len(turn) + 1) : turn'[g].id = Append(Names, id)[g]
  <2> TAKE g \in 1..(Len(turn) + 1)
  <2>1. CASE g = Len(turn) + 1
    BY <1>2, <2>1 DEF generation
  <2>2. CASE g # Len(turn) + 1
    <3>1. g \in 1..Len(turn)
      BY <1>1, <2>2
    <3> QED
      BY <1>1, <1>2, <3>1 DEF Generations, generation
  <2> QED
    BY <2>1, <2>2
<1>6. Names' = [g \in 1..(Len(turn) + 1) |-> Append(Names, id)[g]]
  BY <1>4, <1>5, Zenon
<1> QED
  BY <1>1, <1>3, <1>6 DEF generation

(* As long as no turn is added and no name changes, the names stay. *)
LEMMA NamesStay ==
    ASSUME turn \in Seq(Turn), turn' \in Seq(Turn), Len(turn') = Len(turn),
           \A g \in Generations : turn'[g].id = turn[g].id
    PROVE  Names' = Names
BY DEF Names, Generations, generation

(* What Discard leaves is what the promise leaves when it silences. *)
LEMMA DiscardIsWithout ==
    ASSUME IInv, NEW gs \in SUBSET Generations
    PROVE  {i \in items : \A g \in gs : turn[i.gen].id # turn[g].id} = Promise!Without(gs)
<1>1. \A i \in items : i.gen \in Generations
  BY DEF IInv, TypeOK, Item
<1> QED
  BY <1>1 DEF Promise!Without

-----------------------------------------------------------------------------
(* The steps, one lemma per action that is not a stutter. *)

LEMMA BeginTurnOpens ==
    ASSUME IInv, NEW id \in TurnIds, NEW cp \in BOOLEAN, BeginTurn(id, cp)
    PROVE  Promise!Open
<1> DEFINE old == {current} \ {0}
<1>1. turn \in Seq(Turn) /\ Len(turn) \in Nat /\ old \in SUBSET Generations
  BY DEF IInv, TypeOK, Generations, generation
<1>2. /\ Revoke(old) \in Seq(Turn) /\ Len(Revoke(old)) = Len(turn)
      /\ \A g \in Generations : Revoke(old)[g].id = turn[g].id
  BY <1>1, RevokeFacts
<1>3. NewTurn(id, FALSE) \in Turn /\ NewTurn(id, FALSE).id = id
  BY DEF NewTurn, Turn
<1>4. /\ turn' = Append(Revoke(old), NewTurn(id, FALSE))
      /\ ~closed /\ closed' = closed
      /\ current' = generation + 1 /\ interactions' = interactions
      /\ IF old = {} THEN UNCHANGED queueVars ELSE Discard(old)
  BY DEF BeginTurn, CanBegin
<1>5. /\ turn' \in Seq(Turn) /\ Len(turn') = generation + 1
      /\ turn'[generation + 1].id = id
      /\ \A g \in Generations : turn'[g].id = turn[g].id
  <2> DEFINE s == Revoke(old)
             e == NewTurn(id, FALSE)
  <2> HIDE DEF old, s, e
  <2>1. s \in Seq(Turn) /\ e \in Turn /\ Len(s) = Len(turn)
    BY <1>2, <1>3 DEF s, e
  <2>2. /\ Append(s, e) \in Seq(Turn)
        /\ Len(Append(s, e)) = Len(s) + 1
        /\ Append(s, e)[Len(s) + 1] = e
        /\ \A k \in 1..Len(s) : Append(s, e)[k] = s[k]
    BY <2>1, AppendFacts, Zenon
  <2>3. turn' = Append(s, e)
    BY <1>4 DEF s, e
  <2> QED
    BY <1>2, <1>3, <2>1, <2>2, <2>3 DEF Generations, generation, s, e
<1>6. Names' = Append(Names, id) /\ Len(Names) + 1 = generation + 1
  BY <1>1, <1>5, NamesGrow
<1>7. current \notin interactions
  BY DEF IInv, TypeOK, Slots, Generations
<1>8. old \in SUBSET Live /\ Live' = (Live \ old) \cup {generation + 1}
  BY <1>1, <1>4, <1>7 DEF Live, Active, generation
<1>9. items' = Promise!Without(old)
  <2>1. CASE old = {}
    BY <1>4, <2>1 DEF queueVars, Promise!Without
  <2>2. CASE old # {}
    BY <1>1, <1>4, <2>2, DiscardIsWithout DEF Discard
  <2> QED
    BY <2>1, <2>2
<1>10. consumed' = consumed
  BY <1>4 DEF queueVars, Discard
<1>11. \E i \in TurnIds, o \in SUBSET Live :
          /\ Names' = Append(Names, i)
          /\ Live' = (Live \ o) \cup {Len(Names) + 1}
          /\ items' = Promise!Without(o) /\ consumed' = consumed
  <2> HIDE DEF old
  <2> QED
    BY <1>6, <1>8, <1>9, <1>10
<1> QED
  BY <1>11 DEF Promise!Open, Names, Live

LEMMA BeginInteractionOpens ==
    ASSUME IInv, NEW id \in TurnIds, BeginInteraction(id)
    PROVE  Promise!Open
<1> DEFINE e == NewTurn(id, TRUE)
<1>1. turn \in Seq(Turn) /\ Len(turn) \in Nat
  BY DEF IInv, TypeOK
<1>2. e \in Turn /\ e.id = id
  BY DEF NewTurn, Turn
<1>3. /\ turn' = Append(turn, e) /\ ~closed /\ closed' = closed /\ current' = current
      /\ interactions' = interactions \cup {generation + 1}
      /\ UNCHANGED queueVars
  BY DEF BeginInteraction, CanBegin
<1> HIDE DEF e
<1>4. /\ turn' \in Seq(Turn) /\ Len(turn') = generation + 1
      /\ turn'[generation + 1].id = id
      /\ \A g \in Generations : turn'[g].id = turn[g].id
  <2>1. /\ Append(turn, e) \in Seq(Turn)
        /\ Len(Append(turn, e)) = Len(turn) + 1
        /\ Append(turn, e)[Len(turn) + 1] = e
        /\ \A k \in 1..Len(turn) : Append(turn, e)[k] = turn[k]
    BY <1>1, <1>2, AppendFacts, Zenon
  <2> QED
    BY <1>2, <1>3, <2>1 DEF Generations, generation
<1>5. Names' = Append(Names, id) /\ Len(Names) + 1 = generation + 1
  BY <1>1, <1>4, NamesGrow
<1>6. Live' = (Live \ {}) \cup {generation + 1} /\ {} \in SUBSET Live
  BY <1>3 DEF Live, Active
<1>7. items' = Promise!Without({}) /\ consumed' = consumed
  BY <1>3 DEF queueVars, Promise!Without
<1> QED
  BY <1>5, <1>6, <1>7 DEF Promise!Open, Names, Live

LEMMA CompleteTurnRetires ==
    ASSUME IInv, NEW g \in Generations, CompleteTurn(g)
    PROVE  Promise!Retire \/ UNCHANGED Promise!avars
<1>1. turn \in Seq(Turn) /\ turn[g] \in Turn
  BY DEF IInv, TypeOK, Generations, generation
<1>2. [turn[g] EXCEPT !.phase = "done"] \in Turn /\ [turn[g] EXCEPT !.phase = "done"].id = turn[g].id
  BY <1>1 DEF Turn
<1>3. /\ turn' \in Seq(Turn) /\ Len(turn') = Len(turn)
      /\ \A h \in Generations : turn'[h].id = turn[h].id
  BY <1>1, <1>2 DEF CompleteTurn, Generations, generation
<1>4. Names' = Names
  BY <1>1, <1>3, NamesStay
<1>5. /\ interactions' = interactions \ {g} /\ current' = current /\ closed' = closed
      /\ items' = items /\ consumed' = consumed
  BY DEF CompleteTurn, queueVars
<1>6. CASE g \in interactions
  <2>1. ~closed /\ g \in Live /\ g # current
    BY <1>6 DEF IInv, TypeOK, Slots, Active, Live, Generations
  <2>2. Live' = Live \ {g}
    BY <1>5, <2>1 DEF Live, Active
  <2> QED
    BY <1>4, <1>5, <2>1, <2>2 DEF Promise!Retire, Names, Live
<1>7. CASE g \notin interactions
  <2>1. Live' = Live
    BY <1>5, <1>7 DEF Live, Active
  <2> QED
    BY <1>4, <1>5, <2>1 DEF Promise!avars, Names, Live
<1> QED
  BY <1>6, <1>7

LEMMA CancelCurrentSilences ==
    ASSUME IInv, NEW g \in Generations, CancelCurrent(g)
    PROVE  Promise!Silence
<1>1. turn \in Seq(Turn)
  BY DEF IInv, TypeOK
<1>2. /\ turn' \in Seq(Turn) /\ Len(turn') = Len(turn)
      /\ \A h \in Generations : turn'[h].id = turn[h].id
  BY <1>1, RevokeFacts DEF CancelCurrent
<1>3. Names' = Names
  BY <1>1, <1>2, NamesStay
<1>4. /\ g \in Active /\ closed' = closed /\ interactions' = interactions \ {g}
      /\ current' = IF g = current THEN 0 ELSE current
      /\ Discard({g})
  BY DEF CancelCurrent
<1>5. ~closed
  BY <1>4 DEF IInv, Slots
<1>6. g \in Live /\ Live' = Live \ {g}
  BY <1>4, <1>5 DEF Live, Active
<1>7. items' = Promise!Without({g}) /\ consumed' = consumed
  BY <1>4, DiscardIsWithout DEF Discard
<1> QED
  BY <1>3, <1>6, <1>7 DEF Promise!Silence, Names, Live

LEMMA CloseSessionCloses ==
    ASSUME IInv, CloseSession PROVE Promise!Close
<1>1. turn \in Seq(Turn)
  BY DEF IInv, TypeOK
<1>2. /\ turn' \in Seq(Turn) /\ Len(turn') = Len(turn)
      /\ \A h \in Generations : turn'[h].id = turn[h].id
  BY <1>1, RevokeFacts DEF CloseSession
<1>3. Names' = Names
  BY <1>1, <1>2, NamesStay
<1> QED
  BY <1>3 DEF CloseSession, Promise!Close, Names, Live

(* An item that joins the queue comes last, and what gives way to it is not
   critical. *)
LEMMA EnqueueAccepts ==
    ASSUME IInv, NEW g \in Generations, NEW kind \in Kinds, NEW S \in SUBSET items,
           \A i \in items \ S : i.kind \in Droppable,
           HasRoom(S), IsCurrent(g), Enqueue(S, g, kind), UNCHANGED turnVars
    PROVE  Promise!Accept
<1> DEFINE R == MakeRoom(S)
           e == [gen |-> g, kind |-> kind, at |-> arrivals + 1]
<1>1. R \subseteq S /\ \A i \in S \ R : i.kind \in Droppable
  BY MakeRoomFacts DEF IInv
<1>2. items' = R \cup {e} /\ consumed' = consumed
  BY DEF Enqueue
<1> HIDE DEF R
<1>3. \A i \in items : i.at < arrivals + 1 /\ i # e
  BY DEF IInv, TypeOK, Item
<1>4. items' \ items = {e}
  BY <1>1, <1>2, <1>3
<1>5. \A f \in items \ items' : f.kind \notin Critical
  BY <1>1, <1>2 DEF Droppable, Critical
<1>6. e.gen \in Live /\ consumed < e.at
  BY DEF IInv, TypeOK, IsCurrent, Live
<1>7. Names' = Names /\ Live' = Live
  BY DEF turnVars, Names, Live, Active, Generations, generation
<1>8. e \in items' \ items /\ \A f \in items : f.at < e.at
  BY <1>3, <1>4
<1> HIDE DEF e
<1> QED
  BY <1>2, <1>4, <1>5, <1>6, <1>7, <1>8 DEF Promise!Accept, Names, Live

LEMMA EmitAccepts ==
    ASSUME IInv, NEW g \in Generations, NEW role \in Roles, NEW kind \in Says(role),
           Emit(g, role, kind)
    PROVE  Promise!Accept \/ UNCHANGED Promise!avars
<1> DEFINE S == Coalesced(g, kind)
<1>1. /\ S \in SUBSET items /\ kind \in Kinds
      /\ \A i \in items \ S : i.kind \in Droppable
  BY DEF Coalesced, Says, Kinds, Critical, Droppable, Roles
<1>2. UNCHANGED turnVars /\ IsCurrent(g)
  BY DEF Emit
<1>3. CASE HasRoom(S) /\ Enqueue(S, g, kind)
  BY <1>1, <1>2, <1>3, EnqueueAccepts
<1>4. CASE UNCHANGED <<items, consumed>>
  BY <1>2, <1>4 DEF turnVars, Promise!avars, Active, Generations, generation
<1> QED
  BY <1>3, <1>4 DEF Emit

LEMMA ResumePutAccepts ==
    ASSUME IInv, NEW g \in Generations, NEW role \in Roles, ResumePut(g, role)
    PROVE  Promise!Accept \/ UNCHANGED Promise!avars
<1>1. UNCHANGED turnVars
  BY DEF ResumePut
<1>2. CASE IsCurrent(g) /\ HasRoom(items) /\ Enqueue(items, g, "critical")
  BY <1>1, <1>2, EnqueueAccepts DEF Kinds, Critical
<1>3. CASE UNCHANGED <<items, consumed>>
  BY <1>1, <1>3 DEF turnVars, Promise!avars, Active, Generations, generation
<1> QED
  BY <1>2, <1>3 DEF ResumePut

LEMMA GetDelivers ==
    ASSUME IInv, Get PROVE Promise!Deliver
<1>1. items # {} /\ \A i \in items : i.at \in Nat
  BY DEF Get, IInv, TypeOK, Item
<1>2. Oldest(items) \in items /\ \A j \in items : Oldest(items).at <= j.at
  BY <1>1, OldestIsFirst
<1>3. items' = items \ {Oldest(items)} /\ consumed' = Oldest(items).at /\ UNCHANGED turnVars
  BY DEF Get
<1> QED
  BY <1>2, <1>3 DEF turnVars, Promise!Deliver, Active, Generations, generation

LEMMA StepImplements ==
    ASSUME IInv, [Next]_vars
    PROVE  Promise!ANext \/ UNCHANGED Promise!avars
<1>1. ASSUME NEW id \in TurnIds, NEW cp \in BOOLEAN, BeginTurn(id, cp) PROVE Promise!ANext
  BY <1>1, BeginTurnOpens DEF Promise!ANext
<1>2. ASSUME NEW id \in TurnIds, BeginInteraction(id) PROVE Promise!ANext
  BY <1>2, BeginInteractionOpens DEF Promise!ANext
<1>3. ASSUME NEW g \in Generations, CompleteTurn(g)
      PROVE  Promise!ANext \/ UNCHANGED Promise!avars
  BY <1>3, CompleteTurnRetires DEF Promise!ANext
<1>4. ASSUME NEW g \in Generations, CancelCurrent(g) PROVE Promise!ANext
  BY <1>4, CancelCurrentSilences DEF Promise!ANext
<1>5. ASSUME NEW g \in Generations, NEW role \in Roles, NEW kind \in Says(role),
             Emit(g, role, kind)
      PROVE  Promise!ANext \/ UNCHANGED Promise!avars
  BY <1>5, EmitAccepts DEF Promise!ANext
<1>6. ASSUME NEW g \in Generations, NEW role \in Roles, ResumePut(g, role)
      PROVE  Promise!ANext \/ UNCHANGED Promise!avars
  BY <1>6, ResumePutAccepts DEF Promise!ANext
<1>7. CASE CloseSession
  BY <1>7, CloseSessionCloses DEF Promise!ANext
<1>8. CASE Get
  BY <1>8, GetDelivers DEF Promise!ANext
<1>9. CASE AttachStream \/ DetachStream \/ UNCHANGED vars
  <2>1. turn' = turn /\ current' = current /\ interactions' = interactions /\ closed' = closed
        /\ items' = items /\ consumed' = consumed
    BY <1>9 DEF AttachStream, DetachStream, vars, turnVars, queueVars
  <2> QED
    BY <2>1 DEF Promise!avars, Active, Generations, generation
<1> QED
  BY <1>1, <1>2, <1>3, <1>4, <1>5, <1>6, <1>7, <1>8, <1>9 DEF Next

(* The event queue with its drops, waits, wake-ups and discards implements the
   promise: an accepted critical event is delivered in order unless its turn
   is silenced, and no event of a silenced turn is delivered. *)
THEOREM StreamDelivers == Spec => Delivers
<1>1. Init => Promise!AInit
  <2> SUFFICES ASSUME Init PROVE Promise!AInit
    OBVIOUS
  <2>1. turn = << >> /\ Generations = {}
    BY DEF Init, Generations, generation
  <2>2. Names = << >>
    BY <2>1 DEF Names
  <2> QED
    BY <2>2 DEF Init, Promise!AInit, Names, Active
<1>2. IInv /\ [Next]_vars => [Promise!ANext]_(Promise!avars)
  BY StepImplements
<1> QED
  BY <1>1, <1>2, InvariantHolds, PTL DEF Spec, Delivers, Promise!ASpec
==============================================================================
