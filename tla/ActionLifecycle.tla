--------------------------- MODULE ActionLifecycle ---------------------------
(***************************************************************************)
(* The executable actions of one session in core/session_manager.py: the   *)
(* server plans an action and sends it with avatar.intent, the client      *)
(* reports what became of it with receipts (POST /action/result), which it *)
(* may repeat, reorder and alter, and the server keeps the outcomes as     *)
(* verified facts.  Plans, receipts and facts are bounded and expire.      *)
(*                                                                         *)
(* Every operation is one critical section of session.lock that awaits     *)
(* nothing, hence one step.  Expiry is lazy: each operation prunes first.  *)
(* The dicts are ordered by insertion: an action by its id (ids are random *)
(* in the code and never return, here they count up), a receipt by "nth".  *)
(***************************************************************************)
EXTENDS Naturals, Sequences, FiniteSets

CONSTANTS Subjects,        \* what an action is about: its turn_id and gesture
          LifecycleTTL,    \* ACTION_LIFECYCLE_TTL_SECONDS
          FactTTL,         \* ACTION_FACT_TTL_SECONDS
          MaxLifecycles,   \* MAX_ACTION_LIFECYCLES
          MaxPerLifecycle, \* MAX_ACTION_RECEIPTS_PER_LIFECYCLE
          MaxFacts,        \* MAX_ACTION_FACTS
          MaxPlans,        \* bound: actions planned
          MaxTime          \* bound: the clock

ASSUME SizeAssumption == /\ MaxLifecycles \in Nat \ {0} /\ MaxFacts \in Nat \ {0}
                         /\ MaxPerLifecycle \in Nat /\ MaxPerLifecycle >= 3
ASSUME TimeAssumption == /\ LifecycleTTL \in Nat /\ FactTTL \in Nat
                         /\ MaxTime \in Nat /\ MaxPlans \in Nat

MaxReceipts == MaxLifecycles * MaxPerLifecycle     \* MAX_ACTION_RECEIPTS

Terminal == {"completed", "rejected", "interrupted"}
Reported == {"accepted", "started"} \cup Terminal     \* ActionResultStatus

VARIABLES lifecycle,   \* session.action_lifecycles, a function of action ids
          receipts,    \* session.action_receipts
          facts,       \* session.action_facts
          closed,      \* session.closed
          now,         \* monotonic()
          intent,      \* intent[a]: the avatar.intent of the a-th planned action
          log          \* history: every receipt that was ever recorded

vars == <<lifecycle, receipts, facts, closed, now, intent, log>>

Actions    == 1..Len(intent)

Recorded   == Cardinality(log)
Request    == [id : 1..(Recorded + 1), action : Actions, subject : Subjects, status : Reported]
Receipt    == [id : Nat \ {0}, action : Actions, subject : Subjects, status : Reported,
               at : 0..now, nth : 1..Recorded]
Lifecycle  == [subject : Subjects, status : Reported \cup {"planned"}, updated : 0..now,
               ids : SUBSET Nat]

Init == /\ lifecycle = << >> /\ receipts = {} /\ facts = {}
        /\ closed = FALSE /\ now = 0 /\ intent = << >> /\ log = {}

-----------------------------------------------------------------------------
(* _prune_action_state_unlocked: what is left after expiry. *)

LiveActions  == {a \in DOMAIN lifecycle : now - lifecycle[a].updated <= LifecycleTTL}
LiveReceipts == {r \in receipts : now - r.at <= LifecycleTTL}
LiveFacts    == {f \in facts : now - f.at <= FactTTL}

Keep(S) == [a \in S |-> lifecycle[a]]
First(S) == CHOOSE r \in S : \A s \in S : r.nth <= s.nth
Least(S) == CHOOSE a \in S : \A b \in S : a <= b

(* Seeded faults: an action may start without having been accepted; an
   interruption is taken although the action has ended. *)
FollowsSkipping(status) ==
    CASE status = "planned"  -> {"accepted", "started", "rejected", "interrupted"}
      [] status = "accepted" -> {"started", "rejected", "interrupted"}
      [] status = "started"  -> Terminal
      [] OTHER               -> {}
FollowsAfterTheEnd(status) ==
    CASE status = "planned"  -> {"accepted", "rejected", "interrupted"}
      [] status = "accepted" -> {"started", "rejected", "interrupted"}
      [] status = "started"  -> Terminal
      [] OTHER               -> {"interrupted"}

(* _action_transition_allowed *)
Follows(status) == CASE status = "planned"  -> {"accepted", "rejected", "interrupted"}
                     [] status = "accepted" -> {"started", "rejected", "interrupted"}
                     [] status = "started"  -> Terminal
                     [] OTHER               -> {}

(* _action_receipt_signature: everything the client says. *)
Signature(r) == <<r.id, r.action, r.subject, r.status>>

(* The answer of record_action_result to a request, in the order of its checks. *)
Answer(q) ==
    LET known == {r \in LiveReceipts : r.id = q.id} IN
    CASE closed -> "session_not_found"
      [] ~closed /\ known # {} ->
           (IF \E r \in known : Signature(r) # Signature(q) THEN "action_receipt_replay"
            ELSE IF q.action \notin LiveActions THEN "action_plan_stale"
            ELSE "idempotent")
      [] ~closed /\ known = {} ->
           (IF q.action \notin LiveActions THEN "action_plan_stale"
            ELSE IF lifecycle[q.action].subject # q.subject THEN "action_mismatch"
            ELSE IF \/ Cardinality(lifecycle[q.action].ids) >= MaxPerLifecycle
                    \/ q.status \notin Follows(lifecycle[q.action].status)
                 THEN "action_transition_invalid"
            ELSE "recorded")

(* Seeded fault: the bound bites one receipt too early. *)
WithinReceiptBoundTooEarly(R) ==
    LET orphans == {r \in R : r.action \notin LiveActions} IN
    IF Cardinality(R) < MaxReceipts THEN R
    ELSE R \ {First(IF orphans # {} THEN orphans ELSE R)}

(* When the receipts are too many, the first one without an action goes, or
   the first of all. *)
WithinReceiptBound(R) ==
    LET orphans == {r \in R : r.action \notin LiveActions} IN
    IF Cardinality(R) <= MaxReceipts THEN R
    ELSE R \ {First(IF orphans # {} THEN orphans ELSE R)}

(* Seeded fault: the limit takes the newest fact. *)
WithinFactBoundNewest(F) ==
    IF Cardinality(F) <= MaxFacts THEN F
    ELSE F \ {CHOOSE f \in F : \A g \in F : g.nth <= f.nth}

WithinFactBound(F) == IF Cardinality(F) <= MaxFacts THEN F ELSE F \ {First(F)}

WithinLifecycleBound(A) == IF Cardinality(A) <= MaxLifecycles THEN A ELSE A \ {Least(A)}

-----------------------------------------------------------------------------
(* plan_action, from _emit_avatar_intent before the event is emitted. *)
Plan(subject) ==
    /\ ~closed
    /\ Len(intent) < MaxPlans
    /\ LET a   == Len(intent) + 1
           new == [subject |-> subject, status |-> "planned", updated |-> now, ids |-> {}]
       IN lifecycle' = [b \in WithinLifecycleBound(LiveActions \cup {a}) |->
                          IF b = a THEN new ELSE lifecycle[b]]
    /\ intent' = Append(intent, "emitting")
    /\ receipts' = LiveReceipts
    /\ facts' = LiveFacts
    /\ UNCHANGED <<closed, now, log>>

(* The emit ends: the event is in the queue; or it was refused, and
   discard_action_plan takes the plan back; or the task was cancelled while
   it waited, and nobody takes the plan back. *)
IntentSent(a) ==
    /\ intent[a] = "emitting" /\ ~closed
    /\ intent' = [intent EXCEPT ![a] = "sent"]
    /\ UNCHANGED <<lifecycle, receipts, facts, closed, now, log>>

IntentRefused(a) ==
    /\ intent[a] = "emitting"
    /\ intent' = [intent EXCEPT ![a] = "lost"]
    /\ lifecycle' = Keep({b \in DOMAIN lifecycle : b = a => lifecycle[b].status # "planned"})
    /\ UNCHANGED <<receipts, facts, closed, now, log>>

EmitCancelled(a) ==
    /\ intent[a] = "emitting"
    /\ intent' = [intent EXCEPT ![a] = "lost"]
    /\ UNCHANGED <<lifecycle, receipts, facts, closed, now, log>>

(* A receipt that is recorded. *)
RecordResult(q) ==
    LET r == [id |-> q.id, action |-> q.action, subject |-> q.subject, status |-> q.status,
              at |-> now, nth |-> Recorded + 1]
    IN
    /\ Answer(q) = "recorded"
    /\ lifecycle' = [Keep(LiveActions) EXCEPT ![q.action].status = q.status,
                                              ![q.action].updated = now,
                                              ![q.action].ids = @ \cup {q.id}]
    /\ receipts' = WithinReceiptBound(LiveReceipts \cup {r})
    /\ facts' = IF q.status \in Terminal THEN WithinFactBound(LiveFacts \cup {r}) ELSE LiveFacts
    /\ log' = log \cup {r}
    /\ UNCHANGED <<closed, now, intent>>

(* A receipt that is answered otherwise, and action_facts_snapshot: expiry is
   all that happens. *)
Prune ==
    /\ ~closed
    /\ lifecycle' = Keep(LiveActions)
    /\ receipts' = LiveReceipts
    /\ facts' = LiveFacts
    /\ UNCHANGED <<closed, now, intent, log>>

RefuseResult(q) == Answer(q) \notin {"recorded", "session_not_found"} /\ Prune

CloseSession ==
    /\ ~closed
    /\ closed' = TRUE
    /\ lifecycle' = << >> /\ receipts' = {} /\ facts' = {}
    /\ UNCHANGED <<now, intent, log>>

Tick ==
    /\ now < MaxTime
    /\ now' = now + 1
    /\ UNCHANGED <<lifecycle, receipts, facts, closed, intent, log>>

(* A client reports on actions it was sent.  Receipt ids only matter by their
   equality: the ones in use count up, the next one is fresh. *)
Next ==
    \/ \E s \in Subjects : Plan(s)
    \/ \E a \in Actions : IntentSent(a) \/ IntentRefused(a) \/ EmitCancelled(a)
    \/ \E q \in Request : intent[q.action] = "sent" /\ (RecordResult(q) \/ RefuseResult(q))
    \/ Prune
    \/ CloseSession
    \/ Tick

Spec == Init /\ [][Next]_vars

-----------------------------------------------------------------------------
(* Plans, receipts and facts stay within their limits although nothing but
   the next request removes what has expired. *)
Bounded == /\ Cardinality(DOMAIN lifecycle) <= MaxLifecycles
           /\ Cardinality(receipts) <= MaxReceipts
           /\ Cardinality(facts) <= MaxFacts

TypeOK ==
    /\ DOMAIN lifecycle \subseteq Actions
    /\ \A a \in DOMAIN lifecycle : lifecycle[a] \in Lifecycle
    /\ log \subseteq Receipt
    /\ receipts \subseteq log /\ facts \subseteq log
    /\ closed \in BOOLEAN /\ now \in Nat
    /\ intent \in Seq({"emitting", "sent", "lost"})
    /\ Bounded

(* Whatever receipts are repeated, reordered, altered or re-used after their
   expiry, what is recorded of an action tells one story, the state machine of
   docs/API_CN.md 11.1: accepted first, then started, completed only of what
   started, nothing twice and nothing after the end. *)
Before(e) == {f \in log : f.action = e.action /\ f.nth < e.nth}
Told(S) == {f.status : f \in S}
OneStory ==
    \A e \in log :
        /\ Told(Before(e)) \cap (Terminal \cup {e.status}) = {}
        /\ e.status = "accepted"  => Before(e) = {}
        /\ e.status = "started"   => "accepted" \in Told(Before(e))
        /\ e.status = "completed" => "started" \in Told(Before(e))

(* The verified facts: outcomes only, one of an action and for good, and the
   one its plan shows as long as the plan is there. *)
FactsAreVerified ==
    TypeOK /\
    \A f \in facts :
        /\ f.status \in Terminal
        /\ \A g \in log : g.action = f.action /\ g.status \in Terminal => g = f
        /\ f.action \in DOMAIN lifecycle => lifecycle[f.action].status = f.status

(* The limit on receipts never takes the receipt of a plan that is still
   there: within its lifetime an exact retry is answered as idempotent. *)
RetriesAreIdempotent ==
    \A e \in log : ~closed /\ e.action \in LiveActions /\ now - e.at <= LifecycleTTL
                      => Answer(e) = "idempotent"

(* The session keeps the promise of ActionStory: plans, receipts and facts may expire,
   be pushed out of their limits and be repeated, but an outcome is a fact from the
   step that reports it, and one that is gone never comes back. *)
Story == INSTANCE ActionStory WITH
    Action <- 1..MaxPlans, over <- closed,
    told  <- [a \in Actions |-> Told({e \in log : e.action = a})],
    known <- {<<f.action, f.status>> : f \in facts}
TellsItsStory == Story!Spec
==============================================================================
