----------------------------- MODULE ActionStory ------------------------------
(***************************************************************************)
(* What a session promises of the actions it asked for: the abstract       *)
(* specification of ActionLifecycle, without plans, receipt ids, lifetimes *)
(* and limits.  Of each action one story is told, a step at a time; a told *)
(* outcome is known at once, may be forgotten and is then gone for good.   *)
(***************************************************************************)
CONSTANT Action      \* names of actions

VARIABLES told,      \* told[a]: the statuses that were taken for action a
          known,     \* pairs of an action and its outcome
          over       \* the session is closed

Outcomes == {"completed", "rejected", "interrupted"}

(* The statuses that may be told next. *)
MayFollow(statuses) ==
    CASE statuses = {}                      -> {"accepted", "rejected", "interrupted"}
      [] statuses = {"accepted"}            -> {"started", "rejected", "interrupted"}
      [] statuses = {"accepted", "started"} -> Outcomes
      [] OTHER                              -> {}

Ask(a) ==
    /\ ~over /\ a \notin DOMAIN told
    /\ told' = [b \in DOMAIN told \cup {a} |-> IF b = a THEN {} ELSE told[b]]
    /\ known' \subseteq known
    /\ UNCHANGED over

Tell(a, status) ==
    /\ ~over /\ status \in MayFollow(told[a])
    /\ told' = [told EXCEPT ![a] = @ \cup {status}]
    /\ IF status \in Outcomes
       THEN <<a, status>> \in known' /\ known' \subseteq known \cup {<<a, status>>}
       ELSE known' \subseteq known
    /\ UNCHANGED over

Forget == known' \subseteq known /\ UNCHANGED <<told, over>>

Close == ~over /\ over' = TRUE /\ known' = {} /\ UNCHANGED told

Init == told = [a \in {} |-> {}] /\ known = {} /\ over = FALSE

Next == \/ \E a \in Action : Ask(a)
        \/ \E a \in DOMAIN told : \E status \in {"accepted", "started"} \cup Outcomes : Tell(a, status)
        \/ Forget \/ Close

Spec == Init /\ [][Next]_<<told, known, over>>
==============================================================================
