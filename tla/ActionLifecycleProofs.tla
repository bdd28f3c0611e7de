------------------------ MODULE ActionLifecycleProofs ------------------------
(***************************************************************************)
(* The safety properties of ActionLifecycle for any limits, lifetimes and  *)
(* number of actions.                                                      *)
(***************************************************************************)
EXTENDS ActionLifecycle, FiniteSetTheorems, WellFoundedInduction, TLAPS

(* All that was ever recorded of an action. *)
Of(a) == {e \in log : e.action = a}

(* Receipts are recorded one at a time. *)
OneByOne == IsFiniteSet(log) /\ \A e, f \in log : e.nth = f.nth => e = f

(* What was told of an action whose plan has this status. *)
Tells(status, told) ==
    /\ status = "planned"  => told = {}
    /\ status = "accepted" => told = {"accepted"}
    /\ status = "started"  => told = {"accepted", "started"}
    /\ status \in Terminal => told \cap Terminal = {status}

StatusIsLast == \A a \in DOMAIN lifecycle : Tells(lifecycle[a].status, Told(Of(a)))

(* The receipts at hand have ids of their own. *)
IdsDiffer == \A r, s \in receipts : r.id = s.id => r = s

(* The receipts of a plan are at hand until they expire. *)
PlansKeepReceipts ==
    \A e \in log : ~closed /\ e.action \in DOMAIN lifecycle /\ now - e.at <= LifecycleTTL
                      => e \in receipts

(* A fact is the end of its action. *)
FactsAreEnds == \A f \in facts : f.status \in Terminal

IInv == /\ TypeOK /\ OneStory /\ OneByOne /\ StatusIsLast
        /\ IdsDiffer /\ PlansKeepReceipts /\ FactsAreEnds

-----------------------------------------------------------------------------
(* The limits. *)

LEMMA LimitsAreNumbers == MaxLifecycles \in Nat /\ MaxReceipts \in Nat /\ MaxFacts \in Nat
BY SizeAssumption DEF MaxReceipts

(* Every non-empty set of natural numbers has a least element. *)
LEMMA LeastNatural ==
    ASSUME NEW T \in SUBSET Nat, T # {}
    PROVE  \E x \in T : \A y \in T : x <= y
<1> DEFINE R == OpToRel(<, Nat)
<1>1. \E x \in T : \A y \in T : ~(<<y, x>> \in R)
  BY NatLessThanWellFounded, WFMin, Zenon
<1>2. \A x, y \in Nat : <<y, x>> \in R <=> y < x
  BY DEF OpToRel
<1> HIDE DEF R
<1>3. PICK x \in T : \A y \in T : ~(<<y, x>> \in R)
  BY <1>1
<1>4. \A y \in T : y \in Nat /\ x \in Nat /\ ~(y < x)
  BY <1>2, <1>3, Zenon
<1> QED
  BY <1>4

(* The first receipt of a set, and the least action of one, are in it. *)
LEMMA FirstIsOne ==
    ASSUME NEW S, S # {}, \A r \in S : r.nth \in Nat
    PROVE  First(S) \in S
<1> DEFINE T == {r.nth : r \in S}
<1>1. T \in SUBSET Nat /\ T # {}
  OBVIOUS
<1>2. PICK n \in T : \A m \in T : n <= m
  BY <1>1, LeastNatural, Zenon
<1>3. PICK r \in S : r.nth = n
  BY <1>2
<1>4. \A s \in S : r.nth <= s.nth
  BY <1>2, <1>3
<1> QED
  BY <1>3, <1>4 DEF First

LEMMA LeastIsOne ==
    ASSUME NEW S \in SUBSET Nat, S # {}
    PROVE  Least(S) \in S
<1>1. PICK a \in S : \A b \in S : a <= b
  BY LeastNatural, Zenon
<1> QED
  BY <1>1 DEF Least

LEMMA OneMore ==
    ASSUME NEW S, IsFiniteSet(S), NEW n \in Nat, Cardinality(S) <= n, NEW x
    PROVE  IsFiniteSet(S \cup {x}) /\ Cardinality(S \cup {x}) <= n + 1
BY FS_CardinalityType, FS_AddElement

(* A set with one element too many is back within its limit. *)
LEMMA OneLess ==
    ASSUME NEW S, IsFiniteSet(S), NEW n \in Nat, Cardinality(S) <= n + 1, NEW x,
           Cardinality(S) > n => x \in S
    PROVE  Cardinality(S) > n => IsFiniteSet(S \ {x}) /\ Cardinality(S \ {x}) <= n
BY FS_CardinalityType, FS_RemoveElement

LEMMA LifecycleBoundFacts ==
    ASSUME NEW A \in SUBSET Nat, IsFiniteSet(A), Cardinality(A) <= MaxLifecycles + 1
    PROVE  /\ WithinLifecycleBound(A) \subseteq A
           /\ Cardinality(WithinLifecycleBound(A)) <= MaxLifecycles
<1>1. CASE Cardinality(A) <= MaxLifecycles
  BY <1>1 DEF WithinLifecycleBound
<1>2. CASE ~(Cardinality(A) <= MaxLifecycles)
  <2>1. Cardinality(A) \in Nat /\ MaxLifecycles \in Nat
    BY FS_CardinalityType, SizeAssumption
  <2>2. A # {}
    BY <1>2, <2>1, FS_EmptySet
  <2>3. Least(A) \in A
    BY <2>2, LeastIsOne
  <2> QED
    BY <1>2, <2>1, <2>3, OneLess DEF WithinLifecycleBound
<1> QED
  BY <1>1, <1>2

LEMMA FactBoundFacts ==
    ASSUME NEW F, IsFiniteSet(F), \A f \in F : f.nth \in Nat, Cardinality(F) <= MaxFacts + 1
    PROVE  /\ WithinFactBound(F) \subseteq F
           /\ Cardinality(WithinFactBound(F)) <= MaxFacts
<1>1. CASE Cardinality(F) <= MaxFacts
  BY <1>1 DEF WithinFactBound
<1>2. CASE ~(Cardinality(F) <= MaxFacts)
  <2>1. Cardinality(F) \in Nat /\ MaxFacts \in Nat
    BY FS_CardinalityType, SizeAssumption
  <2>2. F # {}
    BY <1>2, <2>1, FS_EmptySet
  <2>3. First(F) \in F
    BY <2>2, FirstIsOne
  <2> QED
    BY <1>2, <2>1, <2>3, OneLess DEF WithinFactBound
<1> QED
  BY <1>1, <1>2

(* Different receipts of an action have different statuses, of which one is an end. *)
Differ(L) ==
    \A e, f \in L : e.action = f.action /\ e # f =>
        e.status # f.status /\ {e.status, f.status} \cap Terminal # {e.status, f.status}

LEMMA StoryDiffers ==
    ASSUME TypeOK, OneStory, OneByOne PROVE Differ(log)
<1> SUFFICES ASSUME NEW e \in log, NEW f \in log, e.action = f.action, e.nth < f.nth
             PROVE  e.status # f.status /\ e.status \notin Terminal
  BY DEF TypeOK, Receipt, OneByOne, Differ
<1>1. e \in Before(f) /\ e.status \in Told(Before(f))
  BY DEF Before, Told
<1> QED
  BY <1>1 DEF OneStory

(* Hence the plans have three receipts each at most. *)
LEMMA ThreeOfAPlan ==
    ASSUME NEW R, Differ(R), NEW A, IsFiniteSet(A), Cardinality(A) <= MaxLifecycles,
           \A r \in R : r.action \in A /\ r.status \in Reported
    PROVE  IsFiniteSet(R) /\ Cardinality(R) <= MaxReceipts
<1> DEFINE stage(s) == CASE s = "accepted" -> 1 [] s = "started" -> 2 [] OTHER -> 3
           place == [r \in R |-> <<r.action, stage(r.status)>>]
<1>1. \A s \in Reported : stage(s) \in 1..3
  BY DEF Reported, Terminal
<1>2. \A s, t \in Reported : stage(s) = stage(t) => s = t \/ (s \in Terminal /\ t \in Terminal)
  BY DEF Reported, Terminal
<1> HIDE DEF stage
<1>3. place \in [R -> A \X (1..3)]
  BY <1>1
<1>4. ASSUME NEW e \in R, NEW f \in R, place[e] = place[f] PROVE e = f
  <2>1. e.action = f.action /\ stage(e.status) = stage(f.status)
    BY <1>4
  <2>2. e.status = f.status \/ (e.status \in Terminal /\ f.status \in Terminal)
    BY <1>2, <2>1
  <2> QED
    BY <2>1, <2>2 DEF Differ
<1>5. place \in Injection(R, A \X (1..3))
  BY <1>3, <1>4 DEF Injection, IsInjective
<1>6. IsFiniteSet(1..3) /\ Cardinality(1..3) = 3
  <2>1. 1 \in Int /\ 3 \in Int /\ ~(1 > 3) /\ 3 - 1 + 1 = 3
    OBVIOUS
  <2>2. IsFiniteSet(1..3) /\ Cardinality(1..3) = IF 1 > 3 THEN 0 ELSE 3 - 1 + 1
    BY <2>1, FS_Interval, Zenon
  <2> QED
    BY <2>1, <2>2, Zenon
<1>7. IsFiniteSet(A \X (1..3)) /\ Cardinality(A \X (1..3)) = Cardinality(A) * 3
  BY <1>6, FS_Product
<1>8. IsFiniteSet(R) /\ Cardinality(R) <= Cardinality(A) * 3
  BY <1>5, <1>7, FS_Injection
<1>9. /\ Cardinality(A) \in Nat /\ Cardinality(R) \in Nat
      /\ MaxLifecycles \in Nat /\ MaxPerLifecycle \in Nat /\ MaxPerLifecycle >= 3
  BY <1>8, FS_CardinalityType, SizeAssumption
<1>10. MaxLifecycles * 3 <= MaxLifecycles * MaxPerLifecycle
  BY <1>9
<1> QED
  BY <1>8, <1>9, <1>10 DEF MaxReceipts

LEMMA ReceiptBoundFacts ==
    ASSUME NEW R, IsFiniteSet(R), \A r \in R : r.nth \in Nat,
           Cardinality(R) <= MaxReceipts + 1,
           (\A r \in R : r.action \in LiveActions) => Cardinality(R) <= MaxReceipts
    PROVE  /\ WithinReceiptBound(R) \subseteq R
           /\ Cardinality(WithinReceiptBound(R)) <= MaxReceipts
           /\ \A r \in R : r.action \in LiveActions => r \in WithinReceiptBound(R)
<1> DEFINE orphans == {r \in R : r.action \notin LiveActions}
<1>1. CASE Cardinality(R) <= MaxReceipts
  BY <1>1 DEF WithinReceiptBound
<1>2. CASE ~(Cardinality(R) <= MaxReceipts)
  <2>1. Cardinality(R) \in Nat /\ MaxReceipts \in Nat
    BY FS_CardinalityType, SizeAssumption DEF MaxReceipts
  <2>2. orphans # {}
    BY <1>2
  <2>3. First(orphans) \in orphans
    BY <2>2, FirstIsOne
  <2>4. WithinReceiptBound(R) = R \ {First(orphans)}
    BY <1>2, <2>2 DEF WithinReceiptBound
  <2> QED
    BY <1>2, <2>1, <2>3, <2>4, OneLess
<1> QED
  BY <1>1, <1>2

-----------------------------------------------------------------------------
(* The actions. *)

LEMMA InitInvariant == Init => IInv
<1> SUFFICES ASSUME Init PROVE IInv
  OBVIOUS
<1>1. DOMAIN lifecycle = {} /\ Len(intent) = 0 /\ intent \in Seq({"emitting", "sent", "lost"})
  BY DEF Init
<1>2. IsFiniteSet({}) /\ Cardinality({}) = 0
  BY FS_EmptySet
<1>3. Bounded
  BY <1>1, <1>2, SizeAssumption DEF Init, Bounded, MaxReceipts
<1>4. TypeOK
  BY <1>1, <1>3 DEF Init, TypeOK
<1> QED
  BY <1>1, <1>2, <1>4 DEF Init, IInv, OneStory, OneByOne, StatusIsLast, IdsDiffer, PlansKeepReceipts,
     FactsAreEnds

LEMMA PlansAreFinite ==
    ASSUME TypeOK PROVE Actions \subseteq Nat \ {0} /\ IsFiniteSet(DOMAIN lifecycle)
<1>1. Len(intent) \in Int /\ 1 \in Int
  BY DEF TypeOK
<1>2. IsFiniteSet(Actions)
  BY <1>1, FS_Interval, Zenon DEF Actions
<1> QED
  BY <1>2, FS_Subset DEF TypeOK, Actions

(* What the history says stays true as long as nothing is recorded. *)
LEMMA HistoryStays ==
    ASSUME IInv, UNCHANGED log PROVE OneStory' /\ OneByOne' /\ \A a : Of(a)' = Of(a)
BY DEF IInv, OneStory, Before, Told, OneByOne, Of

(* Plans, receipts and facts may always be dropped, but no receipt of a session that
   is open before it expires. *)
LEMMA DroppingKeeps ==
    ASSUME IInv, UNCHANGED <<now, log>>,
           closed' \in BOOLEAN, closed => closed',
           intent' \in Seq({"emitting", "sent", "lost"}), Len(intent') = Len(intent),
           DOMAIN lifecycle' \subseteq DOMAIN lifecycle,
           \A a \in DOMAIN lifecycle' : lifecycle'[a] = lifecycle[a],
           receipts' \subseteq receipts, facts' \subseteq facts,
           closed' \/ LiveReceipts \subseteq receipts'
    PROVE  IInv'
<1>1. OneStory' /\ OneByOne' /\ \A a : Of(a)' = Of(a)
  BY HistoryStays
<1>2. Bounded'
  <2>1. Bounded /\ IsFiniteSet(DOMAIN lifecycle)
    BY PlansAreFinite DEF IInv, TypeOK
  <2>2. IsFiniteSet(receipts) /\ IsFiniteSet(facts)
    BY FS_Subset DEF IInv, TypeOK, OneByOne
  <2>3. /\ Cardinality(DOMAIN lifecycle') <= Cardinality(DOMAIN lifecycle)
        /\ Cardinality(receipts') <= Cardinality(receipts)
        /\ Cardinality(facts') <= Cardinality(facts)
    BY <2>1, <2>2, FS_Subset
  <2>4. /\ Cardinality(DOMAIN lifecycle) \in Nat /\ Cardinality(DOMAIN lifecycle') \in Nat
        /\ Cardinality(receipts) \in Nat /\ Cardinality(receipts') \in Nat
        /\ Cardinality(facts) \in Nat /\ Cardinality(facts') \in Nat
        /\ MaxLifecycles \in Nat /\ MaxReceipts \in Nat /\ MaxFacts \in Nat
    BY <2>1, <2>2, FS_CardinalityType, FS_Subset, SizeAssumption DEF MaxReceipts
  <2> QED
    BY <2>1, <2>3, <2>4 DEF Bounded
<1>3. TypeOK'
  BY <1>2 DEF IInv, TypeOK, Actions, Lifecycle, Receipt, Recorded
<1>4. StatusIsLast'
  BY <1>1 DEF IInv, StatusIsLast, Tells, Told
<1>5. IdsDiffer' /\ FactsAreEnds'
  BY DEF IInv, IdsDiffer, FactsAreEnds
<1>6. PlansKeepReceipts'
  BY DEF IInv, PlansKeepReceipts, LiveReceipts
<1> QED
  BY <1>1, <1>3, <1>4, <1>5, <1>6 DEF IInv

LEMMA IntentSettledKeeps ==
    ASSUME IInv, NEW a \in Actions, IntentSent(a) \/ IntentRefused(a) \/ EmitCancelled(a)
    PROVE  IInv'
<1>1. intent' \in Seq({"emitting", "sent", "lost"}) /\ Len(intent') = Len(intent)
  BY DEF IInv, TypeOK, Actions, IntentSent, IntentRefused, EmitCancelled
<1>2. /\ UNCHANGED <<receipts, facts, closed, now, log>>
      /\ DOMAIN lifecycle' \subseteq DOMAIN lifecycle
      /\ \A b \in DOMAIN lifecycle' : lifecycle'[b] = lifecycle[b]
  BY DEF IntentSent, IntentRefused, EmitCancelled, Keep
<1> QED
  BY <1>1, <1>2, DroppingKeeps DEF IInv, TypeOK, LiveReceipts

LEMMA PruneKeeps ==
    ASSUME IInv, Prune PROVE IInv'
BY DroppingKeeps DEF IInv, TypeOK, Prune, Keep, LiveActions, LiveReceipts, LiveFacts

LEMMA CloseSessionKeeps ==
    ASSUME IInv, CloseSession PROVE IInv'
<1>1. DOMAIN lifecycle' = {}
  BY DEF CloseSession
<1> QED
  BY <1>1, DroppingKeeps DEF IInv, TypeOK, CloseSession

LEMMA TickKeeps ==
    ASSUME IInv, Tick PROVE IInv'
<1>1. now \in Nat /\ now' = now + 1 /\ UNCHANGED <<lifecycle, receipts, facts, closed, intent, log>>
  BY DEF IInv, TypeOK, Tick
<1>2. OneStory' /\ OneByOne' /\ \A a : Of(a)' = Of(a)
  BY <1>1, HistoryStays
<1>3. 0..now \subseteq 0..now'
  BY <1>1
<1>4. TypeOK'
  BY <1>1, <1>3 DEF IInv, TypeOK, Bounded, Actions, Lifecycle, Receipt, Recorded
<1>5. StatusIsLast' /\ IdsDiffer' /\ FactsAreEnds'
  BY <1>1, <1>2 DEF IInv, StatusIsLast, Tells, Told, IdsDiffer, FactsAreEnds
<1>6. PlansKeepReceipts'
  <2>1. \A e \in log : e.at \in Nat
    BY DEF IInv, TypeOK, Receipt
  <2>2. \A e \in log : now' - e.at <= LifecycleTTL => now - e.at <= LifecycleTTL
    BY <1>1, <2>1, TimeAssumption
  <2> QED
    BY <1>1, <2>2 DEF IInv, PlansKeepReceipts
<1> QED
  BY <1>2, <1>4, <1>5, <1>6 DEF IInv

(* What has expired goes, and the limits hold after it has. *)
LEMMA PrunedFacts ==
    ASSUME IInv
    PROVE  /\ LiveActions \subseteq DOMAIN lifecycle /\ IsFiniteSet(LiveActions)
           /\ Cardinality(LiveActions) <= MaxLifecycles
           /\ IsFiniteSet(LiveReceipts) /\ Cardinality(LiveReceipts) <= MaxReceipts
           /\ IsFiniteSet(LiveFacts) /\ Cardinality(LiveFacts) <= MaxFacts
<1>1. /\ LiveActions \in SUBSET DOMAIN lifecycle
      /\ LiveReceipts \in SUBSET receipts /\ LiveFacts \in SUBSET facts
  BY DEF LiveActions, LiveReceipts, LiveFacts
<1>2. /\ IsFiniteSet(DOMAIN lifecycle) /\ IsFiniteSet(receipts) /\ IsFiniteSet(facts)
  BY PlansAreFinite, FS_Subset DEF IInv, TypeOK, OneByOne
<1>3. /\ IsFiniteSet(LiveActions) /\ Cardinality(LiveActions) <= Cardinality(DOMAIN lifecycle)
      /\ IsFiniteSet(LiveReceipts) /\ Cardinality(LiveReceipts) <= Cardinality(receipts)
      /\ IsFiniteSet(LiveFacts) /\ Cardinality(LiveFacts) <= Cardinality(facts)
  BY <1>1, <1>2, FS_Subset
<1>4. /\ Cardinality(DOMAIN lifecycle) \in Nat /\ Cardinality(LiveActions) \in Nat
      /\ Cardinality(receipts) \in Nat /\ Cardinality(LiveReceipts) \in Nat
      /\ Cardinality(facts) \in Nat /\ Cardinality(LiveFacts) \in Nat
      /\ MaxLifecycles \in Nat /\ MaxReceipts \in Nat /\ MaxFacts \in Nat
  BY <1>2, <1>3, FS_CardinalityType, SizeAssumption DEF MaxReceipts
<1> QED
  BY <1>1, <1>3, <1>4 DEF IInv, TypeOK, Bounded

LEMMA PlanKeeps ==
    ASSUME IInv, NEW subject \in Subjects, Plan(subject) PROVE IInv'
<1> DEFINE a == Len(intent) + 1
           left == WithinLifecycleBound(LiveActions \cup {a})
<1>1. /\ intent \in Seq({"emitting", "sent", "lost"}) /\ now \in Nat /\ Len(intent) \in Nat
      /\ DOMAIN lifecycle \subseteq 1..Len(intent) /\ log \subseteq Receipt
      /\ ~closed /\ UNCHANGED <<closed, now, log>> /\ intent' = Append(intent, "emitting")
      /\ receipts' = LiveReceipts /\ facts' = LiveFacts
  BY DEF IInv, TypeOK, Actions, Plan
<1>2. /\ DOMAIN lifecycle' = left
      /\ \A b \in left : lifecycle'[b] =
            IF b = a THEN [subject |-> subject, status |-> "planned", updated |-> now, ids |-> {}]
            ELSE lifecycle[b]
  BY DEF Plan
<1>3. /\ Actions' = Actions \cup {a} /\ a \notin Actions /\ a \in Nat
      /\ intent' \in Seq({"emitting", "sent", "lost"})
  BY <1>1 DEF Actions
<1>4. left \subseteq LiveActions \cup {a} /\ Cardinality(left) <= MaxLifecycles
  <2>1. /\ IsFiniteSet(LiveActions) /\ Cardinality(LiveActions) <= MaxLifecycles
        /\ LiveActions \subseteq DOMAIN lifecycle
    BY PrunedFacts
  <2>2. IsFiniteSet(LiveActions \cup {a}) /\ Cardinality(LiveActions \cup {a}) <= MaxLifecycles + 1
    BY <2>1, OneMore, SizeAssumption
  <2>3. LiveActions \cup {a} \in SUBSET Nat
    BY <1>1, <2>1
  <2> QED
    BY <2>2, <2>3, LifecycleBoundFacts
<1> HIDE DEF a, left
<1>5. \A b \in left : b = a \/ b \in DOMAIN lifecycle
  BY <1>4 DEF LiveActions
<1>6. OneStory' /\ OneByOne' /\ \A b : Of(b)' = Of(b)
  BY <1>1, HistoryStays
<1>7. Bounded'
  BY <1>1, <1>2, <1>4, PrunedFacts DEF Bounded
<1>8. TypeOK'
  <2>1. [subject |-> subject, status |-> "planned", updated |-> now, ids |-> {}] \in Lifecycle
    BY <1>1 DEF Lifecycle
  <2>2. \A b \in DOMAIN lifecycle' : lifecycle'[b] \in Lifecycle'
    BY <1>1, <1>2, <1>5, <2>1 DEF IInv, TypeOK, Lifecycle
  <2>3. DOMAIN lifecycle' \subseteq Actions'
    BY <1>1, <1>2, <1>3, <1>5 DEF Actions
  <2>4. log' \subseteq Receipt'
    BY <1>1, <1>3 DEF Receipt, Recorded
  <2> QED
    BY <1>1, <1>3, <1>7, <2>2, <2>3, <2>4 DEF IInv, TypeOK, LiveReceipts, LiveFacts
<1>9. StatusIsLast'
  <2>1. Told(Of(a)) = {}
    BY <1>1, <1>3 DEF Of, Told, Receipt
  <2>2. \A b \in left : Told(Of(b))' = Told(Of(b))
    BY <1>6 DEF Told
  <2> QED
    BY <1>2, <1>5, <2>1, <2>2 DEF IInv, StatusIsLast, Tells, Terminal
<1>10. IdsDiffer' /\ FactsAreEnds'
  BY <1>1 DEF IInv, IdsDiffer, FactsAreEnds, LiveReceipts, LiveFacts
<1>11. PlansKeepReceipts'
  <2>1. \A e \in log : e.action # a
    BY <1>1, <1>3 DEF Receipt
  <2> QED
    BY <1>1, <1>2, <1>5, <2>1 DEF IInv, PlansKeepReceipts, LiveReceipts
<1> QED
  BY <1>6, <1>8, <1>9, <1>10, <1>11 DEF IInv

LEMMA RecordResultKeeps ==
    ASSUME IInv, NEW q \in Request, RecordResult(q) PROVE IInv'
<1>0. PICK r : r = [id |-> q.id, action |-> q.action, subject |-> q.subject, status |-> q.status,
                    at |-> now, nth |-> Recorded + 1]
  OBVIOUS
<1> DEFINE all == LiveReceipts \cup {r}
<1>1. /\ Answer(q) = "recorded"
      /\ DOMAIN lifecycle' = LiveActions
      /\ lifecycle' = [Keep(LiveActions) EXCEPT ![q.action].status = q.status,
                          ![q.action].updated = now, ![q.action].ids = @ \cup {q.id}]
      /\ receipts' = WithinReceiptBound(all)
      /\ facts' = IF q.status \in Terminal THEN WithinFactBound(LiveFacts \cup {r}) ELSE LiveFacts
      /\ log' = log \cup {r}
      /\ UNCHANGED <<closed, now, intent>>
  BY <1>0 DEF RecordResult, Keep
<1>17. DOMAIN lifecycle' = LiveActions
  BY <1>1, Zenon
<1>2. /\ ~closed /\ q.action \in LiveActions
      /\ \A s \in LiveReceipts : s.id # q.id
      /\ q.status \in Follows(lifecycle[q.action].status)
  BY <1>1 DEF Answer
<1>3. /\ Recorded \in Nat /\ Recorded' = Recorded + 1 /\ r \notin log /\ IsFiniteSet(log')
      /\ \A e \in log : e.nth \in 1..Recorded
  <2>1. \A e \in log : e.nth \in 1..Recorded
    BY DEF IInv, TypeOK, Receipt
  <2>2. Recorded \in Nat
    BY FS_CardinalityType DEF IInv, OneByOne, Recorded
  <2>3. r \notin log
    BY <1>0, <2>1, <2>2
  <2>4. IsFiniteSet(log \cup {r}) /\ Cardinality(log \cup {r}) = Cardinality(log) + 1
    BY <2>3, FS_AddElement DEF IInv, OneByOne
  <2> QED
    BY <1>1, <2>1, <2>2, <2>3, <2>4 DEF Recorded
<1>4. /\ r.action = q.action /\ r.status = q.status /\ r.id = q.id /\ r.nth = Recorded + 1
      /\ r.at = now /\ r \in Receipt' /\ q.status \in Reported /\ q.action \in Actions
  <2>1. q.id \in 1..(Recorded + 1) /\ q.action \in Actions /\ q.subject \in Subjects /\ q.status \in Reported
    BY DEF Request
  <2>2. q.id \in Nat \ {0} /\ now \in 0..now /\ Recorded + 1 \in 1..(Recorded + 1)
    BY <1>3, <2>1 DEF IInv, TypeOK
  <2>3. Actions' = Actions /\ now' = now
    BY <1>1 DEF Actions
  <2> QED
    BY <1>0, <1>3, <2>1, <2>2, <2>3 DEF Receipt
<1>5. LiveActions \subseteq DOMAIN lifecycle /\ q.action \in DOMAIN lifecycle
  BY <1>2 DEF LiveActions
<1>6. /\ \A a \in LiveActions \ {q.action} : lifecycle'[a] = lifecycle[a]
      /\ lifecycle'[q.action] = [subject |-> lifecycle[q.action].subject, status |-> q.status,
                                 updated |-> now, ids |-> lifecycle[q.action].ids \cup {q.id}]
  <2>1. lifecycle[q.action] \in Lifecycle
    BY <1>5 DEF IInv, TypeOK
  <2>2. PICK s, st, u, i :
           lifecycle[q.action] = [subject |-> s, status |-> st, updated |-> u, ids |-> i]
    BY <2>1 DEF Lifecycle
  <2>3. PICK kept : kept = Keep(LiveActions)
    OBVIOUS
  <2>4. lifecycle' = [kept EXCEPT ![q.action].status = q.status,
                          ![q.action].updated = now, ![q.action].ids = @ \cup {q.id}]
    BY <2>3 DEF RecordResult
  <2>5. kept = [a \in LiveActions |-> lifecycle[a]]
    BY <2>3 DEF Keep
  <2>6. \A a \in LiveActions \ {q.action} : lifecycle'[a] = lifecycle[a]
    BY <2>4, <2>5
  <2>7. kept[q.action] = [subject |-> s, status |-> st, updated |-> u, ids |-> i]
    BY <1>2, <2>2, <2>5
  <2>8. lifecycle'[q.action] =
           [subject |-> s, status |-> q.status, updated |-> now, ids |-> i \cup {q.id}]
    <3> DEFINE step1 == [kept EXCEPT ![q.action].status = q.status]
               step2 == [step1 EXCEPT ![q.action].updated = now]
    <3>1. DOMAIN step1 = LiveActions
          /\ step1[q.action] = [subject |-> s, status |-> q.status, updated |-> u, ids |-> i]
      BY <1>2, <2>5, <2>7
    <3>2. DOMAIN step2 = LiveActions
          /\ step2[q.action] = [subject |-> s, status |-> q.status, updated |-> now, ids |-> i]
      <4> HIDE DEF step1
      <4> QED
        BY <1>2, <3>1
    <3> HIDE DEF step1
    <3>3. lifecycle' = [step2 EXCEPT ![q.action].ids = @ \cup {q.id}]
      BY <2>4 DEF step1
    <3> HIDE DEF step2
    <3>4. step2[q.action].ids = i
      BY <3>2
    <3>5. lifecycle' = [step2 EXCEPT ![q.action].ids = i \cup {q.id}]
      BY <3>3, <3>4
    <3>6. q.action \in DOMAIN step2
      BY <1>2, <3>2
    <3>7. lifecycle'[q.action] = [step2[q.action] EXCEPT !.ids = i \cup {q.id}]
      BY <3>5, <3>6
    <3>8. PICK ids : ids = i \cup {q.id}
      OBVIOUS
    <3>9. lifecycle'[q.action] =
             [[subject |-> s, status |-> q.status, updated |-> now, ids |-> i] EXCEPT !.ids = ids]
      BY <3>2, <3>7, <3>8
    <3> QED
      BY <3>8, <3>9
  <2> QED
    BY <2>2, <2>6, <2>8
<1>7. /\ Told(Of(q.action)) \cap (Terminal \cup {q.status}) = {}
      /\ q.status = "accepted" => Told(Of(q.action)) = {}
      /\ q.status = "started" => "accepted" \in Told(Of(q.action))
      /\ q.status = "completed" => "started" \in Told(Of(q.action))
  BY <1>2, <1>5 DEF IInv, StatusIsLast, Tells, Follows, Terminal
<1>8. OneStory'
  <2>1. \A e \in log : Before(e)' = Before(e)
    BY <1>1, <1>3, <1>4 DEF Before
  <2>2. Before(r)' = Of(q.action)
    BY <1>1, <1>3, <1>4 DEF Before, Of
  <2>3. \A e \in log : Told(Before(e)') = Told(Before(e))
    BY <2>1
  <2>4. Told(Of(q.action)) = {} => Of(q.action) = {}
    BY DEF Told
  <2> QED
    BY <1>1, <1>4, <1>7, <2>1, <2>2, <2>4 DEF IInv, OneStory, Told
<1>9. OneByOne'
  BY <1>1, <1>3, <1>4 DEF IInv, OneByOne
<1>10. StatusIsLast'
  <2>1. \A a : a # q.action => Of(a)' = Of(a)
    BY <1>1, <1>4 DEF Of
  <2>2. Told(Of(q.action))' = Told(Of(q.action)) \cup {q.status}
    BY <1>1, <1>4 DEF Of, Told
  <2>3. Tells(q.status, Told(Of(q.action))')
    BY <1>2, <1>5, <1>7, <2>2 DEF IInv, StatusIsLast, Tells, Follows, Terminal
  <2>4. ASSUME NEW a \in LiveActions, a # q.action
        PROVE  Tells(lifecycle'[a].status, Told(Of(a))')
    <3>1. Told(Of(a))' = Told(Of(a)) /\ lifecycle'[a] = lifecycle[a]
      BY <1>6, <2>1, <2>4 DEF Told
    <3> QED
      BY <1>5, <3>1 DEF IInv, StatusIsLast
  <2>5. lifecycle'[q.action].status = q.status
    BY <1>6
  <2> QED
    BY <1>1, <2>3, <2>4, <2>5 DEF StatusIsLast, Tells
<1>11. /\ receipts' \subseteq all /\ Cardinality(receipts') <= MaxReceipts
       /\ \A e \in all : e.action \in LiveActions => e \in receipts'
  <2>1. Differ(all)
    <3>1. \A e \in log : e.action = r.action => e.status \notin Terminal \cup {r.status}
      BY <1>4, <1>7 DEF Of, Told
    <3>2. Differ(log) /\ LiveReceipts \subseteq log
      BY StoryDiffers DEF IInv, TypeOK, LiveReceipts
    <3> QED
      BY <3>1, <3>2 DEF Differ
  <2>2. \A e \in all : e.status \in Reported /\ e.nth \in Nat
    BY <1>3, <1>4 DEF IInv, TypeOK, LiveReceipts, Receipt
  <2>3. IsFiniteSet(all) /\ Cardinality(all) <= MaxReceipts + 1
    BY PrunedFacts, OneMore, LimitsAreNumbers
  <2>4. (\A e \in all : e.action \in LiveActions) => Cardinality(all) <= MaxReceipts
    BY <2>1, <2>2, PrunedFacts, ThreeOfAPlan
  <2>5. \A e \in all : e.nth \in Nat
    BY <2>2
  <2>6. receipts' = WithinReceiptBound(all)
    BY <1>1
  <2> HIDE DEF all
  <2>7. /\ WithinReceiptBound(all) \subseteq all
        /\ Cardinality(WithinReceiptBound(all)) <= MaxReceipts
        /\ \A e \in all : e.action \in LiveActions => e \in WithinReceiptBound(all)
    BY <2>3, <2>4, <2>5, ReceiptBoundFacts, Zenon
  <2> QED
    BY <2>6, <2>7, Zenon
<1>12. facts' \subseteq LiveFacts \cup {r} /\ (r \in facts' => q.status \in Terminal)
       /\ Cardinality(facts') <= MaxFacts
  <2>1. IsFiniteSet(LiveFacts \cup {r}) /\ Cardinality(LiveFacts \cup {r}) <= MaxFacts + 1
    BY PrunedFacts, OneMore, SizeAssumption
  <2>2. \A f \in LiveFacts \cup {r} : f.nth \in Nat
    BY <1>3, <1>4 DEF IInv, TypeOK, LiveFacts, Receipt
  <2>3. r \notin LiveFacts
    BY <1>3 DEF IInv, TypeOK, LiveFacts
  <2> QED
    BY <1>1, <2>1, <2>2, <2>3, FactBoundFacts, PrunedFacts
<1>13. TypeOK'
  <2>1. Bounded'
    BY <1>17, <1>11, <1>12, PrunedFacts DEF Bounded
  <2>2. \A a \in DOMAIN lifecycle' : lifecycle'[a] \in Lifecycle'
    <3>1. now' = now /\ now \in 0..now /\ q.id \in Nat
      BY <1>1, <1>3 DEF IInv, TypeOK, Request
    <3>2. \A a \in LiveActions : lifecycle[a] \in Lifecycle /\ Lifecycle' = Lifecycle
      BY <1>5, <3>1 DEF IInv, TypeOK, Lifecycle
    <3>3. lifecycle'[q.action] \in Lifecycle
      BY <1>2, <1>4, <1>6, <3>1, <3>2 DEF Lifecycle
    <3>4. ASSUME NEW a \in LiveActions PROVE lifecycle'[a] \in Lifecycle'
      <4>1. CASE a = q.action
        BY <1>5, <1>2, <3>2, <3>3, <4>1
      <4>2. CASE a # q.action
        BY <1>6, <3>2, <4>2
      <4> QED
        BY <4>1, <4>2
    <3> QED
      BY <1>17, <3>4
  <2>3. log' \subseteq Receipt'
    BY <1>1, <1>3, <1>4 DEF IInv, TypeOK, Receipt, Actions
  <2>4. receipts' \subseteq log' /\ facts' \subseteq log'
    BY <1>1, <1>11, <1>12 DEF IInv, TypeOK, LiveReceipts, LiveFacts
  <2>5. DOMAIN lifecycle' \subseteq Actions'
    BY <1>1, <1>5 DEF IInv, TypeOK, Actions
  <2>6. closed' \in BOOLEAN /\ now' \in Nat /\ intent' \in Seq({"emitting", "sent", "lost"})
    BY <1>1 DEF IInv, TypeOK
  <2> QED
    BY <2>1, <2>2, <2>3, <2>4, <2>5, <2>6 DEF TypeOK
<1>14. IdsDiffer'
  BY <1>2, <1>4, <1>11 DEF IInv, IdsDiffer, LiveReceipts
<1>15. FactsAreEnds'
  BY <1>4, <1>12 DEF IInv, FactsAreEnds, LiveFacts
<1>16. PlansKeepReceipts'
  BY <1>1, <1>5, <1>11 DEF IInv, PlansKeepReceipts, LiveReceipts
<1> QED
  BY <1>8, <1>9, <1>10, <1>13, <1>14, <1>15, <1>16 DEF IInv

-----------------------------------------------------------------------------
LEMMA NextInvariant == IInv /\ [Next]_vars => IInv'
<1> SUFFICES ASSUME IInv, [Next]_vars PROVE IInv'
  OBVIOUS
<1>1. CASE \E s \in Subjects : Plan(s)
  BY <1>1, PlanKeeps
<1>2. CASE \E a \in Actions : IntentSent(a) \/ IntentRefused(a) \/ EmitCancelled(a)
  BY <1>2, IntentSettledKeeps
<1>3. CASE \E q \in Request : intent[q.action] = "sent" /\ (RecordResult(q) \/ RefuseResult(q))
  BY <1>3, RecordResultKeeps, PruneKeeps DEF RefuseResult
<1>4. CASE UNCHANGED vars
  BY <1>4, DroppingKeeps DEF vars, IInv, TypeOK, LiveReceipts
<1> QED
  BY <1>1, <1>2, <1>3, <1>4, PruneKeeps, CloseSessionKeeps, TickKeeps DEF Next

(* A fact is the only end of its action, and the one its plan shows. *)
LEMMA FactsFollow == IInv => FactsAreVerified
<1> SUFFICES ASSUME IInv, NEW f \in facts PROVE
             /\ f.status \in Terminal
             /\ \A g \in log : g.action = f.action /\ g.status \in Terminal => g = f
             /\ f.action \in DOMAIN lifecycle => lifecycle[f.action].status = f.status
  BY DEF IInv, FactsAreVerified
<1>1. f \in log /\ f.status \in Terminal
  BY DEF IInv, TypeOK, FactsAreEnds
<1>2. \A g \in log : g.action = f.action /\ g.status \in Terminal => g = f
  BY <1>1, StoryDiffers DEF IInv, Differ
<1>3. ASSUME f.action \in DOMAIN lifecycle PROVE lifecycle[f.action].status = f.status
  <2>1. f.status \in Told(Of(f.action)) \cap Terminal
    BY <1>1 DEF Told, Of
  <2>2. lifecycle[f.action].status \in Reported \cup {"planned"}
    BY <1>3 DEF IInv, TypeOK, Lifecycle
  <2> QED
    BY <1>3, <2>1, <2>2 DEF IInv, StatusIsLast, Tells, Reported, Terminal
<1> QED
  BY <1>1, <1>2, <1>3

(* The receipt is at hand, alone with its id, and its plan is there. *)
LEMMA RetriesFollow == IInv => RetriesAreIdempotent
<1> SUFFICES ASSUME IInv, NEW e \in log, ~closed, e.action \in LiveActions,
                    now - e.at <= LifecycleTTL
             PROVE  Answer(e) = "idempotent"
  BY DEF RetriesAreIdempotent
<1>1. e \in LiveReceipts
  BY DEF IInv, PlansKeepReceipts, LiveReceipts, LiveActions
<1>2. \A r \in LiveReceipts : r.id = e.id => r = e
  BY <1>1 DEF IInv, IdsDiffer, LiveReceipts
<1>3. {r \in LiveReceipts : r.id = e.id} = {e}
  BY <1>1, <1>2
<1> QED
  BY <1>3 DEF Answer

(* The strengthened invariant of plans, receipts and facts. *)
THEOREM InvariantHolds == Spec => []IInv
<1>1. Init => IInv
  BY InitInvariant
<1>2. IInv /\ [Next]_vars => IInv'
  BY NextInvariant
<1> QED
  BY <1>1, <1>2, PTL DEF Spec

(* What is recorded of an action tells one story of the state machine of
   _action_transition_allowed, however receipts are repeated, reordered or altered. *)
THEOREM OneStoryHolds == Spec => []OneStory
<1>1. IInv => OneStory
  BY DEF IInv
<1> QED
  BY <1>1, InvariantHolds, PTL

(* A verified fact is the one outcome of its action. *)
THEOREM FactsAreVerifiedHolds == Spec => []FactsAreVerified
<1>1. IInv => FactsAreVerified
  BY FactsFollow
<1> QED
  BY <1>1, InvariantHolds, PTL

(* Within its lifetime a receipt of a plan that is still there can be repeated: the
   limits on receipts never take it, whatever their values. *)
THEOREM RetriesAreIdempotentHolds == Spec => []RetriesAreIdempotent
<1>1. IInv => RetriesAreIdempotent
  BY RetriesFollow
<1> QED
  BY <1>1, InvariantHolds, PTL

-----------------------------------------------------------------------------
(* The actions implement ActionStory. *)
Tale  == [a \in Actions |-> Told({e \in log : e.action = a})]
Known == {<<f.action, f.status>> : f \in facts}

LEMMA TaleIsTold == \A a \in Actions : Tale[a] = Told(Of(a))
BY DEF Tale, Of

LEMMA TaleStays == ASSUME UNCHANGED log, Actions' = Actions PROVE UNCHANGED Tale
BY DEF Tale, Told

LEMMA FactsAreForgotten == ASSUME facts' \subseteq facts PROVE Known' \subseteq Known
BY DEF Known

LEMMA PlanIsAsked ==
    ASSUME IInv, NEW subject \in Subjects, Plan(subject)
    PROVE  \E a \in 1..MaxPlans : Story!Ask(a)
<1> DEFINE a == Len(intent) + 1
<1>1. /\ intent \in Seq({"emitting", "sent", "lost"}) /\ Len(intent) \in Nat /\ Len(intent) < MaxPlans
      /\ log \subseteq Receipt /\ ~closed /\ UNCHANGED <<closed, log>>
      /\ intent' = Append(intent, "emitting") /\ facts' = LiveFacts
  BY DEF IInv, TypeOK, Plan
<1>2. Actions' = Actions \cup {a} /\ a \notin Actions /\ a \in 1..MaxPlans
  BY <1>1, TimeAssumption DEF Actions
<1> HIDE DEF a
<1>3. Told({e \in log : e.action = a}) = {}
  BY <1>1, <1>2 DEF Told, Receipt
<1>4. DOMAIN Tale = Actions
  BY DEF Tale
<1>5. Tale' = [b \in Actions \cup {a} |-> IF b = a THEN {} ELSE Tale[b]]
  <2>1. Tale' = [b \in Actions \cup {a} |-> Told({e \in log : e.action = b})]
    BY <1>1, <1>2 DEF Tale, Told
  <2>2. \A b \in Actions \cup {a} :
            Told({e \in log : e.action = b}) = IF b = a THEN {} ELSE Tale[b]
    BY <1>2, <1>3 DEF Tale
  <2> QED
    BY <2>1, <2>2
<1>6. Known' \subseteq Known
  BY <1>1, FactsAreForgotten DEF LiveFacts
<1> QED
  BY <1>1, <1>2, <1>4, <1>5, <1>6 DEF Story!Ask, Tale, Known

(* A new fact is not the one that its limit takes. *)
LEMMA NewestFactStays ==
    ASSUME NEW F, IsFiniteSet(F), NEW r, r \notin F, \A f \in F : f.nth \in Nat /\ f.nth < r.nth,
           r.nth \in Nat, Cardinality(F) <= MaxFacts
    PROVE  r \in WithinFactBound(F \cup {r}) /\ WithinFactBound(F \cup {r}) \subseteq F \cup {r}
<1> DEFINE all == F \cup {r}
<1>1. IsFiniteSet(all) /\ Cardinality(all) = Cardinality(F) + 1 /\ Cardinality(F) \in Nat
  BY FS_AddElement, FS_CardinalityType
<1>2. CASE Cardinality(all) <= MaxFacts
  BY <1>2 DEF WithinFactBound
<1>3. CASE ~(Cardinality(all) <= MaxFacts)
  <2>1. F # {}
    <3>1. Cardinality(F) # 0
      BY <1>1, <1>3, SizeAssumption
    <3> QED
      BY <3>1, FS_EmptySet
  <2>2. PICK f \in F : \A g \in F : f.nth <= g.nth
    <3> DEFINE T == {g.nth : g \in F}
    <3>1. T \in SUBSET Nat /\ T # {}
      BY <2>1
    <3>2. PICK n \in T : \A m \in T : n <= m
      BY <3>1, LeastNatural, Zenon
    <3> QED
      BY <3>2
  <2>3. f \in all /\ \A g \in all : f.nth <= g.nth
    BY <2>2
  <2>4. \A g \in all : First(all).nth <= g.nth
    BY <2>3 DEF First
  <2>5. First(all) # r
    BY <2>2, <2>4
  <2> HIDE DEF all
  <2>6. WithinFactBound(all) = all \ {First(all)}
    BY <1>3 DEF WithinFactBound
  <2> QED
    BY <2>5, <2>6 DEF all
<1> QED
  BY <1>2, <1>3

LEMMA ResultIsTold ==
    ASSUME IInv, NEW q \in Request, RecordResult(q)
    PROVE  q.action \in Actions /\ q.status \in Reported /\ Story!Tell(q.action, q.status)
<1>0. PICK r : r = [id |-> q.id, action |-> q.action, subject |-> q.subject, status |-> q.status,
                    at |-> now, nth |-> Recorded + 1]
  OBVIOUS
<1>1. /\ Answer(q) = "recorded" /\ log' = log \cup {r} /\ UNCHANGED <<closed, intent>>
      /\ facts' = IF q.status \in Terminal THEN WithinFactBound(LiveFacts \cup {r}) ELSE LiveFacts
  BY <1>0 DEF RecordResult
<1>2. /\ ~closed /\ q.action \in DOMAIN lifecycle
      /\ q.status \in Follows(lifecycle[q.action].status)
  BY <1>1 DEF Answer, LiveActions
<1>3. /\ r.action = q.action /\ r.status = q.status /\ r.nth = Recorded + 1
      /\ q.action \in Actions /\ q.status \in Reported
  BY <1>0 DEF Request
<1>4. q.status \in Story!MayFollow(Tale[q.action])
  <2>1. Tells(lifecycle[q.action].status, Tale[q.action])
    BY <1>2, <1>3, TaleIsTold DEF IInv, StatusIsLast
  <2>2. lifecycle[q.action].status \in Reported \cup {"planned"}
    BY <1>2 DEF IInv, TypeOK, Lifecycle
  <2>3. CASE lifecycle[q.action].status = "planned"
    BY <1>2, <2>1, <2>3 DEF Tells, Follows, Story!MayFollow
  <2>4. CASE lifecycle[q.action].status = "accepted"
    BY <1>2, <2>1, <2>4 DEF Tells, Follows, Story!MayFollow
  <2>5. CASE lifecycle[q.action].status = "started"
    BY <1>2, <2>1, <2>5 DEF Tells, Follows, Story!MayFollow, Terminal, Story!Outcomes
  <2>6. CASE lifecycle[q.action].status \in Terminal
    BY <1>2, <2>6 DEF Follows, Terminal
  <2> QED
    BY <2>2, <2>3, <2>4, <2>5, <2>6 DEF Reported
<1>5. Tale' = [Tale EXCEPT ![q.action] = @ \cup {q.status}]
  <2>1. Actions' = Actions /\ DOMAIN Tale = Actions
    BY <1>1 DEF Actions, Tale
  <2>2. Tale' = [a \in Actions |-> Told({e \in log \cup {r} : e.action = a})]
    BY <1>1, <2>1 DEF Tale, Told
  <2>3. \A a \in Actions : Told({e \in log \cup {r} : e.action = a}) =
                               IF a = q.action THEN Tale[a] \cup {q.status} ELSE Tale[a]
    BY <1>3 DEF Tale, Told
  <2> QED
    BY <2>1, <2>2, <2>3 DEF Tale
<1>6. IF q.status \in Terminal
      THEN <<q.action, q.status>> \in Known' /\ Known' \subseteq Known \cup {<<q.action, q.status>>}
      ELSE Known' \subseteq Known
  <2>1. CASE q.status \in Terminal
    <3>1. /\ IsFiniteSet(LiveFacts) /\ Cardinality(LiveFacts) <= MaxFacts
          /\ LiveFacts \subseteq facts /\ LiveFacts \subseteq log
      BY PrunedFacts DEF LiveFacts, IInv, TypeOK
    <3>2. Recorded \in Nat /\ \A e \in log : e.nth \in 1..Recorded
      BY FS_CardinalityType DEF IInv, OneByOne, Recorded, TypeOK, Receipt
    <3>3. r \notin LiveFacts /\ r.nth \in Nat /\ \A f \in LiveFacts : f.nth \in Nat /\ f.nth < r.nth
      BY <1>3, <3>1, <3>2
    <3>4. r \in facts' /\ facts' \subseteq facts \cup {r}
      BY <1>1, <2>1, <3>1, <3>3, NewestFactStays
    <3> QED
      BY <1>3, <2>1, <3>4 DEF Known
  <2>2. CASE q.status \notin Terminal
    BY <1>1, <2>2, FactsAreForgotten DEF LiveFacts
  <2> QED
    BY <2>1, <2>2
<1>7. Terminal = Story!Outcomes
  BY DEF Terminal, Story!Outcomes
<1> QED
  BY <1>1, <1>2, <1>3, <1>4, <1>5, <1>6, <1>7 DEF Story!Tell, Tale, Known

LEMMA StepIsTold == IInv /\ [Next]_vars => [Story!Next]_<<Tale, Known, closed>>
<1> SUFFICES ASSUME IInv, [Next]_vars
             PROVE  Story!Next \/ UNCHANGED <<Tale, Known, closed>>
  OBVIOUS
<1>1. CASE \E s \in Subjects : Plan(s)
  BY <1>1, PlanIsAsked DEF Story!Next
<1>2. CASE Prune
  <2>1. Known' \subseteq Known /\ UNCHANGED <<Tale, closed>>
    BY <1>2, TaleStays, FactsAreForgotten DEF Prune, LiveFacts, Actions
  <2>2. Story!Forget
    BY <2>1 DEF Story!Forget, Tale, Known
  <2> QED
    BY <2>2 DEF Story!Next
<1>3. CASE \E q \in Request : RecordResult(q)
  <2>1. PICK q \in Request : RecordResult(q)
    BY <1>3
  <2>2. q.action \in Actions /\ q.status \in Reported /\ Story!Tell(q.action, q.status)
    BY <2>1, ResultIsTold
  <2>3. Reported = {"accepted", "started"} \cup Story!Outcomes /\ DOMAIN Tale = Actions
    BY DEF Reported, Terminal, Story!Outcomes, Tale
  <2> QED
    BY <2>2, <2>3 DEF Story!Next, Tale
<1>4. CASE CloseSession
  <2>1. UNCHANGED Tale /\ Known' = {} /\ ~closed /\ closed' = TRUE
    BY <1>4, TaleStays DEF CloseSession, Actions, Known
  <2>2. Story!Close
    BY <2>1 DEF Story!Close, Tale, Known
  <2> QED
    BY <2>2 DEF Story!Next
<1>5. CASE \/ \E a \in Actions : IntentSent(a) \/ IntentRefused(a) \/ EmitCancelled(a)
           \/ Tick \/ UNCHANGED vars
  <2>1. ASSUME NEW a \in Actions, IntentSent(a) \/ IntentRefused(a) \/ EmitCancelled(a)
        PROVE  UNCHANGED <<log, facts, closed>> /\ Actions' = Actions
    <3>1. intent \in Seq({"emitting", "sent", "lost"})
      BY DEF IInv, TypeOK
    <3>2. Len(intent') = Len(intent)
      BY <2>1, <3>1 DEF IntentSent, IntentRefused, EmitCancelled
    <3>3. UNCHANGED <<log, facts, closed>>
      BY <2>1 DEF IntentSent, IntentRefused, EmitCancelled
    <3> QED
      BY <3>2, <3>3 DEF Actions
  <2>2. Tick \/ UNCHANGED vars => UNCHANGED <<log, facts, closed>> /\ Actions' = Actions
    BY DEF Tick, vars, Actions
  <2>3. UNCHANGED <<log, facts, closed>> /\ Actions' = Actions
    BY <1>5, <2>1, <2>2
  <2> QED
    BY <2>3, TaleStays DEF Known
<1> QED
  BY <1>1, <1>2, <1>3, <1>4, <1>5 DEF Next, RefuseResult

(* Expiry, limits, repeated and altered receipts and lost intents are invisible in what
   the session tells of its actions (plan_action, record_action_result,
   discard_action_plan, _prune_action_state_unlocked): every step of it is one of
   ActionStory. *)
THEOREM TellsItsStoryHolds == Spec => TellsItsStory
<1>1. Init => Story!Init
  <2> SUFFICES ASSUME Init PROVE Story!Init
    OBVIOUS
  <2>1. Actions = {} /\ facts = {} /\ closed = FALSE
    BY DEF Init, Actions
  <2>2. Tale = [a \in {} |-> {}] /\ Known = {}
    BY <2>1 DEF Tale, Known
  <2> QED
    BY <2>1, <2>2 DEF Story!Init, Tale, Known
<1>2. IInv /\ [Next]_vars => [Story!Next]_<<Tale, Known, closed>>
  BY StepIsTold
<1> QED
  BY <1>1, <1>2, InvariantHolds, PTL DEF Spec, TellsItsStory, Story!Spec, Tale, Known
==============================================================================
