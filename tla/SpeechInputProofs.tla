--------------------------- MODULE SpeechInputProofs ---------------------------
(***************************************************************************)
(* The safety properties of SpeechInput for any number of chunks, places   *)
(* of the queue and uploads under way.                                     *)
(***************************************************************************)
EXTENDS SpeechInput, TLAPS

-----------------------------------------------------------------------------
(* The inductive invariant. *)

SessionInv ==
    /\ socket \in {"none", "open", "lost", "closed"}
    /\ started \in BOOLEAN /\ inputEnded \in BOOLEAN /\ finishSent \in BOOLEAN /\ hypothesis \in BOOLEAN
    /\ pending \in Seq(Chunks) /\ Len(pending) <= MaxPending
    /\ wire \in Seq(Chunks)
    /\ sentences \in 0..Len(wire)
    /\ terminal \in {"none", "final", "error"}
    /\ transcript \in Seq(Chunks)

TypeInv ==
    /\ streaming \in BOOLEAN /\ current \in BOOLEAN /\ audioEnded \in BOOLEAN
    /\ overlapped \in BOOLEAN /\ streamClosed \in BOOLEAN /\ final \in BOOLEAN
    /\ received \in Nat /\ snapshot \in Nat /\ putting \subseteq Chunks
    /\ queue \in Seq(Chunks \cup {EndMark}) /\ Len(queue) <= QueueSize
    /\ failure \in {"none", "queue_backpressure", "provider_error", "final_timeout", "cancelled"}
    /\ hand \in Chunks \cup {EndMark} /\ (feeder = "feeding" => hand \in Chunks)
    /\ main \in {"none", "grace", "expired", "file", "say", "over"}
    /\ formal \in {"none", "stream", "file", "failed"}
    /\ endPhase \in {"none", "put", "over"}

(* The worker, its feeder and its connection.  A feeder that takes chunks belongs to a
   worker that listens. *)
WorkerInv ==
    /\ worker \in {"none", "opening", "starting", "listening", "unwinding", "done"}
    /\ cause \in {"none", "final", "error", "cancelled"}
    /\ feeder \in {"none", "waiting", "feeding", "ending", "over"}
    /\ worker \in {"none", "opening", "starting"} => feeder = "none"
    /\ worker = "listening" => feeder \in {"waiting", "feeding", "ending", "over"}
    /\ worker = "unwinding" => feeder \in {"ending", "over"}
    /\ worker = "done" => feeder \in {"none", "over"}
    /\ worker = "none" <=> ~streaming
    /\ final => worker \in {"unwinding", "done"}
    /\ worker \in {"none", "opening"} => socket = "none"
    /\ worker = "done" => socket \in {"none", "closed"} \/ feeder = "none"
    /\ feeder = "none" => wire = << >>

(* The runner goes on from the stream when its worker is over, and has a final or not. *)
RunnerInv ==
    /\ main # "none" => endPhase = "over"
    /\ endPhase # "none" => audioEnded
    /\ main \in {"say", "file"} \/ formal # "none" => WorkerOver
    /\ main = "say" => final
    /\ main = "file" => ~final
    /\ formal # "none" => main = "over"
    /\ formal \in {"file", "failed"} => ~final

(* What was sent, and what waits for the task to start behind it, is in order. *)
SentInv ==
    ~overlapped => /\ \A i \in 1..Len(wire) : wire[i] = i
                   /\ \A i \in 1..Len(pending) : pending[i] = Len(wire) + i
                   /\ \A i \in 1..Len(transcript) : transcript[i] = i

(* While the stream is fed, the hand of the feeder, the queue and the upload that waits
   for room go on where the chunks sent before end. *)
Fed == worker \in {"opening", "starting"} \/ feeder \in {"waiting", "feeding"}
Before == Len(wire) + Len(pending)
InHand == IF feeder = "feeding" THEN 1 ELSE 0
Marked == \E i \in DOMAIN queue : queue[i] = EndMark
QueueInv ==
    ~overlapped =>
        /\ audioEnded => putting = {}
        /\ Fed =>
             /\ hand = IF feeder = "feeding" THEN Before + 1 ELSE EndMark
             /\ \A i \in DOMAIN queue : queue[i] # EndMark => queue[i] = Before + InHand + i
             /\ Marked => endPhase = "over"
             /\ putting \in {{}, {received}}
             /\ ~Marked => received = Before + InHand + Len(queue) + (IF putting = {} THEN 0 ELSE 1)

IInv == SessionInv /\ TypeInv /\ WorkerInv /\ RunnerInv /\ SentInv /\ QueueInv

(* Two sequences of chunks one after the other. *)
LEMMA Joined ==
    ASSUME NEW a \in Seq(Chunks), NEW b \in Seq(Chunks)
    PROVE  a \o b \in Seq(Chunks) /\ Len(a \o b) = Len(a) + Len(b)
OBVIOUS

(* Two sequences one after the other, the second goes on where the first ends. *)
LEMMA InOrder ==
    ASSUME NEW a \in Seq(Chunks), NEW b \in Seq(Chunks),
           \A i \in 1..Len(a) : a[i] = i, \A i \in 1..Len(b) : b[i] = Len(a) + i
    PROVE  \A i \in 1..Len(a \o b) : (a \o b)[i] = i
<1> HIDE DEF Chunks
<1>1. Len(a \o b) = Len(a) + Len(b)
  OBVIOUS
<1>2. \A i \in 1..Len(a) : (a \o b)[i] = a[i]
  OBVIOUS
<1>3. \A i \in (Len(a) + 1)..(Len(a) + Len(b)) : (a \o b)[i] = b[i - Len(a)]
  OBVIOUS
<1>4. \A i \in (Len(a) + 1)..(Len(a) + Len(b)) : i - Len(a) \in 1..Len(b) /\ Len(a) + (i - Len(a)) = i
  OBVIOUS
<1> QED
  BY <1>1, <1>2, <1>3, <1>4

(* What the wire carries after the buffer and the chunks at hand are sent. *)
LEMMA Sent ==
    ASSUME SessionInv, NEW chunks \in Seq(Chunks), Send(chunks)
    PROVE  /\ wire' \in Seq(Chunks) /\ pending' = << >>
           /\ Len(wire') = Len(wire) + Len(pending) + Len(chunks)
           /\ (/\ \A i \in 1..Len(wire) : wire[i] = i
               /\ \A i \in 1..Len(pending) : pending[i] = Len(wire) + i
               /\ \A i \in 1..Len(chunks) : chunks[i] = Len(wire) + Len(pending) + i)
                 => \A i \in 1..Len(wire') : wire'[i] = i
<1> DEFINE flushed == wire \o pending
<1>1. wire \in Seq(Chunks) /\ pending \in Seq(Chunks)
  BY DEF SessionInv
<1>2. flushed \in Seq(Chunks) /\ Len(flushed) = Len(wire) + Len(pending)
  BY <1>1
<1>3. wire' = flushed \o chunks /\ pending' = << >>
  BY DEF Send
<1>4. wire' \in Seq(Chunks) /\ Len(wire') = Len(flushed) + Len(chunks)
  BY <1>2, <1>3, Joined
<1>5. ASSUME \A i \in 1..Len(wire) : wire[i] = i,
             \A i \in 1..Len(pending) : pending[i] = Len(wire) + i,
             \A i \in 1..Len(chunks) : chunks[i] = Len(wire) + Len(pending) + i
      PROVE  \A i \in 1..Len(wire') : wire'[i] = i
  <2>1. \A i \in 1..Len(flushed) : flushed[i] = i
    BY <1>1, <1>5, InOrder
  <2>2. \A i \in 1..Len(chunks) : chunks[i] = Len(flushed) + i
    BY <1>2, <1>5
  <2> HIDE DEF flushed
  <2> QED
    BY <1>2, <1>3, <2>1, <2>2, InOrder
<1> QED
  BY <1>2, <1>3, <1>4, <1>5

(* The terminal event of a session. *)
LEMMA TerminalPushed ==
    ASSUME SessionInv, NEW kind \in {"final", "error"}, PushTerminal(kind)
    PROVE  /\ terminal' \in {"none", "final", "error"} /\ hypothesis' \in BOOLEAN
           /\ transcript' \in Seq(Chunks)
<1>1. CASE terminal # "none"
  BY <1>1 DEF PushTerminal, SessionInv
<1>2. CASE terminal = "none"
  <2>1. /\ terminal' = kind /\ hypothesis' = FALSE
        /\ transcript' = IF kind = "final" THEN SubSeq(wire, 1, sentences) ELSE << >>
    BY <1>2 DEF PushTerminal
  <2>2. SubSeq(wire, 1, sentences) \in Seq(Chunks)
    <3>1. wire \in Seq(Chunks) /\ sentences \in Nat /\ sentences <= Len(wire)
      BY DEF SessionInv
    <3> HIDE DEF Chunks
    <3> QED
      BY <3>1
  <2>3. << >> \in Seq(Chunks)
    OBVIOUS
  <2>4. transcript' \in Seq(Chunks)
    BY <2>1, <2>2, <2>3
  <2> QED
    BY <2>1, <2>4
<1> QED
  BY <1>1, <1>2

(* A worker that was cancelled takes nothing more from the queue. *)
LEMMA WorkerCancelled ==
    ASSUME WorkerInv, CancelWorker
    PROVE  ~Fed'
<1>1. CASE worker \in {"listening", "unwinding"}
  BY <1>1 DEF WorkerInv, CancelWorker, FeederCancelled, Fed
<1>2. CASE worker \notin {"listening", "unwinding"}
  BY <1>2 DEF WorkerInv, CancelWorker, Fed
<1> QED
  BY <1>1, <1>2

LEMMA StreamCancelled ==
    ASSUME TypeInv, WorkerInv, CancelStream
    PROVE  /\ ~Fed' /\ streamClosed' \in BOOLEAN /\ UNCHANGED <<hand, final>>
           /\ feeder' # "feeding"
           /\ queue' \in Seq(Chunks \cup {EndMark}) /\ Len(queue') <= QueueSize
<1>1. ~Fed' /\ feeder' # "feeding"
  BY WorkerCancelled DEF CancelStream, Fed
<1>2. streamClosed' \in BOOLEAN /\ UNCHANGED <<hand, final>>
  BY DEF CancelStream
<1>3. queue' \in {<<EndMark>>, queue}
  BY DEF CancelStream
<1>4. <<EndMark>> \in Seq(Chunks \cup {EndMark}) /\ Len(<<EndMark>>) = 1
  OBVIOUS
<1>5. queue' \in Seq(Chunks \cup {EndMark}) /\ Len(queue') <= QueueSize
  <2>1. 1 <= QueueSize
    BY QueueAssumption
  <2>2. CASE queue' = <<EndMark>>
    BY <1>4, <2>1, <2>2
  <2>3. CASE queue' = queue
    BY <2>3 DEF TypeInv
  <2> QED
    BY <1>3, <2>2, <2>3
<1> QED
  BY <1>1, <1>2, <1>5

(* A stream that is not fed any more only has to have no upload behind end. *)
LEMMA NotFed ==
    ASSUME ~Fed', (~overlapped /\ audioEnded => putting = {})'
    PROVE  QueueInv'
BY DEF QueueInv

(* A chunk or the end behind the queue. *)
LEMMA Queued ==
    ASSUME TypeInv, NEW c \in Chunks \cup {EndMark}, Room, queue' = Append(queue, c)
    PROVE  /\ queue' \in Seq(Chunks \cup {EndMark}) /\ Len(queue') = Len(queue) + 1
           /\ Len(queue') <= QueueSize
           /\ DOMAIN queue = 1..Len(queue) /\ DOMAIN queue' = 1..(Len(queue) + 1)
           /\ queue'[Len(queue) + 1] = c
           /\ \A i \in 1..Len(queue) : queue'[i] = queue[i]
<1> DEFINE S == Chunks \cup {EndMark}
<1>1. queue \in Seq(S) /\ c \in S /\ Len(queue) < QueueSize
  BY DEF TypeInv, Room
<1> HIDE DEF S
<1>2. /\ Append(queue, c) \in Seq(S) /\ Len(Append(queue, c)) = Len(queue) + 1
      /\ Append(queue, c)[Len(queue) + 1] = c
      /\ \A i \in 1..Len(queue) : Append(queue, c)[i] = queue[i]
  BY <1>1
<1>3. queue' \in Seq(S) /\ Len(queue') = Len(queue) + 1
  BY <1>2
<1>4. Len(queue') <= QueueSize
  BY <1>1, <1>3, QueueAssumption
<1>5. DOMAIN queue = 1..Len(queue) /\ DOMAIN queue' = 1..(Len(queue) + 1)
  BY <1>1, <1>3
<1> QED
  BY <1>2, <1>3, <1>4, <1>5 DEF S

(* The head of the queue leaves it. *)
LEMMA Unqueued ==
    ASSUME TypeInv, queue # << >>, queue' = Tail(queue)
    PROVE  /\ Head(queue) = queue[1] /\ queue[1] \in Chunks \cup {EndMark}
           /\ queue' \in Seq(Chunks \cup {EndMark}) /\ Len(queue') = Len(queue) - 1
           /\ Len(queue') <= QueueSize /\ Len(queue) \in Nat \ {0}
           /\ DOMAIN queue = 1..Len(queue) /\ DOMAIN queue' = 1..(Len(queue) - 1)
           /\ \A i \in 1..(Len(queue) - 1) : queue'[i] = queue[i + 1]
<1> DEFINE S == Chunks \cup {EndMark}
<1>1. queue \in Seq(S) /\ Len(queue) <= QueueSize
  BY DEF TypeInv
<1> HIDE DEF S
<1>2. Len(queue) \in Nat \ {0} /\ Head(queue) = queue[1] /\ queue[1] \in S
  BY <1>1
<1>3. /\ Tail(queue) \in Seq(S) /\ Len(Tail(queue)) = Len(queue) - 1
      /\ \A i \in 1..(Len(queue) - 1) : Tail(queue)[i] = queue[i + 1]
  BY <1>1, <1>2
<1>4. DOMAIN queue = 1..Len(queue) /\ DOMAIN queue' = 1..(Len(queue) - 1)
  BY <1>1, <1>3
<1>5. Len(queue') <= QueueSize
  BY <1>1, <1>2, <1>3, QueueAssumption
<1> QED
  BY <1>2, <1>3, <1>4, <1>5 DEF S

LEMMA UploadKeeps == ASSUME IInv, Upload PROVE IInv'
<1>1. SessionInv'
  BY DEF IInv, SessionInv, Upload, sessionVars, turnVars, queueVars, workerVars, runnerVars,
         WorkerOver
<1>2. TypeInv'
  <2>1. received' \in Chunks /\ received' \in Nat
    BY PendingAssumption DEF IInv, TypeInv, Upload, Chunks
  <2>2. putting' \subseteq Chunks
    BY <2>1 DEF IInv, TypeInv, Upload
  <2>3. overlapped' \in BOOLEAN
    BY DEF IInv, TypeInv, Upload
  <2> QED
    BY <2>1, <2>2, <2>3 DEF IInv, TypeInv, Upload, turnVars, queueVars, workerVars, runnerVars
<1>3. WorkerInv'
  BY DEF IInv, WorkerInv, Upload, sessionVars, turnVars, queueVars, workerVars, runnerVars,
         WorkerOver
<1>4. RunnerInv'
  BY DEF IInv, RunnerInv, WorkerOver, Upload, sessionVars, turnVars, queueVars, workerVars,
         runnerVars
<1>5. SentInv'
  BY DEF IInv, SentInv, SessionInv, Upload, sessionVars, turnVars, queueVars, workerVars,
         runnerVars, WorkerOver
<1>6. QueueInv'
  <2>1. SUFFICES ASSUME ~overlapped', Fed' PROVE QueueInv'
    <3>1. audioEnded' = FALSE
      BY DEF Upload, IInv, TypeInv
    <3> QED
      BY <2>1, <3>1, NotFed DEF QueueInv
  <2>2. Fed /\ ~WorkerOver
    BY <2>1 DEF Fed, WorkerOver, IInv, WorkerInv, Upload, workerVars
  <2>3. /\ ~overlapped /\ putting = {} /\ putting' = {received'} /\ received' = received + 1
        /\ ~audioEnded /\ ~audioEnded'
    BY <2>1, <2>2 DEF Upload
  <2>4. ~Marked
    BY <2>2, <2>3 DEF IInv, QueueInv, RunnerInv, Marked
  <2>5. UNCHANGED <<Fed, Before, InHand, Marked, queue, hand, feeder, endPhase>>
    BY DEF Upload, Fed, Before, InHand, Marked, sessionVars, workerVars, queueVars, runnerVars
  <2>6. /\ hand = IF feeder = "feeding" THEN Before + 1 ELSE EndMark
        /\ \A i \in DOMAIN queue : queue[i] # EndMark => queue[i] = Before + InHand + i
        /\ received = Before + InHand + Len(queue)
    BY <2>2, <2>3, <2>4 DEF IInv, QueueInv, TypeInv, SessionInv, Before, InHand
  <2>7. received' = Before + InHand + Len(queue) + 1
    BY <2>3, <2>6
  <2>8. (received = Before + InHand + Len(queue) + (IF putting = {} THEN 0 ELSE 1))'
    BY <2>3, <2>5, <2>7
  <2> QED
    BY <2>3, <2>4, <2>5, <2>6, <2>8 DEF QueueInv
<1> QED
  BY <1>1, <1>2, <1>3, <1>4, <1>5, <1>6 DEF IInv

LEMMA PutKeeps == ASSUME NEW c \in Chunks, IInv, Put(c) PROVE IInv'
<1>1. SessionInv'
  BY DEF IInv, SessionInv, Put, sessionVars, turnVars, workerVars, runnerVars, Room
<1>2. TypeInv'
  <2>1. queue' \in Seq(Chunks \cup {EndMark}) /\ Len(queue') <= QueueSize
    BY Queued DEF IInv, Put
  <2> QED
    BY <2>1 DEF IInv, TypeInv, Put, turnVars, workerVars, runnerVars
<1>3. WorkerInv'
  BY DEF IInv, WorkerInv, Put, sessionVars, turnVars, workerVars, runnerVars, Room
<1>4. RunnerInv'
  BY DEF IInv, RunnerInv, WorkerOver, Put, sessionVars, turnVars, workerVars, runnerVars, Room
<1>5. SentInv'
  BY DEF IInv, SentInv, SessionInv, Put, sessionVars, turnVars, workerVars, runnerVars, Room
<1>6. QueueInv'
  <2>1. SUFFICES ASSUME ~overlapped', Fed' PROVE QueueInv'
    <3>1. ~overlapped' /\ audioEnded' => putting' = {}
      BY DEF Put, IInv, QueueInv
    <3> QED
      BY <2>1, <3>1, NotFed DEF QueueInv
  <2>2. ~overlapped /\ Fed
    BY <2>1 DEF Put, Fed, workerVars
  <2>3. /\ c = received /\ putting = {received} /\ putting' = {} /\ ~audioEnded /\ endPhase = "none"
        /\ c \in Chunks /\ received \in Nat
    BY <2>2 DEF IInv, QueueInv, TypeInv, RunnerInv, Put
  <2>4. ~Marked /\ received = Before + InHand + Len(queue) + 1
    BY <2>2, <2>3 DEF IInv, QueueInv
  <2>5. /\ Len(queue') = Len(queue) + 1
        /\ DOMAIN queue = 1..Len(queue) /\ DOMAIN queue' = 1..(Len(queue) + 1)
        /\ queue'[Len(queue) + 1] = c
        /\ \A i \in 1..Len(queue) : queue'[i] = queue[i]
    BY Queued DEF IInv, Put
  <2>6. ~Marked'
    <3>1. c # EndMark
      BY DEF Chunks, EndMark
    <3>2. \A i \in 1..Len(queue) : queue[i] # EndMark
      BY <2>4, <2>5 DEF Marked
    <3>3. Len(queue) \in Nat
      BY DEF IInv, TypeInv
    <3> QED
      BY <2>5, <3>1, <3>2, <3>3 DEF Marked
  <2>7. UNCHANGED <<Fed, Before, InHand, hand, feeder, endPhase, received, audioEnded>>
    BY DEF Put, Fed, Before, InHand, sessionVars, workerVars, runnerVars
  <2>8. \A i \in DOMAIN queue' : queue'[i] = Before + InHand + i
    <3>1. \A i \in 1..Len(queue) : queue[i] = Before + InHand + i
      BY <2>2, <2>4, <2>5 DEF IInv, QueueInv, Marked
    <3>2. queue'[Len(queue) + 1] = Before + InHand + (Len(queue) + 1)
      BY <2>3, <2>4, <2>5 DEF Before, InHand, IInv, SessionInv, TypeInv
    <3>3. Len(queue) \in Nat
      BY DEF IInv, TypeInv
    <3> QED
      BY <2>5, <3>1, <3>2, <3>3
  <2>9. (received = Before + InHand + Len(queue) + (IF putting = {} THEN 0 ELSE 1))'
    <3>1. Before \in Nat /\ InHand \in Nat /\ Len(queue) \in Nat
      BY DEF Before, InHand, IInv, SessionInv, TypeInv
    <3>2. received' = Before + InHand + (Len(queue) + 1) + 0
      BY <2>4, <2>7, <3>1
    <3> QED
      BY <2>3, <2>5, <2>7, <3>2
  <2> QED
    BY <2>2, <2>3, <2>4, <2>6, <2>7, <2>8, <2>9 DEF IInv, QueueInv
<1> QED
  BY <1>1, <1>2, <1>3, <1>4, <1>5, <1>6 DEF IInv

LEMMA PutTimesOutKeeps == ASSUME NEW c \in Chunks, IInv, PutTimesOut(c) PROVE IInv'
<1>1. SessionInv'
  BY DEF IInv, SessionInv, PutTimesOut, sessionVars, turnVars, runnerVars, Room, FeederCancelled,
         CancelWorker, CancelStream
<1>2. TypeInv'
  <2>0. current' \in BOOLEAN /\ main' \in {"none", "grace", "expired", "file", "say", "over"}
    BY DEF IInv, TypeInv, PutTimesOut, turnVars, runnerVars
  <2>1. /\ streamClosed' \in BOOLEAN /\ UNCHANGED <<hand, final>> /\ feeder' # "feeding"
        /\ queue' \in Seq(Chunks \cup {EndMark}) /\ Len(queue') <= QueueSize
    BY StreamCancelled DEF IInv, PutTimesOut
  <2> QED
    BY <2>0, <2>1 DEF IInv, TypeInv, PutTimesOut, turnVars, runnerVars
<1>3. WorkerInv'
  BY DEF IInv, WorkerInv, PutTimesOut, sessionVars, turnVars, runnerVars, Room, FeederCancelled,
         CancelWorker, CancelStream
<1>4. RunnerInv'
  BY DEF IInv, RunnerInv, WorkerOver, PutTimesOut, sessionVars, turnVars, runnerVars, Room,
         FeederCancelled, CancelWorker, CancelStream
<1>5. SentInv'
  BY DEF IInv, SentInv, SessionInv, PutTimesOut, sessionVars, turnVars, runnerVars, Room,
         FeederCancelled, CancelWorker, CancelStream
<1>6. QueueInv'
  <2>1. ~Fed'
    BY StreamCancelled DEF IInv, PutTimesOut
  <2>2. ~overlapped' /\ audioEnded' => putting' = {}
    BY DEF IInv, QueueInv, PutTimesOut
  <2> QED
    BY <2>1, <2>2, NotFed
<1> QED
  BY <1>1, <1>2, <1>3, <1>4, <1>5, <1>6 DEF IInv

LEMMA EndAudioKeeps == ASSUME IInv, EndAudio PROVE IInv'
<1>1. SessionInv'
  BY DEF IInv, SessionInv, EndAudio, sessionVars, turnVars, workerVars, WorkerOver, Launch
<1>2. TypeInv'
  BY DEF IInv, TypeInv, SessionInv, EndAudio, sessionVars, turnVars, workerVars, WorkerOver, Launch
<1>3. WorkerInv'
  BY DEF IInv, WorkerInv, EndAudio, sessionVars, turnVars, workerVars, WorkerOver, Launch
<1>4. RunnerInv'
  <2>1. endPhase = "none" /\ main = "none" /\ formal = "none"
    BY DEF IInv, RunnerInv, EndAudio
  <2>2. audioEnded' = TRUE /\ UNCHANGED <<worker, final, streaming>>
    BY DEF EndAudio, workerVars, turnVars
  <2>3. CASE endPhase' = "put" /\ UNCHANGED <<main, formal>>
    BY <2>1, <2>2, <2>3 DEF RunnerInv
  <2>4. CASE Launch
    <3>1. endPhase' = "over" /\ formal' = "none" /\ main' \in {"over", "grace", "file"}
      BY <2>1, <2>4 DEF Launch
    <3>2. main' = "file" => worker = "none" /\ ~final
      BY <2>4 DEF Launch, IInv, WorkerInv, TypeInv
    <3> QED
      BY <2>2, <3>1, <3>2 DEF RunnerInv, WorkerOver
  <2> QED
    BY <2>3, <2>4 DEF EndAudio
<1>5. SentInv'
  BY DEF IInv, SentInv, SessionInv, EndAudio, sessionVars, turnVars, workerVars, WorkerOver, Launch
<1>6. QueueInv'
  <2>1. SUFFICES ASSUME ~overlapped' PROVE QueueInv'
    BY DEF QueueInv
  <2>2. ~overlapped /\ putting = {} /\ putting' = {}
    BY <2>1 DEF EndAudio
  <2>3. Fed => ~Marked
    BY <2>2 DEF IInv, QueueInv, RunnerInv, EndAudio
  <2>4. UNCHANGED <<Fed, Before, InHand, Marked, queue, hand, feeder, received>>
    BY DEF EndAudio, Fed, Before, InHand, Marked, sessionVars, workerVars
  <2> QED
    BY <2>2, <2>3, <2>4 DEF IInv, QueueInv
<1> QED
  BY <1>1, <1>2, <1>3, <1>4, <1>5, <1>6 DEF IInv

LEMMA PutEndKeeps == ASSUME IInv, PutEnd PROVE IInv'
<1>1. SessionInv'
  BY DEF IInv, SessionInv, PutEnd, sessionVars, turnVars, uploadVars, workerVars, Room, Launch
<1>2. TypeInv'
  <2>1. queue' \in Seq(Chunks \cup {EndMark}) /\ Len(queue') <= QueueSize
    BY Queued DEF IInv, PutEnd
  <2>2. main' \in {"over", "grace", "file"} /\ endPhase' = "over" /\ formal' = formal
    BY DEF PutEnd, Launch
  <2> QED
    BY <2>1, <2>2 DEF IInv, TypeInv, PutEnd, turnVars, uploadVars, workerVars
<1>3. WorkerInv'
  BY DEF IInv, WorkerInv, PutEnd, sessionVars, turnVars, uploadVars, workerVars, Room, Launch
<1>4. RunnerInv'
  <2>1. endPhase = "put" /\ main = "none" /\ formal = "none" /\ audioEnded
    BY DEF IInv, RunnerInv, PutEnd
  <2>2. UNCHANGED <<worker, final, streaming, audioEnded>>
    BY DEF PutEnd, workerVars, turnVars, uploadVars
  <2>3. endPhase' = "over" /\ formal' = "none" /\ main' \in {"over", "grace", "file"}
    BY <2>1 DEF PutEnd, Launch
  <2>4. main' = "file" => worker = "none" /\ ~final
    BY DEF PutEnd, Launch, IInv, WorkerInv, TypeInv
  <2> QED
    BY <2>1, <2>2, <2>3, <2>4 DEF RunnerInv, WorkerOver
<1>5. SentInv'
  BY DEF IInv, SentInv, SessionInv, PutEnd, sessionVars, turnVars, uploadVars, workerVars, Room,
         Launch
<1>6. QueueInv'
  <2>1. /\ queue' = Append(queue, EndMark) /\ endPhase' = "over"
        /\ UNCHANGED <<overlapped, audioEnded, putting, received, hand, feeder, Fed, Before, InHand>>
    BY DEF PutEnd, Launch, sessionVars, uploadVars, workerVars, Fed, Before, InHand
  <2>2. queue \in Seq(Chunks \cup {EndMark})
    BY DEF IInv, TypeInv
  <2>3. /\ Len(queue') = Len(queue) + 1 /\ queue'[Len(queue) + 1] = EndMark
        /\ \A i \in DOMAIN queue' : queue'[i] # EndMark => i \in DOMAIN queue /\ queue'[i] = queue[i]
    BY <2>1, <2>2 DEF EndMark, Chunks
  <2>4. Marked'
    BY <2>1, <2>2, <2>3 DEF Marked
  <2> QED
    BY <2>1, <2>3, <2>4 DEF IInv, QueueInv
<1> QED
  BY <1>1, <1>2, <1>3, <1>4, <1>5, <1>6 DEF IInv

LEMMA RevokeKeeps == ASSUME IInv, Revoke PROVE IInv'
<1>1. SessionInv'
  BY DEF IInv, SessionInv, Revoke, sessionVars, uploadVars, FeederCancelled, CancelWorker,
         CancelStream
<1>2. TypeInv'
  <2>0. current' \in BOOLEAN /\ main' \in {"none", "grace", "expired", "file", "say", "over"}
    BY DEF IInv, TypeInv, Revoke, turnVars, runnerVars
  <2>1. /\ streamClosed' \in BOOLEAN /\ UNCHANGED <<hand, final>> /\ feeder' # "feeding"
        /\ queue' \in Seq(Chunks \cup {EndMark}) /\ Len(queue') <= QueueSize
    BY StreamCancelled DEF IInv, Revoke
  <2> QED
    BY <2>0, <2>1 DEF IInv, TypeInv, Revoke, uploadVars
<1>3. WorkerInv'
  BY DEF IInv, WorkerInv, Revoke, sessionVars, uploadVars, FeederCancelled, CancelWorker,
         CancelStream
<1>4. RunnerInv'
  BY DEF IInv, RunnerInv, WorkerOver, Revoke, sessionVars, uploadVars, FeederCancelled,
         CancelWorker, CancelStream
<1>5. SentInv'
  BY DEF IInv, SentInv, SessionInv, Revoke, sessionVars, uploadVars, FeederCancelled, CancelWorker,
         CancelStream
<1>6. QueueInv'
  <2>1. ~Fed'
    BY StreamCancelled DEF IInv, Revoke
  <2>2. ~overlapped' /\ audioEnded' => putting' = {}
    BY DEF IInv, QueueInv, Revoke, uploadVars
  <2> QED
    BY <2>1, <2>2, NotFed
<1> QED
  BY <1>1, <1>2, <1>3, <1>4, <1>5, <1>6 DEF IInv

LEMMA TaskStartedKeeps ==
    ASSUME IInv, TaskStarted, UNCHANGED <<turnVars, uploadVars, queueVars, workerVars, runnerVars>>
    PROVE  IInv'
<1>1. SessionInv'
  BY DEF IInv, SessionInv, TaskStarted, turnVars, uploadVars, queueVars, workerVars, runnerVars
<1>2. TypeInv'
  BY DEF IInv, TypeInv, SessionInv, TaskStarted, turnVars, uploadVars, queueVars, workerVars,
         runnerVars
<1>3. WorkerInv'
  BY DEF IInv, WorkerInv, TaskStarted, turnVars, uploadVars, queueVars, workerVars, runnerVars
<1>4. RunnerInv'
  BY DEF IInv, RunnerInv, WorkerOver, TaskStarted, turnVars, uploadVars, queueVars, workerVars,
         runnerVars
<1>5. SentInv'
  BY DEF IInv, SentInv, SessionInv, TaskStarted, turnVars, uploadVars, queueVars, workerVars,
         runnerVars
<1>6. QueueInv'
  BY DEF IInv, QueueInv, SessionInv, TypeInv, Fed, Before, InHand, Marked, TaskStarted, turnVars,
         uploadVars, queueVars, workerVars, runnerVars
<1> QED
  BY <1>1, <1>2, <1>3, <1>4, <1>5, <1>6 DEF IInv

LEMMA SentenceEndsKeeps ==
    ASSUME IInv, SentenceEnds, UNCHANGED <<turnVars, uploadVars, queueVars, workerVars, runnerVars>>
    PROVE  IInv'
<1>1. SessionInv'
  BY DEF IInv, SessionInv, SentenceEnds, turnVars, uploadVars, queueVars, workerVars, runnerVars
<1>2. TypeInv'
  BY DEF IInv, TypeInv, SessionInv, SentenceEnds, turnVars, uploadVars, queueVars, workerVars,
         runnerVars
<1>3. WorkerInv'
  BY DEF IInv, WorkerInv, SentenceEnds, turnVars, uploadVars, queueVars, workerVars, runnerVars
<1>4. RunnerInv'
  BY DEF IInv, RunnerInv, WorkerOver, SentenceEnds, turnVars, uploadVars, queueVars, workerVars,
         runnerVars
<1>5. SentInv'
  BY DEF IInv, SentInv, SessionInv, SentenceEnds, turnVars, uploadVars, queueVars, workerVars,
         runnerVars
<1>6. QueueInv'
  BY DEF IInv, QueueInv, SessionInv, TypeInv, Fed, Before, InHand, Marked, SentenceEnds, turnVars,
         uploadVars, queueVars, workerVars, runnerVars
<1> QED
  BY <1>1, <1>2, <1>3, <1>4, <1>5, <1>6 DEF IInv

LEMMA PartialKeeps ==
    ASSUME IInv, Partial, UNCHANGED <<turnVars, uploadVars, queueVars, workerVars, runnerVars>>
    PROVE  IInv'
<1>1. SessionInv'
  BY DEF IInv, SessionInv, Partial, turnVars, uploadVars, queueVars, workerVars, runnerVars
<1>2. TypeInv'
  BY DEF IInv, TypeInv, SessionInv, Partial, turnVars, uploadVars, queueVars, workerVars, runnerVars
<1>3. WorkerInv'
  BY DEF IInv, WorkerInv, Partial, turnVars, uploadVars, queueVars, workerVars, runnerVars
<1>4. RunnerInv'
  BY DEF IInv, RunnerInv, WorkerOver, Partial, turnVars, uploadVars, queueVars, workerVars,
         runnerVars
<1>5. SentInv'
  BY DEF IInv, SentInv, SessionInv, Partial, turnVars, uploadVars, queueVars, workerVars, runnerVars
<1>6. QueueInv'
  BY DEF IInv, QueueInv, SessionInv, TypeInv, Fed, Before, InHand, Marked, Partial, turnVars,
         uploadVars, queueVars, workerVars, runnerVars
<1> QED
  BY <1>1, <1>2, <1>3, <1>4, <1>5, <1>6 DEF IInv

LEMMA TaskFinishedKeeps ==
    ASSUME IInv, TaskFinished, UNCHANGED <<turnVars, uploadVars, queueVars, workerVars, runnerVars>>
    PROVE  IInv'
<1>1. SessionInv'
  <2>1. \E kind \in {"final", "error"} : PushTerminal(kind)
    BY DEF TaskFinished
  <2>2. /\ terminal' \in {"none", "final", "error"} /\ hypothesis' \in BOOLEAN
        /\ transcript' \in Seq(Chunks)
    BY <2>1, TerminalPushed DEF IInv
  <2> QED
    BY <2>2 DEF IInv, SessionInv, TaskFinished
<1>2. TypeInv'
  BY DEF IInv, TypeInv, SessionInv, TaskFinished, PushTerminal, turnVars, uploadVars, queueVars,
         workerVars, runnerVars
<1>3. WorkerInv'
  BY DEF IInv, WorkerInv, TaskFinished, PushTerminal, turnVars, uploadVars, queueVars, workerVars,
         runnerVars
<1>4. RunnerInv'
  BY DEF IInv, RunnerInv, WorkerOver, TaskFinished, PushTerminal, turnVars, uploadVars, queueVars,
         workerVars, runnerVars
<1>5. SentInv'
  BY DEF IInv, SentInv, SessionInv, TaskFinished, PushTerminal, turnVars, uploadVars, queueVars,
         workerVars, runnerVars
<1>6. QueueInv'
  BY DEF IInv, QueueInv, SessionInv, TypeInv, Fed, Before, InHand, Marked, TaskFinished,
         PushTerminal, turnVars, uploadVars, queueVars, workerVars, runnerVars
<1> QED
  BY <1>1, <1>2, <1>3, <1>4, <1>5, <1>6 DEF IInv

LEMMA TaskFailedKeeps ==
    ASSUME IInv, TaskFailed, UNCHANGED <<turnVars, uploadVars, queueVars, workerVars, runnerVars>>
    PROVE  IInv'
<1>1. SessionInv'
  <2>1. \E kind \in {"final", "error"} : PushTerminal(kind)
    BY DEF TaskFailed
  <2>2. /\ terminal' \in {"none", "final", "error"} /\ hypothesis' \in BOOLEAN
        /\ transcript' \in Seq(Chunks)
    BY <2>1, TerminalPushed DEF IInv
  <2> QED
    BY <2>2 DEF IInv, SessionInv, TaskFailed
<1>2. TypeInv'
  BY DEF IInv, TypeInv, SessionInv, TaskFailed, PushTerminal, turnVars, uploadVars, queueVars,
         workerVars, runnerVars
<1>3. WorkerInv'
  BY DEF IInv, WorkerInv, TaskFailed, PushTerminal, turnVars, uploadVars, queueVars, workerVars,
         runnerVars
<1>4. RunnerInv'
  BY DEF IInv, RunnerInv, WorkerOver, TaskFailed, PushTerminal, turnVars, uploadVars, queueVars,
         workerVars, runnerVars
<1>5. SentInv'
  BY DEF IInv, SentInv, SessionInv, TaskFailed, PushTerminal, turnVars, uploadVars, queueVars,
         workerVars, runnerVars
<1>6. QueueInv'
  BY DEF IInv, QueueInv, SessionInv, TypeInv, Fed, Before, InHand, Marked, TaskFailed,
         PushTerminal, turnVars, uploadVars, queueVars, workerVars, runnerVars
<1> QED
  BY <1>1, <1>2, <1>3, <1>4, <1>5, <1>6 DEF IInv

LEMMA ConnectionLostKeeps ==
    ASSUME IInv, ConnectionLost, UNCHANGED <<turnVars, uploadVars, queueVars, workerVars, runnerVars>>
    PROVE  IInv'
<1>1. SessionInv'
  <2>1. \E kind \in {"final", "error"} : PushTerminal(kind)
    BY DEF ConnectionLost
  <2>2. /\ terminal' \in {"none", "final", "error"} /\ hypothesis' \in BOOLEAN
        /\ transcript' \in Seq(Chunks)
    BY <2>1, TerminalPushed DEF IInv
  <2> QED
    BY <2>2 DEF IInv, SessionInv, ConnectionLost
<1>2. TypeInv'
  BY DEF IInv, TypeInv, SessionInv, ConnectionLost, PushTerminal, turnVars, uploadVars, queueVars,
         workerVars, runnerVars
<1>3. WorkerInv'
  BY DEF IInv, WorkerInv, ConnectionLost, PushTerminal, turnVars, uploadVars, queueVars,
         workerVars, runnerVars
<1>4. RunnerInv'
  BY DEF IInv, RunnerInv, WorkerOver, ConnectionLost, PushTerminal, turnVars, uploadVars,
         queueVars, workerVars, runnerVars
<1>5. SentInv'
  BY DEF IInv, SentInv, SessionInv, ConnectionLost, PushTerminal, turnVars, uploadVars, queueVars,
         workerVars, runnerVars
<1>6. QueueInv'
  BY DEF IInv, QueueInv, SessionInv, TypeInv, Fed, Before, InHand, Marked, ConnectionLost,
         PushTerminal, turnVars, uploadVars, queueVars, workerVars, runnerVars
<1> QED
  BY <1>1, <1>2, <1>3, <1>4, <1>5, <1>6 DEF IInv

LEMMA OpenSessionKeeps == ASSUME IInv, OpenSession PROVE IInv'
<1>1. SessionInv'
  BY DEF IInv, SessionInv, OpenSession, turnVars, uploadVars, queueVars, runnerVars, Open
<1>2. TypeInv'
  BY DEF IInv, TypeInv, SessionInv, OpenSession, turnVars, uploadVars, queueVars, runnerVars, Open
<1>3. WorkerInv'
  BY DEF IInv, WorkerInv, OpenSession, turnVars, uploadVars, queueVars, runnerVars, Open
<1>4. RunnerInv'
  BY DEF IInv, RunnerInv, WorkerOver, OpenSession, turnVars, uploadVars, queueVars, runnerVars, Open
<1>5. SentInv'
  BY DEF IInv, SentInv, SessionInv, OpenSession, turnVars, uploadVars, queueVars, runnerVars, Open
<1>6. QueueInv'
  <2>1. Fed /\ UNCHANGED <<feeder, Before, InHand, Marked>>
    BY DEF OpenSession, Open, Fed, Before, InHand, Marked, queueVars
  <2>2. UNCHANGED <<overlapped, audioEnded, putting, received, queue, hand, endPhase>>
    BY DEF OpenSession, uploadVars, queueVars, runnerVars
  <2> QED
    BY <2>1, <2>2 DEF IInv, QueueInv
<1> QED
  BY <1>1, <1>2, <1>3, <1>4, <1>5, <1>6 DEF IInv

LEMMA SessionStartedKeeps == ASSUME IInv, SessionStarted PROVE IInv'
<1>1. SessionInv'
  BY DEF IInv, SessionInv, SessionStarted, sessionVars
<1>2. TypeInv'
  BY DEF IInv, TypeInv, SessionStarted, turnVars, uploadVars, queueVars, runnerVars
<1>3. WorkerInv'
  BY DEF IInv, WorkerInv, SessionStarted, sessionVars, turnVars
<1>4. RunnerInv'
  BY DEF IInv, RunnerInv, WorkerOver, SessionStarted, uploadVars, runnerVars
<1>5. SentInv'
  BY DEF IInv, SentInv, SessionStarted, sessionVars, uploadVars
<1>6. QueueInv'
  <2>1. Fed /\ feeder = "none" /\ feeder' = "waiting"
    BY DEF SessionStarted, Fed, IInv, WorkerInv
  <2>2. InHand = 0 /\ InHand' = 0 /\ UNCHANGED <<Before, Marked>>
    BY <2>1 DEF InHand, Before, Marked, SessionStarted, sessionVars, queueVars
  <2>3. UNCHANGED <<overlapped, audioEnded, putting, received, queue, hand, endPhase>>
    BY DEF SessionStarted, uploadVars, queueVars, runnerVars
  <2> QED
    BY <2>1, <2>2, <2>3 DEF IInv, QueueInv
<1> QED
  BY <1>1, <1>2, <1>3, <1>4, <1>5, <1>6 DEF IInv

LEMMA OpenFailsKeeps == ASSUME IInv, OpenFails PROVE IInv'
<1>1. SessionInv'
  BY DEF IInv, SessionInv, OpenFails, sessionVars, turnVars, uploadVars, runnerVars
<1>2. TypeInv'
  BY DEF IInv, TypeInv, SessionInv, OpenFails, sessionVars, turnVars, uploadVars, runnerVars
<1>3. WorkerInv'
  BY DEF IInv, WorkerInv, OpenFails, sessionVars, turnVars, uploadVars, runnerVars
<1>4. RunnerInv'
  BY DEF IInv, RunnerInv, WorkerOver, OpenFails, sessionVars, turnVars, uploadVars, runnerVars
<1>5. SentInv'
  BY DEF IInv, SentInv, SessionInv, OpenFails, sessionVars, turnVars, uploadVars, runnerVars
<1>6. QueueInv'
  BY DEF IInv, QueueInv, SessionInv, TypeInv, Fed, Before, InHand, Marked, OpenFails, sessionVars,
         turnVars, uploadVars, runnerVars
<1> QED
  BY <1>1, <1>2, <1>3, <1>4, <1>5, <1>6 DEF IInv

LEMMA TakePartialKeeps == ASSUME IInv, TakePartial PROVE IInv'
<1>1. SessionInv'
  BY DEF IInv, SessionInv, TakePartial, turnVars, uploadVars, queueVars, workerVars, runnerVars
<1>2. TypeInv'
  BY DEF IInv, TypeInv, SessionInv, TakePartial, turnVars, uploadVars, queueVars, workerVars,
         runnerVars
<1>3. WorkerInv'
  BY DEF IInv, WorkerInv, TakePartial, turnVars, uploadVars, queueVars, workerVars, runnerVars
<1>4. RunnerInv'
  BY DEF IInv, RunnerInv, WorkerOver, TakePartial, turnVars, uploadVars, queueVars, workerVars,
         runnerVars
<1>5. SentInv'
  BY DEF IInv, SentInv, SessionInv, TakePartial, turnVars, uploadVars, queueVars, workerVars,
         runnerVars
<1>6. QueueInv'
  BY DEF IInv, QueueInv, SessionInv, TypeInv, Fed, Before, InHand, Marked, TakePartial, turnVars,
         uploadVars, queueVars, workerVars, runnerVars
<1> QED
  BY <1>1, <1>2, <1>3, <1>4, <1>5, <1>6 DEF IInv

LEMMA TakeTerminalKeeps == ASSUME IInv, TakeTerminal PROVE IInv'
<1>1. SessionInv'
  BY DEF IInv, SessionInv, TakeTerminal, sessionVars, turnVars, uploadVars, queueVars, runnerVars,
         FeederCancelled
<1>2. TypeInv'
  BY DEF IInv, TypeInv, SessionInv, TakeTerminal, sessionVars, turnVars, uploadVars, queueVars,
         runnerVars, FeederCancelled
<1>3. WorkerInv'
  <2>1. /\ worker = "listening" /\ worker' = "unwinding" /\ streaming' = streaming
        /\ UNCHANGED <<socket>>
    BY DEF TakeTerminal, turnVars, sessionVars
  <2>2. cause' \in {"final", "error"}
    BY DEF TakeTerminal, IInv, SessionInv
  <2>3. feeder' \in {"ending", "over"}
    BY <2>1 DEF TakeTerminal, FeederCancelled, IInv, WorkerInv
  <2> QED
    BY <2>1, <2>2, <2>3 DEF IInv, WorkerInv
<1>4. RunnerInv'
  BY DEF IInv, RunnerInv, WorkerOver, TakeTerminal, sessionVars, turnVars, uploadVars, queueVars,
         runnerVars, FeederCancelled
<1>5. SentInv'
  BY DEF IInv, SentInv, SessionInv, TakeTerminal, sessionVars, turnVars, uploadVars, queueVars,
         runnerVars, FeederCancelled
<1>6. QueueInv'
  BY DEF IInv, QueueInv, SessionInv, TypeInv, Fed, Before, InHand, Marked, TakeTerminal,
         sessionVars, turnVars, uploadVars, queueVars, runnerVars, FeederCancelled
<1> QED
  BY <1>1, <1>2, <1>3, <1>4, <1>5, <1>6 DEF IInv

LEMMA FinishWorkerKeeps == ASSUME IInv, FinishWorker PROVE IInv'
<1>1. SessionInv'
  <2>1. PushTerminal("error")
    BY DEF FinishWorker, Close
  <2>2. /\ terminal' \in {"none", "final", "error"} /\ hypothesis' \in BOOLEAN
        /\ transcript' \in Seq(Chunks)
    BY <2>1, TerminalPushed DEF IInv
  <2> QED
    BY <2>2 DEF IInv, SessionInv, FinishWorker, Close
<1>2. TypeInv'
  BY DEF IInv, TypeInv, SessionInv, FinishWorker, turnVars, uploadVars, runnerVars, PushTerminal,
         Close
<1>3. WorkerInv'
  BY DEF IInv, WorkerInv, FinishWorker, turnVars, uploadVars, runnerVars, PushTerminal, Close
<1>4. RunnerInv'
  BY DEF IInv, RunnerInv, WorkerOver, FinishWorker, turnVars, uploadVars, runnerVars, PushTerminal,
         Close
<1>5. SentInv'
  BY DEF IInv, SentInv, SessionInv, FinishWorker, turnVars, uploadVars, runnerVars, PushTerminal,
         Close
<1>6. QueueInv'
  BY DEF IInv, QueueInv, SessionInv, TypeInv, Fed, Before, InHand, Marked, FinishWorker, turnVars,
         uploadVars, runnerVars, PushTerminal, Close
<1> QED
  BY <1>1, <1>2, <1>3, <1>4, <1>5, <1>6 DEF IInv

LEMMA FeederTakesKeeps == ASSUME IInv, FeederTakes PROVE IInv'
<1>1. SessionInv'
  BY DEF IInv, SessionInv, FeederTakes, sessionVars, turnVars, uploadVars, runnerVars
<1>2. TypeInv'
  <2>1. /\ queue' \in Seq(Chunks \cup {EndMark}) /\ Len(queue') <= QueueSize
        /\ hand' \in Chunks \cup {EndMark}
    BY Unqueued DEF IInv, FeederTakes
  <2>2. feeder' = "feeding" => hand' \in Chunks
    BY <2>1 DEF FeederTakes
  <2> QED
    BY <2>1, <2>2 DEF IInv, TypeInv, FeederTakes, turnVars, uploadVars, runnerVars
<1>3. WorkerInv'
  BY DEF IInv, WorkerInv, FeederTakes, sessionVars, turnVars, uploadVars, runnerVars
<1>4. RunnerInv'
  BY DEF IInv, RunnerInv, WorkerOver, FeederTakes, sessionVars, turnVars, uploadVars, runnerVars
<1>5. SentInv'
  BY DEF IInv, SentInv, SessionInv, FeederTakes, sessionVars, turnVars, uploadVars, runnerVars
<1>6. QueueInv'
  <2>1. SUFFICES ASSUME ~overlapped', Fed' PROVE QueueInv'
    <3>1. ~overlapped' /\ audioEnded' => putting' = {}
      BY DEF FeederTakes, IInv, QueueInv, uploadVars
    <3> QED
      BY <2>1, <3>1, NotFed DEF QueueInv
  <2>2. /\ ~overlapped /\ Fed /\ feeder = "waiting" /\ InHand = 0 /\ Before \in Nat
    BY <2>1 DEF FeederTakes, Fed, uploadVars, InHand, Before, IInv, SessionInv
  <2>3. /\ Head(queue) = queue[1] /\ Len(queue') = Len(queue) - 1 /\ Len(queue) \in Nat \ {0}
        /\ DOMAIN queue = 1..Len(queue) /\ DOMAIN queue' = 1..(Len(queue) - 1)
        /\ \A i \in 1..(Len(queue) - 1) : queue'[i] = queue[i + 1]
    BY Unqueued DEF IInv, FeederTakes
  <2>4. feeder' = "feeding" /\ hand' # EndMark /\ hand' = queue[1] /\ InHand' = 1
    BY <2>1, <2>2, <2>3 DEF FeederTakes, Fed, IInv, WorkerInv, InHand
  <2>5. UNCHANGED <<Before, overlapped, audioEnded, putting, received, endPhase>>
    BY DEF FeederTakes, Before, sessionVars, uploadVars, runnerVars
  <2>6. \A i \in DOMAIN queue : queue[i] # EndMark => queue[i] = Before + i
    BY <2>2 DEF IInv, QueueInv
  <2>7. hand' = Before + 1
    BY <2>3, <2>4, <2>6
  <2>8. \A i \in DOMAIN queue' : queue'[i] # EndMark => queue'[i] = Before + 1 + i
    <3>1. SUFFICES ASSUME NEW i \in 1..(Len(queue) - 1), queue[i + 1] # EndMark
                   PROVE  queue[i + 1] = Before + 1 + i
      BY <2>3
    <3>2. i + 1 \in DOMAIN queue
      BY <2>3
    <3>3. queue[i + 1] = Before + (i + 1)
      BY <2>6, <3>1, <3>2
    <3> QED
      BY <2>2, <3>3
  <2>9. Marked <=> Marked'
    <3>1. Marked' => Marked
      BY <2>3 DEF Marked
    <3>2. Marked => Marked'
      <4>1. SUFFICES ASSUME NEW i \in 1..Len(queue), queue[i] = EndMark PROVE Marked'
        BY <2>3 DEF Marked
      <4>2. i - 1 \in 1..(Len(queue) - 1) /\ (i - 1) + 1 = i
        BY <2>3, <2>4, <4>1
      <4>3. queue'[i - 1] = EndMark
        BY <2>3, <4>1, <4>2
      <4> QED
        BY <2>3, <4>2, <4>3 DEF Marked
    <3> QED
      BY <3>1, <3>2
  <2>10. /\ Marked => endPhase = "over"
         /\ putting \in {{}, {received}}
         /\ ~Marked => received = Before + Len(queue) + (IF putting = {} THEN 0 ELSE 1)
    BY <2>2 DEF IInv, QueueInv
  <2>11. ~Marked' => received' = (Before + InHand + Len(queue) + (IF putting = {} THEN 0 ELSE 1))'
    BY <2>2, <2>3, <2>4, <2>5, <2>9, <2>10
  <2> QED
    BY <2>2, <2>4, <2>5, <2>7, <2>8, <2>9, <2>10, <2>11 DEF IInv, QueueInv
<1> QED
  BY <1>1, <1>2, <1>3, <1>4, <1>5, <1>6 DEF IInv

LEMMA FeederFeedsKeeps == ASSUME IInv, FeederFeeds PROVE IInv'
<1> DEFINE fed == started /\ Send(<<hand>>)
           waits == ~started /\ pending' = Append(pending, hand) /\ UNCHANGED wire
<1>0. /\ hand \in Chunks /\ wire \in Seq(Chunks) /\ pending \in Seq(Chunks) /\ Len(pending) <= MaxPending
      /\ <<hand>> \in Seq(Chunks) /\ Len(<<hand>>) = 1
  BY DEF IInv, TypeInv, SessionInv, FeederFeeds
<1>a. ASSUME Feed(hand)
      PROVE  /\ fed \/ waits
             /\ UNCHANGED <<socket, started, inputEnded, finishSent, sentences, hypothesis, terminal, transcript>>
             /\ ~started => Len(pending) < MaxPending
  BY <1>0, <1>a, PendingAssumption DEF Feed, FeedRefused
<1>b. ASSUME fed
      PROVE  wire' \in Seq(Chunks) /\ pending' = << >> /\ Len(wire') = Len(wire) + Len(pending) + 1
  BY <1>0, <1>b, Sent DEF IInv
<1>c. ASSUME waits
      PROVE  /\ pending' \in Seq(Chunks) /\ Len(pending') = Len(pending) + 1 /\ wire' = wire
             /\ pending'[Len(pending) + 1] = hand /\ \A i \in 1..Len(pending) : pending'[i] = pending[i]
  <2> HIDE DEF Chunks
  <2> QED
    BY <1>0, <1>c
<1> HIDE DEF fed, waits
<1>d. \/ Feed(hand) /\ feeder' = "waiting"
      \/ FeedRefused /\ feeder' = "ending" /\ UNCHANGED sessionVars
  BY DEF FeederFeeds
<1>e. feeder = "feeding" /\ hand' = EndMark /\ worker' = worker
  BY DEF FeederFeeds

<1>1. SessionInv'
  <2>1. CASE Feed(hand) /\ fed
    <3>1. Len(pending') <= MaxPending /\ pending' \in Seq(Chunks)
      BY <1>b, <2>1, PendingAssumption
    <3>2. sentences \in 0..Len(wire')
      BY <1>0, <1>b, <2>1 DEF IInv, SessionInv
    <3> QED
      BY <1>a, <1>b, <2>1, <3>1, <3>2 DEF IInv, SessionInv
  <2>2. CASE Feed(hand) /\ waits
    <3>1. ~started
      BY <2>2 DEF waits
    <3>2. Len(pending') <= MaxPending
      BY <1>0, <1>a, <1>c, <2>2, <3>1, PendingAssumption
    <3> QED
      BY <1>a, <1>c, <2>2, <3>2 DEF IInv, SessionInv
  <2>3. CASE UNCHANGED sessionVars
    BY <2>3 DEF IInv, SessionInv, sessionVars
  <2> QED
    BY <1>a, <1>d, <2>1, <2>2, <2>3
<1>2. TypeInv'
  BY DEF IInv, TypeInv, SessionInv, FeederFeeds, sessionVars, turnVars, uploadVars, queueVars,
         runnerVars, Send, FeedRefused, Feed
<1>3. WorkerInv'
  BY DEF IInv, WorkerInv, FeederFeeds, sessionVars, turnVars, uploadVars, queueVars, runnerVars,
         Send, FeedRefused, Feed
<1>4. RunnerInv'
  BY DEF IInv, RunnerInv, WorkerOver, FeederFeeds, sessionVars, turnVars, uploadVars, queueVars,
         runnerVars, Send, FeedRefused, Feed
<1>5. SentInv'
  <2>1. SUFFICES ASSUME ~overlapped' PROVE SentInv'
    BY DEF SentInv
  <2>2. /\ ~overlapped /\ hand = Len(wire) + Len(pending) + 1
        /\ \A i \in 1..Len(wire) : wire[i] = i
        /\ \A i \in 1..Len(pending) : pending[i] = Len(wire) + i
        /\ \A i \in 1..Len(transcript) : transcript[i] = i
    BY <1>e, <2>1 DEF FeederFeeds, uploadVars, IInv, QueueInv, SentInv, Fed, Before
  <2>3. CASE Feed(hand) /\ fed
    <3>1. \A i \in 1..Len(<<hand>>) : <<hand>>[i] = Len(wire) + Len(pending) + i
      BY <1>0, <2>2
    <3>2. Send(<<hand>>) /\ SessionInv
      BY <2>3 DEF fed, IInv
    <3>3. \A i \in 1..Len(wire') : wire'[i] = i
      BY <1>0, <2>2, <3>1, <3>2, Sent
    <3> QED
      BY <1>a, <1>b, <2>2, <2>3, <3>3 DEF SentInv
  <2>4. CASE Feed(hand) /\ waits
    <3>1. \A i \in 1..Len(pending') : pending'[i] = Len(wire) + i
      <4>1. SUFFICES ASSUME NEW i \in 1..(Len(pending) + 1) PROVE pending'[i] = Len(wire) + i
        BY <1>c, <2>4
      <4>2. Len(pending) \in Nat /\ Len(wire) \in Nat
        BY <1>0
      <4>3. CASE i = Len(pending) + 1
        BY <1>c, <2>2, <2>4, <4>2, <4>3
      <4>4. CASE i \in 1..Len(pending)
        BY <1>c, <2>2, <2>4, <4>4
      <4> QED
        BY <4>2, <4>3, <4>4
    <3> QED
      BY <1>a, <1>c, <2>2, <2>4, <3>1 DEF SentInv
  <2>5. CASE UNCHANGED sessionVars
    BY <2>2, <2>5 DEF SentInv, sessionVars
  <2> QED
    BY <1>a, <1>d, <2>3, <2>4, <2>5
<1>6. QueueInv'
  <2>1. SUFFICES ASSUME ~overlapped', Fed' PROVE QueueInv'
    <3>1. ~overlapped' /\ audioEnded' => putting' = {}
      BY DEF FeederFeeds, IInv, QueueInv, uploadVars
    <3> QED
      BY <2>1, <3>1, NotFed DEF QueueInv
  <2>2. ~overlapped /\ Fed /\ InHand = 1 /\ InHand' = 0 /\ feeder' = "waiting" /\ Feed(hand)
    BY <1>d, <1>e, <2>1 DEF Fed, InHand, FeederFeeds, uploadVars, IInv, WorkerInv
  <2>3. Before' = Before + 1 /\ Before \in Nat
    <3>1. CASE fed
      BY <1>0, <1>b, <3>1 DEF Before
    <3>2. CASE waits
      BY <1>0, <1>c, <3>2 DEF Before
    <3> QED
      BY <1>a, <2>2, <3>1, <3>2
  <2>4. UNCHANGED <<queue, Marked, overlapped, audioEnded, putting, received, endPhase>>
    BY DEF FeederFeeds, Marked, queueVars, uploadVars, runnerVars
  <2>5. Before' + InHand' = Before + InHand
    BY <2>2, <2>3
  <2> QED
    BY <1>e, <2>2, <2>4, <2>5 DEF IInv, QueueInv
<1> QED
  BY <1>1, <1>2, <1>3, <1>4, <1>5, <1>6 DEF IInv

LEMMA FeederEndsKeeps == ASSUME IInv, FeederEnds PROVE IInv'
<1>0. /\ wire \in Seq(Chunks) /\ pending \in Seq(Chunks) /\ << >> \in Seq(Chunks) /\ Len(<< >>) = 0
      /\ SessionInv
  BY DEF IInv, SessionInv
<1>a. ASSUME Send(<< >>)
      PROVE  /\ wire' \in Seq(Chunks) /\ pending' = << >> /\ Len(wire') = Len(wire) + Len(pending)
             /\ (SentInv /\ ~overlapped) => \A i \in 1..Len(wire') : wire'[i] = i
  <2>1. \A i \in 1..Len(<< >>) : << >>[i] = Len(wire) + Len(pending) + i
    OBVIOUS
  <2>2. /\ wire' \in Seq(Chunks) /\ pending' = << >> /\ Len(wire') = Len(wire) + Len(pending) + Len(<< >>)
        /\ (/\ \A i \in 1..Len(wire) : wire[i] = i
            /\ \A i \in 1..Len(pending) : pending[i] = Len(wire) + i)
              => \A i \in 1..Len(wire') : wire'[i] = i
    BY <1>0, <1>a, <2>1, Sent
  <2>3. Len(wire') = Len(wire) + Len(pending)
    BY <1>0, <2>2
  <2> QED
    BY <2>2, <2>3 DEF SentInv
<1> DEFINE flushed == /\ Send(<< >>) /\ finishSent' = TRUE /\ inputEnded' = TRUE
                      /\ UNCHANGED <<socket, started, sentences, hypothesis, terminal, transcript>>
           gone == inputEnded' = TRUE /\ UNCHANGED <<pending, wire, finishSent, socket, started, sentences, hypothesis, terminal, transcript>>
           slow == inputEnded' = TRUE /\ PushTerminal("error") /\ UNCHANGED <<socket, started, pending, wire, finishSent, sentences>>
<1>c. flushed \/ gone \/ slow
  BY DEF FeederEnds, EndOfInput, StartDeadline
<1> HIDE DEF flushed, gone, slow

<1>1. SessionInv'
  <2>1. CASE flushed
    <3>1. Send(<< >>)
      BY <2>1 DEF flushed
    <3>2. Len(pending') <= MaxPending /\ pending' \in Seq(Chunks)
      BY <1>a, <3>1, PendingAssumption
    <3>3. sentences \in 0..Len(wire')
      BY <1>0, <1>a, <3>1 DEF SessionInv
    <3> QED
      BY <1>a, <2>1, <3>1, <3>2, <3>3 DEF IInv, SessionInv, flushed
  <2>2. CASE gone
    BY <2>2 DEF IInv, SessionInv, gone
  <2>3. CASE slow
    <3>1. /\ terminal' \in {"none", "final", "error"} /\ hypothesis' \in BOOLEAN
          /\ transcript' \in Seq(Chunks)
      BY <1>0, <2>3, TerminalPushed DEF slow
    <3> QED
      BY <2>3, <3>1 DEF IInv, SessionInv, slow
  <2> QED
    BY <1>c, <2>1, <2>2, <2>3
<1>2. TypeInv'
  BY DEF IInv, TypeInv, SessionInv, FeederEnds, turnVars, uploadVars, queueVars, runnerVars,
         PushTerminal, Send, EndOfInput, StartDeadline
<1>3. WorkerInv'
  BY DEF IInv, WorkerInv, FeederEnds, turnVars, uploadVars, queueVars, runnerVars, PushTerminal,
         Send, EndOfInput, StartDeadline
<1>4. RunnerInv'
  BY DEF IInv, RunnerInv, WorkerOver, FeederEnds, turnVars, uploadVars, queueVars, runnerVars,
         PushTerminal, Send, EndOfInput, StartDeadline
<1>5. SentInv'
  <2>1. overlapped' = overlapped
    BY DEF FeederEnds, uploadVars
  <2>2. CASE flushed
    BY <1>a, <2>1, <2>2 DEF IInv, SentInv, flushed
  <2>3. CASE gone
    BY <2>1, <2>3 DEF IInv, SentInv, gone
  <2>4. CASE slow
    BY <2>1, <2>4 DEF IInv, SentInv, SessionInv, slow, PushTerminal
  <2> QED
    BY <1>c, <2>2, <2>3, <2>4
<1>6. QueueInv'
  <2>1. ~Fed'
    BY DEF FeederEnds, Fed, IInv, WorkerInv
  <2>2. ~overlapped' /\ audioEnded' => putting' = {}
    BY DEF IInv, QueueInv, FeederEnds, uploadVars
  <2> QED
    BY <2>1, <2>2, NotFed
<1> QED
  BY <1>1, <1>2, <1>3, <1>4, <1>5, <1>6 DEF IInv

LEMMA GraceOverKeeps == ASSUME IInv, GraceOver PROVE IInv'
<1>1. SessionInv'
  BY DEF IInv, SessionInv, GraceOver, sessionVars, turnVars, uploadVars, queueVars, WorkerOver,
         FeederCancelled, CancelWorker
<1>2. TypeInv'
  BY DEF IInv, TypeInv, SessionInv, GraceOver, sessionVars, turnVars, uploadVars, queueVars,
         WorkerOver, FeederCancelled, CancelWorker
<1>3. WorkerInv'
  BY DEF IInv, WorkerInv, GraceOver, sessionVars, turnVars, uploadVars, queueVars, WorkerOver,
         FeederCancelled, CancelWorker
<1>4. RunnerInv'
  BY DEF IInv, RunnerInv, WorkerOver, GraceOver, sessionVars, turnVars, uploadVars, queueVars,
         FeederCancelled, CancelWorker
<1>5. SentInv'
  BY DEF IInv, SentInv, SessionInv, GraceOver, sessionVars, turnVars, uploadVars, queueVars,
         WorkerOver, FeederCancelled, CancelWorker
<1>6. QueueInv'
  BY DEF IInv, QueueInv, SessionInv, TypeInv, Fed, Before, InHand, Marked, GraceOver, sessionVars,
         turnVars, uploadVars, queueVars, WorkerOver, FeederCancelled, CancelWorker
<1> QED
  BY <1>1, <1>2, <1>3, <1>4, <1>5, <1>6 DEF IInv

LEMMA StreamOverKeeps == ASSUME IInv, StreamOver PROVE IInv'
<1>1. SessionInv'
  BY DEF IInv, SessionInv, StreamOver, sessionVars, turnVars, uploadVars, workerVars, WorkerOver
<1>2. TypeInv'
  BY DEF IInv, TypeInv, SessionInv, StreamOver, sessionVars, turnVars, uploadVars, workerVars,
         WorkerOver
<1>3. WorkerInv'
  BY DEF IInv, WorkerInv, StreamOver, sessionVars, turnVars, uploadVars, workerVars, WorkerOver
<1>4. RunnerInv'
  BY DEF IInv, RunnerInv, WorkerOver, StreamOver, sessionVars, turnVars, uploadVars, workerVars
<1>5. SentInv'
  BY DEF IInv, SentInv, SessionInv, StreamOver, sessionVars, turnVars, uploadVars, workerVars,
         WorkerOver
<1>6. QueueInv'
  BY DEF IInv, QueueInv, SessionInv, TypeInv, Fed, Before, InHand, Marked, StreamOver, sessionVars,
         turnVars, uploadVars, workerVars, WorkerOver
<1> QED
  BY <1>1, <1>2, <1>3, <1>4, <1>5, <1>6 DEF IInv

LEMMA SayKeeps == ASSUME IInv, Say PROVE IInv'
<1>1. SessionInv'
  BY DEF IInv, SessionInv, Say, sessionVars, turnVars, uploadVars, queueVars, workerVars
<1>2. TypeInv'
  BY DEF IInv, TypeInv, SessionInv, Say, sessionVars, turnVars, uploadVars, queueVars, workerVars
<1>3. WorkerInv'
  BY DEF IInv, WorkerInv, Say, sessionVars, turnVars, uploadVars, queueVars, workerVars
<1>4. RunnerInv'
  BY DEF IInv, RunnerInv, WorkerOver, Say, sessionVars, turnVars, uploadVars, queueVars, workerVars
<1>5. SentInv'
  BY DEF IInv, SentInv, SessionInv, Say, sessionVars, turnVars, uploadVars, queueVars, workerVars
<1>6. QueueInv'
  BY DEF IInv, QueueInv, SessionInv, TypeInv, Fed, Before, InHand, Marked, Say, sessionVars,
         turnVars, uploadVars, queueVars, workerVars
<1> QED
  BY <1>1, <1>2, <1>3, <1>4, <1>5, <1>6 DEF IInv

LEMMA FileRecognisedKeeps == ASSUME IInv, FileRecognised PROVE IInv'
<1>1. SessionInv'
  BY DEF IInv, SessionInv, FileRecognised, sessionVars, turnVars, uploadVars, queueVars, workerVars
<1>2. TypeInv'
  BY DEF IInv, TypeInv, SessionInv, FileRecognised, sessionVars, turnVars, uploadVars, queueVars,
         workerVars
<1>3. WorkerInv'
  BY DEF IInv, WorkerInv, FileRecognised, sessionVars, turnVars, uploadVars, queueVars, workerVars
<1>4. RunnerInv'
  BY DEF IInv, RunnerInv, WorkerOver, FileRecognised, sessionVars, turnVars, uploadVars, queueVars,
         workerVars
<1>5. SentInv'
  BY DEF IInv, SentInv, SessionInv, FileRecognised, sessionVars, turnVars, uploadVars, queueVars,
         workerVars
<1>6. QueueInv'
  BY DEF IInv, QueueInv, SessionInv, TypeInv, Fed, Before, InHand, Marked, FileRecognised,
         sessionVars, turnVars, uploadVars, queueVars, workerVars
<1> QED
  BY <1>1, <1>2, <1>3, <1>4, <1>5, <1>6 DEF IInv

-----------------------------------------------------------------------------
(* The invariant holds. *)

LEMMA InitInvariant == Init => IInv
<1> SUFFICES ASSUME Init PROVE IInv
  OBVIOUS
<1>1. SessionInv
  <2>1. << >> \in Seq(Chunks) /\ Len(<< >>) = 0
    OBVIOUS
  <2>2. pending \in Seq(Chunks) /\ wire \in Seq(Chunks) /\ transcript \in Seq(Chunks)
    BY <2>1 DEF Init, SessionInit
  <2>3. Len(pending) <= MaxPending /\ sentences \in 0..Len(wire)
    BY <2>1, PendingAssumption DEF Init, SessionInit
  <2> QED
    BY <2>2, <2>3 DEF Init, SessionInit, SessionInv
<1>2. TypeInv
  <2>1. queue \in Seq(Chunks \cup {EndMark}) /\ Len(queue) <= QueueSize
    BY QueueAssumption DEF Init
  <2>2. streaming \in BOOLEAN
    BY DEF Init
  <2> QED
    BY <2>1, <2>2 DEF Init, TypeInv
<1>3. WorkerInv
  <2>1. (worker = "opening" /\ streaming) \/ (worker = "none" /\ ~streaming)
    BY DEF Init
  <2> QED
    BY <2>1 DEF Init, SessionInit, WorkerInv
<1>4. RunnerInv
  BY DEF Init, RunnerInv
<1>5. SentInv
  BY DEF Init, SessionInit, SentInv
<1>6. QueueInv
  BY DEF Init, SessionInit, QueueInv, Before, InHand, Marked
<1> QED
  BY <1>1, <1>2, <1>3, <1>4, <1>5, <1>6 DEF IInv

LEMMA StepKeeps == ASSUME IInv, [Next]_vars PROVE IInv'
<1>1. CASE Client
  BY <1>1, UploadKeeps, EndAudioKeeps, RevokeKeeps DEF Client
<1>2. CASE Handler
  BY <1>2, PutKeeps, PutTimesOutKeeps, PutEndKeeps DEF Handler
<1>3. CASE Session
  BY <1>3, TaskStartedKeeps, SentenceEndsKeeps, PartialKeeps, TaskFinishedKeeps, TaskFailedKeeps,
     ConnectionLostKeeps DEF Session, Recogniser
<1>4. CASE Worker
  BY <1>4, OpenSessionKeeps, SessionStartedKeeps, OpenFailsKeeps, TakePartialKeeps, TakeTerminalKeeps,
     FinishWorkerKeeps DEF Worker
<1>5. CASE Feeder
  BY <1>5, FeederTakesKeeps, FeederFeedsKeeps, FeederEndsKeeps DEF Feeder
<1>6. CASE Runner
  BY <1>6, GraceOverKeeps, StreamOverKeeps, SayKeeps, FileRecognisedKeeps DEF Runner
<1>7. CASE UNCHANGED vars
  <2>1. SessionInv' /\ SentInv'
    BY <1>7 DEF vars, sessionVars, uploadVars, IInv, SessionInv, SentInv
  <2>2. TypeInv' /\ RunnerInv'
    BY <1>7 DEF vars, turnVars, uploadVars, queueVars, workerVars, runnerVars, IInv, TypeInv,
       RunnerInv, WorkerOver
  <2>3. WorkerInv'
    BY <1>7 DEF vars, sessionVars, turnVars, workerVars, IInv, WorkerInv
  <2>4. UNCHANGED <<overlapped, audioEnded, putting, received, queue, hand, feeder, endPhase, Fed,
                    Before, InHand, Marked>>
    BY <1>7 DEF vars, sessionVars, uploadVars, queueVars, workerVars, runnerVars, Fed, Before,
       InHand, Marked
  <2>5. QueueInv'
    BY <2>4 DEF IInv, QueueInv
  <2> QED
    BY <2>1, <2>2, <2>3, <2>5 DEF IInv
<1> QED
  BY <1>1, <1>2, <1>3, <1>4, <1>5, <1>6, <1>7 DEF Next

LEMMA InvariantHolds == Spec => []IInv
<1> QED
  BY InitInvariant, StepKeeps, PTL DEF Spec

-----------------------------------------------------------------------------
(* What follows from it. *)

LEMMA WellTyped == ASSUME IInv PROVE TypeOK
<1>1. SessionInv /\ TypeInv /\ WorkerInv
  BY DEF IInv
<1>2. \A b \in {started, inputEnded, finishSent, hypothesis} : b \in BOOLEAN
  BY <1>1, Zenon DEF SessionInv
<1>3. SessionTypeOK
  BY <1>1, <1>2 DEF SessionInv, SessionTypeOK
<1>4. \A b \in {streaming, current, audioEnded, overlapped, streamClosed, final} : b \in BOOLEAN
  BY <1>1, Zenon DEF TypeInv
<1>5. /\ received \in Nat /\ snapshot \in Nat /\ putting \subseteq Chunks
      /\ queue \in Seq(Chunks \cup {EndMark}) /\ Len(queue) <= QueueSize
      /\ failure \in {"none", "queue_backpressure", "provider_error", "final_timeout", "cancelled"}
      /\ endPhase \in {"none", "put", "over"}
      /\ hand \in Chunks \cup {EndMark}
      /\ main \in {"none", "grace", "expired", "file", "say", "over"}
      /\ formal \in {"none", "stream", "file", "failed"}
  BY <1>1, Zenon DEF TypeInv
<1>6. /\ worker \in {"none", "opening", "starting", "listening", "unwinding", "done"}
      /\ cause \in {"none", "final", "error", "cancelled"}
      /\ feeder \in {"none", "waiting", "feeding", "ending", "over"}
  BY <1>1, Zenon DEF WorkerInv
<1> QED
  BY <1>3, <1>4, <1>5, <1>6, Zenon DEF TypeOK

(* A sequence of chunks that counts is the chunks from the first. *)
LEMMA Counting ==
    ASSUME NEW s \in Seq(Chunks), \A i \in 1..Len(s) : s[i] = i
    PROVE  s = [i \in 1..Len(s) |-> i]
<1>1. s = [i \in 1..Len(s) |-> s[i]]
  OBVIOUS
<1> QED
  BY <1>1

-----------------------------------------------------------------------------
(* After the text of a turn nothing of its stream can follow: the worker is over,
   so no hypothesis and no second final is taken, whatever the recogniser sends,
   for any number of chunks, any queue and any buffer. *)
THEOREM NoLateHypothesisHolds == Spec => []NoLateHypothesis
<1>1. IInv => NoLateHypothesis
  BY DEF IInv, RunnerInv, NoLateHypothesis
<1> QED
  BY <1>1, InvariantHolds, PTL

(* A client that uploads one chunk at a time is heard from its first chunk, in order
   and without a gap, through the queue, the hand of the feeder, the audio that waits
   for the task to start, and the wire; and every variable has its type. *)
THEOREM HeardInOrderHolds == Spec => []HeardInOrder
<1>1. ASSUME IInv PROVE HeardInOrder
  <2>1. wire \in Seq(Chunks) /\ transcript \in Seq(Chunks)
    BY <1>1 DEF IInv, SessionInv
  <2>2. ASSUME ~overlapped
        PROVE  wire = [i \in 1..Len(wire) |-> i] /\ transcript = [i \in 1..Len(transcript) |-> i]
    <3>1. /\ \A i \in 1..Len(wire) : wire[i] = i
          /\ \A i \in 1..Len(transcript) : transcript[i] = i
      BY <1>1, <2>2 DEF IInv, SentInv
    <3> QED
      BY <2>1, <3>1, Counting
  <2> QED
    BY <1>1, <2>2, WellTyped DEF HeardInOrder
<1> QED
  BY <1>1, InvariantHolds, PTL

(* No connection to the recogniser outlives its worker, whichever way the worker ended
   (a final, an error, the grace period, a full queue, a revoked turn), unless that was
   before run-task was sent. *)
THEOREM NoSessionLeftHolds == Spec => []NoSessionLeft
<1>1. IInv => NoSessionLeft
  BY DEF IInv, WorkerInv, NoSessionLeft, WorkerOver
<1> QED
  BY <1>1, InvariantHolds, PTL

(* The file recogniser is asked only when the stream committed no final. *)
THEOREM RecognisedOnceHolds == Spec => []RecognisedOnce
<1>1. IInv => RecognisedOnce
  BY DEF IInv, RunnerInv, RecognisedOnce
<1> QED
  BY <1>1, InvariantHolds, PTL

-----------------------------------------------------------------------------
(* The turn takes a dictation.  Whatever is on its way to the recogniser was uploaded;
   and only a final has a text, the one that the worker takes. *)
KnownInv ==
    /\ \A i \in 1..Len(wire) : wire[i] <= received
    /\ \A i \in 1..Len(pending) : pending[i] <= received
    /\ \A i \in 1..Len(queue) : queue[i] <= received
    /\ \A c \in putting : c <= received
    /\ hand <= received

TextInv == /\ transcript # << >> <=> terminal = "final"
           /\ final => terminal = "final"

(* Steps that take nothing on its way. *)
LEMMA KnownStays ==
    ASSUME KnownInv, UNCHANGED <<wire, pending, queue, putting, hand, received>> PROVE KnownInv'
BY DEF KnownInv

LEMMA UploadsAreKnown ==
    ASSUME IInv, KnownInv,
           Upload \/ EndAudio \/ PutEnd \/ (\E c \in Chunks : Put(c) \/ PutTimesOut(c)) \/ Revoke
    PROVE  KnownInv'
<1>1. /\ received \in Nat /\ putting \subseteq Chunks /\ wire \in Seq(Chunks) /\ pending \in Seq(Chunks)
      /\ queue \in Seq(Chunks \cup {EndMark}) /\ hand \in Chunks \cup {EndMark} /\ Chunks \subseteq Nat
  BY DEF IInv, TypeInv, SessionInv, Chunks
<1>0. /\ \A i \in 1..Len(wire) : wire[i] \in Nat
      /\ \A i \in 1..Len(pending) : pending[i] \in Nat
      /\ \A i \in 1..Len(queue) : queue[i] \in Nat
      /\ hand \in Nat
  <2> DEFINE S == Chunks
             T == Chunks \cup {EndMark}
  <2>1. S \subseteq Nat /\ T \subseteq Nat
    BY <1>1 DEF EndMark
  <2>2. wire \in Seq(S) /\ pending \in Seq(S) /\ queue \in Seq(T) /\ hand \in T
    BY <1>1
  <2> HIDE DEF S, T
  <2>3. /\ \A i \in 1..Len(wire) : wire[i] \in S
        /\ \A i \in 1..Len(pending) : pending[i] \in S
        /\ \A i \in 1..Len(queue) : queue[i] \in T
    BY <2>2
  <2> QED
    BY <2>1, <2>2, <2>3
<1>2. CASE Upload
  <2>1. /\ received' = received + 1 /\ putting' \subseteq putting \cup {received + 1}
        /\ UNCHANGED <<wire, pending, queue, hand>>
    BY <1>2 DEF Upload, sessionVars, queueVars, workerVars
  <2> QED
    BY <1>0, <1>1, <2>1 DEF KnownInv
<1>3. CASE EndAudio
  BY <1>3, KnownStays DEF EndAudio, sessionVars, workerVars
<1>4. ASSUME NEW c \in Chunks \cup {EndMark}, c <= received, Room, queue' = Append(queue, c),
             putting' \subseteq putting, UNCHANGED <<wire, pending, hand, received>>
      PROVE  KnownInv'
  <2>1. /\ Len(queue') = Len(queue) + 1 /\ Len(queue) \in Nat /\ queue'[Len(queue) + 1] = c
        /\ \A i \in 1..Len(queue) : queue'[i] = queue[i]
    BY <1>1, <1>4, Queued DEF IInv
  <2> QED
    BY <1>4, <2>1 DEF KnownInv
<1>5. CASE PutEnd
  <2>1. Room /\ queue' = Append(queue, EndMark) /\ UNCHANGED <<wire, pending, hand, received, putting>>
    BY <1>5 DEF PutEnd, sessionVars, uploadVars, workerVars
  <2> QED
    BY <1>1, <1>4, <2>1 DEF EndMark
<1>6. ASSUME NEW c \in Chunks, Put(c) PROVE KnownInv'
  <2>1. /\ Room /\ queue' = Append(queue, c) /\ c \in putting /\ putting' \subseteq putting
        /\ UNCHANGED <<wire, pending, hand, received>>
    BY <1>6 DEF Put, sessionVars, workerVars
  <2>2. c <= received
    BY <2>1 DEF KnownInv
  <2> QED
    BY <1>4, <2>1, <2>2
<1>7. ASSUME CancelStream, putting' \subseteq putting, UNCHANGED <<wire, pending, received>>
      PROVE  KnownInv'
  <2>1. queue' \in {<<EndMark>>, queue} /\ hand' = hand
    BY <1>7 DEF CancelStream
  <2>2. \A i \in 1..Len(queue') : queue'[i] <= received
    <3>1. CASE queue' = <<EndMark>>
      BY <1>1, <3>1 DEF EndMark
    <3>2. CASE queue' = queue
      BY <3>2 DEF KnownInv
    <3> QED
      BY <2>1, <3>1, <3>2
  <2> QED
    BY <1>7, <2>1, <2>2 DEF KnownInv
<1>8. ASSUME NEW c \in Chunks, PutTimesOut(c) PROVE KnownInv'
  BY <1>7, <1>8 DEF PutTimesOut, sessionVars
<1>9. CASE Revoke
  BY <1>7, <1>9 DEF Revoke, sessionVars, uploadVars
<1> QED
  BY <1>2, <1>3, <1>5, <1>6, <1>8, <1>9

LEMMA JoinedElements ==
    ASSUME NEW S, NEW a \in Seq(S), NEW b \in Seq(S)
    PROVE  /\ a \o b \in Seq(S) /\ Len(a \o b) = Len(a) + Len(b)
           /\ \A i \in 1..Len(a) : (a \o b)[i] = a[i]
           /\ \A i \in (Len(a) + 1)..(Len(a) + Len(b)) : (a \o b)[i] = b[i - Len(a)]
OBVIOUS

(* What a flush sends: all that waited, behind what was sent. *)
LEMMA Flushed ==
    ASSUME SessionInv, NEW more \in Seq(Chunks), Send(more)
    PROVE  /\ wire' \in Seq(Chunks) /\ DOMAIN wire \subseteq DOMAIN wire'
           /\ \A i \in DOMAIN wire : wire'[i] = wire[i]
           /\ \A i \in 1..Len(wire') : \/ i \in 1..Len(wire) /\ wire'[i] = wire[i]
                                       \/ \E j \in 1..Len(pending) : wire'[i] = pending[j]
                                       \/ \E j \in 1..Len(more) : wire'[i] = more[j]
<1> DEFINE S == Chunks
           flushed == wire \o pending
<1>1. wire \in Seq(S) /\ pending \in Seq(S) /\ more \in Seq(S)
  BY DEF SessionInv
<1> HIDE DEF S
<1>2. /\ flushed \in Seq(S) /\ Len(flushed) = Len(wire) + Len(pending)
      /\ \A i \in 1..Len(wire) : flushed[i] = wire[i]
      /\ \A i \in (Len(wire) + 1)..Len(flushed) : flushed[i] = pending[i - Len(wire)]
  BY <1>1, JoinedElements
<1>3. wire' = flushed \o more
  BY DEF Send
<1> HIDE DEF flushed
<1>4. /\ wire' \in Seq(S) /\ Len(wire') = Len(flushed) + Len(more)
      /\ \A i \in 1..Len(flushed) : wire'[i] = flushed[i]
      /\ \A i \in (Len(flushed) + 1)..Len(wire') : wire'[i] = more[i - Len(flushed)]
  <2>1. flushed \in Seq(S) /\ more \in Seq(S)
    BY <1>1, <1>2
  <2>2. /\ flushed \o more \in Seq(S) /\ Len(flushed \o more) = Len(flushed) + Len(more)
        /\ \A i \in 1..Len(flushed) : (flushed \o more)[i] = flushed[i]
        /\ \A i \in (Len(flushed) + 1)..(Len(flushed) + Len(more)) :
              (flushed \o more)[i] = more[i - Len(flushed)]
    BY <2>1, JoinedElements
  <2> QED
    BY <1>3, <2>2
<1>5. Len(wire) \in Nat /\ Len(pending) \in Nat /\ Len(more) \in Nat
  BY <1>1
<1>6. ASSUME NEW i \in 1..Len(wire')
      PROVE  \/ i \in 1..Len(wire) /\ wire'[i] = wire[i]
             \/ \E j \in 1..Len(pending) : wire'[i] = pending[j]
             \/ \E j \in 1..Len(more) : wire'[i] = more[j]
  <2>1. CASE i \in 1..Len(wire)
    BY <1>2, <1>4, <1>5, <2>1
  <2>2. CASE i \in (Len(wire) + 1)..Len(flushed)
    <3>1. i - Len(wire) \in 1..Len(pending) /\ wire'[i] = pending[i - Len(wire)]
      BY <1>2, <1>4, <1>5, <2>2
    <3> QED
      BY <3>1
  <2>3. CASE i \in (Len(flushed) + 1)..Len(wire')
    <3>1. i - Len(flushed) \in 1..Len(more) /\ wire'[i] = more[i - Len(flushed)]
      BY <1>2, <1>4, <1>5, <2>3
    <3> QED
      BY <3>1
  <2> QED
    BY <1>2, <1>4, <1>5, <2>1, <2>2, <2>3
<1>7. DOMAIN wire = 1..Len(wire) /\ DOMAIN wire' = 1..Len(wire')
  BY <1>1, <1>4
<1> QED
  BY <1>2, <1>4, <1>5, <1>6, <1>7 DEF S

LEMMA FeedsAreKnown ==
    ASSUME IInv, KnownInv, FeederTakes \/ FeederFeeds \/ FeederEnds PROVE KnownInv'
<1>1. SessionInv /\ TypeInv /\ hand \in Chunks \cup {EndMark} /\ received \in Nat
  BY DEF IInv, TypeInv
<1>2. CASE FeederTakes
  <2>1. /\ queue # << >> /\ queue' = Tail(queue) /\ hand' = Head(queue)
        /\ UNCHANGED <<wire, pending, putting, received>>
    BY <1>2 DEF FeederTakes, sessionVars, uploadVars
  <2>2. /\ Head(queue) = queue[1] /\ Len(queue') = Len(queue) - 1 /\ Len(queue) \in Nat \ {0}
        /\ \A i \in 1..(Len(queue) - 1) : queue'[i] = queue[i + 1]
    BY <1>1, <2>1, Unqueued
  <2> QED
    BY <2>1, <2>2 DEF KnownInv
<1>3. ASSUME NEW more \in Seq(Chunks), Send(more), \A j \in 1..Len(more) : more[j] <= received,
             hand' \in {hand, EndMark}, UNCHANGED <<queue, putting, received>>
      PROVE  KnownInv'
  <2>1. \A i \in 1..Len(wire') : wire'[i] <= received
    <3> SUFFICES ASSUME NEW i \in 1..Len(wire') PROVE wire'[i] <= received
      OBVIOUS
    <3>1. \/ i \in 1..Len(wire) /\ wire'[i] = wire[i]
          \/ \E j \in 1..Len(pending) : wire'[i] = pending[j]
          \/ \E j \in 1..Len(more) : wire'[i] = more[j]
      BY <1>1, <1>3, Flushed
    <3> QED
      BY <1>3, <3>1 DEF KnownInv
  <2>2. pending' = << >>
    BY <1>3 DEF Send
  <2> QED
    BY <1>1, <1>3, <2>1, <2>2 DEF KnownInv, EndMark
<1>4. CASE FeederFeeds
  <2>1. hand \in Chunks /\ hand' = EndMark /\ UNCHANGED <<queue, putting, received>>
    BY <1>1, <1>4 DEF FeederFeeds, TypeInv, queueVars, uploadVars
  <2>2. CASE Feed(hand) /\ started
    <3>1. Send(<<hand>>) /\ <<hand>> \in Seq(Chunks)
      BY <2>1, <2>2 DEF Feed
    <3>2. \A j \in 1..Len(<<hand>>) : <<hand>>[j] <= received
      BY DEF KnownInv
    <3> QED
      BY <1>3, <2>1, <3>1, <3>2
  <2>3. CASE Feed(hand) /\ ~started
    <3>1. pending' = Append(pending, hand) /\ wire' = wire /\ pending \in Seq(Chunks)
      BY <1>1, <2>3 DEF Feed, SessionInv
    <3>2. \A i \in 1..Len(pending') : pending'[i] = hand \/ (i \in 1..Len(pending) /\ pending'[i] = pending[i])
      BY <2>1, <3>1
    <3> QED
      BY <1>1, <2>1, <3>1, <3>2 DEF KnownInv, EndMark
  <2>4. CASE UNCHANGED sessionVars
    BY <1>1, <2>1, <2>4 DEF KnownInv, EndMark, sessionVars
  <2> QED
    BY <1>4, <2>2, <2>3, <2>4 DEF FeederFeeds
<1>5. CASE FeederEnds
  <2>1. UNCHANGED <<queue, putting, received, hand>>
    BY <1>5 DEF FeederEnds, queueVars, uploadVars
  <2>2. CASE UNCHANGED <<wire, pending>>
    BY <2>1, <2>2, KnownStays
  <2>3. CASE Send(<< >>)
    <3>1. << >> \in Seq(Chunks) /\ Len(<< >>) = 0
      OBVIOUS
    <3>2. \A j \in 1..Len(<< >>) : <<>>[j] <= received
      BY <3>1
    <3> QED
      BY <1>3, <2>1, <2>3, <3>1, <3>2
  <2>4. Send(<< >>) \/ UNCHANGED <<wire, pending>>
    BY <1>5 DEF FeederEnds, EndOfInput, StartDeadline
  <2> QED
    BY <2>2, <2>3, <2>4
<1> QED
  BY <1>2, <1>4, <1>5

LEMMA KnownKept == IInv /\ KnownInv /\ [Next]_vars => KnownInv'
<1> SUFFICES ASSUME IInv, KnownInv, [Next]_vars PROVE KnownInv'
  OBVIOUS
<1>1. CASE Client \/ Handler
  BY <1>1, UploadsAreKnown DEF Client, Handler
<1>2. CASE Feeder
  BY <1>2, FeedsAreKnown DEF Feeder
<1>3. CASE Session
  <2>1. UNCHANGED <<uploadVars, queueVars, workerVars>>
    BY <1>3 DEF Session
  <2>2. UNCHANGED <<wire, pending>>
    BY <1>3 DEF Session, Recogniser, TaskStarted, SentenceEnds, Partial, TaskFinished, TaskFailed,
                ConnectionLost
  <2> QED
    BY <2>1, <2>2, KnownStays DEF uploadVars, queueVars, workerVars
<1>4. CASE Worker
  <2>1. UNCHANGED <<uploadVars, queue, hand, wire, pending>>
    BY <1>4 DEF Worker, OpenSession, SessionStarted, OpenFails, TakePartial, TakeTerminal, FinishWorker,
                Open, Close, sessionVars, queueVars, workerVars
  <2> QED
    BY <2>1, KnownStays DEF uploadVars
<1>5. CASE Runner
  <2>1. UNCHANGED <<uploadVars, queue, hand, wire, pending>>
    BY <1>5 DEF Runner, GraceOver, StreamOver, Say, FileRecognised, sessionVars, queueVars, workerVars
  <2> QED
    BY <2>1, KnownStays DEF uploadVars
<1>6. CASE UNCHANGED vars
  BY <1>6, KnownStays DEF vars, sessionVars, uploadVars, queueVars, workerVars
<1> QED
  BY <1>1, <1>2, <1>3, <1>4, <1>5, <1>6 DEF Next

-----------------------------------------------------------------------------
(* The text. *)

(* A terminal event that is a final has a text from the beginning of what was sent. *)
LEMMA FinalHasText ==
    ASSUME IInv, TextInv, NEW kind \in {"final", "error"}, PushTerminal(kind),
           kind = "final" => sentences > 0
    PROVE  /\ transcript' # << >> <=> terminal' = "final"
           /\ terminal = "final" => terminal' = "final"
           /\ \/ UNCHANGED transcript
              \/ transcript = << >> /\ \E n \in 1..Len(wire) : transcript' = SubSeq(wire, 1, n)
<1>1. CASE terminal # "none"
  BY <1>1 DEF PushTerminal, TextInv
<1>2. CASE terminal = "none"
  <2>1. /\ terminal' = kind
        /\ transcript' = IF kind = "final" THEN SubSeq(wire, 1, sentences) ELSE << >>
        /\ transcript = << >>
    BY <1>2 DEF PushTerminal, TextInv
  <2>2. CASE kind = "final"
    <3> DEFINE S == Chunks
    <3>1. wire \in Seq(S) /\ sentences \in 1..Len(wire)
      BY <2>2 DEF IInv, SessionInv
    <3> HIDE DEF S
    <3>2. SubSeq(wire, 1, sentences) # << >>
      <4>1. Len(SubSeq(wire, 1, sentences)) = sentences /\ sentences # 0
        BY <3>1
      <4> QED
        BY <4>1
    <3> QED
      BY <2>1, <2>2, <3>1, <3>2
  <2>3. CASE kind = "error"
    BY <1>2, <2>1, <2>3
  <2> QED
    BY <2>2, <2>3
<1> QED
  BY <1>1, <1>2

(* What a step does to the text: nothing, or it commits one. *)
TextStays == UNCHANGED <<transcript, terminal>>
TextComes ==
    /\ transcript' # << >> <=> terminal' = "final"
    /\ terminal = "final" => terminal' = "final"
    /\ \/ UNCHANGED transcript
       \/ transcript = << >> /\ \E n \in 1..Len(wire) : transcript' = SubSeq(wire, 1, n)

LEMMA SessionText == ASSUME IInv, TextInv, Recogniser PROVE TextComes /\ UNCHANGED wire
<1>1. CASE TaskStarted \/ SentenceEnds \/ Partial
  BY <1>1 DEF TaskStarted, SentenceEnds, Partial, TextComes, TextInv
<1>2. CASE TaskFinished \/ ConnectionLost
  <2>1. PushTerminal(IF sentences > 0 THEN "final" ELSE "error") /\ UNCHANGED wire
    BY <1>2 DEF TaskFinished, ConnectionLost
  <2>2. CASE sentences > 0
    <3>1. PushTerminal("final")
      BY <2>1, <2>2
    <3> QED
      BY <2>1, <2>2, <3>1, FinalHasText DEF TextComes
  <2>3. CASE ~(sentences > 0)
    <3>1. PushTerminal("error")
      BY <2>1, <2>3
    <3> QED
      BY <2>1, <3>1, FinalHasText DEF TextComes
  <2> QED
    BY <2>2, <2>3
<1>3. CASE TaskFailed
  BY <1>3, FinalHasText DEF TaskFailed, TextComes
<1> QED
  BY <1>1, <1>2, <1>3 DEF Recogniser

(* The steps that end a session by themselves add no text. *)
LEMMA NoTextOfItsOwn ==
    ASSUME IInv, TextInv, PushTerminal("error") PROVE TextComes /\ UNCHANGED transcript
<1>1. TextComes
  BY FinalHasText DEF TextComes
<1>2. UNCHANGED transcript
  BY DEF PushTerminal, TextInv
<1> QED
  BY <1>1, <1>2

LEMMA TextKept == ASSUME IInv, TextInv, [Next]_vars PROVE TextInv'
<1>1. CASE Client \/ Handler \/ Runner \/ UNCHANGED vars
  <2>1. UNCHANGED <<transcript, terminal, final>>
    <3>1. CASE Client
      BY <3>1 DEF Client, Upload, EndAudio, Revoke, CancelStream, sessionVars, workerVars
    <3>2. CASE Handler
      BY <3>2 DEF Handler, Put, PutTimesOut, PutEnd, CancelStream, sessionVars, workerVars
    <3>3. CASE Runner
      BY <3>3 DEF Runner, GraceOver, StreamOver, Say, FileRecognised, sessionVars, workerVars
    <3>4. CASE UNCHANGED vars
      BY <3>4 DEF vars, sessionVars, workerVars
    <3> QED
      BY <1>1, <3>1, <3>2, <3>3, <3>4
  <2> QED
    BY <2>1 DEF TextInv
<1>2. CASE Session
  <2>1. TextComes /\ UNCHANGED final
    BY <1>2, SessionText DEF Session, workerVars
  <2> QED
    BY <2>1 DEF TextInv, TextComes
<1>3. CASE Feeder
  <2>1. UNCHANGED final
    BY <1>3 DEF Feeder, FeederTakes, FeederFeeds, FeederEnds
  <2>2. CASE UNCHANGED <<transcript, terminal>>
    BY <2>1, <2>2 DEF TextInv
  <2>3. CASE PushTerminal("error")
    BY <2>1, <2>3, NoTextOfItsOwn DEF TextInv, TextComes
  <2>4. UNCHANGED <<transcript, terminal>> \/ PushTerminal("error")
    BY <1>3 DEF Feeder, FeederTakes, FeederFeeds, FeederEnds, Feed, EndOfInput, StartDeadline, sessionVars
  <2> QED
    BY <2>2, <2>3, <2>4
<1>4. CASE OpenSession \/ SessionStarted \/ OpenFails \/ TakePartial
  <2>1. CASE OpenSession \/ SessionStarted
    BY <2>1 DEF OpenSession, SessionStarted, Open, sessionVars, TextInv
  <2>2. CASE OpenFails
    BY <2>2 DEF OpenFails, sessionVars, TextInv
  <2>3. CASE TakePartial
    BY <2>3 DEF TakePartial, workerVars, TextInv
  <2> QED
    BY <1>4, <2>1, <2>2, <2>3
<1>5. CASE TakeTerminal
  BY <1>5 DEF TakeTerminal, sessionVars, TextInv
<1>6. CASE FinishWorker
  <2>1. UNCHANGED final /\ PushTerminal("error")
    BY <1>6 DEF FinishWorker, Close
  <2> QED
    BY <2>1, NoTextOfItsOwn DEF TextInv, TextComes
<1> QED
  BY <1>1, <1>2, <1>3, <1>4, <1>5, <1>6 DEF Next, Worker

LEMMA DictationHolds == Spec => [](KnownInv /\ TextInv)
<1>1. Init => KnownInv /\ TextInv
  BY DEF Init, SessionInit, KnownInv, TextInv, EndMark
<1>2. IInv /\ (KnownInv /\ TextInv) /\ [Next]_vars => (KnownInv /\ TextInv)'
  BY KnownKept, TextKept
<1> QED
  BY <1>1, <1>2, InvariantHolds, PTL DEF Spec

-----------------------------------------------------------------------------
(* Every step is one of the dictation. *)
Kept == UNCHANGED <<received, overlapped, audioEnded, wire, transcript, final, formal, current>>

LEMMA ClientDictates ==
    ASSUME IInv, Client PROVE Dictated!Speak \/ Dictated!End \/ Dictated!Silence
<1>1. CASE Upload
  BY <1>1 DEF Upload, Dictated!Speak, IInv, TypeInv, sessionVars, turnVars, workerVars, runnerVars
<1>2. CASE EndAudio
  BY <1>2 DEF EndAudio, Launch, Dictated!End, IInv, TypeInv, sessionVars, turnVars, workerVars
<1>3. CASE Revoke
  BY <1>3 DEF Revoke, CancelStream, Dictated!Silence, sessionVars, uploadVars
<1> QED
  BY <1>1, <1>2, <1>3 DEF Client

LEMMA HandlerIsSilent == ASSUME Handler PROVE Kept
<1>1. ASSUME NEW c \in Chunks, Put(c) PROVE Kept
  BY <1>1 DEF Put, Kept, sessionVars, turnVars, workerVars, runnerVars
<1>2. ASSUME NEW c \in Chunks, PutTimesOut(c) PROVE Kept
  BY <1>2 DEF PutTimesOut, CancelStream, Kept, sessionVars, turnVars, runnerVars
<1>3. CASE PutEnd
  BY <1>3 DEF PutEnd, Launch, Kept, sessionVars, turnVars, uploadVars, workerVars
<1> QED
  BY <1>1, <1>2, <1>3 DEF Handler

LEMMA SessionDictates ==
    ASSUME IInv, TextInv, Session PROVE Dictated!Understand \/ Kept
<1>1. TextComes /\ UNCHANGED <<wire, received, overlapped, audioEnded, final, formal, current>>
  BY SessionText DEF Session, turnVars, uploadVars, workerVars, runnerVars
<1>2. CASE formal = "none"
  BY <1>1, <1>2 DEF TextComes, Kept, Dictated!Understand
(* The socket is one that nobody closes, and nothing was sent on it. *)
<1>3. CASE formal # "none"
  <2>1. socket = "open"
    BY DEF Session, Recogniser, TaskStarted, SentenceEnds, Partial, TaskFinished, TaskFailed,
           ConnectionLost
  <2>2. worker \in {"none", "done"}
    BY <1>3 DEF IInv, RunnerInv, WorkerOver
  <2>3. wire = << >>
    BY <2>1, <2>2 DEF IInv, WorkerInv
  <2>4. UNCHANGED transcript
    BY <1>1, <2>3 DEF TextComes
  <2> QED
    BY <1>1, <2>4 DEF Kept
<1> QED
  BY <1>2, <1>3

LEMMA WorkerDictates == ASSUME IInv, TextInv, Worker PROVE Dictated!Take \/ Kept
<1>1. CASE OpenSession \/ SessionStarted \/ OpenFails \/ TakePartial
  <2>1. CASE OpenSession \/ SessionStarted
    BY <2>1 DEF OpenSession, SessionStarted, Open, Kept, sessionVars, turnVars, uploadVars, runnerVars
  <2>2. CASE OpenFails
    BY <2>2 DEF OpenFails, Kept, sessionVars, turnVars, uploadVars, runnerVars
  <2>3. CASE TakePartial
    BY <2>3 DEF TakePartial, Kept, workerVars, turnVars, uploadVars, runnerVars
  <2> QED
    BY <1>1, <2>1, <2>2, <2>3
<1>2. CASE TakeTerminal
  <2>1. /\ worker = "listening" /\ terminal # "none" /\ final' = (terminal = "final")
        /\ UNCHANGED <<sessionVars, turnVars, uploadVars, runnerVars>>
    BY <1>2 DEF TakeTerminal
  <2>2. ~final /\ formal = "none" /\ final \in BOOLEAN
    BY <2>1 DEF IInv, TypeInv, WorkerInv, RunnerInv, WorkerOver
  <2>3. CASE terminal = "final"
    BY <2>1, <2>2, <2>3 DEF Dictated!Take, TextInv, sessionVars, turnVars, uploadVars, runnerVars
  <2>4. CASE terminal # "final"
    BY <2>1, <2>2, <2>4 DEF Kept, sessionVars, turnVars, uploadVars, runnerVars
  <2> QED
    BY <2>3, <2>4
<1>3. CASE FinishWorker
  <2>1. /\ PushTerminal("error") /\ UNCHANGED <<wire, turnVars, uploadVars, final, runnerVars>>
    BY <1>3 DEF FinishWorker, Close
  <2> QED
    BY <2>1, NoTextOfItsOwn DEF Kept, turnVars, uploadVars, runnerVars
<1> QED
  BY <1>1, <1>2, <1>3 DEF Worker

LEMMA FeederDictates ==
    ASSUME IInv, IInv', KnownInv', TextInv, Feeder PROVE Dictated!Hear \/ Kept
<1>1. /\ UNCHANGED <<received, overlapped, audioEnded, final, formal, current>>
      /\ formal = "none" /\ SessionInv
  <2>1. UNCHANGED <<received, overlapped, audioEnded, final, formal, current>>
    BY DEF Feeder, FeederTakes, FeederFeeds, FeederEnds, turnVars, uploadVars, runnerVars
  <2>2. ~WorkerOver
    BY DEF Feeder, FeederTakes, FeederFeeds, FeederEnds, IInv, WorkerInv, WorkerOver
  <2> QED
    BY <2>1, <2>2 DEF IInv, RunnerInv
<1>2. ASSUME NEW more \in Seq(Chunks), Send(more), UNCHANGED transcript PROVE Dictated!Hear
  <2>1. /\ wire' \in Seq(Chunks) /\ DOMAIN wire \subseteq DOMAIN wire'
        /\ \A i \in DOMAIN wire : wire'[i] = wire[i]
    BY <1>1, <1>2, Flushed
  <2>2. \A i \in 1..Len(wire') : wire'[i] \in 1..received /\ (~overlapped => wire'[i] = i)
    <3>1. \A i \in 1..Len(wire') : wire'[i] \in Chunks /\ wire'[i] <= received /\ received \in Nat
      BY <1>1, <2>1 DEF KnownInv, IInv, TypeInv
    <3>2. ~overlapped => \A i \in 1..Len(wire') : wire'[i] = i
      BY <1>1 DEF IInv, SentInv
    <3> QED
      BY <3>1, <3>2 DEF Chunks
  <2>3. DOMAIN wire' = 1..Len(wire')
    BY <2>1
  <2> QED
    BY <1>1, <1>2, <2>1, <2>2, <2>3 DEF Dictated!Hear
<1>3. CASE FeederTakes
  BY <1>1, <1>3 DEF FeederTakes, Kept, sessionVars
<1>4. CASE FeederFeeds
  <2>1. hand \in Chunks
    BY <1>4 DEF FeederFeeds, IInv, TypeInv
  <2>2. <<hand>> \in Seq(Chunks)
    BY <2>1
  <2>3. \/ Send(<<hand>>) /\ UNCHANGED transcript
        \/ UNCHANGED <<wire, transcript>>
    BY <1>4 DEF FeederFeeds, Feed, sessionVars
  <2> QED
    BY <1>1, <1>2, <2>2, <2>3 DEF Kept
<1>5. CASE FeederEnds
  <2>1. \/ Send(<< >>) /\ UNCHANGED transcript
        \/ UNCHANGED <<wire, transcript>>
        \/ UNCHANGED wire /\ PushTerminal("error")
    BY <1>5 DEF FeederEnds, EndOfInput, StartDeadline
  <2>2. << >> \in Seq(Chunks)
    OBVIOUS
  <2> QED
    BY <1>1, <1>2, <2>1, <2>2, NoTextOfItsOwn DEF Kept
<1> QED
  BY <1>3, <1>4, <1>5 DEF Feeder

LEMMA RunnerDictates == ASSUME IInv, Runner PROVE Dictated!Answer \/ Kept
<1>1. CASE GraceOver \/ StreamOver
  BY <1>1 DEF GraceOver, StreamOver, Kept, sessionVars, turnVars, uploadVars, workerVars
<1>2. CASE Say \/ FileRecognised
  <2>1. /\ current /\ main \in {"say", "file"} /\ UNCHANGED <<sessionVars, turnVars, uploadVars, workerVars>>
        /\ main = "say" => formal' = "stream"
        /\ main = "file" => formal' \in {"file", "failed"}
    BY <1>2 DEF Say, FileRecognised
  <2>2. formal = "none" /\ audioEnded /\ (main = "say" => final) /\ (main = "file" => ~final)
    BY <2>1 DEF IInv, RunnerInv, TypeInv
  <2> QED
    BY <2>1, <2>2 DEF Dictated!Answer, sessionVars, turnVars, uploadVars, workerVars
<1> QED
  BY <1>1, <1>2 DEF Runner

(* A spoken turn refines Dictation: the uploads that race each other, the queue and its
   backpressure, the connection and the grace deadline (add_audio_chunk, end_audio,
   transcribe_stream, _run_audio_turn) neither invent, exchange nor replace a text. *)
THEOREM TakesDictationHolds == Spec => TakesDictation
<1>1. Init => Dictated!Init
  BY DEF Init, SessionInit, Dictated!Init
<1>2. IInv /\ IInv' /\ KnownInv' /\ TextInv /\ [Next]_vars
          => [Dictated!Next]_<<received, ~overlapped, audioEnded, wire, transcript, final, formal, current>>
  <2> SUFFICES ASSUME IInv, IInv', KnownInv', TextInv, [Next]_vars
               PROVE  Dictated!Next \/ Kept
    BY DEF Kept
  <2>1. CASE Client \/ Handler
    BY <2>1, ClientDictates, HandlerIsSilent DEF Dictated!Next
  <2>2. CASE Session \/ Worker
    BY <2>2, SessionDictates, WorkerDictates DEF Dictated!Next
  <2>3. CASE Feeder \/ Runner
    BY <2>3, FeederDictates, RunnerDictates DEF Dictated!Next
  <2>4. CASE UNCHANGED vars
    BY <2>4 DEF vars, Kept, sessionVars, turnVars, uploadVars, workerVars, runnerVars
  <2> QED
    BY <2>1, <2>2, <2>3, <2>4 DEF Next
<1> QED
  BY <1>1, <1>2, InvariantHolds, DictationHolds, PTL
     DEF Spec, TakesDictation, Dictated!Spec, Dictated!dictationVars
==============================================================================
