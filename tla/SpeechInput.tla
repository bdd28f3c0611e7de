----------------------------- MODULE SpeechInput ------------------------------
(***************************************************************************)
(* One spoken turn, from its first audio chunk to the text that enters the *)
(* reply: the upload handlers and the end handler (session_manager.py,     *)
(* turn_orchestrator.py), the queue between them and the worker that holds *)
(* the recogniser session (adapters/streaming_stt.py), and the runner that *)
(* takes the recogniser's final or, without one, gives the whole upload to *)
(* the file recogniser.                                                    *)
(*                                                                         *)
(* A step is what a task does up to its next suspension.  The queue is an  *)
(* asyncio.Queue: a task that waited for room may find the room taken      *)
(* again, so waiting uploads enter in any order.                           *)
(***************************************************************************)
EXTENDS RecogniserSession, FiniteSets

CONSTANTS QueueSize,     \* the streaming queue's maxsize
          Outstanding    \* uploads the client has under way at a time

ASSUME QueueAssumption == QueueSize \in Nat \ {0} /\ Outstanding \in Nat \ {0}

EndMark == 0             \* None in the queue

VARIABLES streaming,     \* stt.streaming_available at turn/start
          current,       \* the turn is the session's current turn
          received,      \* chunks in turn.audio
          audioEnded,    \* turn.audio_ended
          snapshot,      \* chunks of the PCM that end_audio returned
          putting,       \* uploads that wait for room in the queue
          overlapped,    \* a second upload came while one was waiting
          queue,         \* turn.stt_stream_queue
          streamClosed,  \* turn.stt_stream_closed
          failure,       \* turn.stt_stream_failure
          endPhase,      \* the end handler: "none", "put" or "over"
          worker,        \* turn.stt_stream_task
          cause,         \* why the worker unwinds
          feeder,        \* feed_all's task
          hand,          \* the chunk that the feeder took from the queue
          final,         \* turn.stt_stream_final, once it is set
          main,          \* the runner
          formal         \* how the text of the turn was found

turnVars   == <<streaming, current>>
uploadVars == <<received, audioEnded, snapshot, putting, overlapped>>
queueVars  == <<queue, streamClosed, failure>>
workerVars == <<worker, cause, feeder, hand, final>>
runnerVars == <<endPhase, main, formal>>
vars == <<sessionVars, turnVars, uploadVars, queueVars, workerVars, runnerVars>>

Init ==
    /\ SessionInit
    /\ streaming \in BOOLEAN /\ current = TRUE
    /\ received = 0 /\ audioEnded = FALSE /\ snapshot = 0 /\ putting = {} /\ overlapped = FALSE
    /\ queue = << >> /\ streamClosed = FALSE /\ failure = "none"
    /\ endPhase = "none" /\ main = "none" /\ formal = "none"
    /\ worker = IF streaming THEN "opening" ELSE "none"
    /\ cause = "none" /\ feeder = "none" /\ hand = EndMark /\ final = FALSE

WorkerOver == worker \in {"none", "done"}
Room == Len(queue) < QueueSize

-----------------------------------------------------------------------------
(* Cancelling the worker. *)

(* feeder.cancel(): one that feeds still ends the input in its "finally". *)
FeederCancelled ==
    feeder' = CASE feeder \in {"waiting", "feeding"} -> "ending"
                [] feeder = "ending" -> "over"
                [] OTHER -> feeder

(* stt_stream_task.cancel().  A worker that unwinds swallows it, but passes it
   on to the feeder it awaits. *)
CancelWorker ==
    /\ CASE worker \in {"opening", "starting"} -> worker' = "done" /\ cause' = "cancelled"
         [] worker = "listening" -> worker' = "unwinding" /\ cause' = "cancelled"
         [] OTHER -> UNCHANGED <<worker, cause>>
    /\ IF worker \in {"listening", "unwinding"} THEN FeederCancelled ELSE UNCHANGED feeder

(* _cancel_stt_stream_unlocked *)
CancelStream ==
    /\ streamClosed' = TRUE
    /\ queue' = IF streaming THEN <<EndMark>> ELSE queue
    /\ CancelWorker
    /\ UNCHANGED <<hand, final>>

-----------------------------------------------------------------------------
(* The handlers of audio/chunk and audio/end. *)

Upload ==
    /\ current /\ ~audioEnded /\ received < MaxChunks
    /\ Cardinality(putting) < Outstanding
    /\ received' = received + 1
    /\ putting' = IF WorkerOver THEN putting ELSE putting \cup {received'}
    /\ overlapped' = (overlapped \/ putting # {})
    /\ UNCHANGED <<sessionVars, turnVars, audioEnded, snapshot, queueVars, workerVars, runnerVars>>

Put(c) ==
    /\ c \in putting /\ Room
    /\ queue' = Append(queue, c)
    /\ putting' = putting \ {c}
    /\ UNCHANGED <<sessionVars, turnVars, received, audioEnded, snapshot, overlapped, streamClosed,
                   failure, workerVars, runnerVars>>

(* Seeded fault: a chunk without room is skipped, the stream goes on. *)
PutTimesOutAlone(c) ==
    /\ c \in putting /\ ~Room
    /\ putting' = putting \ {c}
    /\ failure' = "queue_backpressure"
    /\ UNCHANGED <<sessionVars, turnVars, received, audioEnded, snapshot, overlapped, queue,
                   streamClosed, workerVars, runnerVars>>

(* Without room for 0.25 s the stream is given up. *)
PutTimesOut(c) ==
    /\ c \in putting /\ ~Room
    /\ putting' = putting \ {c}
    /\ failure' = "queue_backpressure"
    /\ CancelStream
    /\ UNCHANGED <<sessionVars, turnVars, received, audioEnded, snapshot, overlapped, runnerVars>>

(* _launch: the runner waits for the stream, or goes to the file recogniser. *)
Launch ==
    /\ endPhase' = "over"
    /\ main' = CASE ~current -> "over"
                 [] current /\ streaming -> "grace"
                 [] OTHER -> "file"
    /\ UNCHANGED formal

(* end_audio and close_stt_stream_input, up to its put(None). *)
EndAudio ==
    /\ current /\ ~audioEnded /\ received > 0
    /\ Cardinality(putting) < Outstanding
    /\ audioEnded' = TRUE /\ snapshot' = received
    /\ overlapped' = (overlapped \/ putting # {})
    /\ streamClosed' = (streamClosed \/ streaming)
    /\ IF streaming /\ ~streamClosed /\ ~WorkerOver
       THEN endPhase' = "put" /\ UNCHANGED <<main, formal>>
       ELSE Launch
    /\ UNCHANGED <<sessionVars, turnVars, received, putting, queue, failure, workerVars>>

PutEnd ==
    /\ endPhase = "put" /\ Room
    /\ queue' = Append(queue, EndMark)
    /\ Launch
    /\ UNCHANGED <<sessionVars, turnVars, uploadVars, streamClosed, failure, workerVars>>

-----------------------------------------------------------------------------
(* The worker: consume() around transcribe_stream(). *)

OpenSession ==
    /\ worker = "opening"
    /\ Open
    /\ worker' = "starting"
    /\ UNCHANGED <<turnVars, uploadVars, queueVars, cause, feeder, hand, final, runnerVars>>

(* run-task is sent, and the session handed to transcribe_stream. *)
SessionStarted ==
    /\ worker = "starting"
    /\ worker' = "listening" /\ feeder' = "waiting"
    /\ UNCHANGED <<sessionVars, turnVars, uploadVars, queueVars, cause, hand, final, runnerVars>>

(* The connection, or run-task, fails.  Nobody was handed the session, so that a
   socket that is open stays so. *)
OpenFails ==
    /\ worker \in {"opening", "starting"}
    /\ worker' = "done" /\ cause' = "error"
    /\ failure' = "provider_error"
    /\ UNCHANGED <<sessionVars, turnVars, uploadVars, queue, streamClosed, feeder, hand, final,
                   runnerVars>>

(* asr.partial: never after a final. *)
TakePartial ==
    /\ worker = "listening" /\ terminal = "none" /\ hypothesis
    /\ hypothesis' = FALSE
    /\ UNCHANGED <<socket, started, pending, wire, inputEnded, finishSent, sentences, terminal,
                   transcript, turnVars, uploadVars, queueVars, workerVars, runnerVars>>

TakeTerminal ==
    /\ worker = "listening" /\ terminal # "none"
    /\ worker' = "unwinding"
    /\ cause' = terminal
    /\ final' = (terminal = "final")
    /\ FeederCancelled
    /\ UNCHANGED <<sessionVars, turnVars, uploadVars, queueVars, hand, runnerVars>>

(* Seeded fault: a session whose events ended is not closed. *)
FinishWorkerOpen ==
    /\ worker = "unwinding" /\ feeder = "over"
    /\ worker' = "done"
    /\ IF cause = "cancelled" THEN Close ELSE UNCHANGED sessionVars
    /\ failure' = IF cause = "error" THEN "provider_error" ELSE failure
    /\ UNCHANGED <<turnVars, uploadVars, queue, streamClosed, cause, feeder, hand, final, runnerVars>>

FinishWorker ==
    /\ worker = "unwinding" /\ feeder = "over"
    /\ worker' = "done"
    /\ Close
    /\ failure' = IF cause = "error" THEN "provider_error" ELSE failure
    /\ UNCHANGED <<turnVars, uploadVars, queue, streamClosed, cause, feeder, hand, final, runnerVars>>

(* feed_all *)
FeederTakes ==
    /\ feeder = "waiting" /\ queue # << >>
    /\ queue' = Tail(queue)
    /\ hand' = Head(queue)
    /\ feeder' = IF hand' = EndMark THEN "ending" ELSE "feeding"
    /\ UNCHANGED <<sessionVars, turnVars, uploadVars, streamClosed, failure, worker, cause, final,
                   runnerVars>>

FeederFeeds ==
    /\ feeder = "feeding"
    /\ hand' = EndMark
    /\ \/ Feed(hand) /\ feeder' = "waiting"
       \/ FeedRefused /\ feeder' = "ending" /\ UNCHANGED sessionVars
    /\ UNCHANGED <<turnVars, uploadVars, queueVars, worker, cause, final, runnerVars>>

FeederEnds ==
    /\ feeder = "ending"
    /\ feeder' = "over"
    /\ EndOfInput \/ StartDeadline
    /\ UNCHANGED <<turnVars, uploadVars, queueVars, worker, cause, hand, final, runnerVars>>

-----------------------------------------------------------------------------
(* The runner: _run_audio_turn. *)

(* Seeded fault: the runner does not wait for the worker it cancels. *)
GraceOverAtOnce ==
    /\ main = "grace" /\ ~WorkerOver
    /\ main' = IF final THEN "say" ELSE "file"
    /\ failure' = IF failure = "none" THEN "final_timeout" ELSE failure
    /\ CancelWorker
    /\ UNCHANGED <<sessionVars, turnVars, uploadVars, queue, streamClosed, hand, final, endPhase, formal>>

(* wait_for's deadline cancels the worker and goes on waiting for its end. *)
GraceOver ==
    /\ main = "grace" /\ ~WorkerOver
    /\ main' = "expired"
    /\ CancelWorker
    /\ UNCHANGED <<sessionVars, turnVars, uploadVars, queueVars, hand, final, endPhase, formal>>

(* Seeded fault: a stream that failed after its final is recognised again. *)
StreamOverUnlessFailed ==
    /\ main \in {"grace", "expired"} /\ WorkerOver
    /\ main' = IF final /\ failure = "none" THEN "say" ELSE "file"
    /\ UNCHANGED <<sessionVars, turnVars, uploadVars, queueVars, workerVars, endPhase, formal>>

(* A worker that was cancelled gives "cancelled", or "final_timeout". *)
StreamOver ==
    /\ main \in {"grace", "expired"} /\ WorkerOver
    /\ main' = IF final THEN "say" ELSE "file"
    /\ failure' = CASE cause # "cancelled" \/ failure # "none" -> failure
                    [] main = "expired" -> "final_timeout"
                    [] OTHER -> "cancelled"
    /\ UNCHANGED <<sessionVars, turnVars, uploadVars, queue, streamClosed, workerVars, endPhase, formal>>

(* asr.final *)
Say ==
    /\ current /\ main = "say"
    /\ main' = "over" /\ formal' = "stream"
    /\ UNCHANGED <<sessionVars, turnVars, uploadVars, queueVars, workerVars, endPhase>>

FileRecognised ==
    /\ current /\ main = "file"
    /\ main' = "over" /\ formal' \in {"file", "failed"}
    /\ UNCHANGED <<sessionVars, turnVars, uploadVars, queueVars, workerVars, endPhase>>

(* Seeded fault: only the runner is cancelled. *)
RevokeRunner ==
    /\ current
    /\ current' = FALSE
    /\ main' = IF main = "none" THEN "none" ELSE "over"
    /\ UNCHANGED <<sessionVars, streaming, uploadVars, queueVars, workerVars, endPhase, formal>>

(* A new turn, an interrupt or a close: the runner and the worker are cancelled. *)
Revoke ==
    /\ current
    /\ current' = FALSE
    /\ CancelStream
    /\ main' = IF main = "none" THEN "none" ELSE "over"
    /\ UNCHANGED <<sessionVars, streaming, uploadVars, failure, endPhase, formal>>

-----------------------------------------------------------------------------
Client  == Upload \/ EndAudio \/ Revoke
Handler == (\E c \in Chunks : Put(c) \/ PutTimesOut(c)) \/ PutEnd
Session == Recogniser /\ UNCHANGED <<turnVars, uploadVars, queueVars, workerVars, runnerVars>>
Worker  == OpenSession \/ SessionStarted \/ OpenFails \/ TakePartial \/ TakeTerminal \/ FinishWorker
Feeder  == FeederTakes \/ FeederFeeds \/ FeederEnds
Runner  == GraceOver \/ StreamOver \/ Say \/ FileRecognised

Next == Client \/ Handler \/ Session \/ Worker \/ Feeder \/ Runner

Spec == Init /\ [][Next]_vars

(* The event loop runs what is ready, every wait but put(None) has a deadline,
   and a feed that blocks is broken off by TCP at last.  Neither the client nor
   the recogniser owes anything. *)
FairSpec == Spec /\ WF_vars(Handler) /\ WF_vars(Worker) /\ WF_vars(Feeder) /\ WF_vars(Runner)

-----------------------------------------------------------------------------
TypeOK ==
    /\ SessionTypeOK
    /\ received \in Nat /\ snapshot \in Nat /\ putting \subseteq Chunks
    /\ \A b \in {streaming, current, audioEnded, overlapped, streamClosed, final} : b \in BOOLEAN
    /\ queue \in Seq(Chunks \cup {EndMark}) /\ Len(queue) <= QueueSize
    /\ failure \in {"none", "queue_backpressure", "provider_error", "final_timeout", "cancelled"}
    /\ endPhase \in {"none", "put", "over"}
    /\ worker \in {"none", "opening", "starting", "listening", "unwinding", "done"}
    /\ cause \in {"none", "final", "error", "cancelled"}
    /\ feeder \in {"none", "waiting", "feeding", "ending", "over"}
    /\ hand \in Chunks \cup {EndMark}
    /\ main \in {"none", "grace", "expired", "file", "say", "over"}
    /\ formal \in {"none", "stream", "file", "failed"}

(* Once the turn has its text the stream is over: no hypothesis, no second
   text can come after asr.final, whatever the recogniser still sends. *)
NoLateHypothesis == formal # "none" => WorkerOver

(* A client that uploads one chunk at a time is heard from the beginning and
   in order, through the queue, the feeder's hand, the audio that waits for
   the task to start, and the wire; no chunk is left out in between. *)
HeardInOrder ==
    /\ TypeOK
    /\ ~overlapped => /\ wire = [i \in 1..Len(wire) |-> i]
                      /\ transcript = [i \in 1..Len(transcript) |-> i]

(* No connection to the recogniser outlives its worker, whatever ended it, unless the
   worker came to its end before run-task was sent: then it had no feeder yet, and
   nobody the session to close it. *)
NoSessionLeft == WorkerOver => socket \in {"none", "closed"} \/ feeder = "none"

(* A turn is recognised once: the file recogniser is asked only when the stream
   committed no final, however the final races the deadline, a full queue or an
   error of the stream. *)
RecognisedOnce == formal \in {"file", "failed"} => ~final

(* The turn takes a dictation, whatever the queue, the worker, the connection and the
   deadlines do to it: what the recogniser gets was uploaded, a text comes from the
   beginning of it and is never replaced, and the turn has one answer, that text if it
   was taken. *)
Dictated == INSTANCE Dictation WITH
    said <- received, orderly <- ~overlapped, ended <- audioEnded, heard <- wire,
    text <- transcript, taken <- final, answer <- formal, live <- current
TakesDictation == Dictated!Spec

(* From the moment the runner exists the turn gets a text or an error, or is
   revoked, however the recogniser behaves; and the worker of a turn that is over
   comes to its end. *)
StreamEnds ==
    /\ main \in {"grace", "expired", "file", "say"} ~> main = "over"
    /\ (~current \/ main = "over") ~> WorkerOver
==============================================================================
