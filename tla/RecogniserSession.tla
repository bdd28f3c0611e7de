-------------------------- MODULE RecogniserSession ---------------------------
(***************************************************************************)
(* One session with the realtime recogniser (adapters/funasr_realtime.py): *)
(* the socket, the audio that waits for "task-started", the sentences the  *)
(* recogniser has finished, and the single terminal event of the session.  *)
(* A chunk is its number; a text is the sequence of chunks it was heard    *)
(* in.  The recogniser itself is outside the program: it may start late or *)
(* never, finish sentences as it likes, fail, or drop the connection; it   *)
(* answers finish-task once it has heard all it was sent.                  *)
(***************************************************************************)
EXTENDS Naturals, Sequences

CONSTANTS MaxChunks,      \* bound: chunks of the turn
          MaxPending      \* MAX_PENDING_BYTES, in chunks

ASSUME PendingAssumption == MaxChunks \in Nat /\ MaxPending \in Nat

Chunks == 1..MaxChunks

VARIABLES socket,       \* "none", "open", "lost" or "closed"
          started,      \* _started_event
          pending,      \* _pending
          wire,         \* the chunks sent to the recogniser, in order
          inputEnded,   \* _input_ended
          finishSent,   \* finish-task was sent
          sentences,    \* the chunks of "wire" that _final_parts covers
          hypothesis,   \* a partial waits in _out_queue
          terminal,     \* the terminal event: "none", "final" or "error"
          transcript    \* the text of a final

sessionVars == <<socket, started, pending, wire, inputEnded, finishSent, sentences, hypothesis,
                 terminal, transcript>>

SessionInit ==
    /\ socket = "none" /\ started = FALSE
    /\ pending = << >> /\ wire = << >>
    /\ inputEnded = FALSE /\ finishSent = FALSE
    /\ sentences = 0 /\ hypothesis = FALSE
    /\ terminal = "none" /\ transcript = << >>

(* _push_terminal: the first one counts, and drops the waiting partials. *)
PushTerminal(kind) ==
    IF terminal # "none"
    THEN UNCHANGED <<terminal, hypothesis, transcript>>
    ELSE /\ terminal' = kind
         /\ hypothesis' = FALSE
         /\ transcript' = IF kind = "final" THEN SubSeq(wire, 1, sentences) ELSE << >>

(* _flush_pending_locked, then the chunks at hand. *)
Send(chunks) == wire' = wire \o pending \o chunks /\ pending' = << >>

-----------------------------------------------------------------------------
(* The recogniser and the reader that handles what it sends. *)

TaskStarted ==
    /\ socket = "open" /\ ~started
    /\ started' = TRUE
    /\ UNCHANGED <<socket, pending, wire, inputEnded, finishSent, sentences, hypothesis, terminal,
                   transcript>>

SentenceEnds ==
    /\ socket = "open" /\ started /\ terminal = "none"
    /\ \E heard \in (sentences + 1)..Len(wire) : sentences' = heard
    /\ UNCHANGED <<socket, started, pending, wire, inputEnded, finishSent, hypothesis, terminal,
                   transcript>>

Partial ==
    /\ socket = "open" /\ started /\ wire # << >>
    /\ terminal = "none" /\ ~hypothesis
    /\ hypothesis' = TRUE
    /\ UNCHANGED <<socket, started, pending, wire, inputEnded, finishSent, sentences, terminal,
                   transcript>>

TaskFinished ==
    /\ socket = "open" /\ finishSent
    /\ sentences \in {0, Len(wire)}
    /\ PushTerminal(IF sentences > 0 THEN "final" ELSE "error")
    /\ UNCHANGED <<socket, started, pending, wire, inputEnded, finishSent, sentences>>

TaskFailed ==
    /\ socket = "open"
    /\ PushTerminal("error")
    /\ UNCHANGED <<socket, started, pending, wire, inputEnded, finishSent, sentences>>

(* _handle_ws_closed commits what was heard so far. *)
ConnectionLost ==
    /\ socket = "open"
    /\ socket' = "lost"
    /\ PushTerminal(IF sentences > 0 THEN "final" ELSE "error")
    /\ UNCHANGED <<started, pending, wire, inputEnded, finishSent, sentences>>

Recogniser == TaskStarted \/ SentenceEnds \/ Partial \/ TaskFinished \/ TaskFailed \/ ConnectionLost

-----------------------------------------------------------------------------
(* What the adapter calls. *)

(* start, up to its run-task: the socket is open and its reader runs. *)
Open ==
    /\ socket = "none"
    /\ socket' = "open"
    /\ UNCHANGED <<started, pending, wire, inputEnded, finishSent, sentences, hypothesis, terminal,
                   transcript>>

(* session_ended, or task_start_slow: nothing more fits before the start. *)
FeedRefused == terminal # "none" \/ (~started /\ Len(pending) >= MaxPending)

Feed(c) ==
    /\ ~FeedRefused
    /\ IF started THEN Send(<<c>>) ELSE pending' = Append(pending, c) /\ UNCHANGED wire
    /\ UNCHANGED <<socket, started, inputEnded, finishSent, sentences, hypothesis, terminal,
                   transcript>>

(* end_of_input of a task that has started: the rest of the audio and
   finish-task, or an exception when the socket is gone. *)
EndOfInput ==
    /\ started
    /\ inputEnded' = TRUE
    /\ IF socket = "open"
       THEN Send(<< >>) /\ finishSent' = TRUE
       ELSE UNCHANGED <<pending, wire, finishSent>>
    /\ UNCHANGED <<socket, started, sentences, hypothesis, terminal, transcript>>

(* end_of_input of a task that did not start within the connect timeout. *)
StartDeadline ==
    /\ ~started
    /\ inputEnded' = TRUE
    /\ PushTerminal("error")
    /\ UNCHANGED <<socket, started, pending, wire, finishSent, sentences>>

Close ==
    /\ socket' = "closed"
    /\ PushTerminal("error")
    /\ UNCHANGED <<started, pending, wire, inputEnded, finishSent, sentences>>

SessionTypeOK ==
    /\ socket \in {"none", "open", "lost", "closed"}
    /\ \A b \in {started, inputEnded, finishSent, hypothesis} : b \in BOOLEAN
    /\ pending \in Seq(Chunks) /\ Len(pending) <= MaxPending
    /\ wire \in Seq(Chunks)
    /\ sentences \in 0..Len(wire)
    /\ terminal \in {"none", "final", "error"}
    /\ transcript \in Seq(Chunks)
==============================================================================
