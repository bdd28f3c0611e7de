---------------------------- MODULE TurnDelivery -----------------------------
(***************************************************************************)
(* What one turn says to the client and in which order                     *)
(* (core/turn_orchestrator.py): the runner that recognises, decides and    *)
(* delivers the reply, the task that carries out an explicit action beside *)
(* it, and the task of the quick replies.  The two first share the single  *)
(* avatar.intent of the turn and arbitrate it with flags of TurnState.     *)
(*                                                                         *)
(* A step is what a task does up to its next suspension: a provider, a     *)
(* task it awaits, or a critical event while the queue is full (any        *)
(* "Emit..." may be delayed; that it happens at last is EventStream's      *)
(* BlockedEmitReturns).  Events that are not critical never suspend.       *)
(* "out" is what the queue has accepted, in order.                         *)
(*                                                                         *)
(* The reservation by the EventBus tool (avatar_action_tool.py) is left    *)
(* out: the quest chain gives its model no tools and declares no action    *)
(* to the event, so the tool never gets to the reservation.                *)
(***************************************************************************)
EXTENDS SpeechOutput

CONSTANT MaxDeltas      \* bound: text chunks of a reply

ASSUME BoundAssumption == MaxDeltas \in Nat

(* The request: its channel, the explicit imperative in it, if any, and
   whether the configured TTS adapter is available. *)
Request == {q \in [kind     : {"audio", "text", "interaction"},
                   explicit : {"none", "supported", "unsupported"},
                   tts      : BOOLEAN] : q.kind = "interaction" => q.explicit = "none"}

MainSteps == {"stt", "asr", "launch", "decide", "intent", "text", "speak", "audio", "tts_error",
              "arbitrate", "fallback", "end", "fail", "fail_end", "done", "cancelled"}

VARIABLES request,
          current,        \* SessionManager.is_current for this turn
          main,           \* where the runner stands
          fast,           \* the explicit-action task
          fastSelected,   \* turn.fast_action_selected
          fastIntent,     \* turn.fast_action_intent is not None
          intentEmitted,  \* turn.intent_emitted
          delivered,      \* _deliver_decision's own intent_emitted
          hasText,        \* the decision has a text to say
          hand,           \* the audio chunk the runner is about to emit
          chunks,         \* audio_chunks
          replyEnded,     \* turn.reply_ended
          suggest,        \* turn.reply_suggestions_task
          out             \* the events of the turn that the queue accepted

fastVars == <<fast, fastSelected, fastIntent, intentEmitted>>
voice == <<hand, chunks, speech>>
vars == <<request, current, main, fastVars, delivered, hasText, voice, replyEnded, suggest, out>>

Active   == request.explicit # "none"                \* turn.fast_action_active

(* Seeded fault: a task that waits for room in the queue counts as over. *)
FastOverTooSoon == fast # "ready"

FastOver == fast \in {"none", "done", "failed"}      \* no task, or fast_task.done()

Event(type)     == [type |-> type]
Intent(source)  == [type |-> "avatar.intent", source |-> source]
Audio(sequence, data) == [type |-> "reply.audio.chunk", sequence |-> sequence, data |-> data]
Error(code)     == [type |-> "error", code |-> code]
End(textSent, audioSent, lastAudio) ==
    [type |-> "reply.end", status |-> "completed", text_sent |-> textSent,
     audio_sent |-> audioSent, audio_sequence_end |-> lastAudio]
FailedEnd ==
    [type |-> "reply.end", status |-> "failed", text_sent |-> FALSE, audio_sent |-> FALSE]

Events ==
    [type : {"asr.final", "reply.text.delta", "reply.suggestions"}]
    \cup [type : {"avatar.intent"}, source : {"reply", "explicit", "fallback"}]
    \cup [type : {"reply.audio.chunk"}, sequence : Nat, data : Chunks]
    \cup [type : {"error"}, code : {"tts_failed", "terminal"}]
    \cup [type : {"reply.end"}, status : {"completed"}, text_sent : BOOLEAN,
          audio_sent : BOOLEAN, audio_sequence_end : Nat \cup {-1}]
    \cup {FailedEnd}

Emit(event) == out' = Append(out, event)

Init == /\ request \in Request
        /\ current = TRUE
        /\ main = CASE request.kind = "audio" -> "stt"
                    [] request.kind = "text" -> "launch"
                    [] request.kind = "interaction" -> "decide"
        /\ fast = "none" /\ fastSelected = FALSE /\ fastIntent = FALSE
        /\ intentEmitted = FALSE /\ delivered = FALSE
        /\ hasText = FALSE /\ hand = EndMark /\ chunks = 0 /\ replyEnded = FALSE
        /\ SpeechInit
        /\ suggest = "none" /\ out = << >>

Go(from, to) == current /\ main = from /\ main' = to

-----------------------------------------------------------------------------
(* The runner. *)

(* _run_audio_turn: a text, or nothing and a failure alike. *)
Recognise ==
    /\ \E to \in {"asr", "fail"} : Go("stt", to)
    /\ UNCHANGED <<request, current, fastVars, delivered, hasText, voice, replyEnded, suggest, out>>

EmitFinal ==
    /\ Go("asr", "launch")
    /\ Emit(Event("asr.final"))
    /\ UNCHANGED <<request, current, fastVars, delivered, hasText, voice, replyEnded, suggest>>

(* _run_reply_with_fast_action *)
Launch ==
    /\ Go("launch", "decide")
    /\ fast' = IF request.explicit = "supported" THEN "ready" ELSE "none"
    /\ UNCHANGED <<request, current, fastSelected, fastIntent, intentEmitted, delivered, hasText,
                   voice, replyEnded, suggest, out>>

(* The decision is there: who owns the turn's avatar.intent? *)
Decide(text) ==
    /\ request.explicit = "unsupported" => text
    /\ hasText' = text
    /\ \/ /\ fastSelected /\ fastIntent
          /\ Go("decide", "text")
          /\ delivered' = TRUE
          /\ UNCHANGED intentEmitted
       \/ /\ ~(fastSelected /\ fastIntent) /\ Active /\ ~FastOver
          /\ Go("decide", "text")
          /\ UNCHANGED <<delivered, intentEmitted>>
       \/ /\ ~(fastSelected /\ fastIntent) /\ ~(Active /\ ~FastOver)
          /\ Go("decide", "intent")
          /\ intentEmitted' = TRUE
          /\ UNCHANGED delivered
    /\ UNCHANGED <<request, current, fast, fastSelected, fastIntent, voice, replyEnded, suggest,
                   out>>

EmitIntent ==
    /\ Go("intent", "text")
    /\ Emit(Intent(IF Active THEN "fallback" ELSE "reply"))
    /\ delivered' = TRUE
    /\ UNCHANGED <<request, current, fastVars, hasText, voice, replyEnded, suggest>>

(* The deltas: each is taken, or dropped by a full queue. *)
SayText(taken) ==
    /\ Go("text", IF hasText /\ request.tts THEN "speak" ELSE "arbitrate")
    /\ taken > 0 => hasText
    /\ out' = out \o [i \in 1..taken |-> Event("reply.text.delta")]
    /\ IF main' = "speak" THEN StartProducer ELSE UNCHANGED speech
    /\ UNCHANGED <<request, current, fastVars, delivered, hasText, hand, chunks, replyEnded, suggest>>

TakeAudio ==
    /\ Go("speak", "audio")
    /\ Take /\ hand' = Head(pcm) /\ hand' # EndMark
    /\ UNCHANGED <<request, current, fastVars, delivered, hasText, chunks, replyEnded, suggest, out>>

(* Seeded fault: the chunks are numbered from one. *)
EmitAudioFromOne ==
    /\ Go("audio", "speak")
    /\ Emit(Audio(chunks + 1, hand))
    /\ hand' = EndMark /\ chunks' = chunks + 1
    /\ UNCHANGED <<request, current, fastVars, delivered, hasText, speech, replyEnded, suggest>>

EmitAudio ==
    /\ Go("audio", "speak")
    /\ Emit(Audio(chunks, hand))
    /\ hand' = EndMark /\ chunks' = chunks + 1
    /\ UNCHANGED <<request, current, fastVars, delivered, hasText, speech, replyEnded, suggest>>

(* The marker: the failure of the producer, if any, is raised only now, behind the
   audio of the segments before it. *)
SpeechOver ==
    /\ Go("speak", IF failure THEN "tts_error" ELSE "arbitrate")
    /\ Take /\ Head(pcm) = EndMark
    /\ UNCHANGED <<request, current, fastVars, delivered, hasText, hand, chunks, replyEnded, suggest,
                   out>>

EmitTtsError ==
    /\ Go("tts_error", "arbitrate")
    /\ Emit(Error("tts_failed"))
    /\ UNCHANGED <<request, current, fastVars, delivered, hasText, voice, replyEnded, suggest>>

(* Seeded fault: the explicit action's task is not awaited. *)
ArbitrateWithoutWaiting ==
    /\ \/ /\ delivered \/ (fastSelected /\ fastIntent)
          /\ Go("arbitrate", "end")
          /\ delivered' = TRUE
          /\ UNCHANGED intentEmitted
       \/ /\ ~delivered /\ ~(fastSelected /\ fastIntent)
          /\ Go("arbitrate", "fallback")
          /\ intentEmitted' = TRUE
          /\ UNCHANGED delivered
    /\ UNCHANGED <<request, current, fast, fastSelected, fastIntent, hasText, voice, replyEnded,
                   suggest, out>>

(* A turn that left the intent to the explicit action waits for its task and
   falls back to an intent of its own if that one sent none. *)
Arbitrate ==
    /\ \/ /\ delivered
          /\ Go("arbitrate", "end")
          /\ UNCHANGED <<delivered, intentEmitted>>
       \/ /\ ~delivered /\ Active /\ FastOver
          /\ fastSelected /\ fastIntent
          /\ Go("arbitrate", "end")
          /\ delivered' = TRUE
          /\ UNCHANGED intentEmitted
       \/ /\ ~delivered /\ Active /\ FastOver
          /\ ~(fastSelected /\ fastIntent)
          /\ Go("arbitrate", "fallback")
          /\ intentEmitted' = TRUE
          /\ UNCHANGED delivered
    /\ UNCHANGED <<request, current, fast, fastSelected, fastIntent, hasText, voice, replyEnded,
                   suggest, out>>

EmitFallback ==
    /\ Go("fallback", "end")
    /\ Emit(Intent("fallback"))
    /\ delivered' = TRUE
    /\ UNCHANGED <<request, current, fastVars, hasText, voice, replyEnded, suggest>>

(* reply.end under terminal_lock; the flag is set before the event is out. *)
BeginEnd ==
    /\ main = "end" /\ current /\ ~replyEnded
    /\ replyEnded' = TRUE
    /\ UNCHANGED <<request, current, main, fastVars, delivered, hasText, voice, suggest, out>>

EmitEnd ==
    /\ replyEnded
    /\ Go("end", "done")
    /\ Emit(End(hasText, chunks > 0, chunks - 1))
    /\ suggest' = IF hasText THEN "ready" ELSE "none"
    /\ UNCHANGED <<request, current, fastVars, delivered, hasText, voice, replyEnded>>

(* Seeded fault: a failed reply leaves its action task running. *)
DecisionFailsAlone ==
    /\ Go("decide", "fail")
    /\ UNCHANGED <<request, current, fastVars, delivered, hasText, voice, replyEnded, suggest, out>>

(* The decision fails.  The task beside it is cancelled in the same step, and
   awaited before the error is sent. *)
DecisionFails ==
    /\ Go("decide", "fail")
    /\ fast' = IF FastOver THEN fast ELSE "done"
    /\ UNCHANGED <<request, current, fastSelected, fastIntent, intentEmitted, delivered, hasText,
                   voice, replyEnded, suggest, out>>

(* _emit_terminal_error *)
BeginFail ==
    /\ main = "fail" /\ current /\ ~replyEnded
    /\ replyEnded' = TRUE
    /\ UNCHANGED <<request, current, main, fastVars, delivered, hasText, voice, suggest, out>>

EmitFail ==
    /\ replyEnded
    /\ Go("fail", "fail_end")
    /\ Emit(Error("terminal"))
    /\ UNCHANGED <<request, current, fastVars, delivered, hasText, voice, replyEnded, suggest>>

EmitFailedEnd ==
    /\ Go("fail_end", "done")
    /\ Emit(FailedEnd)
    /\ UNCHANGED <<request, current, fastVars, delivered, hasText, voice, replyEnded, suggest>>

-----------------------------------------------------------------------------
(* The explicit-action task. *)

FastReserve ==
    /\ current /\ fast = "ready"
    /\ IF replyEnded \/ intentEmitted
       THEN fast' = "done" /\ UNCHANGED <<fastSelected, intentEmitted>>
       ELSE fast' = "emitting" /\ fastSelected' = TRUE /\ intentEmitted' = TRUE
    /\ UNCHANGED <<request, current, main, fastIntent, delivered, hasText, voice, replyEnded,
                   suggest, out>>

FastEmit ==
    /\ current /\ fast = "emitting"
    /\ fast' = "done"
    /\ fastIntent' = TRUE
    /\ Emit(Intent("explicit"))
    /\ UNCHANGED <<request, current, main, fastSelected, intentEmitted, delivered, hasText, voice,
                   replyEnded, suggest>>

(* Its "except Exception": the flags stay as they are. *)
FastFails ==
    /\ current /\ fast \in {"ready", "emitting"}
    /\ fast' = "failed"
    /\ UNCHANGED <<request, current, main, fastSelected, fastIntent, intentEmitted, delivered,
                   hasText, voice, replyEnded, suggest, out>>

(* The quick replies: sent, or none, or dropped. *)
Suggest ==
    /\ current /\ suggest = "ready"
    /\ suggest' = "done"
    /\ out' \in {out, Append(out, Event("reply.suggestions"))}
    /\ UNCHANGED <<request, current, main, fastVars, delivered, hasText, voice, replyEnded>>

(* Interrupt, a new turn or a close: the turn is no longer current, so nothing
   it emits is accepted, and its tasks are cancelled where they stand.  A runner that
   waits for audio waits in the generator, which cancels the producer. *)
Revoke ==
    /\ current
    /\ current' = FALSE
    /\ main' = IF main = "done" THEN main ELSE "cancelled"
    /\ fast' = IF FastOver THEN fast ELSE "done"
    /\ suggest' = IF suggest = "ready" THEN "done" ELSE suggest
    /\ IF main = "speak" THEN ProducerCancelled ELSE UNCHANGED speech
    /\ UNCHANGED <<request, fastSelected, fastIntent, intentEmitted, delivered, hasText, hand, chunks,
                   replyEnded, out>>

(* A runner that was cancelled in the body of its loop leaves the generator to the
   event loop, which closes it. *)
GeneratorClosed ==
    /\ main = "cancelled" /\ producer \notin {"none", "over"}
    /\ ProducerCancelled
    /\ UNCHANGED <<request, current, main, fastVars, delivered, hasText, hand, chunks, replyEnded,
                   suggest, out>>

ProducerStep ==
    /\ Producer
    /\ UNCHANGED <<request, current, main, fastVars, delivered, hasText, hand, chunks, replyEnded,
                   suggest, out>>

-----------------------------------------------------------------------------
Runner == \/ Recognise \/ EmitFinal \/ Launch
          \/ \E text \in BOOLEAN : Decide(text)
          \/ DecisionFails \/ EmitIntent
          \/ \E taken \in 0..MaxDeltas : SayText(taken)
          \/ TakeAudio \/ EmitAudio \/ SpeechOver \/ EmitTtsError
          \/ Arbitrate \/ EmitFallback \/ BeginEnd \/ EmitEnd
          \/ BeginFail \/ EmitFail \/ EmitFailedEnd
FastAction == FastReserve \/ FastEmit \/ FastFails

Next == Runner \/ FastAction \/ ProducerStep \/ Suggest \/ Revoke \/ GeneratorClosed

Spec == Init /\ [][Next]_vars

(* Providers answer, fail or run into their deadlines, the client reads its
   stream, and the event loop runs what is ready. *)
FairSpec == Spec /\ WF_vars(Runner) /\ WF_vars(FastAction)
            /\ WF_vars(ProducerStep) /\ WF_vars(GeneratorClosed)

-----------------------------------------------------------------------------
TypeOK ==
    /\ request \in Request /\ main \in MainSteps
    /\ fast \in {"none", "ready", "emitting", "done", "failed"}
    /\ suggest \in {"none", "ready", "done"}
    /\ \A b \in {current, fastSelected, fastIntent, intentEmitted, delivered, hasText, replyEnded} :
          b \in BOOLEAN
    /\ chunks \in Nat /\ hand \in Chunks \cup {EndMark} /\ out \in Seq(Events)
    /\ SpeechTypeOK

Places(type) == {i \in DOMAIN out : out[i].type = type}

(* However the runner and the explicit action interleave, the turn sends at
   most one avatar.intent: the reserving source wins, the other stays silent. *)
OneIntent == \A i, j \in Places("avatar.intent") : i = j

(* reply.end is sent once and closes the turn: only the quick replies of a
   completed reply come after it, and no action task is left behind. *)
EndClosesTurn ==
    TypeOK /\
    \A e \in Places("reply.end") :
        /\ \A i \in DOMAIN out : i > e => out[i].type = "reply.suggestions" /\ out[e].text_sent
        /\ FastOver

(* What reply.end reports is what was sent before it: a completed reply its
   one intent and audio chunks numbered from 0 without a gap; a failed reply
   the error right before it and neither text nor audio. *)
EndTellsTheTruth ==
    \A e \in Places("reply.end") :
        IF out[e].status = "completed"
        THEN /\ Places("avatar.intent") # {}
             /\ out[e].audio_sequence_end = chunks - 1 /\ (out[e].audio_sent <=> chunks > 0)
             /\ \A n \in 0..(chunks - 1) : \E i \in Places("reply.audio.chunk") :
                   i < e /\ out[i].sequence = n
             /\ \A i \in Places("reply.audio.chunk") : out[i].sequence < chunks
             /\ Places("reply.text.delta") # {} => out[e].text_sent
             /\ \A i \in Places("error") : out[i].code = "tts_failed"
        ELSE /\ e > 1 /\ out[e - 1] = Error("terminal")
             /\ Places("reply.text.delta") = {} /\ Places("reply.audio.chunk") = {}

(* An explicit action that the client supports is not lost to the fallback:
   unless its task failed, it is the action of the completed turn. *)
ExplicitActionWins ==
    \A e \in Places("reply.end") :
        request.explicit = "supported" /\ out[e].status = "completed" /\ fast # "failed"
            => \A i \in Places("avatar.intent") : out[i].source = "explicit"

(* The client hears the sentences in the order of the text, each whole and of one
   voice, without a gap and nothing twice, however the two providers fail and take
   over; a reply that is completed without an error was spoken to its end, and one
   with an error up to the segment that no provider could speak. *)
Heard == {out[i].data : i \in Places("reply.audio.chunk")}
SpokenInOrder ==
    /\ \A i, j \in Places("reply.audio.chunk") : i < j => Precedes(out[i].data, out[j].data)
    /\ Heard \subseteq Audible
    /\ \A c \in Audible, d \in Heard : Precedes(c, d) => c \in Heard
    /\ Places("reply.end") # {} /\ producer # "none" =>
          /\ Heard = Audible
          /\ Len(rendered) < segments <=> Places("error") # {}

(* The turn tells the story of TurnStory, whatever its tasks, providers and queues do
   meanwhile: the client sees one sequential reply, with one intent in it at whatever
   place, and can trust what its end reports of it. *)
Story == INSTANCE TurnStory WITH said <- out, live <- current, Data <- Chunks
TellsItsStory == Story!Spec

(* Every turn that is not revoked ends with reply.end, whatever fails: the client
   always leaves its "thinking" state.  And no turn leaves its producer behind,
   waiting for room in a queue that nobody reads. *)
EveryTurnEnds ==
    /\ <>(Places("reply.end") # {} \/ ~current)
    /\ main \in {"done", "cancelled"} ~> producer \in {"none", "over"}
==============================================================================
