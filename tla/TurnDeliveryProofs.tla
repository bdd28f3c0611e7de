-------------------------- MODULE TurnDeliveryProofs --------------------------
(***************************************************************************)
(* The safety properties of TurnDelivery for any number of segments,       *)
(* chunks, deltas and places of the audio queue.                           *)
(***************************************************************************)
EXTENDS TurnDelivery, TLAPS

-----------------------------------------------------------------------------
(* The inductive invariant. *)

(* Where the runner is before it has a decision, once it failed, and while it
   delivers the reply. *)
Early    == {"stt", "asr", "launch", "decide"}
Failing  == {"fail", "fail_end"}
Replying == {"intent", "text", "speak", "audio", "tts_error", "arbitrate", "fallback", "end"}

Voices == {"voice_hub", "astrbot"}

TypeInv ==
    /\ request \in Request /\ main \in MainSteps
    /\ fast \in {"none", "ready", "emitting", "done", "failed"}
    /\ suggest \in {"none", "ready", "done"}
    /\ current \in BOOLEAN /\ fastSelected \in BOOLEAN /\ fastIntent \in BOOLEAN
    /\ intentEmitted \in BOOLEAN /\ delivered \in BOOLEAN /\ hasText \in BOOLEAN
    /\ replyEnded \in BOOLEAN
    /\ chunks \in Nat /\ out \in Seq(Events)
    /\ hand \in Chunks \cup {EndMark} /\ (main = "audio" => hand \in Chunks)

(* A producer speaks the segments one by one, none before the reply is spoken. *)
SpeechInv ==
    /\ producer \in ProducerSteps
    /\ segments \in 0..MaxSegments
    /\ rendered \in Seq([by : Voices, chunks : 0..MaxChunks]) /\ Len(rendered) <= segments
    /\ producer \in Voices => Len(rendered) < segments
    /\ left \in 0..MaxChunks
    /\ producer = "put" => Len(rendered) > 0 /\ left \in 1..rendered[Len(rendered)].chunks
    /\ pcm \in Seq(Chunks \cup {EndMark}) /\ Len(pcm) <= QueueSize
    /\ failure \in BOOLEAN
    /\ producer = "none" => rendered = << >>
    /\ main \in Early \cup {"intent", "text"} => producer = "none"

(* Who may still send the intent.  A reserved intent is sent, unless the task that
   reserved it fails or is cancelled; and while the task may still reserve it nobody
   else did. *)
FlagInv ==
    /\ fastIntent => fast = "done" /\ fastSelected
    /\ fast = "ready" => ~intentEmitted /\ ~replyEnded
    /\ fast = "emitting" => fastSelected
    /\ fast # "none" => request.explicit = "supported"
    /\ delivered \/ main \in {"intent", "fallback", "end", "done"} \cup Failing => FastOver
    /\ main \in Early \cup {"intent", "fallback"} => ~delivered
    /\ main \in {"intent", "fallback"} => ~fastIntent
    /\ main = "end" => delivered
    /\ main \in Early \ {"decide"} => fast = "none" /\ ~intentEmitted /\ ~replyEnded
    /\ request.explicit = "supported" /\ main \in {"decide"} \cup Replying => fast # "none"
    /\ fast = "done" /\ ~fastIntent => main \in Failing \cup {"done", "cancelled"}

(* The intents that were sent. *)
IntentInv ==
    /\ \A i \in Places("avatar.intent") : out[i].source = "explicit" <=> fastIntent
    /\ \A i, j \in Places("avatar.intent") : i = j
    /\ Places("avatar.intent") # {} <=> delivered \/ fastIntent

(* What holds once reply.end is out. *)
EndInv ==
    /\ \A e \in Places("reply.end") :
          /\ main = "done"
          /\ \A i \in DOMAIN out : i > e => out[i].type = "reply.suggestions" /\ out[e].text_sent
          /\ suggest = "ready" => out[e].text_sent
          /\ request.explicit = "supported" /\ out[e].status = "completed" => fastIntent \/ fast = "failed"
    /\ suggest = "ready" => main = "done"

(* What was said of the text, the audio and the errors before. *)
SaidInv ==
    /\ \A n \in 0..(chunks - 1) : \E i \in Places("reply.audio.chunk") : out[i].sequence = n
    /\ \A i \in Places("reply.audio.chunk") : out[i].sequence \in 0..(chunks - 1)
    /\ main \in Early \cup Failing => Places("reply.text.delta") = {} /\ Places("reply.audio.chunk") = {}
    /\ Places("reply.text.delta") # {} => hasText
    /\ main \notin {"fail_end", "done", "cancelled"} => \A i \in Places("error") : out[i].code = "tts_failed"
    /\ main = "fail_end" => out # << >> /\ out[Len(out)] = Error("terminal")

IInv == TypeInv /\ SpeechInv /\ FlagInv /\ IntentInv /\ EndInv /\ SaidInv /\ EndTellsTheTruth

USE DEF Early, Failing, Replying, Voices, MainSteps, ProducerSteps

LEMMA RecogniseKeeps == ASSUME IInv, Recognise PROVE IInv'
<1>1. TypeInv'
  BY DEF IInv, TypeInv, Recognise, Go, fastVars, voice
<1>2. SpeechInv'
  BY DEF IInv, SpeechInv, Recognise, Go, voice, speech
<1>3. FlagInv'
  BY DEF IInv, FlagInv, Recognise, Go, fastVars, FastOver
<1>4. IntentInv'
  BY DEF IInv, IntentInv, Recognise, Go, fastVars, Places
<1>5. EndInv'
  BY DEF IInv, EndInv, Recognise, Go, fastVars, Places
<1>6. SaidInv'
  BY DEF IInv, SaidInv, Recognise, Go, voice, Places
<1>7. EndTellsTheTruth'
  BY DEF IInv, EndTellsTheTruth, Recognise, Go, voice, Places
<1> QED
  BY <1>1, <1>2, <1>3, <1>4, <1>5, <1>6, <1>7 DEF IInv

LEMMA LaunchKeeps == ASSUME IInv, Launch PROVE IInv'
<1>1. TypeInv'
  BY DEF IInv, TypeInv, Launch, Go, voice
<1>2. SpeechInv'
  BY DEF IInv, SpeechInv, Launch, Go, voice, speech
<1>3. FlagInv'
  <2>1. fast' = IF request.explicit = "supported" THEN "ready" ELSE "none"
    BY DEF Launch
  <2>2. main' = "decide" /\ UNCHANGED <<request, fastSelected, fastIntent, intentEmitted, delivered, replyEnded>>
    BY DEF Launch, Go
  <2>3. FlagInv /\ TypeInv /\ EndInv /\ main = "launch"
    BY DEF IInv, Launch, Go
  <2> QED
    BY <2>1, <2>2, <2>3 DEF FlagInv, TypeInv, FastOver
<1>4. IntentInv'
  BY DEF IInv, IntentInv, Launch, Go, Places
<1>5. EndInv'
  BY DEF IInv, EndInv, Launch, Go, Places
<1>6. SaidInv'
  BY DEF IInv, SaidInv, Launch, Go, voice, Places
<1>7. EndTellsTheTruth'
  BY DEF IInv, EndTellsTheTruth, Launch, Go, voice, Places
<1> QED
  BY <1>1, <1>2, <1>3, <1>4, <1>5, <1>6, <1>7 DEF IInv

LEMMA TakeAudioKeeps == ASSUME IInv, TakeAudio PROVE IInv'
<1>1. TypeInv'
  <2>1. Head(pcm) \in Chunks \cup {EndMark}
    BY DEF IInv, SpeechInv, TakeAudio, Take
  <2>2. hand' \in Chunks
    BY <2>1 DEF TakeAudio
  <2> QED
    BY <2>2 DEF TypeInv, IInv, TakeAudio, Go, fastVars
<1>2. SpeechInv'
  <2>1. Tail(pcm) \in Seq(Chunks \cup {EndMark}) /\ Len(Tail(pcm)) <= QueueSize
    BY SpeechAssumption DEF IInv, SpeechInv, TakeAudio, Take
  <2> QED
    BY <2>1 DEF SpeechInv, TypeInv, IInv, TakeAudio, Go, Take
<1>3. FlagInv'
  BY DEF IInv, FlagInv, TakeAudio, Go, fastVars, FastOver
<1>4. IntentInv'
  BY DEF IInv, IntentInv, TakeAudio, Go, fastVars, Places
<1>5. EndInv'
  BY DEF IInv, EndInv, TakeAudio, Go, fastVars, Places
<1>6. SaidInv'
  BY DEF IInv, SaidInv, TakeAudio, Go, Places
<1>7. EndTellsTheTruth'
  BY DEF IInv, EndTellsTheTruth, TakeAudio, Go, Places
<1> QED
  BY <1>1, <1>2, <1>3, <1>4, <1>5, <1>6, <1>7 DEF IInv

LEMMA SpeechOverKeeps == ASSUME IInv, SpeechOver PROVE IInv'
<1>1. TypeInv'
  BY DEF IInv, TypeInv, SpeechOver, Go, fastVars, Take
<1>2. SpeechInv'
  <2>1. Tail(pcm) \in Seq(Chunks \cup {EndMark}) /\ Len(Tail(pcm)) <= QueueSize
    BY SpeechAssumption DEF IInv, SpeechInv, SpeechOver, Take
  <2> QED
    BY <2>1 DEF SpeechInv, TypeInv, IInv, SpeechOver, Go, Take
<1>3. FlagInv'
  BY DEF IInv, FlagInv, SpeechOver, Go, fastVars, FastOver
<1>4. IntentInv'
  BY DEF IInv, IntentInv, SpeechOver, Go, fastVars, Places
<1>5. EndInv'
  BY DEF IInv, EndInv, SpeechOver, Go, fastVars, Places
<1>6. SaidInv'
  BY DEF IInv, SaidInv, SpeechOver, Go, Places
<1>7. EndTellsTheTruth'
  BY DEF IInv, EndTellsTheTruth, SpeechOver, Go, Places
<1> QED
  BY <1>1, <1>2, <1>3, <1>4, <1>5, <1>6, <1>7 DEF IInv

LEMMA ArbitrateKeeps == ASSUME IInv, Arbitrate PROVE IInv'
<1>1. TypeInv'
  BY DEF IInv, TypeInv, Arbitrate, Go, voice
<1>2. SpeechInv'
  BY DEF IInv, SpeechInv, Arbitrate, Go, voice, speech
<1>3. FlagInv'
  BY DEF IInv, FlagInv, Arbitrate, Go, FastOver
<1>4. IntentInv'
  BY DEF IInv, IntentInv, Arbitrate, Go, Places
<1>5. EndInv'
  BY DEF IInv, EndInv, Arbitrate, Go, Places
<1>6. SaidInv'
  BY DEF IInv, SaidInv, Arbitrate, Go, voice, Places
<1>7. EndTellsTheTruth'
  BY DEF IInv, EndTellsTheTruth, Arbitrate, Go, voice, Places
<1> QED
  BY <1>1, <1>2, <1>3, <1>4, <1>5, <1>6, <1>7 DEF IInv

LEMMA BeginEndKeeps == ASSUME IInv, BeginEnd PROVE IInv'
<1>1. TypeInv'
  BY DEF IInv, TypeInv, BeginEnd, fastVars, voice
<1>2. SpeechInv'
  BY DEF IInv, SpeechInv, BeginEnd, voice, speech
<1>3. FlagInv'
  BY DEF IInv, FlagInv, BeginEnd, fastVars, FastOver
<1>4. IntentInv'
  BY DEF IInv, IntentInv, BeginEnd, fastVars, Places
<1>5. EndInv'
  BY DEF IInv, EndInv, BeginEnd, fastVars, Places
<1>6. SaidInv'
  BY DEF IInv, SaidInv, BeginEnd, voice, Places
<1>7. EndTellsTheTruth'
  BY DEF IInv, EndTellsTheTruth, BeginEnd, voice, Places
<1> QED
  BY <1>1, <1>2, <1>3, <1>4, <1>5, <1>6, <1>7 DEF IInv

LEMMA DecisionFailsKeeps == ASSUME IInv, DecisionFails PROVE IInv'
<1>1. TypeInv'
  BY DEF IInv, TypeInv, DecisionFails, Go, voice
<1>2. SpeechInv'
  BY DEF IInv, SpeechInv, DecisionFails, Go, voice, speech
<1>3. FlagInv'
  BY DEF IInv, FlagInv, DecisionFails, Go, FastOver
<1>4. IntentInv'
  BY DEF IInv, IntentInv, DecisionFails, Go, Places
<1>5. EndInv'
  BY DEF IInv, EndInv, DecisionFails, Go, Places
<1>6. SaidInv'
  BY DEF IInv, SaidInv, DecisionFails, Go, voice, Places
<1>7. EndTellsTheTruth'
  BY DEF IInv, EndTellsTheTruth, DecisionFails, Go, voice, Places
<1> QED
  BY <1>1, <1>2, <1>3, <1>4, <1>5, <1>6, <1>7 DEF IInv

LEMMA BeginFailKeeps == ASSUME IInv, BeginFail PROVE IInv'
<1>1. TypeInv'
  BY DEF IInv, TypeInv, BeginFail, fastVars, voice
<1>2. SpeechInv'
  BY DEF IInv, SpeechInv, BeginFail, voice, speech
<1>3. FlagInv'
  BY DEF IInv, FlagInv, BeginFail, fastVars, FastOver
<1>4. IntentInv'
  BY DEF IInv, IntentInv, BeginFail, fastVars, Places
<1>5. EndInv'
  BY DEF IInv, EndInv, BeginFail, fastVars, Places
<1>6. SaidInv'
  BY DEF IInv, SaidInv, BeginFail, voice, Places
<1>7. EndTellsTheTruth'
  BY DEF IInv, EndTellsTheTruth, BeginFail, voice, Places
<1> QED
  BY <1>1, <1>2, <1>3, <1>4, <1>5, <1>6, <1>7 DEF IInv

LEMMA FastReserveKeeps == ASSUME IInv, FastReserve PROVE IInv'
<1>1. TypeInv'
  <2>1. TypeInv
    BY DEF IInv
  <2>2. /\ fast' \in {"done", "emitting"} /\ fastSelected' \in {fastSelected, TRUE}
        /\ intentEmitted' \in {intentEmitted, TRUE}
        /\ UNCHANGED <<request, current, main, fastIntent, delivered, hasText, hand, chunks, replyEnded, suggest, out>>
    BY DEF FastReserve, voice
  <2>3. fastSelected' \in BOOLEAN /\ intentEmitted' \in BOOLEAN
    BY <2>1, <2>2, Zenon DEF TypeInv
  <2> QED
    BY <2>1, <2>2, <2>3 DEF TypeInv
<1>2. SpeechInv'
  BY DEF IInv, SpeechInv, FastReserve, voice, speech
<1>3. FlagInv'
  <2>1. FlagInv /\ TypeInv /\ fast = "ready"
    BY DEF IInv, FastReserve
  <2>2. ~intentEmitted /\ ~replyEnded
    BY <2>1 DEF FlagInv
  <2>3. /\ fast' = "emitting" /\ fastSelected' = TRUE
        /\ UNCHANGED <<request, main, fastIntent, delivered, replyEnded>>
    BY <2>2 DEF FastReserve
  <2> QED
    BY <2>1, <2>3 DEF FlagInv, TypeInv, FastOver
<1>4. IntentInv'
  BY DEF IInv, IntentInv, FastReserve, Places
<1>5. EndInv'
  BY DEF IInv, EndInv, FastReserve, Places
<1>6. SaidInv'
  BY DEF IInv, SaidInv, FastReserve, voice, Places
<1>7. EndTellsTheTruth'
  BY DEF IInv, EndTellsTheTruth, FastReserve, voice, Places
<1> QED
  BY <1>1, <1>2, <1>3, <1>4, <1>5, <1>6, <1>7 DEF IInv

LEMMA FastFailsKeeps == ASSUME IInv, FastFails PROVE IInv'
<1>1. TypeInv'
  BY DEF IInv, TypeInv, FastFails, voice
<1>2. SpeechInv'
  BY DEF IInv, SpeechInv, FastFails, voice, speech
<1>3. FlagInv'
  BY DEF IInv, FlagInv, FastFails, FastOver
<1>4. IntentInv'
  BY DEF IInv, IntentInv, FastFails, Places
<1>5. EndInv'
  BY DEF IInv, EndInv, FastFails, Places
<1>6. SaidInv'
  BY DEF IInv, SaidInv, FastFails, voice, Places
<1>7. EndTellsTheTruth'
  BY DEF IInv, EndTellsTheTruth, FastFails, voice, Places
<1> QED
  BY <1>1, <1>2, <1>3, <1>4, <1>5, <1>6, <1>7 DEF IInv

LEMMA RevokeKeeps == ASSUME IInv, Revoke PROVE IInv'
<1>1. TypeInv'
  <2>1. TypeInv
    BY DEF IInv
  <2>2. /\ current' = FALSE /\ main' \in {main, "cancelled"} /\ (main' = "audio" => main = "audio")
        /\ fast' \in {fast, "done"} /\ suggest' \in {suggest, "done"}
        /\ UNCHANGED <<request, fastSelected, fastIntent, intentEmitted, delivered, hasText, hand, chunks, replyEnded, out>>
    BY DEF Revoke
  <2>3. current' \in BOOLEAN /\ main' \in MainSteps
    BY <2>1, <2>2 DEF TypeInv
  <2>4. fast' \in {"none", "ready", "emitting", "done", "failed"} /\ suggest' \in {"none", "ready", "done"}
    BY <2>1, <2>2 DEF TypeInv
  <2>5. main' = "audio" => hand' \in Chunks
    BY <2>1, <2>2 DEF TypeInv
  <2> QED
    BY <2>1, <2>2, <2>3, <2>4, <2>5, Zenon DEF TypeInv
<1>2. SpeechInv'
  BY DEF IInv, SpeechInv, Revoke, speech, ProducerCancelled
<1>3. FlagInv'
  BY DEF IInv, FlagInv, Revoke, FastOver
<1>4. IntentInv'
  BY DEF IInv, IntentInv, Revoke, Places
<1>5. EndInv'
  BY DEF IInv, EndInv, FlagInv, TypeInv, Revoke, Places
<1>6. SaidInv'
  BY DEF IInv, SaidInv, Revoke, Places
<1>7. EndTellsTheTruth'
  BY DEF IInv, EndTellsTheTruth, Revoke, Places
<1> QED
  BY <1>1, <1>2, <1>3, <1>4, <1>5, <1>6, <1>7 DEF IInv

LEMMA GeneratorClosedKeeps == ASSUME IInv, GeneratorClosed PROVE IInv'
<1>1. TypeInv'
  BY DEF IInv, TypeInv, GeneratorClosed, fastVars
<1>2. SpeechInv'
  BY DEF IInv, SpeechInv, GeneratorClosed, ProducerCancelled
<1>3. FlagInv'
  BY DEF IInv, FlagInv, GeneratorClosed, fastVars, FastOver
<1>4. IntentInv'
  BY DEF IInv, IntentInv, GeneratorClosed, fastVars, Places
<1>5. EndInv'
  BY DEF IInv, EndInv, GeneratorClosed, fastVars, Places
<1>6. SaidInv'
  BY DEF IInv, SaidInv, GeneratorClosed, Places
<1>7. EndTellsTheTruth'
  BY DEF IInv, EndTellsTheTruth, GeneratorClosed, Places
<1> QED
  BY <1>1, <1>2, <1>3, <1>4, <1>5, <1>6, <1>7 DEF IInv

LEMMA DecideKeeps == ASSUME NEW text \in BOOLEAN, IInv, Decide(text) PROVE IInv'
<1>1. TypeInv'
  BY DEF IInv, TypeInv, Decide, Go, voice
<1>2. SpeechInv'
  BY DEF IInv, SpeechInv, Decide, Go, voice, speech
<1>3. FlagInv'
  BY DEF IInv, FlagInv, TypeInv, Decide, Go, FastOver, Active
<1>4. IntentInv'
  BY DEF IInv, IntentInv, Decide, Go, Places
<1>5. EndInv'
  BY DEF IInv, EndInv, Decide, Go, Places
<1>6. SaidInv'
  BY DEF IInv, SaidInv, Decide, Go, voice, Places
<1>7. EndTellsTheTruth'
  BY DEF IInv, EndTellsTheTruth, Decide, Go, voice, Places
<1> QED
  BY <1>1, <1>2, <1>3, <1>4, <1>5, <1>6, <1>7 DEF IInv

(* What a sequence over S holds is in S. *)
LEMMA ElementIn == ASSUME NEW S, NEW s \in Seq(S), NEW i \in 1..Len(s) PROVE s[i] \in S
OBVIOUS

(* Each step of the producer keeps SpeechInv. *)
LEMMA NextSegmentKeeps == ASSUME SpeechInv, UNCHANGED main, NextSegment PROVE SpeechInv'
<1>1. /\ producer = "segment" /\ producer' \in {"end", "voice_hub", "astrbot"} /\ failure' \in {failure, TRUE}
      /\ producer' \in Voices => Len(rendered) # segments
      /\ UNCHANGED <<segments, rendered, left, pcm>>
  BY DEF NextSegment, Fail
<1>2. rendered \in Seq([by : Voices, chunks : 0..MaxChunks]) /\ Len(rendered) \in Nat /\ segments \in Nat
  BY SpeechAssumption DEF SpeechInv
<1>3. producer' \in Voices => Len(rendered) < segments
  BY <1>1, <1>2 DEF SpeechInv
<1>4. failure' \in BOOLEAN
  BY <1>1 DEF SpeechInv
<1> QED
  BY <1>1, <1>3, <1>4 DEF SpeechInv

LEMMA RenderedKeeps ==
    ASSUME SpeechInv, UNCHANGED main, NEW by \in Voices, Rendered(by) PROVE SpeechInv'
<1>1. PICK n \in 0..MaxChunks :
         /\ rendered' = Append(rendered, [by |-> by, chunks |-> n])
         /\ left' = n /\ producer' = IF n = 0 THEN "segment" ELSE "put"
         /\ producer = by /\ UNCHANGED <<segments, pcm, failure>>
  BY DEF Rendered
<1>2. [by |-> by, chunks |-> n] \in [by : Voices, chunks : 0..MaxChunks]
  OBVIOUS
<1>3. rendered \in Seq([by : Voices, chunks : 0..MaxChunks]) /\ Len(rendered) < segments /\ segments \in Nat
  BY <1>1, SpeechAssumption DEF SpeechInv
<1>4. /\ rendered' \in Seq([by : Voices, chunks : 0..MaxChunks]) /\ Len(rendered') = Len(rendered) + 1
      /\ rendered'[Len(rendered')] = [by |-> by, chunks |-> n]
  BY <1>1, <1>2, <1>3
<1>5. rendered'[Len(rendered')].chunks = n
  BY <1>4
<1>6. n = 0 \/ n \in 1..n
  BY SpeechAssumption
<1>7. /\ producer' \in ProducerSteps /\ producer' \notin Voices /\ producer' # "none"
      /\ producer' = "put" => left' \in 1..n
  BY <1>1, <1>6
<1>8. Len(rendered') > 0 /\ Len(rendered') <= segments
  BY <1>3, <1>4
<1>9. ~(main \in Early \cup {"intent", "text"})
  BY <1>1 DEF SpeechInv
<1> QED
  BY <1>1, <1>4, <1>5, <1>7, <1>8, <1>9 DEF SpeechInv

LEMMA ProviderFailsKeeps ==
    ASSUME SpeechInv, UNCHANGED main, VoiceHubFails \/ AstrBotFails PROVE SpeechInv'
<1>1. /\ producer \in Voices /\ producer' \in {"end", "astrbot"} /\ failure' \in {failure, TRUE}
      /\ UNCHANGED <<segments, rendered, left, pcm>>
  BY DEF VoiceHubFails, AstrBotFails, Fail
<1> QED
  BY <1>1 DEF SpeechInv

LEMMA PutChunkKeeps == ASSUME SpeechInv, UNCHANGED main, PutChunk PROVE SpeechInv'
<1> DEFINE r == rendered[Len(rendered)]
           c == Chunk(Len(rendered), r.chunks - left)
<1>1. /\ rendered \in Seq([by : Voices, chunks : 0..MaxChunks]) /\ Len(rendered) \in 1..segments
      /\ left \in 1..r.chunks /\ segments \in 0..MaxSegments
      /\ pcm \in Seq(Chunks \cup {EndMark}) /\ Len(pcm) < QueueSize
  BY SpeechAssumption DEF SpeechInv, PutChunk
<1>2. r \in [by : Voices, chunks : 0..MaxChunks]
  <2>1. Len(rendered) \in 1..Len(rendered) /\ rendered \in Seq([by : Voices, chunks : 0..MaxChunks])
    BY <1>1
  <2> QED
    BY <2>1, ElementIn
<1>3. Len(rendered) \in 1..MaxSegments /\ r.chunks - left \in 0..(MaxChunks - 1)
  BY <1>1, <1>2, SpeechAssumption
<1>4. c \in Chunks
  BY <1>2, <1>3 DEF Chunk, Chunks
<1>5. /\ pcm' = Append(pcm, c) /\ left' = left - 1 /\ producer = "put"
      /\ producer' = IF left' = 0 THEN "segment" ELSE "put"
      /\ UNCHANGED <<segments, rendered, failure>>
  BY DEF PutChunk
<1> HIDE DEF c
<1>6. pcm' \in Seq(Chunks \cup {EndMark}) /\ Len(pcm') <= QueueSize
  BY <1>1, <1>4, <1>5, SpeechAssumption
<1>7. left' \in 0..MaxChunks /\ (left' = 0 \/ left' \in 1..r.chunks)
  BY <1>1, <1>2, <1>5, SpeechAssumption
<1> QED
  BY <1>1, <1>5, <1>6, <1>7 DEF SpeechInv

LEMMA PutEndKeeps == ASSUME SpeechInv, UNCHANGED main, PutEnd PROVE SpeechInv'
<1>1. /\ pcm' = Append(pcm, EndMark) /\ producer = "end" /\ producer' = "over" /\ Len(pcm) < QueueSize
      /\ UNCHANGED <<segments, rendered, left, failure>>
  BY DEF PutEnd
<1>2. pcm' \in Seq(Chunks \cup {EndMark}) /\ Len(pcm') <= QueueSize
  BY <1>1, SpeechAssumption DEF SpeechInv
<1> QED
  BY <1>1, <1>2 DEF SpeechInv

LEMMA ProducerStepKeeps == ASSUME IInv, ProducerStep PROVE IInv'
<1>1. SpeechInv /\ UNCHANGED main /\ Producer
  BY DEF IInv, ProducerStep
<1>2. SpeechInv'
  BY <1>1, NextSegmentKeeps, RenderedKeeps, ProviderFailsKeeps, PutChunkKeeps, PutEndKeeps
     DEF Producer, VoiceHubRendered, AstrBotRendered
<1>3. UNCHANGED <<request, current, main, fastVars, delivered, hasText, hand, chunks, replyEnded, suggest, out>>
  BY DEF ProducerStep
<1>4. TypeInv' /\ FlagInv'
  BY <1>3 DEF IInv, TypeInv, FlagInv, fastVars, FastOver
<1>5. IntentInv' /\ EndInv' /\ SaidInv'
  BY <1>3 DEF IInv, IntentInv, EndInv, SaidInv, fastVars, Places
<1>6. EndTellsTheTruth'
  BY <1>3 DEF IInv, EndTellsTheTruth, Places
<1> QED
  BY <1>2, <1>4, <1>5, <1>6 DEF IInv

(* What a sent event does to the queue: it comes behind what was sent. *)
Says(event) ==
    /\ out \in Seq(Events) /\ out' \in Seq(Events) /\ Len(out) \in Nat
    /\ DOMAIN out = 1..Len(out) /\ DOMAIN out' = 1..(Len(out) + 1)
    /\ Len(out') = Len(out) + 1 /\ out'[Len(out) + 1] = event
    /\ \A i \in 1..Len(out) : out'[i] = out[i]

LEMMA EmitSays == ASSUME out \in Seq(Events), NEW event \in Events, Emit(event) PROVE Says(event)
BY DEF Emit, Says

(* An event that is no reply.end, said before one is out, leaves nothing to be told. *)
LEMMA NoEndYet ==
    ASSUME NEW event, Says(event), event.type # "reply.end", Places("reply.end") = {}
    PROVE  EndTellsTheTruth'
<1>1. Places("reply.end")' = {}
  BY DEF Says, Places
<1> QED
  BY <1>1 DEF EndTellsTheTruth

LEMMA EmitFinalKeeps == ASSUME IInv, EmitFinal PROVE IInv'
<1>0. Says(Event("asr.final"))
  <2>1. Event("asr.final") \in Events
    BY DEF IInv, TypeInv, EmitFinal, Go, Events, Event
  <2>2. out \in Seq(Events) /\ Emit(Event("asr.final"))
    BY DEF IInv, TypeInv, EmitFinal
  <2> QED
    BY <2>1, <2>2, EmitSays
<1>1. TypeInv'
  BY <1>0 DEF IInv, TypeInv, EmitFinal, Go, fastVars, voice, Says
<1>2. SpeechInv'
  BY DEF IInv, SpeechInv, EmitFinal, Go, voice, speech
<1>3. FlagInv'
  BY DEF IInv, FlagInv, EmitFinal, Go, fastVars, FastOver
<1>4. IntentInv'
  BY <1>0 DEF IInv, IntentInv, EmitFinal, Go, fastVars, Places, Says, Event
<1>5. EndInv'
  BY <1>0 DEF IInv, EndInv, EmitFinal, Go, fastVars, Places, Says, Event
<1>6. SaidInv'
  BY <1>0 DEF IInv, SaidInv, EmitFinal, Go, voice, Places, Says, Event
<1>7. EndTellsTheTruth'
  <2>1. Places("reply.end") = {}
    BY DEF IInv, EndInv, EmitFinal, Go
  <2>2. Event("asr.final").type # "reply.end"
    BY DEF Event
  <2> QED
    BY <1>0, <2>1, <2>2, NoEndYet
<1> QED
  BY <1>1, <1>2, <1>3, <1>4, <1>5, <1>6, <1>7 DEF IInv

LEMMA EmitIntentKeeps == ASSUME IInv, EmitIntent PROVE IInv'
<1>0. Says(Intent(IF Active THEN "fallback" ELSE "reply"))
  <2>1. Intent(IF Active THEN "fallback" ELSE "reply") \in Events
    BY DEF IInv, TypeInv, EmitIntent, Go, Events, Intent
  <2>2. out \in Seq(Events) /\ Emit(Intent(IF Active THEN "fallback" ELSE "reply"))
    BY DEF IInv, TypeInv, EmitIntent
  <2> QED
    BY <2>1, <2>2, EmitSays
<1>1. TypeInv'
  BY <1>0 DEF IInv, TypeInv, EmitIntent, Go, fastVars, voice, Says
<1>2. SpeechInv'
  BY DEF IInv, SpeechInv, EmitIntent, Go, voice, speech
<1>3. FlagInv'
  BY DEF IInv, FlagInv, EmitIntent, Go, fastVars, FastOver
<1>4. IntentInv'
  BY <1>0 DEF IInv, IntentInv, FlagInv, TypeInv, EmitIntent, Go, fastVars, Places, Says, Intent
<1>5. EndInv'
  BY <1>0 DEF IInv, EndInv, EmitIntent, Go, fastVars, Places, Says, Intent
<1>6. SaidInv'
  <2>1. Places("reply.audio.chunk")' = Places("reply.audio.chunk") /\ \A i \in Places("reply.audio.chunk") : i \in 1..Len(out) /\ out'[i] = out[i]
    BY <1>0 DEF Says, Places, Intent
  <2>2. Places("reply.text.delta")' = Places("reply.text.delta") /\ \A i \in Places("reply.text.delta") : i \in 1..Len(out) /\ out'[i] = out[i]
    BY <1>0 DEF Says, Places, Intent
  <2>3. Places("error")' = Places("error") /\ \A i \in Places("error") : i \in 1..Len(out) /\ out'[i] = out[i]
    BY <1>0 DEF Says, Places, Intent
  <2>4. SaidInv /\ UNCHANGED <<chunks, hasText>>
    BY DEF IInv, EmitIntent, voice
  <2>5. /\ \A n \in 0..(chunks' - 1) : \E i \in Places("reply.audio.chunk")' : out'[i].sequence = n
        /\ \A i \in Places("reply.audio.chunk")' : out'[i].sequence \in 0..(chunks' - 1)
    BY <2>1, <2>4 DEF SaidInv
  <2>6. main \in Replying /\ main' \in Replying
    BY DEF EmitIntent, Go
  <2> QED
    BY <2>1, <2>2, <2>3, <2>4, <2>5, <2>6 DEF SaidInv
<1>7. EndTellsTheTruth'
  <2>1. Places("reply.end") = {}
    BY DEF IInv, EndInv, EmitIntent, Go
  <2>2. Intent(IF Active THEN "fallback" ELSE "reply").type # "reply.end"
    BY DEF Intent
  <2> QED
    BY <1>0, <2>1, <2>2, NoEndYet
<1> QED
  BY <1>1, <1>2, <1>3, <1>4, <1>5, <1>6, <1>7 DEF IInv

LEMMA EmitAudioKeeps == ASSUME IInv, EmitAudio PROVE IInv'
<1>0. Says(Audio(chunks, hand))
  <2>1. Audio(chunks, hand) \in Events
    BY DEF IInv, TypeInv, EmitAudio, Go, Events, Audio
  <2>2. out \in Seq(Events) /\ Emit(Audio(chunks, hand))
    BY DEF IInv, TypeInv, EmitAudio
  <2> QED
    BY <2>1, <2>2, EmitSays
<1>1. TypeInv'
  BY <1>0 DEF IInv, TypeInv, EmitAudio, Go, fastVars, Says
<1>2. SpeechInv'
  BY DEF IInv, SpeechInv, EmitAudio, Go, speech
<1>3. FlagInv'
  BY DEF IInv, FlagInv, EmitAudio, Go, fastVars, FastOver
<1>4. IntentInv'
  BY <1>0 DEF IInv, IntentInv, EmitAudio, Go, fastVars, Places, Says, Audio
<1>5. EndInv'
  BY <1>0 DEF IInv, EndInv, EmitAudio, Go, fastVars, Places, Says, Audio
<1>6. SaidInv'
  <2>1. Places("reply.text.delta")' = Places("reply.text.delta") /\ \A i \in Places("reply.text.delta") : i \in 1..Len(out) /\ out'[i] = out[i]
    BY <1>0 DEF Says, Places, Audio
  <2>2. Places("error")' = Places("error") /\ \A i \in Places("error") : i \in 1..Len(out) /\ out'[i] = out[i]
    BY <1>0 DEF Says, Places, Audio
  <2>3. /\ Places("reply.audio.chunk")' = Places("reply.audio.chunk") \cup {Len(out) + 1}
        /\ out'[Len(out) + 1].sequence = chunks
        /\ \A i \in Places("reply.audio.chunk") : i \in 1..Len(out) /\ out'[i].sequence = out[i].sequence
    BY <1>0 DEF Says, Places, Audio
  <2>4. SaidInv /\ chunks \in Nat /\ chunks' = chunks + 1 /\ hasText' = hasText /\ main = "audio" /\ main' = "speak"
    BY DEF IInv, TypeInv, EmitAudio, Go
  <2>5. \A n \in 0..(chunks' - 1) : \E i \in Places("reply.audio.chunk")' : out'[i].sequence = n
    <3> SUFFICES ASSUME NEW n \in 0..(chunks' - 1)
                 PROVE  \E i \in Places("reply.audio.chunk")' : out'[i].sequence = n
      OBVIOUS
    <3>1. CASE n = chunks
      BY <3>1, <2>3
    <3>2. CASE n # chunks
      <4>1. PICK i \in Places("reply.audio.chunk") : out[i].sequence = n
        BY <3>2, <2>4 DEF SaidInv
      <4> QED
        BY <4>1, <2>3
    <3> QED
      BY <3>1, <3>2
  <2>6. \A i \in Places("reply.audio.chunk") : out[i].sequence \in 0..(chunks - 1)
    BY <2>4 DEF SaidInv
  <2>7. \A i \in Places("reply.audio.chunk")' : out'[i].sequence \in 0..(chunks' - 1)
    BY <2>3, <2>4, <2>6
  <2> QED
    BY <2>1, <2>2, <2>4, <2>5, <2>7 DEF SaidInv
<1>7. EndTellsTheTruth'
  <2>1. Places("reply.end") = {}
    BY DEF IInv, EndInv, EmitAudio, Go
  <2>2. Places("reply.end")' = {}
    BY <1>0, <2>1 DEF Says, Places, Audio
  <2> QED
    BY <2>2 DEF EndTellsTheTruth
<1> QED
  BY <1>1, <1>2, <1>3, <1>4, <1>5, <1>6, <1>7 DEF IInv

LEMMA EmitTtsErrorKeeps == ASSUME IInv, EmitTtsError PROVE IInv'
<1>0. Says(Error("tts_failed"))
  <2>1. Error("tts_failed") \in Events
    BY DEF IInv, TypeInv, EmitTtsError, Go, Events, Error
  <2>2. out \in Seq(Events) /\ Emit(Error("tts_failed"))
    BY DEF IInv, TypeInv, EmitTtsError
  <2> QED
    BY <2>1, <2>2, EmitSays
<1>1. TypeInv'
  BY <1>0 DEF IInv, TypeInv, EmitTtsError, Go, fastVars, voice, Says
<1>2. SpeechInv'
  BY DEF IInv, SpeechInv, EmitTtsError, Go, voice, speech
<1>3. FlagInv'
  BY DEF IInv, FlagInv, EmitTtsError, Go, fastVars, FastOver
<1>4. IntentInv'
  BY <1>0 DEF IInv, IntentInv, EmitTtsError, Go, fastVars, Places, Says, Error
<1>5. EndInv'
  BY <1>0 DEF IInv, EndInv, EmitTtsError, Go, fastVars, Places, Says, Error
<1>6. SaidInv'
  <2>1. Places("reply.audio.chunk")' = Places("reply.audio.chunk") /\ \A i \in Places("reply.audio.chunk") : i \in 1..Len(out) /\ out'[i] = out[i]
    BY <1>0 DEF Says, Places, Error
  <2>2. Places("reply.text.delta")' = Places("reply.text.delta") /\ \A i \in Places("reply.text.delta") : i \in 1..Len(out) /\ out'[i] = out[i]
    BY <1>0 DEF Says, Places, Error
  <2>3. \A i \in Places("error")' : (i \in Places("error") /\ out'[i] = out[i]) \/ out'[i] = Error("tts_failed")
    BY <1>0 DEF Says, Places
  <2>4. SaidInv /\ UNCHANGED <<chunks, hasText>>
    BY DEF IInv, EmitTtsError, voice
  <2>5. /\ \A n \in 0..(chunks' - 1) : \E i \in Places("reply.audio.chunk")' : out'[i].sequence = n
        /\ \A i \in Places("reply.audio.chunk")' : out'[i].sequence \in 0..(chunks' - 1)
    BY <2>1, <2>4 DEF SaidInv
  <2>6. main \in Replying /\ main' \in Replying
    BY DEF EmitTtsError, Go
  <2> QED
    BY <2>1, <2>2, <2>3, <2>4, <2>5, <2>6 DEF SaidInv, Error
<1>7. EndTellsTheTruth'
  <2>1. Places("reply.end") = {}
    BY DEF IInv, EndInv, EmitTtsError, Go
  <2>2. Error("tts_failed").type # "reply.end"
    BY DEF Error
  <2> QED
    BY <1>0, <2>1, <2>2, NoEndYet
<1> QED
  BY <1>1, <1>2, <1>3, <1>4, <1>5, <1>6, <1>7 DEF IInv

LEMMA EmitFallbackKeeps == ASSUME IInv, EmitFallback PROVE IInv'
<1>0. Says(Intent("fallback"))
  <2>1. Intent("fallback") \in Events
    BY DEF IInv, TypeInv, EmitFallback, Go, Events, Intent
  <2>2. out \in Seq(Events) /\ Emit(Intent("fallback"))
    BY DEF IInv, TypeInv, EmitFallback
  <2> QED
    BY <2>1, <2>2, EmitSays
<1>1. TypeInv'
  BY <1>0 DEF IInv, TypeInv, EmitFallback, Go, fastVars, voice, Says
<1>2. SpeechInv'
  BY DEF IInv, SpeechInv, EmitFallback, Go, voice, speech
<1>3. FlagInv'
  BY DEF IInv, FlagInv, EmitFallback, Go, fastVars, FastOver
<1>4. IntentInv'
  BY <1>0 DEF IInv, IntentInv, FlagInv, TypeInv, EmitFallback, Go, fastVars, Places, Says, Intent
<1>5. EndInv'
  BY <1>0 DEF IInv, EndInv, EmitFallback, Go, fastVars, Places, Says, Intent
<1>6. SaidInv'
  <2>1. Places("reply.audio.chunk")' = Places("reply.audio.chunk") /\ \A i \in Places("reply.audio.chunk") : i \in 1..Len(out) /\ out'[i] = out[i]
    BY <1>0 DEF Says, Places, Intent
  <2>2. Places("reply.text.delta")' = Places("reply.text.delta") /\ \A i \in Places("reply.text.delta") : i \in 1..Len(out) /\ out'[i] = out[i]
    BY <1>0 DEF Says, Places, Intent
  <2>3. Places("error")' = Places("error") /\ \A i \in Places("error") : i \in 1..Len(out) /\ out'[i] = out[i]
    BY <1>0 DEF Says, Places, Intent
  <2>4. SaidInv /\ UNCHANGED <<chunks, hasText>>
    BY DEF IInv, EmitFallback, voice
  <2>5. /\ \A n \in 0..(chunks' - 1) : \E i \in Places("reply.audio.chunk")' : out'[i].sequence = n
        /\ \A i \in Places("reply.audio.chunk")' : out'[i].sequence \in 0..(chunks' - 1)
    BY <2>1, <2>4 DEF SaidInv
  <2>6. main \in Replying /\ main' \in Replying
    BY DEF EmitFallback, Go
  <2> QED
    BY <2>1, <2>2, <2>3, <2>4, <2>5, <2>6 DEF SaidInv
<1>7. EndTellsTheTruth'
  <2>1. Places("reply.end") = {}
    BY DEF IInv, EndInv, EmitFallback, Go
  <2>2. Intent("fallback").type # "reply.end"
    BY DEF Intent
  <2> QED
    BY <1>0, <2>1, <2>2, NoEndYet
<1> QED
  BY <1>1, <1>2, <1>3, <1>4, <1>5, <1>6, <1>7 DEF IInv

LEMMA EmitEndKeeps == ASSUME IInv, EmitEnd PROVE IInv'
<1>0. Says(End(hasText, chunks > 0, chunks - 1))
  <2>1. End(hasText, chunks > 0, chunks - 1) \in Events
    BY DEF IInv, TypeInv, EmitEnd, Go, Events, End
  <2>2. out \in Seq(Events) /\ Emit(End(hasText, chunks > 0, chunks - 1))
    BY DEF IInv, TypeInv, EmitEnd
  <2> QED
    BY <2>1, <2>2, EmitSays
<1>1. TypeInv'
  BY <1>0 DEF IInv, TypeInv, EmitEnd, Go, fastVars, voice, Says
<1>2. SpeechInv'
  BY DEF IInv, SpeechInv, EmitEnd, Go, voice, speech
<1>3. FlagInv'
  BY DEF IInv, FlagInv, EmitEnd, Go, fastVars, FastOver
<1>4. IntentInv'
  BY <1>0 DEF IInv, IntentInv, EmitEnd, Go, fastVars, Places, Says, End
<1>5. EndInv'
  BY <1>0 DEF IInv, EndInv, FlagInv, TypeInv, EmitEnd, Go, fastVars, Places, FastOver, Says, End
<1>6. SaidInv'
  <2>1. Places("reply.audio.chunk")' = Places("reply.audio.chunk") /\ \A i \in Places("reply.audio.chunk") : i \in 1..Len(out) /\ out'[i] = out[i]
    BY <1>0 DEF Says, Places, End
  <2>2. Places("reply.text.delta")' = Places("reply.text.delta") /\ \A i \in Places("reply.text.delta") : i \in 1..Len(out) /\ out'[i] = out[i]
    BY <1>0 DEF Says, Places, End
  <2>3. Places("error")' = Places("error") /\ \A i \in Places("error") : i \in 1..Len(out) /\ out'[i] = out[i]
    BY <1>0 DEF Says, Places, End
  <2>4. SaidInv /\ UNCHANGED <<chunks, hasText>>
    BY DEF IInv, EmitEnd, voice
  <2>5. /\ \A n \in 0..(chunks' - 1) : \E i \in Places("reply.audio.chunk")' : out'[i].sequence = n
        /\ \A i \in Places("reply.audio.chunk")' : out'[i].sequence \in 0..(chunks' - 1)
    BY <2>1, <2>4 DEF SaidInv
  <2>6. main' = "done"
    BY DEF EmitEnd, Go
  <2> QED
    BY <2>1, <2>2, <2>3, <2>4, <2>5, <2>6 DEF SaidInv
<1>7. EndTellsTheTruth'
  <2>1. Places("reply.audio.chunk")' = Places("reply.audio.chunk") /\ \A i \in Places("reply.audio.chunk") : i \in 1..Len(out) /\ out'[i] = out[i]
    BY <1>0 DEF Says, Places, End
  <2>2. Places("reply.text.delta")' = Places("reply.text.delta") /\ \A i \in Places("reply.text.delta") : i \in 1..Len(out) /\ out'[i] = out[i]
    BY <1>0 DEF Says, Places, End
  <2>3. Places("error")' = Places("error") /\ \A i \in Places("error") : i \in 1..Len(out) /\ out'[i] = out[i]
    BY <1>0 DEF Says, Places, End
  <2>4. Places("avatar.intent")' = Places("avatar.intent") /\ \A i \in Places("avatar.intent") : i \in 1..Len(out) /\ out'[i] = out[i]
    BY <1>0 DEF Says, Places, End
  <2>5. /\ SaidInv /\ chunks' = chunks /\ chunks \in Nat /\ main = "end" /\ delivered
        /\ Places("reply.text.delta") # {} => hasText
    BY DEF IInv, TypeInv, FlagInv, SaidInv, EmitEnd, Go, voice
  <2>6. Places("avatar.intent") # {} /\ Places("reply.end") = {}
    BY <2>5 DEF IInv, IntentInv, EndInv
  <2>7. /\ Places("reply.end")' = {Len(out) + 1}
        /\ out'[Len(out) + 1] = End(hasText, chunks > 0, chunks - 1)
    BY <1>0, <2>6 DEF Says, Places, End
  <2>8. /\ End(hasText, chunks > 0, chunks - 1).status = "completed"
        /\ End(hasText, chunks > 0, chunks - 1).audio_sequence_end = chunks - 1
        /\ End(hasText, chunks > 0, chunks - 1).audio_sent <=> chunks > 0
        /\ End(hasText, chunks > 0, chunks - 1).text_sent = hasText
    BY DEF End
  <2>9. \A n \in 0..(chunks - 1) : \E i \in Places("reply.audio.chunk")' : i < Len(out) + 1 /\ out'[i].sequence = n
    <3>1. \A i \in Places("reply.audio.chunk") : i < Len(out) + 1
      BY <1>0, <2>1 DEF Says
    <3> QED
      BY <2>1, <2>5, <3>1 DEF SaidInv
  <2>10. /\ \A i \in Places("reply.audio.chunk")' : out'[i].sequence < chunks
         /\ \A i \in Places("error")' : out'[i].code = "tts_failed"
    BY <2>1, <2>3, <2>5 DEF SaidInv
  <2> QED
    BY <2>2, <2>4, <2>5, <2>6, <2>7, <2>8, <2>9, <2>10 DEF EndTellsTheTruth
<1> QED
  BY <1>1, <1>2, <1>3, <1>4, <1>5, <1>6, <1>7 DEF IInv

LEMMA EmitFailKeeps == ASSUME IInv, EmitFail PROVE IInv'
<1>0. Says(Error("terminal"))
  <2>1. Error("terminal") \in Events
    BY DEF IInv, TypeInv, EmitFail, Go, Events, Error
  <2>2. out \in Seq(Events) /\ Emit(Error("terminal"))
    BY DEF IInv, TypeInv, EmitFail
  <2> QED
    BY <2>1, <2>2, EmitSays
<1>1. TypeInv'
  BY <1>0 DEF IInv, TypeInv, EmitFail, Go, fastVars, voice, Says
<1>2. SpeechInv'
  BY DEF IInv, SpeechInv, EmitFail, Go, voice, speech
<1>3. FlagInv'
  BY DEF IInv, FlagInv, EmitFail, Go, fastVars, FastOver
<1>4. IntentInv'
  BY <1>0 DEF IInv, IntentInv, EmitFail, Go, fastVars, Places, Says, Error
<1>5. EndInv'
  BY <1>0 DEF IInv, EndInv, EmitFail, Go, fastVars, Places, Says, Error
<1>6. SaidInv'
  BY <1>0 DEF IInv, SaidInv, EmitFail, Go, voice, Places, Says, Error
<1>7. EndTellsTheTruth'
  <2>1. Places("reply.end") = {}
    BY DEF IInv, EndInv, EmitFail, Go
  <2>2. Error("terminal").type # "reply.end"
    BY DEF Error
  <2> QED
    BY <1>0, <2>1, <2>2, NoEndYet
<1> QED
  BY <1>1, <1>2, <1>3, <1>4, <1>5, <1>6, <1>7 DEF IInv

LEMMA EmitFailedEndKeeps == ASSUME IInv, EmitFailedEnd PROVE IInv'
<1>0. Says(FailedEnd)
  <2>1. FailedEnd \in Events
    BY DEF IInv, TypeInv, EmitFailedEnd, Go, Events, FailedEnd
  <2>2. out \in Seq(Events) /\ Emit(FailedEnd)
    BY DEF IInv, TypeInv, EmitFailedEnd
  <2> QED
    BY <2>1, <2>2, EmitSays
<1>1. TypeInv'
  BY <1>0 DEF IInv, TypeInv, EmitFailedEnd, Go, fastVars, voice, Says
<1>2. SpeechInv'
  BY DEF IInv, SpeechInv, EmitFailedEnd, Go, voice, speech
<1>3. FlagInv'
  BY DEF IInv, FlagInv, EmitFailedEnd, Go, fastVars, FastOver
<1>4. IntentInv'
  BY <1>0 DEF IInv, IntentInv, EmitFailedEnd, Go, fastVars, Places, Says, FailedEnd
<1>5. EndInv'
  BY <1>0 DEF IInv, EndInv, EmitFailedEnd, Go, fastVars, Places, Says, FailedEnd
<1>6. SaidInv'
  BY <1>0 DEF IInv, SaidInv, EmitFailedEnd, Go, voice, Places, Says, FailedEnd
<1>7. EndTellsTheTruth'
  BY <1>0 DEF IInv, EndTellsTheTruth, EndInv, SaidInv, EmitFailedEnd, Go, voice, Places, Says,
         FailedEnd
<1> QED
  BY <1>1, <1>2, <1>3, <1>4, <1>5, <1>6, <1>7 DEF IInv

LEMMA FastEmitKeeps == ASSUME IInv, FastEmit PROVE IInv'
<1>0. Says(Intent("explicit"))
  <2>1. Intent("explicit") \in Events
    BY DEF IInv, TypeInv, FastEmit, Go, Events, Intent
  <2>2. out \in Seq(Events) /\ Emit(Intent("explicit"))
    BY DEF IInv, TypeInv, FastEmit
  <2> QED
    BY <2>1, <2>2, EmitSays
<1>1. TypeInv'
  BY <1>0 DEF IInv, TypeInv, FastEmit, voice, Says
<1>2. SpeechInv'
  BY DEF IInv, SpeechInv, FastEmit, voice, speech
<1>3. FlagInv'
  BY DEF IInv, FlagInv, FastEmit, FastOver
<1>4. IntentInv'
  BY <1>0 DEF IInv, IntentInv, FlagInv, TypeInv, FastEmit, Places, FastOver, Says, Intent
<1>5. EndInv'
  BY <1>0 DEF IInv, EndInv, FlagInv, TypeInv, FastEmit, Places, FastOver, Says, Intent
<1>6. SaidInv'
  <2>1. Places("reply.audio.chunk")' = Places("reply.audio.chunk") /\ \A i \in Places("reply.audio.chunk") : i \in 1..Len(out) /\ out'[i] = out[i]
    BY <1>0 DEF Says, Places, Intent
  <2>2. Places("reply.text.delta")' = Places("reply.text.delta") /\ \A i \in Places("reply.text.delta") : i \in 1..Len(out) /\ out'[i] = out[i]
    BY <1>0 DEF Says, Places, Intent
  <2>3. Places("error")' = Places("error") /\ \A i \in Places("error") : i \in 1..Len(out) /\ out'[i] = out[i]
    BY <1>0 DEF Says, Places, Intent
  <2>4. SaidInv /\ UNCHANGED <<chunks, hasText>>
    BY DEF IInv, FastEmit, voice
  <2>5. /\ \A n \in 0..(chunks' - 1) : \E i \in Places("reply.audio.chunk")' : out'[i].sequence = n
        /\ \A i \in Places("reply.audio.chunk")' : out'[i].sequence \in 0..(chunks' - 1)
    BY <2>1, <2>4 DEF SaidInv
  <2>6. main' = main
    BY DEF FastEmit, Go
  <2>7. main # "fail_end"
    BY DEF IInv, FlagInv, FastEmit, FastOver
  <2> QED
    BY <2>1, <2>2, <2>3, <2>4, <2>5, <2>6, <2>7 DEF SaidInv
<1>7. EndTellsTheTruth'
  <2>1. Places("reply.end") = {}
    BY DEF IInv, EndInv, FlagInv, FastOver, FastEmit
  <2>2. Intent("explicit").type # "reply.end"
    BY DEF Intent
  <2> QED
    BY <1>0, <2>1, <2>2, NoEndYet
<1> QED
  BY <1>1, <1>2, <1>3, <1>4, <1>5, <1>6, <1>7 DEF IInv


LEMMA SayTextKeeps == ASSUME NEW taken \in 0..MaxDeltas, IInv, SayText(taken) PROVE IInv'
<1> DEFINE delta == Event("reply.text.delta")
           deltas == [i \in 1..taken |-> delta]
           n == Len(out)
<1>1. /\ main = "text" /\ current /\ out' = out \o deltas /\ main' \in {"speak", "arbitrate"}
      /\ taken > 0 => hasText
      /\ UNCHANGED <<request, current, fastVars, delivered, hasText, hand, chunks, replyEnded, suggest>>
  BY DEF SayText, Go
<1>2. out \in Seq(Events) /\ delta \in Events /\ taken \in Nat
  BY BoundAssumption DEF IInv, TypeInv, Event, Events
<1>3. /\ out' \in Seq(Events) /\ n \in Nat /\ DOMAIN out = 1..n /\ DOMAIN out' = 1..(n + taken)
      /\ \A i \in 1..n : out'[i] = out[i]
      /\ \A i \in (n + 1)..(n + taken) : out'[i] = delta
  <2> HIDE DEF delta
  <2>1. deltas \in Seq(Events) /\ Len(deltas) = taken
    BY <1>2
  <2> QED
    BY <1>1, <1>2, <2>1
<1>4. \A t \in {"avatar.intent", "reply.end", "reply.audio.chunk", "error"} :
         Places(t)' = Places(t) /\ \A i \in Places(t) : i \in 1..n /\ out'[i] = out[i]
  <2>1. delta.type = "reply.text.delta"
    BY DEF Event
  <2> HIDE DEF delta
  <2>2. \A i \in 1..(n + taken) : i \notin 1..n => out'[i] = delta
    BY <1>2, <1>3
  <2>3. \A i \in 1..n : i \in 1..(n + taken)
    BY <1>2, <1>3
  <2> QED
    BY <1>3, <2>1, <2>2, <2>3 DEF Places
<1>5. Places("reply.text.delta")' # {} => hasText
  <2>1. CASE taken = 0
    <3>1. Places("reply.text.delta")' = Places("reply.text.delta")
      BY <1>3, <2>1 DEF Places
    <3> QED
      BY <3>1 DEF IInv, SaidInv
  <2>2. CASE taken # 0
    BY <1>1, <1>2, <2>2
  <2> QED
    BY <2>1, <2>2
<1>6. TypeInv'
  BY <1>1, <1>3 DEF IInv, TypeInv, fastVars
<1>7. SpeechInv'
  <2>1. CASE main' = "speak"
    BY <1>1, <2>1 DEF SayText, StartProducer, IInv, SpeechInv
  <2>2. CASE main' = "arbitrate"
    BY <1>1, <2>2 DEF SayText, speech, IInv, SpeechInv
  <2> QED
    BY <1>1, <2>1, <2>2
<1>8. FlagInv'
  BY <1>1 DEF IInv, FlagInv, fastVars, FastOver
<1>9. IntentInv'
  BY <1>1, <1>4 DEF IInv, IntentInv, fastVars
<1>10. Places("reply.end") = {} /\ Places("reply.end")' = {}
  BY <1>1, <1>4 DEF IInv, EndInv
<1>11. EndInv' /\ EndTellsTheTruth'
  BY <1>1, <1>10 DEF IInv, EndInv, EndTellsTheTruth
<1>12. SaidInv'
  <2>1. SaidInv
    BY DEF IInv
  <2>2. /\ \A k \in 0..(chunks' - 1) : \E i \in Places("reply.audio.chunk")' : out'[i].sequence = k
        /\ \A i \in Places("reply.audio.chunk")' : out'[i].sequence \in 0..(chunks' - 1)
    BY <1>1, <1>4, <2>1 DEF SaidInv
  <2>3. \A i \in Places("error")' : out'[i].code = "tts_failed"
    BY <1>1, <1>4, <2>1 DEF SaidInv
  <2> QED
    BY <1>1, <1>5, <2>2, <2>3 DEF SaidInv
<1> QED
  BY <1>6, <1>7, <1>8, <1>9, <1>11, <1>12 DEF IInv

LEMMA SuggestKeeps == ASSUME IInv, Suggest PROVE IInv'
<1>1. /\ suggest = "ready" /\ suggest' = "done" /\ out' \in {out, Append(out, Event("reply.suggestions"))}
      /\ UNCHANGED <<request, current, main, fastVars, delivered, hasText, voice, replyEnded>>
  BY DEF Suggest
<1>2. /\ SpeechInv' /\ FlagInv'
  BY <1>1 DEF IInv, SpeechInv, FlagInv, fastVars, voice, speech, FastOver
<1>3. CASE out' = out
  <2>1. TypeInv'
    BY <1>1, <1>3 DEF IInv, TypeInv, fastVars, voice
  <2>2. IntentInv' /\ EndInv' /\ SaidInv' /\ EndTellsTheTruth'
    BY <1>1, <1>3 DEF IInv, IntentInv, EndInv, SaidInv, EndTellsTheTruth, Places, fastVars, voice
  <2> QED
    BY <1>2, <2>1, <2>2 DEF IInv
<1>4. CASE Emit(Event("reply.suggestions"))
  <2>1. Says(Event("reply.suggestions"))
    <3>1. Event("reply.suggestions") \in Events /\ out \in Seq(Events)
      BY DEF Event, Events, IInv, TypeInv
    <3> QED
      BY <1>4, <3>1, EmitSays
  <2>2. \A t \in {"avatar.intent", "reply.end", "reply.audio.chunk", "reply.text.delta", "error"} :
           Places(t)' = Places(t) /\ \A i \in Places(t) : i \in 1..Len(out) /\ out'[i] = out[i]
    BY <2>1 DEF Says, Places, Event
  <2>3. TypeInv'
    BY <1>1, <2>1 DEF Says, IInv, TypeInv, fastVars, voice
  <2>4. IntentInv'
    BY <1>1, <2>2 DEF IInv, IntentInv, fastVars
  <2>5. main = "done"
    BY <1>1 DEF IInv, EndInv
  <2>6. EndInv'
    BY <1>1, <2>1, <2>2 DEF Says, IInv, EndInv, Event, fastVars
  <2>7. SaidInv'
    <3>1. SaidInv
      BY DEF IInv
    <3>2. /\ \A k \in 0..(chunks' - 1) : \E i \in Places("reply.audio.chunk")' : out'[i].sequence = k
          /\ \A i \in Places("reply.audio.chunk")' : out'[i].sequence \in 0..(chunks' - 1)
      BY <1>1, <2>2, <3>1 DEF SaidInv, voice
    <3> QED
      BY <1>1, <2>2, <2>5, <3>1, <3>2 DEF SaidInv
  <2>8. EndTellsTheTruth'
    <3> SUFFICES ASSUME NEW e \in Places("reply.end")
                 PROVE  IF out[e].status = "completed"
                        THEN /\ Places("avatar.intent") # {}
                             /\ out[e].audio_sequence_end = chunks - 1 /\ (out[e].audio_sent <=> chunks > 0)
                             /\ \A n \in 0..(chunks - 1) : \E i \in Places("reply.audio.chunk") :
                                   i < e /\ out'[i].sequence = n
                             /\ \A i \in Places("reply.audio.chunk") : out'[i].sequence < chunks
                             /\ Places("reply.text.delta") # {} => out[e].text_sent
                             /\ \A i \in Places("error") : out'[i].code = "tts_failed"
                        ELSE /\ e > 1 /\ out'[e - 1] = Error("terminal")
                             /\ Places("reply.text.delta") = {} /\ Places("reply.audio.chunk") = {}
      BY <1>1, <2>2 DEF EndTellsTheTruth, voice
    <3>1. EndTellsTheTruth /\ e \in 1..Len(out)
      BY <2>2 DEF IInv
    <3>2. CASE out[e].status = "completed"
      BY <2>2, <3>1, <3>2 DEF EndTellsTheTruth
    <3>3. CASE out[e].status # "completed"
      <4>1. e > 1 /\ out[e - 1] = Error("terminal") /\ Places("reply.text.delta") = {} /\ Places("reply.audio.chunk") = {}
        BY <3>1, <3>3 DEF EndTellsTheTruth
      <4>2. out'[e - 1] = out[e - 1]
        BY <2>1, <3>1, <4>1 DEF Says
      <4> QED
        BY <3>3, <4>1, <4>2
    <3> QED
      BY <3>2, <3>3
  <2> QED
    BY <1>2, <2>3, <2>4, <2>6, <2>7, <2>8 DEF IInv
<1> QED
  BY <1>1, <1>3, <1>4 DEF Emit

-----------------------------------------------------------------------------
(* A new turn has said nothing. *)
LEMMA InitHolds == Init => IInv
<1> SUFFICES ASSUME Init PROVE IInv
  OBVIOUS
<1>1. /\ request \in Request /\ request.kind \in {"audio", "text", "interaction"}
      /\ main \in {"stt", "launch", "decide"} /\ (main = "decide" => request.kind = "interaction")
  BY DEF Init, Request
<1>2. main = "decide" => request.explicit = "none"
  BY <1>1 DEF Request
<1>3. out = << >> /\ \A t : Places(t) = {}
  BY DEF Init, Places
<1>4. TypeInv
  <2>1. out \in Seq(Events) /\ chunks \in Nat /\ hand = EndMark /\ main # "audio" /\ main \in MainSteps
    BY <1>1, <1>3 DEF Init
  <2>2. \A b \in {current, fastSelected, fastIntent, intentEmitted, delivered, hasText, replyEnded} : b \in BOOLEAN
    BY DEF Init
  <2>3. fast = "none" /\ suggest = "none"
    BY DEF Init
  <2> QED
    BY <1>1, <2>1, <2>2, <2>3, Zenon DEF TypeInv
<1>5. SpeechInv
  <2>1. rendered \in Seq([by : Voices, chunks : 0..MaxChunks]) /\ Len(rendered) = 0
    BY DEF Init, SpeechInit
  <2>2. pcm \in Seq(Chunks \cup {EndMark}) /\ Len(pcm) = 0
    BY DEF Init, SpeechInit
  <2>3. producer = "none" /\ segments = 0 /\ left = 0 /\ failure = FALSE /\ rendered = << >>
    BY DEF Init, SpeechInit
  <2>4. segments \in 0..MaxSegments /\ left \in 0..MaxChunks
    BY <2>3, SpeechAssumption
  <2>5. Len(rendered) <= segments /\ Len(pcm) <= QueueSize
    BY <2>1, <2>2, <2>3, SpeechAssumption
  <2>6. producer \in ProducerSteps /\ producer \notin Voices /\ producer # "put" /\ failure \in BOOLEAN
    BY <2>3
  <2> QED
    BY <2>1, <2>2, <2>3, <2>4, <2>5, <2>6, Zenon DEF SpeechInv
<1>6. FlagInv
  BY <1>1, <1>2 DEF Init, FlagInv, FastOver
<1>7. IntentInv /\ EndInv /\ EndTellsTheTruth
  BY <1>3 DEF Init, IntentInv, EndInv, EndTellsTheTruth
<1>8. SaidInv
  BY <1>1, <1>3 DEF Init, SaidInv
<1> QED
  BY <1>4, <1>5, <1>6, <1>7, <1>8 DEF IInv

LEMMA NextKeeps == IInv /\ [Next]_vars => IInv'
<1> SUFFICES ASSUME IInv, [Next]_vars PROVE IInv'
  OBVIOUS
<1>1. CASE Runner
  BY <1>1, RecogniseKeeps, EmitFinalKeeps, LaunchKeeps, DecideKeeps, DecisionFailsKeeps, EmitIntentKeeps,
     SayTextKeeps, TakeAudioKeeps, EmitAudioKeeps, SpeechOverKeeps, EmitTtsErrorKeeps, ArbitrateKeeps,
     EmitFallbackKeeps, BeginEndKeeps, EmitEndKeeps, BeginFailKeeps, EmitFailKeeps, EmitFailedEndKeeps
     DEF Runner
<1>2. CASE FastAction
  BY <1>2, FastReserveKeeps, FastEmitKeeps, FastFailsKeeps DEF FastAction
<1>3. CASE ProducerStep \/ Suggest \/ Revoke \/ GeneratorClosed
  BY <1>3, ProducerStepKeeps, SuggestKeeps, RevokeKeeps, GeneratorClosedKeeps
<1>4. CASE UNCHANGED vars
  <2>1. TypeInv' /\ FlagInv'
    BY <1>4 DEF IInv, TypeInv, FlagInv, FastOver, vars, fastVars, voice
  <2>2. SpeechInv'
    BY <1>4 DEF IInv, SpeechInv, vars, voice, speech
  <2>3. IntentInv' /\ EndInv' /\ SaidInv' /\ EndTellsTheTruth'
    BY <1>4 DEF IInv, IntentInv, EndInv, SaidInv, EndTellsTheTruth, Places, vars, fastVars, voice
  <2> QED
    BY <2>1, <2>2, <2>3 DEF IInv
<1> QED
  BY <1>1, <1>2, <1>3, <1>4 DEF Next

LEMMA InvariantHolds == Spec => []IInv
BY InitHolds, NextKeeps, PTL DEF Spec

-----------------------------------------------------------------------------
(* Every variable keeps its type: the fields of TurnState and the runner's own. *)
THEOREM TypeCorrect == Spec => []TypeOK
<1>1. IInv => TypeOK
  <2> SUFFICES ASSUME IInv PROVE TypeOK
    OBVIOUS
  <2>1. SpeechTypeOK
    <3>1. /\ producer \in ProducerSteps /\ segments \in 0..MaxSegments /\ Len(rendered) <= segments
          /\ left \in 0..MaxChunks /\ (producer = "put" => left > 0)
          /\ Len(pcm) <= QueueSize /\ failure \in BOOLEAN
      BY SpeechAssumption DEF IInv, SpeechInv
    <3>2. \A s \in DOMAIN rendered : rendered[s].chunks \in 0..MaxChunks
      <4> SUFFICES ASSUME NEW s \in DOMAIN rendered PROVE rendered[s].chunks \in 0..MaxChunks
        OBVIOUS
      <4>1. rendered \in Seq([by : Voices, chunks : 0..MaxChunks]) /\ s \in 1..Len(rendered)
        BY DEF IInv, SpeechInv
      <4>2. rendered[s] \in [by : Voices, chunks : 0..MaxChunks]
        BY <4>1, ElementIn
      <4> QED
        BY <4>2
    <3> QED
      BY <3>1, <3>2, Zenon DEF SpeechTypeOK
  <2>2. \A b \in {current, fastSelected, fastIntent, intentEmitted, delivered, hasText, replyEnded} : b \in BOOLEAN
    BY Zenon DEF IInv, TypeInv
  <2> QED
    BY <2>1, <2>2, Zenon DEF TypeOK, IInv, TypeInv
<1> QED
  BY <1>1, InvariantHolds, PTL

(* However the explicit action's task and the runner interleave, and wherever
   either fails or the turn is revoked, at most one avatar.intent is sent
   (turn.intent_emitted, turn.fast_action_intent and the runner's own flag). *)
THEOREM OneIntentHolds == Spec => []OneIntent
<1>1. IInv => OneIntent
  BY DEF OneIntent, IInv, IntentInv
<1> QED
  BY <1>1, InvariantHolds, PTL

(* reply.end comes last, but for the quick replies of a completed reply, and no
   explicit action is still on its way then (_emit_reply_end, _emit_terminal_error). *)
THEOREM EndClosesTurnHolds == Spec => []EndClosesTurn
<1>1. IInv /\ TypeOK => EndClosesTurn
  BY DEF IInv, EndInv, FlagInv, EndClosesTurn
<1> QED
  BY <1>1, InvariantHolds, TypeCorrect, PTL

(* A completed reply.end reports the intent, the audio and the text that were sent
   before it; a failed one follows its error and no part of a reply. *)
THEOREM EndTellsTheTruthHolds == Spec => []EndTellsTheTruth
<1>1. IInv => EndTellsTheTruth
  BY DEF IInv
<1> QED
  BY <1>1, InvariantHolds, PTL

(* The intent of a completed turn is that of the supported explicit action, unless
   its task failed: the fallback never takes its place (_deliver_decision). *)
THEOREM ExplicitActionWinsHolds == Spec => []ExplicitActionWins
<1>1. IInv => ExplicitActionWins
  BY DEF IInv, EndInv, IntentInv, ExplicitActionWins
<1> QED
  BY <1>1, InvariantHolds, PTL

-----------------------------------------------------------------------------
(* The way of the audio, from the producer over the queue and the runner's hand to
   the client: what was put is what was heard, is about to be or waits, in order. *)

AudioPlaces == Places("reply.audio.chunk")
Playing     == {hand} \ {EndMark}
Queued      == {pcm[i] : i \in DOMAIN pcm} \ {EndMark}
Unput(s)    == IF s = Len(rendered) THEN left ELSE 0
PutSoFar    == {c \in Audible : c.chunk < rendered[c.segment].chunks - Unput(c.segment)}

FlowInv ==
    /\ Heard \cup Playing \cup Queued = PutSoFar
    /\ \A i, j \in AudioPlaces : i < j => Precedes(out[i].data, out[j].data)
    /\ \A c \in Heard : \A d \in Playing \cup Queued : Precedes(c, d)
    /\ \A c \in Playing : \A d \in Queued : Precedes(c, d)
    /\ \A i, j \in DOMAIN pcm :
          i < j => pcm[i] # EndMark /\ (pcm[j] # EndMark => Precedes(pcm[i], pcm[j]))

(* A marked queue was filled to its end; once the runner has met the mark there is
   nothing left, and an error was sent if and only if a segment had no voice. *)
Spoken == {"tts_error", "arbitrate", "fallback", "end", "done"}
Marked == \E i \in DOMAIN pcm : pcm[i] = EndMark

MarkInv ==
    /\ producer \notin {"put", "over"} => left = 0
    /\ producer = "none" => pcm = << >>
    /\ producer \notin {"end", "over"} => ~failure
    /\ producer = "end" \/ (producer = "over" /\ (Marked \/ main \in Spoken))
          => left = 0 /\ (failure <=> Len(rendered) < segments)
    /\ Marked => producer = "over"
    /\ main \in Spoken => pcm = << >> /\ producer \in {"none", "over"}

ErrorInv ==
    /\ hand # EndMark => main \in {"audio", "cancelled"}
    /\ main = "tts_error" => failure
    /\ main \in Early \cup {"intent", "text", "speak", "audio", "tts_error"} => Places("error") = {}
    /\ main \in {"arbitrate", "fallback", "end"} => (failure <=> Places("error") # {})
    /\ main = "done" /\ producer # "none" => (failure <=> Places("error") # {})
    /\ main \in Failing => producer = "none"

VoiceInv == FlowInv /\ MarkInv /\ ErrorInv

(* Steps that leave the audio alone. *)
Quiet ==
    /\ UNCHANGED <<hand, speech>>
    /\ AudioPlaces' = AudioPlaces /\ \A i \in AudioPlaces : out'[i] = out[i]
Moved ==
    \/ main' = main \/ main' = "cancelled"
    \/ main \in Early /\ main' \in Early \cup {"intent", "text", "fail"}
    \/ main = "intent" /\ main' = "text"
    \/ main = "text" /\ main' = "arbitrate"
    \/ main \in {"arbitrate", "fallback", "end"} /\ main' \in {"fallback", "end", "done"}
    \/ main = "fail_end" /\ main' = "done"

LEMMA QuietFlow ==
    ASSUME FlowInv, UNCHANGED <<hand, rendered, left, pcm>>, AudioPlaces' = AudioPlaces,
           \A i \in AudioPlaces : out'[i] = out[i]
    PROVE  FlowInv'
<1>1. Heard' = Heard
  BY DEF Heard, AudioPlaces
<1>2. Playing' = Playing /\ Queued' = Queued
  BY DEF Playing, Queued
<1>3. PutSoFar' = PutSoFar
  BY DEF PutSoFar, Audible, Unput
<1>4. \A i, j \in AudioPlaces' : i < j => Precedes(out'[i].data, out'[j].data)
  BY DEF FlowInv
<1>5. \A c, d : Precedes(c, d)' = Precedes(c, d)
  BY DEF Precedes
<1> QED
  BY <1>1, <1>2, <1>3, <1>4 DEF FlowInv, Precedes

LEMMA QuietKeeps ==
    ASSUME IInv, VoiceInv, Quiet, Moved, Places("error")' = Places("error") PROVE VoiceInv'
<1>1. FlowInv'
  BY QuietFlow DEF VoiceInv, Quiet, speech
<1>2. main \in {"text"} \cup Early => producer = "none"
  BY DEF IInv, SpeechInv
<1>3. UNCHANGED <<hand, producer, segments, rendered, left, pcm, failure>> /\ Marked' = Marked
  BY DEF Quiet, speech, Marked
<1>4. main' \in Spoken => main \in Spoken \/ producer = "none" \/ main = "fail_end"
  BY <1>2 DEF Moved, Spoken
<1>5. MarkInv /\ ErrorInv
  BY DEF VoiceInv
<1>6. MarkInv'
  BY <1>2, <1>3, <1>4, <1>5 DEF MarkInv, ErrorInv
<1>7. ErrorInv'
  <2>1. main' = "tts_error" => main = "tts_error"
    BY DEF Moved
  <2>2. main' \in Early \cup {"intent", "text", "speak", "audio", "tts_error"}
           => main \in Early \cup {"intent", "text", "speak", "audio", "tts_error"}
    BY DEF Moved
  <2>3. main' \in {"arbitrate", "fallback", "end"}
           => main \in {"arbitrate", "fallback", "end"} \/ main = "text"
    BY DEF Moved
  <2>4. main' = "done" => main \in {"arbitrate", "fallback", "end", "done"} \/ main = "fail_end"
    BY DEF Moved
  <2>5. main' \in Failing => main \in Failing \/ main \in Early
    BY DEF Moved
  <2>6. main \in {"audio", "cancelled"} => main' \in {"audio", "cancelled"}
    BY DEF Moved
  <2>7. main \in {"text"} \cup Early => ~failure
    BY <1>2, <1>5 DEF MarkInv
  <2> QED
    BY <1>2, <1>3, <1>5, <2>1, <2>2, <2>3, <2>4, <2>5, <2>6, <2>7 DEF ErrorInv
<1> QED
  BY <1>1, <1>6, <1>7 DEF VoiceInv

LEMMA OtherEvent ==
    ASSUME NEW event, Says(event), event.type # "reply.audio.chunk"
    PROVE  /\ AudioPlaces' = AudioPlaces /\ \A i \in AudioPlaces : out'[i] = out[i]
           /\ event.type # "error" => Places("error")' = Places("error")
BY DEF Says, AudioPlaces, Places

LEMMA TypesOf ==
    /\ \A t : Event(t).type = t
    /\ \A s : Intent(s).type = "avatar.intent"
    /\ \A c : Error(c).type = "error"
    /\ \A t, a, n : End(t, a, n).type = "reply.end"
    /\ FailedEnd.type = "reply.end"
BY DEF Event, Intent, Error, End, FailedEnd

LEMMA SilentKeeps ==
    ASSUME IInv, VoiceInv,
           \/ Recognise \/ Launch \/ (\E text \in BOOLEAN : Decide(text)) \/ DecisionFails
           \/ Arbitrate \/ BeginEnd \/ BeginFail \/ FastReserve \/ FastFails
    PROVE  VoiceInv'
<1>1. UNCHANGED <<voice, out>>
  BY DEF Recognise, Launch, Decide, DecisionFails, Arbitrate, BeginEnd, BeginFail, FastReserve, FastFails
<1>2. Moved
  <2>1. Recognise => Moved
    BY DEF Recognise, Go, Moved
  <2>2. Launch => Moved
    BY DEF Launch, Go, Moved
  <2>3. DecisionFails => Moved
    BY DEF DecisionFails, Go, Moved
  <2>4. Arbitrate => Moved
    BY DEF Arbitrate, Go, Moved
  <2>5. BeginEnd => Moved
    BY DEF BeginEnd, Go, Moved
  <2>6. BeginFail => Moved
    BY DEF BeginFail, Go, Moved
  <2>7. FastReserve => Moved
    BY DEF FastReserve, Go, Moved
  <2>8. FastFails => Moved
    BY DEF FastFails, Go, Moved
  <2>9. (\E text \in BOOLEAN : Decide(text)) => Moved
    BY DEF Decide, Go, Moved
  <2> QED
    BY <2>1, <2>2, <2>3, <2>4, <2>5, <2>6, <2>7, <2>8, <2>9
<1>3. Quiet /\ Places("error")' = Places("error")
  BY <1>1 DEF Quiet, voice, AudioPlaces, Places
<1> QED
  BY <1>2, <1>3, QuietKeeps

LEMMA EventIsIn ==
    ASSUME IInv
    PROVE  /\ \A t \in {"asr.final", "reply.text.delta", "reply.suggestions"} : Event(t) \in Events
           /\ \A s \in {"reply", "explicit", "fallback"} : Intent(s) \in Events
           /\ \A c \in {"tts_failed", "terminal"} : Error(c) \in Events
           /\ End(hasText, chunks > 0, chunks - 1) \in Events
           /\ FailedEnd \in Events
BY DEF IInv, TypeInv, Events, Event, Intent, Error, End, FailedEnd

LEMMA TellingKeeps ==
    ASSUME IInv, VoiceInv,
           EmitFinal \/ EmitIntent \/ EmitFallback \/ EmitEnd \/ EmitFailedEnd \/ FastEmit
    PROVE  VoiceInv'
<1>1. PICK event : /\ event \in Events /\ event.type \notin {"reply.audio.chunk", "error"} /\ Emit(event)
  BY EventIsIn, TypesOf DEF EmitFinal, EmitIntent, EmitFallback, EmitEnd, EmitFailedEnd, FastEmit
<1>2. Says(event)
  BY <1>1, EmitSays DEF IInv, TypeInv
<1>3. Moved
  <2>1. EmitFinal => Moved
    BY DEF EmitFinal, Go, Moved
  <2>2. EmitIntent => Moved
    BY DEF EmitIntent, Go, Moved
  <2>3. EmitFallback => Moved
    BY DEF EmitFallback, Go, Moved
  <2>4. EmitEnd => Moved
    BY DEF EmitEnd, Go, Moved
  <2>5. EmitFailedEnd => Moved
    BY DEF EmitFailedEnd, Go, Moved
  <2>6. FastEmit => Moved
    BY DEF FastEmit, Go, Moved
  <2> QED
    BY <2>1, <2>2, <2>3, <2>4, <2>5, <2>6
<1>4. UNCHANGED voice
  BY DEF EmitFinal, EmitIntent, EmitFallback, EmitEnd, EmitFailedEnd, FastEmit
<1>5. Quiet /\ Places("error")' = Places("error")
  BY <1>1, <1>2, <1>4, OtherEvent DEF Quiet, voice
<1> QED
  BY <1>3, <1>5, QuietKeeps

LEMMA SayTextKeepsVoice ==
    ASSUME IInv, VoiceInv, NEW taken \in 0..MaxDeltas, SayText(taken) PROVE VoiceInv'
<1> DEFINE delta == Event("reply.text.delta")
           deltas == [i \in 1..taken |-> delta]
           n == Len(out)
<1>1. /\ out \in Seq(Events) /\ delta \in Events /\ delta.type = "reply.text.delta" /\ taken \in Nat
      /\ out' = out \o deltas
  BY BoundAssumption, EventIsIn, TypesOf DEF IInv, TypeInv, SayText
<1> HIDE DEF delta
<1>2. /\ n \in Nat /\ DOMAIN out = 1..n /\ DOMAIN out' = 1..(n + taken)
      /\ \A i \in 1..n : out'[i] = out[i]
      /\ \A i \in (n + 1)..(n + taken) : out'[i] = delta
  <2>1. deltas \in Seq(Events) /\ Len(deltas) = taken
    BY <1>1
  <2> QED
    BY <1>1, <2>1
<1>3. /\ AudioPlaces' = AudioPlaces /\ \A i \in AudioPlaces : out'[i] = out[i]
      /\ Places("error")' = Places("error")
  <2>1. \A i \in 1..(n + taken) : i \in 1..n \/ i \in (n + 1)..(n + taken)
    BY <1>1, <1>2
  <2>2. \A i \in 1..n : i \in 1..(n + taken)
    BY <1>1, <1>2
  <2> QED
    BY <1>1, <1>2, <2>1, <2>2 DEF AudioPlaces, Places
<1>4. main = "text" /\ main' \in {"speak", "arbitrate"} /\ UNCHANGED hand
  BY DEF SayText, Go
<1>5. CASE main' = "arbitrate"
  <2>1. Quiet /\ Moved
    BY <1>3, <1>4, <1>5 DEF Quiet, Moved, SayText
  <2> QED
    BY <1>3, <2>1, QuietKeeps
<1>6. CASE main' = "speak"
  <2>1. producer' = "segment" /\ UNCHANGED <<rendered, left, pcm, failure>>
    BY <1>6 DEF SayText, StartProducer
  <2>2. FlowInv'
    BY <1>3, <1>4, <2>1, QuietFlow DEF VoiceInv
  <2>3. producer = "none" /\ MarkInv /\ ErrorInv
    BY <1>4 DEF IInv, SpeechInv, VoiceInv
  <2>4. MarkInv'
    BY <1>6, <2>1, <2>3 DEF MarkInv, Marked, Spoken
  <2>5. ErrorInv'
    BY <1>3, <1>4, <1>6, <2>3 DEF ErrorInv
  <2> QED
    BY <2>2, <2>4, <2>5 DEF VoiceInv
<1> QED
  BY <1>4, <1>5, <1>6

LEMMA SuggestKeepsVoice == ASSUME IInv, VoiceInv, Suggest PROVE VoiceInv'
<1>1. UNCHANGED <<main, voice>> /\ out' \in {out, Append(out, Event("reply.suggestions"))}
  BY DEF Suggest
<1>2. /\ AudioPlaces' = AudioPlaces /\ \A i \in AudioPlaces : out'[i] = out[i]
      /\ Places("error")' = Places("error")
  <2>1. CASE out' = out
    BY <2>1 DEF AudioPlaces, Places
  <2>2. CASE Emit(Event("reply.suggestions"))
    <3>1. Says(Event("reply.suggestions"))
      BY <2>2, EventIsIn, EmitSays DEF IInv, TypeInv
    <3> QED
      BY <3>1, OtherEvent, TypesOf
  <2> QED
    BY <1>1, <2>1, <2>2 DEF Emit
<1> QED
  BY <1>1, <1>2, QuietKeeps DEF Quiet, Moved, voice

LEMMA ErrorKeepsVoice == ASSUME IInv, VoiceInv, EmitTtsError \/ EmitFail PROVE VoiceInv'
<1>1. PICK code \in {"tts_failed", "terminal"} : Emit(Error(code))
  BY DEF EmitTtsError, EmitFail
<1>2. Says(Error(code))
  BY <1>1, EventIsIn, EmitSays DEF IInv, TypeInv
<1>3. /\ AudioPlaces' = AudioPlaces /\ \A i \in AudioPlaces : out'[i] = out[i]
  BY <1>2, OtherEvent, TypesOf
<1>4. UNCHANGED <<hand, producer, segments, rendered, left, pcm, failure>>
  BY DEF EmitTtsError, EmitFail, voice, speech
<1>5. FlowInv'
  BY <1>3, <1>4, QuietFlow DEF VoiceInv
<1>6. \/ main = "tts_error" /\ main' = "arbitrate"
      \/ main = "fail" /\ main' = "fail_end"
  BY DEF EmitTtsError, EmitFail, Go
<1>7. MarkInv /\ ErrorInv
  BY DEF VoiceInv
<1>8. MarkInv'
  BY <1>4, <1>6, <1>7 DEF MarkInv, Marked, Spoken
<1>9. Places("error")' # {}
  <2>1. Len(out) + 1 \in DOMAIN out' /\ out'[Len(out) + 1].type = "error"
    BY <1>2, TypesOf DEF Says
  <2> QED
    BY <2>1 DEF Places
<1>10. ErrorInv'
  BY <1>4, <1>6, <1>7, <1>9 DEF ErrorInv
<1> QED
  BY <1>5, <1>8, <1>10 DEF VoiceInv

(* The chunk at the head of the queue comes into the runner's hand. *)
LEMMA TakeAudioKeepsVoice == ASSUME IInv, VoiceInv, TakeAudio PROVE VoiceInv'
<1>1. /\ main = "speak" /\ main' = "audio" /\ pcm # << >> /\ pcm' = Tail(pcm)
      /\ hand' = Head(pcm) /\ hand' # EndMark
      /\ UNCHANGED <<producer, segments, rendered, left, failure, out>>
  BY DEF TakeAudio, Go, Take
<1>2. FlowInv /\ MarkInv /\ ErrorInv /\ hand = EndMark
  BY <1>1 DEF VoiceInv, ErrorInv
<1>3. pcm \in Seq(Chunks \cup {EndMark})
  BY DEF IInv, SpeechInv
<1>4. /\ Len(pcm) \in Nat \ {0} /\ DOMAIN pcm = 1..Len(pcm) /\ DOMAIN pcm' = 1..(Len(pcm) - 1)
      /\ hand' = pcm[1] /\ \A i \in 1..(Len(pcm) - 1) : pcm'[i] = pcm[i + 1]
  BY <1>1, <1>3
<1>5. Heard' = Heard /\ AudioPlaces' = AudioPlaces /\ PutSoFar' = PutSoFar
  BY <1>1 DEF Heard, AudioPlaces, Places, PutSoFar, Audible, Unput
<1>6. /\ Playing = {} /\ Playing' = {hand'}
  BY <1>1, <1>2 DEF Playing
<1>7. Queued = {hand'} \cup Queued'
  <2>1. \A c \in Queued : c = hand' \/ c \in Queued'
    <3> SUFFICES ASSUME NEW i \in 1..Len(pcm), pcm[i] # EndMark PROVE pcm[i] = hand' \/ pcm[i] \in Queued'
      BY <1>4 DEF Queued
    <3>1. CASE i = 1
      BY <1>4, <3>1
    <3>2. CASE i # 1
      <4>1. i - 1 \in 1..(Len(pcm) - 1) /\ pcm'[i - 1] = pcm[i]
        BY <1>4, <3>2
      <4> QED
        BY <1>4, <4>1 DEF Queued
    <3> QED
      BY <3>1, <3>2
  <2>2. hand' \in Queued
    BY <1>1, <1>4 DEF Queued
  <2>3. \A c \in Queued' : c \in Queued
    <3> SUFFICES ASSUME NEW i \in 1..(Len(pcm) - 1), pcm'[i] # EndMark PROVE pcm'[i] \in Queued
      BY <1>4 DEF Queued
    <3>1. i + 1 \in 1..Len(pcm) /\ pcm'[i] = pcm[i + 1]
      BY <1>4
    <3> QED
      BY <1>4, <3>1 DEF Queued
  <2> QED
    BY <2>1, <2>2, <2>3
<1>8. \A i, j \in DOMAIN pcm' :
         i < j => pcm'[i] # EndMark /\ (pcm'[j] # EndMark => Precedes(pcm'[i], pcm'[j]))
  <2> SUFFICES ASSUME NEW i \in 1..(Len(pcm) - 1), NEW j \in 1..(Len(pcm) - 1), i < j
               PROVE  pcm'[i] # EndMark /\ (pcm'[j] # EndMark => Precedes(pcm'[i], pcm'[j]))
    BY <1>4 DEF Precedes
  <2>1. i + 1 \in DOMAIN pcm /\ j + 1 \in DOMAIN pcm /\ i + 1 < j + 1 /\ pcm'[i] = pcm[i + 1] /\ pcm'[j] = pcm[j + 1]
    BY <1>4
  <2> QED
    BY <1>2, <2>1 DEF FlowInv
<1>9. \A d \in Queued' : Precedes(hand', d)
  <2> SUFFICES ASSUME NEW i \in 1..(Len(pcm) - 1), pcm'[i] # EndMark PROVE Precedes(hand', pcm'[i])
    BY <1>4 DEF Queued
  <2>1. i + 1 \in DOMAIN pcm /\ 1 \in DOMAIN pcm /\ 1 < i + 1 /\ pcm'[i] = pcm[i + 1] /\ hand' = pcm[1]
    BY <1>4
  <2> QED
    BY <1>2, <2>1 DEF FlowInv
<1>10. \A i, j \in AudioPlaces : i < j => Precedes(out[i].data, out[j].data)
  BY <1>2 DEF FlowInv
<1>11. \A c \in Heard : \A d \in Playing \cup Queued : Precedes(c, d)
  BY <1>2 DEF FlowInv
<1>12. Heard \cup Playing \cup Queued = PutSoFar
  BY <1>2 DEF FlowInv
<1>13. FlowInv'
  BY <1>1, <1>5, <1>6, <1>7, <1>8, <1>9, <1>10, <1>11, <1>12 DEF FlowInv, Precedes
<1>14. MarkInv'
  <2>1. Marked' => Marked
    <3> SUFFICES ASSUME NEW i \in 1..(Len(pcm) - 1), pcm'[i] = EndMark PROVE Marked
      BY <1>4 DEF Marked
    <3>1. i + 1 \in DOMAIN pcm /\ pcm[i + 1] = EndMark
      BY <1>4
    <3> QED
      BY <3>1 DEF Marked
  <2> QED
    BY <1>1, <1>2, <2>1 DEF MarkInv, Spoken
<1>15. ErrorInv'
  BY <1>1, <1>2 DEF ErrorInv, Places
<1> QED
  BY <1>13, <1>14, <1>15 DEF VoiceInv

(* The chunk in the runner's hand is sent. *)
LEMMA EmitAudioKeepsVoice == ASSUME IInv, VoiceInv, EmitAudio PROVE VoiceInv'
<1> DEFINE n == Len(out)
<1>1. /\ main = "audio" /\ main' = "speak" /\ hand' = EndMark /\ Emit(Audio(chunks, hand))
      /\ UNCHANGED <<producer, segments, rendered, left, pcm, failure>>
  BY DEF EmitAudio, Go, speech
<1>2. hand \in Chunks /\ chunks \in Nat /\ out \in Seq(Events)
  BY <1>1 DEF IInv, TypeInv
<1>3. Says(Audio(chunks, hand))
  <2>1. Audio(chunks, hand) \in Events
    BY <1>2 DEF Audio, Events
  <2> QED
    BY <1>1, <1>2, <2>1, EmitSays
<1>4. Audio(chunks, hand).type = "reply.audio.chunk" /\ Audio(chunks, hand).data = hand
  BY DEF Audio
<1>5. /\ AudioPlaces' = AudioPlaces \cup {n + 1} /\ out'[n + 1].data = hand /\ n \in Nat
      /\ \A i \in AudioPlaces : i \in 1..n /\ out'[i] = out[i]
      /\ Places("error")' = Places("error")
  BY <1>3, <1>4 DEF Says, AudioPlaces, Places
<1>6. FlowInv /\ MarkInv /\ ErrorInv
  BY DEF VoiceInv
<1>7. hand # EndMark
  BY <1>2 DEF Chunks, EndMark
<1>8. Playing = {hand} /\ Playing' = {}
  BY <1>1, <1>7 DEF Playing
<1>9. Heard' = Heard \cup {hand}
  BY <1>5 DEF Heard, AudioPlaces
<1>10. Queued' = Queued /\ PutSoFar' = PutSoFar
  BY <1>1 DEF Queued, PutSoFar, Audible, Unput
<1>11. Heard' \cup Playing' \cup Queued' = PutSoFar'
  BY <1>6, <1>8, <1>9, <1>10 DEF FlowInv
<1>12. \A i, j \in AudioPlaces' : i < j => Precedes(out'[i].data, out'[j].data)
  <2> SUFFICES ASSUME NEW i \in AudioPlaces', NEW j \in AudioPlaces', i < j
               PROVE  Precedes(out'[i].data, out'[j].data)
    BY DEF Precedes
  <2>1. i \in AudioPlaces
    BY <1>5
  <2>2. CASE j \in AudioPlaces
    BY <1>5, <1>6, <2>1, <2>2 DEF FlowInv
  <2>3. CASE j = n + 1
    <3>1. out[i].data \in Heard /\ out'[i] = out[i]
      BY <1>5, <2>1 DEF Heard, AudioPlaces
    <3> QED
      BY <1>5, <1>6, <1>8, <2>3, <3>1 DEF FlowInv
  <2> QED
    BY <1>5, <2>2, <2>3
<1>13. \A c \in Heard' : \A d \in Playing' \cup Queued' : Precedes(c, d)
  BY <1>6, <1>8, <1>9, <1>10 DEF FlowInv
<1>14. FlowInv'
  BY <1>1, <1>6, <1>8, <1>11, <1>12, <1>13 DEF FlowInv, Precedes
<1>15. MarkInv'
  BY <1>1, <1>6 DEF MarkInv, Marked, Spoken
<1>16. ErrorInv'
  BY <1>1, <1>5, <1>6 DEF ErrorInv
<1> QED
  BY <1>14, <1>15, <1>16 DEF VoiceInv

(* The runner meets the mark, behind which there is nothing. *)
LEMMA SpeechOverKeepsVoice == ASSUME IInv, VoiceInv, SpeechOver PROVE VoiceInv'
<1>1. /\ main = "speak" /\ main' = (IF failure THEN "tts_error" ELSE "arbitrate")
      /\ pcm # << >> /\ pcm' = Tail(pcm) /\ Head(pcm) = EndMark
      /\ UNCHANGED <<hand, producer, segments, rendered, left, failure, out>>
  BY DEF SpeechOver, Go, Take
<1>2. FlowInv /\ MarkInv /\ ErrorInv /\ failure \in BOOLEAN
  BY DEF VoiceInv, IInv, SpeechInv
<1>3. pcm \in Seq(Chunks \cup {EndMark})
  BY DEF IInv, SpeechInv
<1>4. Len(pcm) \in Nat \ {0} /\ DOMAIN pcm = 1..Len(pcm) /\ pcm[1] = EndMark
  BY <1>1, <1>3
<1>5. Len(pcm) = 1
  <2> SUFFICES ASSUME Len(pcm) # 1 PROVE FALSE
    OBVIOUS
  <2>1. 1 \in DOMAIN pcm /\ 2 \in DOMAIN pcm /\ 1 < 2
    BY <1>4
  <2> QED
    BY <1>2, <1>4, <2>1 DEF FlowInv
<1>6. pcm' = << >>
  BY <1>1, <1>3, <1>5
<1>7. Queued = {} /\ Queued' = {} /\ ~Marked' /\ Marked
  BY <1>4, <1>5, <1>6 DEF Queued, Marked
<1>8. /\ Heard' = Heard /\ AudioPlaces' = AudioPlaces /\ PutSoFar' = PutSoFar /\ Playing' = Playing
      /\ Places("error")' = Places("error")
  BY <1>1 DEF Heard, AudioPlaces, Places, PutSoFar, Audible, Unput, Playing
<1>9. FlowInv'
  BY <1>1, <1>2, <1>6, <1>7, <1>8 DEF FlowInv, Precedes
<1>10. producer = "over" /\ left = 0 /\ (failure <=> Len(rendered) < segments)
  BY <1>2, <1>7 DEF MarkInv
<1>11. MarkInv'
  BY <1>1, <1>6, <1>7, <1>10 DEF MarkInv
<1>12. Places("error") = {} /\ hand = EndMark
  BY <1>1, <1>2 DEF ErrorInv
<1>13. ErrorInv'
  BY <1>1, <1>2, <1>8, <1>12 DEF ErrorInv
<1> QED
  BY <1>9, <1>11, <1>13 DEF VoiceInv

(* The producer is told to stop; what it did stays. *)
LEMMA StoppedKeepsVoice == ASSUME IInv, VoiceInv, Revoke \/ GeneratorClosed PROVE VoiceInv'
<1>1. /\ UNCHANGED <<hand, segments, rendered, left, pcm, failure, out>>
      /\ producer' = producer \/ (producer' = (IF producer = "none" THEN "none" ELSE "over") /\ main' = "cancelled")
      /\ main' = main \/ main' = "cancelled"
  BY DEF Revoke, GeneratorClosed, ProducerCancelled, voice, speech
<1>2. AudioPlaces' = AudioPlaces /\ Places("error")' = Places("error")
  BY <1>1 DEF AudioPlaces, Places
<1>3. FlowInv'
  BY <1>1, <1>2, QuietFlow DEF VoiceInv
<1>4. MarkInv /\ ErrorInv
  BY DEF VoiceInv
<1>5. Marked' = Marked
  BY <1>1 DEF Marked
<1>6. MarkInv'
  BY <1>1, <1>4, <1>5 DEF MarkInv, Spoken
<1>7. ErrorInv'
  BY <1>1, <1>2, <1>4 DEF ErrorInv
<1> QED
  BY <1>3, <1>6, <1>7 DEF VoiceInv

(* A step of the producer, while the runner is not yet through with the audio. *)
LEMMA BusyProducer ==
    ASSUME IInv, VoiceInv, ProducerStep
    PROVE  /\ main \notin Spoken \cup Failing \cup Early \cup {"intent", "text"}
           /\ UNCHANGED <<main, hand, out, segments>>
<1>1. producer \in {"segment", "voice_hub", "astrbot", "put", "end"} /\ UNCHANGED <<main, hand, out, segments>>
  BY DEF ProducerStep, Producer, NextSegment, VoiceHubRendered, AstrBotRendered, Rendered,
         VoiceHubFails, AstrBotFails, Fail, PutChunk, PutEnd
<1> QED
  BY <1>1 DEF VoiceInv, MarkInv, ErrorInv, IInv, SpeechInv

LEMMA ErrorsStay ==
    ASSUME IInv, VoiceInv, ProducerStep PROVE ErrorInv'
<1>1. /\ main \notin Spoken \cup Failing \cup Early \cup {"intent", "text"}
      /\ UNCHANGED <<main, hand, out>> /\ Places("error")' = Places("error") /\ ErrorInv
  BY BusyProducer DEF Places, VoiceInv
<1> QED
  BY <1>1 DEF ErrorInv, Spoken

LEMMA TurningKeepsVoice ==
    ASSUME IInv, VoiceInv, ProducerStep, NextSegment \/ VoiceHubFails \/ AstrBotFails PROVE VoiceInv'
<1>1. /\ main \notin Spoken /\ UNCHANGED <<main, hand, out, segments>>
  BY BusyProducer
<1>2. /\ producer \in {"segment", "voice_hub", "astrbot"} /\ UNCHANGED <<rendered, left, pcm>>
      /\ producer' \in {"voice_hub", "astrbot", "end"}
      /\ \/ producer' # "end" /\ failure' = failure
         \/ producer' = "end" /\ failure' = failure /\ Len(rendered) = segments
         \/ producer' = "end" /\ failure' = TRUE /\ Len(rendered) < segments
  <2>1. CASE NextSegment
    <3>1. Len(rendered) \in Nat /\ segments \in Nat /\ Len(rendered) <= segments
      BY SpeechAssumption DEF IInv, SpeechInv
    <3> QED
      BY <2>1, <3>1 DEF NextSegment, Fail
  <2>2. CASE VoiceHubFails \/ AstrBotFails
    BY <2>2 DEF VoiceHubFails, AstrBotFails, Fail, IInv, SpeechInv
  <2> QED
    BY <2>1, <2>2
<1>3. Len(rendered) \in Nat /\ segments \in Nat
  BY SpeechAssumption DEF IInv, SpeechInv
<1>4. FlowInv'
  BY <1>1, <1>2, QuietFlow DEF VoiceInv, AudioPlaces, Places
<1>5. MarkInv /\ Marked' = Marked
  BY <1>2 DEF VoiceInv, Marked
<1>6. MarkInv'
  BY <1>1, <1>2, <1>3, <1>5 DEF MarkInv
<1> QED
  BY <1>4, <1>6, ErrorsStay DEF VoiceInv

(* A new segment is rendered, and none of its chunks is put yet. *)
LEMMA RenderedKeepsVoice ==
    ASSUME IInv, VoiceInv, ProducerStep, NEW by \in Voices, Rendered(by) PROVE VoiceInv'
<1>1. PICK n \in 0..MaxChunks :
         /\ rendered' = Append(rendered, [by |-> by, chunks |-> n]) /\ left' = n
         /\ producer' = (IF n = 0 THEN "segment" ELSE "put") /\ producer = by
         /\ UNCHANGED <<segments, pcm, failure>>
  BY DEF Rendered
<1>2. UNCHANGED <<main, hand, out>> /\ main \notin Spoken
  BY BusyProducer
<1>3. MarkInv /\ FlowInv
  BY DEF VoiceInv
<1>4. left = 0 /\ ~failure /\ ~Marked
  BY <1>1, <1>3 DEF MarkInv
<1>5. rendered \in Seq([by : Voices, chunks : 0..MaxChunks]) /\ Len(rendered) \in Nat
  BY DEF IInv, SpeechInv
<1>6. /\ DOMAIN rendered = 1..Len(rendered) /\ DOMAIN rendered' = 1..(Len(rendered) + 1)
      /\ Len(rendered') = Len(rendered) + 1 /\ \A s \in 1..Len(rendered) : rendered'[s] = rendered[s]
      /\ rendered'[Len(rendered) + 1].chunks = n
  <2>1. [by |-> by, chunks |-> n] \in [by : Voices, chunks : 0..MaxChunks]
    OBVIOUS
  <2>2. [by |-> by, chunks |-> n].chunks = n
    OBVIOUS
  <2> QED
    BY <1>1, <1>5, <2>1, <2>2
<1>7. PutSoFar' = PutSoFar
  <2>1. ASSUME NEW c \in Chunks PROVE c \in PutSoFar' <=> c \in PutSoFar
    <3>1. c.segment \in Nat /\ c.chunk \in Nat /\ \A s \in 1..Len(rendered) : rendered[s].chunks \in Nat
      <4>1. \A s \in 1..Len(rendered) : rendered[s] \in [by : Voices, chunks : 0..MaxChunks]
        BY <1>5, ElementIn
      <4> QED
        BY <2>1, <4>1, SpeechAssumption DEF Chunks
    <3>2. CASE c.segment = Len(rendered) + 1
      <4>1. c \notin PutSoFar
        BY <1>5, <1>6, <3>2 DEF PutSoFar, Audible
      <4>2. rendered'[c.segment].chunks - Unput(c.segment)' = n - n
        BY <1>1, <1>6, <3>2 DEF Unput
      <4>3. c \notin PutSoFar'
        <5> SUFFICES ASSUME c.chunk < rendered'[c.segment].chunks - Unput(c.segment)' PROVE FALSE
          BY DEF PutSoFar
        <5>1. n - n = 0
          BY SpeechAssumption
        <5> QED
          BY <3>1, <4>2, <5>1
      <4> QED
        BY <4>1, <4>3
    <3>3. CASE c.segment \in 1..Len(rendered)
      <4>1. Unput(c.segment) = 0 /\ Unput(c.segment)' = 0
        BY <1>4, <1>5, <1>6, <3>3 DEF Unput
      <4> QED
        BY <1>6, <2>1, <3>3, <4>1 DEF PutSoFar, Audible
    <3>4. CASE c.segment \notin 1..(Len(rendered) + 1)
      <4>1. c.segment \notin 1..Len(rendered)
        BY <1>5, <3>4
      <4> QED
        BY <1>6, <3>4, <4>1 DEF PutSoFar, Audible
    <3> QED
      BY <1>5, <3>1, <3>2, <3>3, <3>4
  <2>2. PutSoFar \subseteq Chunks /\ PutSoFar' \subseteq Chunks
    BY DEF PutSoFar, Audible, Chunks
  <2> QED
    BY <2>1, <2>2
<1>8. /\ Heard' = Heard /\ AudioPlaces' = AudioPlaces /\ Playing' = Playing /\ Queued' = Queued
  BY <1>1, <1>2 DEF Heard, AudioPlaces, Places, Playing, Queued
<1>9. FlowInv'
  BY <1>1, <1>2, <1>3, <1>7, <1>8 DEF FlowInv, Precedes
<1>10. Marked' = Marked /\ (n = 0 \/ n # 0)
  BY <1>1 DEF Marked
<1>11. MarkInv'
  BY <1>1, <1>2, <1>4, <1>10 DEF MarkInv
<1> QED
  BY <1>9, <1>11, ErrorsStay DEF VoiceInv

(* The next chunk comes behind all that was put. *)
LEMMA PutChunkKeepsVoice == ASSUME IInv, VoiceInv, ProducerStep, PutChunk PROVE VoiceInv'
<1> DEFINE last == Len(rendered)
           r == rendered[last]
           c == Chunk(last, r.chunks - left)
<1>1. /\ producer = "put" /\ pcm' = Append(pcm, c) /\ left' = left - 1
      /\ producer' = (IF left' = 0 THEN "segment" ELSE "put")
      /\ UNCHANGED <<segments, rendered, failure>>
  BY DEF PutChunk
<1>2. UNCHANGED <<main, hand, out>> /\ main \notin Spoken
  BY BusyProducer
<1>3. MarkInv /\ FlowInv
  BY DEF VoiceInv
<1>4. ~failure /\ ~Marked
  BY <1>1, <1>3 DEF MarkInv
<1>5. /\ rendered \in Seq([by : Voices, chunks : 0..MaxChunks]) /\ last \in 1..MaxSegments
      /\ left \in 1..r.chunks /\ pcm \in Seq(Chunks \cup {EndMark})
  BY <1>1, SpeechAssumption DEF IInv, SpeechInv
<1>6. /\ DOMAIN rendered = 1..last /\ \A s \in 1..last : rendered[s] \in [by : Voices, chunks : 0..MaxChunks]
  <2>1. rendered \in Seq([by : Voices, chunks : 0..MaxChunks])
    BY <1>5
  <2>2. DOMAIN rendered = 1..Len(rendered)
    BY <2>1
  <2>3. \A s \in 1..Len(rendered) : rendered[s] \in [by : Voices, chunks : 0..MaxChunks]
    BY <2>1, ElementIn
  <2> QED
    BY <2>2, <2>3
<1>7. r.by \in Voices /\ r.chunks \in 0..MaxChunks /\ r.chunks - left \in 0..(MaxChunks - 1)
  <2>1. r \in [by : Voices, chunks : 0..MaxChunks]
    BY <1>5, <1>6
  <2>2. r.by \in Voices /\ r.chunks \in 0..MaxChunks
    BY <2>1
  <2> HIDE DEF r
  <2> QED
    BY <1>5, <2>2, SpeechAssumption
<1>8. /\ c \in Chunks /\ c.segment = last /\ c.by = r.by /\ c.chunk = r.chunks - left
  BY <1>5, <1>7 DEF Chunk, Chunks
<1> HIDE DEF c
<1>9. c # EndMark
  BY <1>8 DEF Chunks, EndMark
<1>10. \A d \in PutSoFar : Precedes(d, c)
  <2> SUFFICES ASSUME NEW d \in PutSoFar PROVE Precedes(d, c)
    OBVIOUS
  <2>1. d \in Chunks /\ d.segment \in 1..last /\ d.chunk < rendered[d.segment].chunks - Unput(d.segment)
    BY <1>6 DEF PutSoFar, Audible
  <2>2. CASE d.segment = last
    <3>1. d.chunk < r.chunks - left
      BY <2>1, <2>2 DEF Unput
    <3> QED
      BY <1>8, <2>2, <3>1 DEF Precedes
  <2>3. CASE d.segment # last
    BY <1>5, <1>8, <2>1, <2>3 DEF Precedes
  <2> QED
    BY <2>2, <2>3
<1>11. PutSoFar' = PutSoFar \cup {c}
  <2>1. ASSUME NEW d \in Chunks PROVE d \in PutSoFar' <=> d \in PutSoFar \/ d = c
    <3>1. d.segment \in Nat /\ d.chunk \in Nat
      BY <2>1, SpeechAssumption DEF Chunks
    <3>2. CASE d.segment # last
      <4>1. Unput(d.segment)' = Unput(d.segment) /\ d # c
        BY <1>1, <1>8, <3>2 DEF Unput
      <4> QED
        BY <1>1, <4>1 DEF PutSoFar, Audible
    <3>3. CASE d.segment = last
      <4>1. Unput(d.segment)' = left - 1 /\ Unput(d.segment) = left
        BY <1>1, <3>3 DEF Unput
      <4>2. r.chunks \in Nat /\ left \in Nat
        BY <1>5, <1>7, SpeechAssumption
      <4>3. d.chunk < r.chunks - (left - 1) <=> d.chunk < r.chunks - left \/ d.chunk = r.chunks - left
        BY <3>1, <4>2
      <4>4. d = c <=> d.by = r.by /\ d.chunk = r.chunks - left
        <5>1. d = c <=> d.segment = c.segment /\ d.by = c.by /\ d.chunk = c.chunk
          BY <1>8, <2>1 DEF Chunks
        <5> QED
          BY <1>8, <3>3, <5>1
      <4>5. d \in Audible <=> d.by = r.by /\ d.chunk < r.chunks
        BY <1>5, <1>6, <2>1, <3>3 DEF Audible
      <4>6. Audible' = Audible
        BY <1>1 DEF Audible
      <4>7. d \in PutSoFar <=> d.by = r.by /\ d.chunk < r.chunks - left
        BY <3>1, <3>3, <4>1, <4>2, <4>5 DEF PutSoFar
      <4>8. d \in PutSoFar' <=> d.by = r.by /\ d.chunk < r.chunks - (left - 1)
        BY <1>1, <1>5, <3>1, <3>3, <4>1, <4>2, <4>5, <4>6 DEF PutSoFar
      <4> QED
        BY <4>3, <4>4, <4>7, <4>8
    <3> QED
      BY <3>2, <3>3
  <2>2. PutSoFar \subseteq Chunks /\ PutSoFar' \subseteq Chunks
    BY DEF PutSoFar, Audible, Chunks
  <2> QED
    BY <1>8, <2>1, <2>2
<1>12. /\ Len(pcm) \in Nat /\ DOMAIN pcm = 1..Len(pcm) /\ DOMAIN pcm' = 1..(Len(pcm) + 1)
       /\ pcm'[Len(pcm) + 1] = c /\ \A i \in 1..Len(pcm) : pcm'[i] = pcm[i]
  BY <1>1, <1>5, <1>8
<1>13. Queued' = Queued \cup {c}
  <2>1. \A d \in Queued' : d \in Queued \/ d = c
    BY <1>12 DEF Queued
  <2>2. \A d \in Queued : d \in Queued'
    BY <1>12 DEF Queued
  <2>3. Len(pcm) + 1 \in DOMAIN pcm'
    BY <1>12
  <2>4. c \in Queued'
    BY <1>9, <1>12, <2>3 DEF Queued
  <2> QED
    BY <2>1, <2>2, <2>4
<1>14. /\ Heard' = Heard /\ AudioPlaces' = AudioPlaces /\ Playing' = Playing
  BY <1>1, <1>2 DEF Heard, AudioPlaces, Places, Playing
<1>15. Heard \subseteq PutSoFar /\ Playing \subseteq PutSoFar /\ Queued \subseteq PutSoFar
  BY <1>3 DEF FlowInv
<1>16. \A i, j \in DOMAIN pcm' :
          i < j => pcm'[i] # EndMark /\ (pcm'[j] # EndMark => Precedes(pcm'[i], pcm'[j]))
  <2> SUFFICES ASSUME NEW i \in DOMAIN pcm', NEW j \in DOMAIN pcm', i < j
               PROVE  pcm'[i] # EndMark /\ (pcm'[j] # EndMark => Precedes(pcm'[i], pcm'[j]))
    BY DEF Precedes
  <2>1. i \in DOMAIN pcm /\ pcm'[i] = pcm[i] /\ pcm[i] # EndMark
    BY <1>4, <1>12 DEF Marked
  <2>2. CASE j \in DOMAIN pcm
    BY <1>3, <1>12, <2>1, <2>2 DEF FlowInv
  <2>3. CASE j \notin DOMAIN pcm
    <3>1. pcm'[j] = c
      BY <1>12, <2>3
    <3>2. pcm[i] \in Queued
      BY <2>1 DEF Queued
    <3> QED
      BY <1>10, <1>15, <2>1, <3>1, <3>2
  <2> QED
    BY <2>2, <2>3
<1>17. FlowInv'
  <2>1. Heard' \cup Playing' \cup Queued' = PutSoFar'
    BY <1>3, <1>11, <1>13, <1>14 DEF FlowInv
  <2>2. \A i, j \in AudioPlaces' : i < j => Precedes(out'[i].data, out'[j].data)
    BY <1>2, <1>3, <1>14 DEF FlowInv
  <2>3. \A x \in Heard' : \A d \in Playing' \cup Queued' : Precedes(x, d)
    BY <1>3, <1>10, <1>13, <1>14, <1>15 DEF FlowInv
  <2>4. \A x \in Playing' : \A d \in Queued' : Precedes(x, d)
    BY <1>3, <1>10, <1>13, <1>14, <1>15 DEF FlowInv
  <2> QED
    BY <1>16, <2>1, <2>2, <2>3, <2>4 DEF FlowInv, Precedes
<1>18. ~Marked'
  BY <1>4, <1>9, <1>12 DEF Marked
<1>19. MarkInv'
  BY <1>1, <1>2, <1>4, <1>18 DEF MarkInv
<1> QED
  BY <1>17, <1>19, ErrorsStay DEF VoiceInv

(* The mark comes behind all chunks of all segments. *)
LEMMA PutEndKeepsVoice == ASSUME IInv, VoiceInv, ProducerStep, PutEnd PROVE VoiceInv'
<1>1. /\ producer = "end" /\ producer' = "over" /\ pcm' = Append(pcm, EndMark)
      /\ UNCHANGED <<segments, rendered, left, failure>>
  BY DEF PutEnd
<1>2. UNCHANGED <<main, hand, out>> /\ main \notin Spoken
  BY BusyProducer
<1>3. MarkInv /\ FlowInv
  BY DEF VoiceInv
<1>4. ~Marked /\ pcm \in Seq(Chunks \cup {EndMark})
  BY <1>1, <1>3 DEF MarkInv, IInv, SpeechInv
<1>5. /\ Len(pcm) \in Nat /\ DOMAIN pcm = 1..Len(pcm) /\ DOMAIN pcm' = 1..(Len(pcm) + 1)
      /\ pcm'[Len(pcm) + 1] = EndMark /\ \A i \in 1..Len(pcm) : pcm'[i] = pcm[i]
  BY <1>1, <1>4
<1>6. Queued' = Queued
  BY <1>5 DEF Queued
<1>7. /\ Heard' = Heard /\ AudioPlaces' = AudioPlaces /\ Playing' = Playing /\ PutSoFar' = PutSoFar
  BY <1>1, <1>2 DEF Heard, AudioPlaces, Places, Playing, PutSoFar, Audible, Unput
<1>8. \A i, j \in DOMAIN pcm' :
         i < j => pcm'[i] # EndMark /\ (pcm'[j] # EndMark => Precedes(pcm'[i], pcm'[j]))
  <2> SUFFICES ASSUME NEW i \in DOMAIN pcm', NEW j \in DOMAIN pcm', i < j
               PROVE  pcm'[i] # EndMark /\ (pcm'[j] # EndMark => Precedes(pcm'[i], pcm'[j]))
    BY DEF Precedes
  <2>1. i \in DOMAIN pcm /\ pcm'[i] = pcm[i] /\ pcm[i] # EndMark
    BY <1>4, <1>5 DEF Marked
  <2>2. pcm'[j] # EndMark => j \in DOMAIN pcm /\ pcm'[j] = pcm[j]
    BY <1>5
  <2> QED
    BY <1>3, <2>1, <2>2 DEF FlowInv
<1>9. FlowInv'
  BY <1>2, <1>3, <1>6, <1>7, <1>8 DEF FlowInv, Precedes
<1>10. MarkInv'
  BY <1>1, <1>2, <1>3 DEF MarkInv
<1> QED
  BY <1>9, <1>10, ErrorsStay DEF VoiceInv

LEMMA ProducerKeepsVoice == ASSUME IInv, VoiceInv, ProducerStep PROVE VoiceInv'
BY TurningKeepsVoice, RenderedKeepsVoice, PutChunkKeepsVoice, PutEndKeepsVoice
   DEF ProducerStep, Producer, VoiceHubRendered, AstrBotRendered

LEMMA VoiceInit == Init => VoiceInv
<1> SUFFICES ASSUME Init PROVE VoiceInv
  OBVIOUS
<1>1. /\ main \in {"stt", "launch", "decide"} /\ out = << >> /\ hand = EndMark /\ rendered = << >>
      /\ pcm = << >> /\ producer = "none" /\ left = 0 /\ ~failure
  BY DEF Init, Request, SpeechInit
<1>2. Heard = {} /\ Playing = {} /\ Queued = {} /\ PutSoFar = {} /\ ~Marked /\ AudioPlaces = {} /\ Places("error") = {}
  BY <1>1 DEF Heard, Playing, Queued, PutSoFar, Audible, Marked, AudioPlaces, Places
<1>3. FlowInv
  BY <1>1, <1>2 DEF FlowInv
<1>4. MarkInv /\ ErrorInv
  BY <1>1, <1>2 DEF MarkInv, ErrorInv, Spoken
<1> QED
  BY <1>3, <1>4 DEF VoiceInv

LEMMA VoiceNext == IInv /\ VoiceInv /\ [Next]_vars => VoiceInv'
<1> SUFFICES ASSUME IInv, VoiceInv, [Next]_vars PROVE VoiceInv'
  OBVIOUS
<1>1. CASE Runner
  BY <1>1, SilentKeeps, TellingKeeps, SayTextKeepsVoice, TakeAudioKeepsVoice, EmitAudioKeepsVoice,
     SpeechOverKeepsVoice, ErrorKeepsVoice DEF Runner
<1>2. CASE FastAction
  BY <1>2, SilentKeeps, TellingKeeps DEF FastAction
<1>3. CASE ProducerStep \/ Suggest \/ Revoke \/ GeneratorClosed
  BY <1>3, ProducerKeepsVoice, SuggestKeepsVoice, StoppedKeepsVoice
<1>4. CASE UNCHANGED vars
  <2>1. Quiet /\ Moved /\ Places("error")' = Places("error")
    BY <1>4 DEF vars, voice, Quiet, Moved, AudioPlaces, Places
  <2> QED
    BY <2>1, QuietKeeps
<1> QED
  BY <1>1, <1>2, <1>3, <1>4 DEF Next

LEMMA VoiceHolds == Spec => []VoiceInv
BY InvariantHolds, VoiceInit, VoiceNext, PTL DEF Spec

(* The audio that the client got is that of the first segments, in order, without a
   gap and nothing twice, whatever the producer, the two providers and the queue do
   (_tts_pipeline, FallbackTTSAdapter.synthesize); a reply that has ended was spoken as
   far as it could be, and tts_failed says that a segment could not. *)
THEOREM SpokenInOrderHolds == Spec => []SpokenInOrder
<1>1. IInv /\ VoiceInv => SpokenInOrder
  <2> SUFFICES ASSUME IInv, VoiceInv PROVE SpokenInOrder
    OBVIOUS
  <2>1. FlowInv /\ MarkInv /\ ErrorInv
    BY DEF VoiceInv
  <2>2. \A i, j \in Places("reply.audio.chunk") : i < j => Precedes(out[i].data, out[j].data)
    BY <2>1 DEF FlowInv, AudioPlaces
  <2>3. Heard \subseteq PutSoFar /\ PutSoFar \subseteq Audible
    BY <2>1 DEF FlowInv, PutSoFar
  <2>4. ASSUME NEW c \in Audible, NEW d \in Heard, Precedes(c, d) PROVE c \in Heard
    <3>1. c \in Chunks /\ d \in Chunks /\ d \in PutSoFar
      BY <2>3, <2>4 DEF Audible
    <3>2. /\ c.segment \in Nat /\ c.chunk \in Nat /\ d.segment \in Nat /\ d.chunk \in Nat
      BY <3>1, SpeechAssumption DEF Chunks
    <3>3. c \in PutSoFar
      <4>1. /\ DOMAIN rendered = 1..Len(rendered) /\ Len(rendered) \in Nat
            /\ \A s \in DOMAIN rendered : rendered[s].chunks \in Nat
        <5>1. rendered \in Seq([by : Voices, chunks : 0..MaxChunks])
          BY DEF IInv, SpeechInv
        <5>2. \A s \in 1..Len(rendered) : rendered[s] \in [by : Voices, chunks : 0..MaxChunks]
          BY <5>1, ElementIn
        <5> QED
          BY <5>1, <5>2, SpeechAssumption
      <4>2. c.segment \in DOMAIN rendered /\ c.chunk < rendered[c.segment].chunks
        BY <2>4 DEF Audible
      <4>3. d.segment \in DOMAIN rendered /\ d.chunk < rendered[d.segment].chunks - Unput(d.segment)
        BY <3>1 DEF PutSoFar, Audible
      <4>4. left \in Nat
        BY SpeechAssumption DEF IInv, SpeechInv
      <4>5. CASE c.segment = Len(rendered)
        <5>1. d.segment = c.segment /\ c.chunk < d.chunk
          BY <2>4, <3>2, <4>1, <4>3, <4>5 DEF Precedes
        <5> QED
          BY <2>4, <3>2, <4>1, <4>3, <4>4, <4>5, <5>1 DEF PutSoFar, Unput
      <4>6. CASE c.segment # Len(rendered)
        BY <2>4, <3>2, <4>1, <4>2, <4>6 DEF PutSoFar, Unput
      <4> QED
        BY <4>5, <4>6
    <3>4. c \notin Playing \cup Queued
      <4> SUFFICES ASSUME c \in Playing \cup Queued PROVE FALSE
        OBVIOUS
      <4>1. Precedes(d, c)
        BY <2>1, <2>4 DEF FlowInv
      <4> QED
        BY <2>4, <3>2, <4>1 DEF Precedes
    <3> QED
      BY <2>1, <3>3, <3>4 DEF FlowInv
  <2>5. ASSUME Places("reply.end") # {}, producer # "none"
        PROVE  Heard = Audible /\ (Len(rendered) < segments <=> Places("error") # {})
    <3>1. main = "done"
      BY <2>5 DEF IInv, EndInv
    <3>2. pcm = << >> /\ hand = EndMark /\ producer = "over"
      BY <2>1, <2>5, <3>1 DEF MarkInv, ErrorInv, Spoken
    <3>3. left = 0 /\ (failure <=> Len(rendered) < segments)
      BY <2>1, <3>1, <3>2 DEF MarkInv, Spoken
    <3>4. Playing = {} /\ Queued = {}
      BY <3>2 DEF Playing, Queued
    <3>5. PutSoFar = Audible
      <4>1. \A s : Unput(s) = 0
        BY <3>3 DEF Unput
      <4>2. \A c \in Audible : rendered[c.segment].chunks \in Nat
        <5>1. rendered \in Seq([by : Voices, chunks : 0..MaxChunks])
          BY DEF IInv, SpeechInv
        <5>2. \A s \in 1..Len(rendered) : rendered[s] \in [by : Voices, chunks : 0..MaxChunks]
          BY <5>1, ElementIn
        <5> QED
          BY <5>1, <5>2, SpeechAssumption DEF Audible
      <4>3. \A c \in Audible : c.chunk < rendered[c.segment].chunks - Unput(c.segment)
        BY <4>1, <4>2 DEF Audible
      <4> QED
        BY <4>3 DEF PutSoFar
    <3> QED
      BY <2>1, <2>5, <3>1, <3>3, <3>4, <3>5 DEF FlowInv, ErrorInv
  <2> QED
    BY <2>2, <2>3, <2>4, <2>5 DEF SpokenInOrder
<1> QED
  BY <1>1, InvariantHolds, VoiceHolds, PTL

-----------------------------------------------------------------------------
(* The turn implements TurnStory.  What the events do not show of the runner, and
   what it has not said yet. *)
StoryInv ==
    /\ main \in {"stt", "asr"} => out = << >>
    /\ main = "cancelled" => ~current
    /\ main = "fail" => Places("error") = {}
    /\ suggest = "ready" =>
          out # << >> /\ out[Len(out)].type = "reply.end" /\ out[Len(out)].text_sent

LEMMA RunnerMoves ==
    ASSUME Runner
    PROVE  /\ current /\ UNCHANGED <<current, request>>
           /\ main \notin {"done", "cancelled"} /\ main' \notin {"stt", "cancelled"}
           /\ main' = "asr" => main = "stt" /\ out' = out
           /\ main' = "fail" => main \in {"stt", "decide", "fail"} /\ out' = out
           /\ suggest' = suggest \/ EmitEnd
<1>1. CASE Recognise
  BY <1>1 DEF Recognise, Go
<1>2. CASE EmitFinal
  BY <1>2 DEF EmitFinal, Go
<1>3. CASE Launch
  BY <1>3 DEF Launch, Go
<1>4. CASE \E text \in BOOLEAN : Decide(text)
  BY <1>4 DEF Decide, Go
<1>5. CASE DecisionFails
  BY <1>5 DEF DecisionFails, Go
<1>6. CASE EmitIntent
  BY <1>6 DEF EmitIntent, Go
<1>7. CASE \E taken \in 0..MaxDeltas : SayText(taken)
  <2>1. PICK taken \in 0..MaxDeltas : SayText(taken)
    BY <1>7
  <2>2. current /\ main = "text" /\ main' \in {"speak", "arbitrate"}
    BY <2>1 DEF SayText, Go
  <2>3. UNCHANGED <<current, request, suggest>>
    BY <2>1 DEF SayText
  <2> QED
    BY <2>2, <2>3
<1>8. CASE TakeAudio
  BY <1>8 DEF TakeAudio, Go
<1>9. CASE EmitAudio
  BY <1>9 DEF EmitAudio, Go
<1>10. CASE SpeechOver
  BY <1>10 DEF SpeechOver, Go
<1>11. CASE EmitTtsError
  BY <1>11 DEF EmitTtsError, Go
<1>12. CASE Arbitrate
  BY <1>12 DEF Arbitrate, Go
<1>13. CASE EmitFallback
  BY <1>13 DEF EmitFallback, Go
<1>14. CASE BeginEnd
  BY <1>14 DEF BeginEnd, Go
<1>15. CASE EmitEnd
  BY <1>15 DEF EmitEnd, Go
<1>16. CASE BeginFail
  BY <1>16 DEF BeginFail, Go
<1>17. CASE EmitFail
  BY <1>17 DEF EmitFail, Go
<1>18. CASE EmitFailedEnd
  BY <1>18 DEF EmitFailedEnd, Go
<1> QED
  BY <1>1, <1>2, <1>3, <1>4, <1>5, <1>6, <1>7, <1>8, <1>9, <1>10, <1>11, <1>12, <1>13, <1>14,
     <1>15, <1>16, <1>17, <1>18 DEF Runner

(* The end of a reply that has a text is the last thing said when the quick replies
   may come. *)
LEMMA EndIsLast ==
    ASSUME IInv, EmitEnd
    PROVE  suggest' = "ready" =>
              out' # << >> /\ out'[Len(out')].type = "reply.end" /\ out'[Len(out')].text_sent
<1> DEFINE end == End(hasText, chunks > 0, chunks - 1)
<1>1. end \in Events /\ Emit(end) /\ end.type = "reply.end" /\ end.text_sent = hasText
  BY EventIsIn DEF EmitEnd, End
<1> HIDE DEF end
<1>2. Says(end)
  BY <1>1, EmitSays DEF IInv, TypeInv
<1>3. suggest' = "ready" => hasText
  BY DEF EmitEnd, IInv, TypeInv
<1>4. Len(out') = Len(out) + 1 /\ out'[Len(out')] = end /\ out' # << >>
  BY <1>2 DEF Says
<1> QED
  BY <1>1, <1>3, <1>4

LEMMA StoryKept == IInv /\ VoiceInv /\ StoryInv /\ [Next]_vars => StoryInv'
<1> SUFFICES ASSUME IInv, VoiceInv, StoryInv, [Next]_vars PROVE StoryInv'
  OBVIOUS
<1>1. CASE Runner
  <2>1. suggest # "ready"
    BY <1>1, RunnerMoves DEF IInv, EndInv
  <2>2. main' \in {"stt", "asr"} => out' = << >>
    BY <1>1, RunnerMoves DEF StoryInv
  <2>3. main' = "fail" => Places("error")' = {}
    BY <1>1, RunnerMoves DEF StoryInv, Places, VoiceInv, ErrorInv
  <2>4. suggest' = "ready" => EmitEnd
    BY <1>1, <2>1, RunnerMoves
  <2> QED
    BY <1>1, <2>2, <2>3, <2>4, RunnerMoves, EndIsLast DEF StoryInv
<1>2. CASE FastAction
  <2>1. /\ current /\ UNCHANGED <<current, main, suggest>> /\ fast \in {"ready", "emitting"}
        /\ out' = out \/ Emit(Intent("explicit"))
    BY <1>2 DEF FastAction, FastReserve, FastEmit, FastFails
  <2>2. main \notin {"stt", "asr", "done"} /\ suggest # "ready"
    BY <2>1 DEF IInv, FlagInv, EndInv, FastOver
  <2>3. Places("error")' = Places("error")
    <3>1. CASE out' = out
      BY <3>1 DEF Places
    <3>2. CASE Emit(Intent("explicit"))
      BY <3>2, EventIsIn, EmitSays, OtherEvent, TypesOf DEF IInv, TypeInv
    <3> QED
      BY <2>1, <3>1, <3>2
  <2> QED
    BY <2>1, <2>2, <2>3 DEF StoryInv
<1>3. CASE Suggest
  <2>1. main = "done" /\ main' = main /\ suggest' = "done" /\ UNCHANGED current
    BY <1>3 DEF Suggest, IInv, EndInv
  <2> QED
    BY <2>1 DEF StoryInv
<1>4. CASE Revoke
  BY <1>4 DEF StoryInv, Revoke, Places
<1>5. CASE ProducerStep \/ GeneratorClosed
  BY <1>5 DEF StoryInv, ProducerStep, GeneratorClosed, Places
<1>6. CASE UNCHANGED vars
  BY <1>6 DEF StoryInv, vars, Places
<1> QED
  BY <1>1, <1>2, <1>3, <1>4, <1>5, <1>6 DEF Next

LEMMA StoryHolds == Spec => []StoryInv
<1>1. ASSUME Init PROVE StoryInv
  <2>1. out = << >> /\ suggest = "none" /\ request \in Request
    BY <1>1 DEF Init
  <2>2. main \notin {"cancelled", "fail"}
    BY <1>1, <2>1 DEF Init, Request
  <2> QED
    BY <2>1, <2>2 DEF StoryInv
<1> QED
  BY <1>1, InvariantHolds, VoiceHolds, StoryKept, PTL DEF Spec

-----------------------------------------------------------------------------
(* The words of the story. *)
LEMMA StoryWords ==
    ASSUME IInv
    PROVE  /\ \A type : Story!Of(type) = Places(type)
           /\ main \notin {"fail_end", "done", "cancelled"} => ~Story!Over
           /\ Story!Terminal = Error("terminal")
           /\ \A event : Emit(event) /\ current /\ UNCHANGED current => Story!Tell(event)
<1>1. \A type : Story!Of(type) = Places(type)
  BY DEF Story!Of, Places
<1>2. Story!Terminal = Error("terminal")
  BY DEF Story!Terminal, Error
<1>3. ASSUME main \notin {"fail_end", "done", "cancelled"} PROVE ~Story!Over
  <2>1. Places("reply.end") = {}
    BY <1>3 DEF IInv, EndInv
  <2>2. \A i \in Places("error") : out[i].code = "tts_failed"
    BY <1>3 DEF IInv, SaidInv
  <2>3. Error("terminal").code = "terminal"
    BY DEF Error
  <2> QED
    BY <1>1, <1>2, <2>1, <2>2, <2>3 DEF Story!Over
<1>4. \A event : Emit(event) /\ current /\ UNCHANGED current => Story!Tell(event)
  BY DEF Emit, Story!Tell
<1> QED
  BY <1>1, <1>2, <1>3, <1>4

LEMMA StoryCounts == ASSUME IInv PROVE chunks \in Story!Counts /\ Story!Counted(chunks)
<1>1. /\ chunks \in Nat /\ Story!Of("reply.audio.chunk") = Places("reply.audio.chunk")
      /\ \A n \in 0..(chunks - 1) : \E i \in Places("reply.audio.chunk") : out[i].sequence = n
      /\ \A i \in Places("reply.audio.chunk") : out[i].sequence \in 0..(chunks - 1)
  BY StoryWords DEF IInv, TypeInv, SaidInv
<1>2. Story!Counted(chunks)
  BY <1>1 DEF Story!Counted
<1>3. chunks \in Story!Counts
  <2>1. CASE chunks = 0
    BY <2>1 DEF Story!Counts
  <2>2. CASE chunks # 0
    <3>1. PICK i \in Places("reply.audio.chunk") : out[i].sequence = chunks - 1
      BY <1>1, <2>2
    <3> QED
      BY <1>1, <3>1 DEF Story!Counts
  <2> QED
    BY <2>1, <2>2
<1> QED
  BY <1>2, <1>3

LEMMA FinalIsHeard == ASSUME IInv, StoryInv, EmitFinal PROVE Story!Hear
<1>1. out = << >> /\ current /\ UNCHANGED current /\ Emit(Event("asr.final"))
  BY DEF EmitFinal, Go, StoryInv
<1> QED
  BY <1>1, StoryWords DEF Story!Hear, Event

LEMMA IntentIsAct ==
    ASSUME IInv, StoryInv, EmitIntent \/ EmitFallback \/ FastEmit
    PROVE  \E source \in {"reply", "explicit", "fallback"} : Story!Act(source)
<1>1. PICK source \in {"reply", "explicit", "fallback"} : Emit(Intent(source))
  BY DEF EmitIntent, EmitFallback, FastEmit
<1>2. current /\ UNCHANGED current
  BY DEF EmitIntent, EmitFallback, FastEmit, Go
<1>3. main \notin {"fail_end", "done", "cancelled"} /\ ~delivered /\ ~fastIntent
  <2>1. EmitIntent \/ EmitFallback => main \in {"intent", "fallback"}
    BY DEF EmitIntent, EmitFallback, Go
  <2>2. FastEmit => fast = "emitting"
    BY DEF FastEmit
  <2> QED
    BY <1>2, <2>1, <2>2 DEF IInv, FlagInv, StoryInv, FastOver
<1>4. Places("avatar.intent") = {}
  BY <1>3 DEF IInv, IntentInv
<1> QED
  BY <1>1, <1>2, <1>3, <1>4, StoryWords DEF Story!Act, Intent

LEMMA TextIsSaid ==
    ASSUME IInv, VoiceInv, NEW taken \in 0..MaxDeltas, SayText(taken) PROVE Story!SayText
<1>1. /\ current /\ UNCHANGED current /\ main = "text"
      /\ out' = out \o [i \in 1..taken |-> Event("reply.text.delta")]
  BY DEF SayText, Go
<1>2. Places("error") = {}
  BY <1>1 DEF VoiceInv, ErrorInv
<1>3. Places("reply.audio.chunk") = {}
  <2>1. producer = "none" /\ rendered = << >>
    BY <1>1 DEF IInv, SpeechInv
  <2>2. Audible = {}
    BY <2>1 DEF Audible
  <2>3. Heard = {}
    BY <2>2 DEF VoiceInv, FlowInv, PutSoFar
  <2> QED
    BY <2>3 DEF Heard
<1>4. taken \in 0..Len(out')
  <2>1. out \in Seq(Events) /\ Event("reply.text.delta") \in Events /\ taken \in Nat
    BY BoundAssumption, EventIsIn DEF IInv, TypeInv
  <2> DEFINE deltas == [i \in 1..taken |-> Event("reply.text.delta")]
  <2>2. deltas \in Seq(Events) /\ Len(deltas) = taken
    BY <2>1
  <2> HIDE DEF deltas
  <2>3. Len(out \o deltas) = Len(out) + taken /\ Len(out) \in Nat
    BY <2>1, <2>2
  <2>4. out' = out \o deltas
    BY <1>1 DEF deltas
  <2> QED
    BY <2>1, <2>3, <2>4
<1> QED
  BY <1>1, <1>2, <1>3, <1>4, StoryWords DEF Story!SayText, Event

LEMMA AudioIsSaid ==
    ASSUME IInv, VoiceInv, EmitAudio PROVE \E data \in Chunks : Story!SayAudio(data)
<1>1. current /\ UNCHANGED current /\ main = "audio" /\ Emit(Audio(chunks, hand))
  BY DEF EmitAudio, Go
<1>2. hand \in Chunks /\ hand # EndMark
  BY <1>1 DEF IInv, TypeInv, Chunks, EndMark
<1>3. Places("error") = {}
  BY <1>1 DEF VoiceInv, ErrorInv
<1>4. \A i \in Places("reply.audio.chunk") : out[i].data # hand
  <2> SUFFICES ASSUME NEW i \in Places("reply.audio.chunk"), out[i].data = hand PROVE FALSE
    OBVIOUS
  <2>1. Precedes(out[i].data, hand)
    BY <1>2 DEF VoiceInv, FlowInv, Heard, Playing
  <2>2. hand.segment \in Nat /\ hand.chunk \in Nat
    BY <1>2, SpeechAssumption DEF Chunks
  <2> QED
    BY <2>1, <2>2 DEF Precedes
<1> QED
  BY <1>1, <1>2, <1>3, <1>4, StoryWords, StoryCounts DEF Story!SayAudio, Audio

LEMMA FailureIsSaid ==
    /\ IInv /\ VoiceInv /\ EmitTtsError => Story!SpeechFails
    /\ IInv /\ StoryInv /\ EmitFail => Story!Fail
<1>1. ASSUME IInv, VoiceInv, EmitTtsError PROVE Story!SpeechFails
  <2>1. current /\ UNCHANGED current /\ main = "tts_error" /\ Emit(Error("tts_failed"))
    BY <1>1 DEF EmitTtsError, Go
  <2>2. Places("error") = {}
    BY <1>1, <2>1 DEF VoiceInv, ErrorInv
  <2> QED
    BY <1>1, <2>1, <2>2, StoryWords DEF Story!SpeechFails, Error
<1>2. ASSUME IInv, StoryInv, EmitFail PROVE Story!Fail
  <2>1. current /\ UNCHANGED current /\ main = "fail" /\ Emit(Error("terminal"))
    BY <1>2 DEF EmitFail, Go
  <2>2. Places("error") = {} /\ Places("reply.text.delta") = {} /\ Places("reply.audio.chunk") = {}
    BY <1>2, <2>1 DEF StoryInv, IInv, SaidInv
  <2> QED
    BY <1>2, <2>1, <2>2, StoryWords DEF Story!Fail
<1> QED
  BY <1>1, <1>2

LEMMA EndIsTold ==
    /\ IInv /\ EmitEnd => \E text \in BOOLEAN : Story!Complete(text)
    /\ IInv /\ EmitFailedEnd => Story!EndFailed
<1>1. ASSUME IInv, EmitEnd PROVE Story!Complete(hasText) /\ hasText \in BOOLEAN
  <2>1. /\ current /\ UNCHANGED current /\ main = "end"
        /\ Emit(End(hasText, chunks > 0, chunks - 1))
    BY <1>1 DEF EmitEnd, Go
  <2>2. Places("avatar.intent") # {}
    BY <1>1, <2>1 DEF IInv, FlagInv, IntentInv
  <2>3. hasText \in BOOLEAN /\ (Places("reply.text.delta") # {} => hasText)
    BY <1>1 DEF IInv, TypeInv, SaidInv
  <2> QED
    BY <1>1, <2>1, <2>2, <2>3, StoryWords, StoryCounts DEF Story!Complete, End
<1>2. ASSUME IInv, EmitFailedEnd PROVE Story!EndFailed
  <2>1. current /\ UNCHANGED current /\ main = "fail_end" /\ Emit(FailedEnd)
    BY <1>2 DEF EmitFailedEnd, Go
  <2>2. out # << >> /\ out[Len(out)] = Error("terminal")
    BY <1>2, <2>1 DEF IInv, SaidInv
  <2> QED
    BY <1>2, <2>1, <2>2, StoryWords DEF Story!EndFailed, Story!Last, FailedEnd
<1> QED
  BY <1>1, <1>2

LEMMA SuggestIsTold == ASSUME IInv, StoryInv, Suggest PROVE Story!Suggest \/ UNCHANGED <<out, current>>
<1>1. /\ suggest = "ready" /\ current /\ UNCHANGED current
      /\ out' = out \/ Emit(Event("reply.suggestions"))
  BY DEF Suggest, Emit
<1>2. out # << >> /\ out[Len(out)].type = "reply.end" /\ out[Len(out)].text_sent
  BY <1>1 DEF StoryInv
<1> QED
  BY <1>1, <1>2, StoryWords DEF Story!Suggest, Story!Last, Event

LEMMA StepIsTold ==
    IInv /\ VoiceInv /\ StoryInv /\ [Next]_vars => [Story!Next]_<<out, current>>
<1> SUFFICES ASSUME IInv, VoiceInv, StoryInv, [Next]_vars
             PROVE  Story!Next \/ UNCHANGED <<out, current>>
  OBVIOUS
<1>1. CASE Runner
  <2>1. CASE \/ Recognise \/ Launch \/ (\E text \in BOOLEAN : Decide(text)) \/ DecisionFails
             \/ TakeAudio \/ SpeechOver \/ Arbitrate \/ BeginEnd \/ BeginFail
    <3>1. UNCHANGED out
      BY <2>1 DEF Recognise, Launch, Decide, DecisionFails, TakeAudio, SpeechOver, Arbitrate,
                  BeginEnd, BeginFail
    <3> QED
      BY <1>1, <3>1, RunnerMoves
  <2>2. CASE EmitFinal \/ EmitIntent \/ EmitFallback
    BY <2>2, FinalIsHeard, IntentIsAct DEF Story!Next
  <2>3. CASE (\E taken \in 0..MaxDeltas : SayText(taken)) \/ EmitAudio
    BY <2>3, TextIsSaid, AudioIsSaid DEF Story!Next
  <2>4. CASE EmitTtsError \/ EmitFail
    BY <2>4, FailureIsSaid DEF Story!Next
  <2>5. CASE EmitEnd \/ EmitFailedEnd
    BY <2>5, EndIsTold DEF Story!Next
  <2> QED
    BY <1>1, <2>1, <2>2, <2>3, <2>4, <2>5 DEF Runner
<1>2. CASE FastAction
  <2>1. CASE FastEmit
    BY <2>1, IntentIsAct DEF Story!Next
  <2>2. CASE FastReserve \/ FastFails
    BY <2>2 DEF FastReserve, FastFails
  <2> QED
    BY <1>2, <2>1, <2>2 DEF FastAction
<1>3. CASE Suggest
  BY <1>3, SuggestIsTold DEF Story!Next
<1>4. CASE Revoke
  <2>1. Story!Silence
    BY <1>4 DEF Revoke, Story!Silence
  <2> QED
    BY <2>1 DEF Story!Next
<1>5. CASE ProducerStep \/ GeneratorClosed
  BY <1>5 DEF ProducerStep, GeneratorClosed
<1>6. CASE UNCHANGED vars
  BY <1>6 DEF vars
<1> QED
  BY <1>1, <1>2, <1>3, <1>4, <1>5, <1>6 DEF Next

(* A turn refines TurnStory: all that its tasks do to each other, to the providers and
   to the queues (run_text_turn, _deliver_decision, _tts_pipeline, the action task, an
   interrupt) looks to the client like one narrator's reply. *)
THEOREM TellsItsStoryHolds == Spec => TellsItsStory
<1>1. Init => Story!Init
  BY DEF Init, Story!Init
<1> QED
  BY <1>1, InvariantHolds, VoiceHolds, StoryHolds, StepIsTold, PTL DEF Spec, TellsItsStory, Story!Spec
==============================================================================
