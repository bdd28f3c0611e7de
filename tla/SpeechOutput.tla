----------------------------- MODULE SpeechOutput -----------------------------
(***************************************************************************)
(* The synthesis of a reply (TurnOrchestrator._tts_pipeline and the        *)
(* adapters it calls): a producer task asks for the text segment by        *)
(* segment, the voice hub before AstrBot's own provider, and puts the      *)
(* audio into a queue of QueueSize places, with a marker at its end, where *)
(* the runner of the turn takes it from (TurnDelivery).                    *)
(*                                                                         *)
(* A provider gives the audio of a segment as a file, which is read and    *)
(* checked before its first chunk goes out: it fails before or not at all. *)
(* Whether a provider is available may change between any two questions.   *)
(***************************************************************************)
EXTENDS Integers, Sequences

CONSTANTS MaxSegments,   \* bound: sentences of a reply
          MaxChunks,     \* bound: audio chunks of a segment
          QueueSize

ASSUME SpeechAssumption ==
    MaxSegments \in Nat \ {0} /\ MaxChunks \in Nat \ {0} /\ QueueSize \in Nat \ {0}

VARIABLES producer,      \* where the producer task stands
          segments,      \* _speech_segments: how many there are
          rendered,      \* for each segment so far, who spoke it in how many chunks
          left,          \* chunks of the last of them that are not in the queue yet
          pcm,           \* the queue
          failure        \* what the producer failed of

speech == <<producer, segments, rendered, left, pcm, failure>>

ProducerSteps == {"none", "segment", "voice_hub", "astrbot", "put", "end", "over"}

Chunks == [segment : 1..MaxSegments, by : {"voice_hub", "astrbot"}, chunk : 0..(MaxChunks - 1)]
EndMark == [segment |-> 0]
Chunk(s, n) == [segment |-> s, by |-> rendered[s].by, chunk |-> n]

SpeechInit ==
    /\ producer = "none" /\ segments = 0 /\ rendered = << >> /\ left = 0
    /\ pcm = << >> /\ failure = FALSE

(* The generator is entered: a producer for a text of so many segments. *)
StartProducer ==
    /\ producer' = "segment"
    /\ segments' \in 1..MaxSegments
    /\ UNCHANGED <<rendered, left, pcm, failure>>

-----------------------------------------------------------------------------
(* The producer. *)

Fail == producer' = "end" /\ failure' = TRUE

(* FallbackTTSAdapter.synthesize: the voice hub if it is there, or AstrBot's
   provider, or none. *)
NextSegment ==
    /\ producer = "segment"
    /\ IF Len(rendered) = segments
       THEN producer' = "end" /\ UNCHANGED failure
       ELSE \/ producer' \in {"voice_hub", "astrbot"} /\ UNCHANGED failure
            \/ Fail
    /\ UNCHANGED <<segments, rendered, left, pcm>>

(* A segment of blanks has no audio. *)
Rendered(by) ==
    /\ producer = by
    /\ \E n \in 0..MaxChunks :
          /\ rendered' = Append(rendered, [by |-> by, chunks |-> n])
          /\ left' = n
          /\ producer' = IF n = 0 THEN "segment" ELSE "put"
    /\ UNCHANGED <<segments, pcm, failure>>

VoiceHubRendered == Rendered("voice_hub")
AstrBotRendered  == Rendered("astrbot")

(* The voice hub failed, without a chunk: AstrBot's provider takes its place. *)
VoiceHubFails ==
    /\ producer = "voice_hub"
    /\ \/ producer' = "astrbot" /\ UNCHANGED failure
       \/ Fail
    /\ UNCHANGED <<segments, rendered, left, pcm>>

(* Seeded fault: the failure is not kept for the runner. *)
AstrBotFailsSilently ==
    /\ producer = "astrbot"
    /\ producer' = "end"
    /\ UNCHANGED <<segments, rendered, left, pcm, failure>>

AstrBotFails ==
    /\ producer = "astrbot"
    /\ Fail
    /\ UNCHANGED <<segments, rendered, left, pcm>>

PutChunk ==
    /\ producer = "put" /\ Len(pcm) < QueueSize
    /\ pcm' = Append(pcm, Chunk(Len(rendered), rendered[Len(rendered)].chunks - left))
    /\ left' = left - 1
    /\ producer' = IF left' = 0 THEN "segment" ELSE "put"
    /\ UNCHANGED <<segments, rendered, failure>>

(* Seeded fault: the marker is not waited for. *)
PutEndIfRoom ==
    /\ producer = "end"
    /\ pcm' = IF Len(pcm) < QueueSize THEN Append(pcm, EndMark) ELSE pcm
    /\ producer' = "over"
    /\ UNCHANGED <<segments, rendered, left, failure>>

PutEnd ==
    /\ producer = "end" /\ Len(pcm) < QueueSize
    /\ pcm' = Append(pcm, EndMark)
    /\ producer' = "over"
    /\ UNCHANGED <<segments, rendered, left, failure>>

Producer ==
    \/ NextSegment
    \/ VoiceHubRendered \/ AstrBotRendered
    \/ VoiceHubFails \/ AstrBotFails
    \/ PutChunk \/ PutEnd

-----------------------------------------------------------------------------
(* The generator's part for the runner. *)

Take == pcm # << >> /\ pcm' = Tail(pcm) /\ UNCHANGED <<producer, segments, rendered, left, failure>>

(* Its "finally": the producer is cancelled where it stands, and puts no marker. *)
ProducerCancelled ==
    /\ producer' = IF producer = "none" THEN "none" ELSE "over"
    /\ UNCHANGED <<segments, rendered, left, pcm, failure>>

(* The audio of the segments so far, and the order in which it should be heard. *)
Audible ==
    {c \in Chunks : /\ c.segment \in DOMAIN rendered
                    /\ c.by = rendered[c.segment].by /\ c.chunk < rendered[c.segment].chunks}
Precedes(c, d) == \/ c.segment < d.segment
                  \/ c.segment = d.segment /\ c.chunk < d.chunk

SpeechTypeOK ==
    /\ producer \in ProducerSteps
    /\ segments \in 0..MaxSegments /\ Len(rendered) <= segments
    /\ \A s \in DOMAIN rendered : rendered[s].chunks \in 0..MaxChunks
    /\ left \in 0..MaxChunks /\ (producer = "put" => left > 0)
    /\ Len(pcm) <= QueueSize /\ failure \in BOOLEAN
==============================================================================
