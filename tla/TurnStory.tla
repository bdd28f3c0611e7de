------------------------------ MODULE TurnStory -------------------------------
(***************************************************************************)
(* What a client may rely on in the events of one turn: the abstract       *)
(* specification of TurnDelivery, with neither tasks nor flags, providers  *)
(* or queues.  There is only what was said, in order, and whether the turn *)
(* is still the session's current one.                                     *)
(***************************************************************************)
EXTENDS Integers, Sequences

CONSTANT Data        \* what a chunk of audio holds

VARIABLES said,      \* the events of the turn, in the order the client gets them
          live       \* the turn was neither interrupted nor superseded

Of(type)   == {i \in DOMAIN said : said[i].type = type}
Terminal   == [type |-> "error", code |-> "terminal"]
Over       == Of("reply.end") # {} \/ \E i \in Of("error") : said[i] = Terminal
Last       == said[Len(said)]
Tell(event) == live /\ said' = Append(said, event) /\ UNCHANGED live

(* So many chunks were said, numbered from 0; and the numbers that can be. *)
Counted(n) == {said[i].sequence : i \in Of("reply.audio.chunk")} = 0..(n - 1)
Counts     == {0} \cup {said[i].sequence + 1 : i \in Of("reply.audio.chunk")}

Hear == said = << >> /\ Tell([type |-> "asr.final"])

(* One action for the turn, at any time before its end. *)
Act(source) ==
    /\ ~Over /\ Of("avatar.intent") = {}
    /\ Tell([type |-> "avatar.intent", source |-> source])

(* The text comes in a piece, before its audio. *)
SayText ==
    /\ live /\ ~Over /\ Of("reply.audio.chunk") = {} /\ Of("error") = {}
    /\ \E n \in 0..Len(said') :
          said' = said \o [i \in 1..n |-> [type |-> "reply.text.delta"]]
    /\ UNCHANGED live

(* The next chunk, none that was said before; and the failure of the speech. *)
SayAudio(data) ==
    /\ ~Over /\ Of("error") = {}
    /\ \A i \in Of("reply.audio.chunk") : said[i].data # data
    /\ \E n \in Counts : Counted(n) /\ Tell([type |-> "reply.audio.chunk", sequence |-> n, data |-> data])

SpeechFails ==
    /\ ~Over /\ Of("error") = {}
    /\ Tell([type |-> "error", code |-> "tts_failed"])

(* A reply that is complete has its action, and its end counts the audio. *)
Complete(text) ==
    /\ ~Over /\ Of("avatar.intent") # {}
    /\ Of("reply.text.delta") # {} => text
    /\ \E n \in Counts :
          /\ Counted(n)
          /\ Tell([type |-> "reply.end", status |-> "completed", text_sent |-> text,
                   audio_sent |-> n > 0, audio_sequence_end |-> n - 1])

(* A turn fails as a whole, before any part of the reply, or not at all. *)
Fail ==
    /\ ~Over /\ Of("error") = {} /\ Of("reply.text.delta") = {} /\ Of("reply.audio.chunk") = {}
    /\ Tell(Terminal)

EndFailed ==
    /\ said # << >> /\ Last = Terminal
    /\ Tell([type |-> "reply.end", status |-> "failed", text_sent |-> FALSE, audio_sent |-> FALSE])

Suggest ==
    /\ said # << >> /\ Last.type = "reply.end" /\ Last.text_sent
    /\ Tell([type |-> "reply.suggestions"])

Silence == live /\ live' = FALSE /\ UNCHANGED said

Init == said = << >> /\ live = TRUE

Next == \/ Hear
        \/ \E source \in {"reply", "explicit", "fallback"} : Act(source)
        \/ SayText \/ \E data \in Data : SayAudio(data)
        \/ SpeechFails
        \/ \E text \in BOOLEAN : Complete(text)
        \/ Fail \/ EndFailed \/ Suggest \/ Silence

Spec == Init /\ [][Next]_<<said, live>>
==============================================================================
