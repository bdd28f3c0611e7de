------------------------------ MODULE Dictation -------------------------------
(***************************************************************************)
(* What a spoken turn promises: the abstract specification of SpeechInput, *)
(* without queues, tasks, sockets and deadlines.  A client speaks, somebody*)
(* hears a part of it, what was heard may become a text, and the turn gets *)
(* one answer after the client has ended.                                  *)
(***************************************************************************)
EXTENDS Naturals, Sequences

VARIABLES said,      \* how many chunks the client has sent
          orderly,   \* it sent them one at a time
          ended,     \* and has ended
          heard,     \* the chunks that the recogniser got
          text,      \* the chunks that its text was heard in
          taken,     \* the text was taken for the turn
          answer,    \* how the turn's text was found
          live       \* the turn was neither interrupted nor superseded

dictationVars == <<said, orderly, ended, heard, text, taken, answer, live>>

Speak ==
    /\ live /\ ~ended
    /\ said' = said + 1
    /\ orderly' => orderly
    /\ UNCHANGED <<ended, heard, text, taken, answer, live>>

End ==
    /\ live /\ ~ended /\ said > 0
    /\ ended' = TRUE
    /\ orderly' => orderly
    /\ UNCHANGED <<said, heard, text, taken, answer, live>>

(* The recogniser gets more of what was said; from the beginning and without a gap,
   when it was said in order.  Nothing more, once the turn has its answer. *)
Hear ==
    /\ answer = "none"
    /\ DOMAIN heard \subseteq DOMAIN heard'
    /\ \A i \in DOMAIN heard : heard'[i] = heard[i]
    /\ \A i \in DOMAIN heard' : heard'[i] \in 1..said /\ (orderly => heard'[i] = i)
    /\ UNCHANGED <<said, orderly, ended, text, taken, answer, live>>

(* A text is one of what was heard from the beginning; it is never replaced. *)
Understand ==
    /\ answer = "none" /\ text = << >>
    /\ \E n \in 1..Len(heard) : text' = SubSeq(heard, 1, n)
    /\ UNCHANGED <<said, orderly, ended, heard, taken, answer, live>>

Take ==
    /\ answer = "none" /\ ~taken /\ text # << >>
    /\ taken' = TRUE
    /\ UNCHANGED <<said, orderly, ended, heard, text, answer, live>>

(* A text that was taken is the answer, and otherwise the file recogniser is asked. *)
Answer ==
    /\ live /\ ended /\ answer = "none"
    /\ answer' \in IF taken THEN {"stream"} ELSE {"file", "failed"}
    /\ UNCHANGED <<said, orderly, ended, heard, text, taken, live>>

Silence == live /\ live' = FALSE /\ UNCHANGED <<said, orderly, ended, heard, text, taken, answer>>

Init == /\ said = 0 /\ orderly = TRUE /\ ended = FALSE
        /\ heard = << >> /\ text = << >> /\ taken = FALSE
        /\ answer = "none" /\ live = TRUE

Next == Speak \/ End \/ Hear \/ Understand \/ Take \/ Answer \/ Silence

Spec == Init /\ [][Next]_dictationVars
==============================================================================
