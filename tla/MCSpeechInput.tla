---------------------------- MODULE MCSpeechInput -----------------------------
(* A short utterance, a short queue and a shorter buffer, for TLC. *)
EXTENDS SpeechInput, TLC
==============================================================================
