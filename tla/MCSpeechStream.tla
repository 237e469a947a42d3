--------------------------- MODULE MCSpeechStream ---------------------------
(* A small instance of the speech output: two sessions of two chunks, so   *)
(* that one can be left behind and disturb the next, chunks of one or two  *)
(* parts, any number of replies that are not streamed, stops at any time.  *)
EXTENDS SpeechStream

=============================================================================
