----------------------------- MODULE MCStreaming -----------------------------
(***************************************************************************)
(* Streaming for TLC: what one browser may send is a set of message kinds. *)
(***************************************************************************)
EXTENDS Streaming

\* A browser that types, records, barges in and acknowledges what it played.
Everything == {"text", "audio", "interrupt", "playback"}
=============================================================================
