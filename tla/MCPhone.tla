------------------------------- MODULE MCPhone -------------------------------
(***************************************************************************)
(* Phone for TLC.                                                          *)
(***************************************************************************)
EXTENDS Phone

\* A callback that is late once the session is bridged, and one that ends the call.
Reports == {"ringing", "completed"}
=============================================================================
