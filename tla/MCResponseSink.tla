--------------------------- MODULE MCResponseSink ---------------------------
(* Instances of ResponseSink for TLC. *)
EXTENDS ResponseSink

\* Everything but what breaks the callback sequence by itself, see the README.
MCBehaviours == {"trailers", "lateReset", "garbled", "unreadable"}
=============================================================================
