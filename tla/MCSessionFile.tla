--------------------------- MODULE MCSessionFile ----------------------------
(* Instances of SessionFile for TLC. *)
EXTENDS SessionFile, TLC

CONSTANTS t1, t2, r1, h1, h2, ann, bufferKey, size

(* The line of .env that matters: the size of the receive buffers. *)
MCEnvFile == <<[key |-> bufferKey, value |-> size]>>
=============================================================================
