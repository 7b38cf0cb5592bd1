---------------------------- MODULE MCSignalOutbox ----------------------------
(* Two signals, two payloads, and two publishers under the one worker id.    *)
EXTENDS SignalOutbox

Schedule == <<1, 2>>
=============================================================================
