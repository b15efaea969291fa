----------------------------- MODULE MCMonitor -----------------------------
(***************************************************************************)
(* Two publishers; the monitor reads message by message and gives up after *)
(* three, the dump reads two at a time.                                    *)
(***************************************************************************)
EXTENDS StreamMonitor

CONSTANTS c1, c2
=============================================================================
