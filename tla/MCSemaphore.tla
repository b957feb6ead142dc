---------------------------- MODULE MCSemaphore ----------------------------
(* A small instance of Semaphore for TLC: a counting semaphore without     *)
(* time-outs and a signalling one with them.                               *)
EXTENDS Semaphore

MCModes == {[signalled |-> FALSE, timeouts |-> FALSE],
            [signalled |-> TRUE, timeouts |-> TRUE]}
=============================================================================
