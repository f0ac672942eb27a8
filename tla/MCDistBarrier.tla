---------------------------- MODULE MCDistBarrier ----------------------------
(* Four threads, three rounds of wait (or join and fork).                    *)
EXTENDS DistBarrier
=============================================================================
