---------------------------- MODULE MCFindBytes ----------------------------
(* All buffers of up to seven bytes, of which 7 stands for any byte that   *)
(* is not in the end of chunk marker.                                      *)
EXTENDS FindBytes

MCPattern == <<0, 0, 255, 255>>
MCBuffers == UNION {[1 .. n -> {0, 7, 255}] : n \in 1 .. 7}
=============================================================================
