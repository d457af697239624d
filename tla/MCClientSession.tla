-------------------------- MODULE MCClientSession --------------------------
(* ClientSession for TLC: nothing tells stdout and stderr apart.           *)
EXTENDS ClientSession, TLC

StreamSymmetry == Permutations(Streams)
=============================================================================
