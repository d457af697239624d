-------------------------- MODULE MCConfigReload --------------------------
(* An instance of ConfigReload for TLC: a file that does not parse, one    *)
(* that is valid, and ones that parse and are invalid in ways that the     *)
(* registry notices, the client notices, or nobody does.                   *)
EXTENDS ConfigReload

Minimal == [port |-> {}, bind |-> {}, mdns |-> {}, ttl |-> {}, relay |-> {}, capabilities |-> <<>>]
Lock == Script("lock-screen", <<>>, <<Word("loginctl")>>)
Unknown == [Slider("level", 0, 100, <<Word("50")>>) EXCEPT !.type = "number"]

MCFiles ==
    [broken    |-> {},
     minimal   |-> {Minimal},
     duplicate |-> {[Minimal EXCEPT !.capabilities = <<Lock, Lock>>]},
     unknown   |-> {[Minimal EXCEPT !.capabilities = <<Script("v", <<Unknown>>, <<Hole("level")>>)>>]},
     relay     |-> {[Minimal EXCEPT !.relay = {[RelayDefault EXCEPT !.include = TRUE]}]}]
=============================================================================
