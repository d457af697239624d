------------------------------- MODULE MCTui -------------------------------
(* An instance of Tui for TLC: one server announces its id, the other does *)
(* not and is listed a second time once it is enrolled.                    *)
EXTENDS Tui

CONSTANTS s1, s2

MCOrder == <<s1, s2>>
Cmd(name, t, f, o) == [name |-> name, tag |-> t, form |-> f, oneshot |-> o]
MCLists == {<<Cmd("a", "x", FALSE, TRUE), Cmd("b", "y", TRUE, TRUE)>>}
MCFound == {{s1, s2}}
MCFilters == {{"x", "y"}, {"y"}}
=============================================================================
