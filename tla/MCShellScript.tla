--------------------------- MODULE MCShellScript ---------------------------
(* An instance of ShellScript for TLC: configurations of one capability    *)
(* with every parameter type, and inputs that each conversion changes.     *)
EXTENDS ShellScript

Param(n, type, d) ==
    [name |-> n, type |-> type, min |-> {}, max |-> {}, default |-> d,
     options |-> <<>>, validation |-> {}]
Level == Slider("a", 0, 1, <<Word("1")>>)
Mute == Param("a", "toggle", {})
Mode == [Param("a", "dropdown", {}) EXCEPT !.options = <<<<Word("High")>>, <<Word("0")>>>>]
Free(n, d) == Param(n, "text", d)
Digits == [Free("b", {}) EXCEPT !.validation =
             {[compiles |-> TRUE, matches |-> {<<Word("0")>>, <<Word("1")>>, <<Blank, Word("+1")>>}]}]
Uncompiled == [Free("b", {<<Word("1")>>}) EXCEPT !.validation = {[compiles |-> FALSE, matches |-> {}]}]

Both == <<Hole("b"), Hole("a"), Word("x"), Hole("b")>>
OnlyA == <<Hole("a"), Word("x"), Hole("a")>>

MCCapabilities ==
    { Script("c", <<Level, Free("b", {})>>, Both),
      Script("c", <<Mute, Digits>>, Both),
      Script("c", <<Mode, Free("b", {<<>>})>>, Both),
      Script("c", <<Mode>>, OnlyA \o <<Hole("x-y")>>),
      Script("c", <<[Mode EXCEPT !.options = <<<<Word("high")>>, <<Word("High")>>>>]>>, OnlyA),
      Script("c", <<[Level EXCEPT !.default = {<<Word("50")>>}], Free("duree", {<<Word("1")>>})>>,
             OnlyA \o <<Hole("duree")>>),
      Script("c", <<[Mode EXCEPT !.options = <<<<Blank, Word("1")>>>>]>>, OnlyA),
      \* not valid, but they parse
      Script("c", <<Level, [Mute EXCEPT !.default = {<<Word("true")>>}]>>, OnlyA),
      Script("c", <<Free("a", {<<Word("x")>>}), Mute>>, OnlyA),
      Script("c", <<Free("a", {}), Uncompiled>>, Both),
      Script("c", <<[Level EXCEPT !.min = {}]>>, Both),
      Script("c", <<Param("a", "number", {})>>, OnlyA),
      [Script("c", <<Mute>>, OnlyA) EXCEPT !.mode = "realtime"] }

Values == {<<Word("+1")>>, <<Blank, Word("1")>>, <<Word("Yes")>>, <<Word("high")>>, <<Word("50")>>,
           <<Hole("a")>>, <<Hole("b"), Word("0")>>, <<>>}
MCInputs == {<<>>} \cup [{"a"} -> Values] \cup [{"a", "b"} -> Values] \cup {[c \in {"c"} |-> <<Blank>>]}
=============================================================================
