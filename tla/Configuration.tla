--------------------------- MODULE Configuration ---------------------------
(***************************************************************************)
(* What the server's configuration file means, and who checks what of it.  *)
(*   - parser.rs fills in defaults; validation.rs is run at start ONLY;    *)
(*   - the registry and the client's list need part of what it checks;     *)
(*   - a capability's parameters are checked twice, by the client against  *)
(*     the list it holds (client-lib/src/commands.rs) and by the server    *)
(*     against the configuration in force (capabilities/parameters.rs).    *)
(*                                                                         *)
(* A text is a sequence of tokens: a word or a {placeholder}.  An optional *)
(* value is a set with at most one element, and so is the result of a      *)
(* conversion that may fail.  Two parameters of one name parse; both are   *)
(* checked, and the value of the last one is inserted over the others.     *)
(***************************************************************************)
EXTENDS Integers, SequencesExt, TLC

Token == [hole : BOOLEAN, t : STRING]
Text == Seq(Token)

Word(w) == [hole |-> FALSE, t |-> w]
Hole(n) == [hole |-> TRUE, t |-> n]
Blank == Word(" ")
Quote == Word("'")

\* str::trim
Trim(text) ==
    LET solid == {i \in DOMAIN text : text[i] # Blank}
    IN  IF solid = {} THEN <<>> ELSE SubSeq(text, Min(solid), Max(solid))

\* The words a conversion tells apart: str::parse::<i32> and to_string,
\* to_ascii_lowercase, parse_bool.
Number == [w \in {"0", "1", "+1", "50"} |->
              CASE w = "0" -> 0 [] w \in {"1", "+1"} -> 1 [] w = "50" -> 50]
Numeral == [n \in {0, 1, 50} |-> CASE n = 0 -> "0" [] n = 1 -> "1" [] n = 50 -> "50"]
Lower == [w \in {"High", "Yes"} |-> IF w = "High" THEN "high" ELSE "yes"]
Truth == [w \in {"true", "yes", "1", "false", "0"} |-> w \in {"true", "yes", "1"}]

WordsOf(text) == IF Len(text) = 1 /\ ~text[1].hole THEN {text[1].t} ELSE {}
ParseInt(text) == {Number[w] : w \in WordsOf(text) \cap DOMAIN Number}
ToLower(text) ==
    [i \in DOMAIN text |->
        IF ~text[i].hole /\ text[i].t \in DOMAIN Lower THEN Word(Lower[text[i].t]) ELSE text[i]]
ParseBool(text) == {Truth[w] : w \in WordsOf(ToLower(text)) \cap DOMAIN Truth}

-----------------------------------------------------------------------------
(* Parameters of a capability:                                             *)
(*   [name, type, min, max, default, options, validation]                  *)
(* with a regular expression as [compiles, matches].                       *)

Types == {"slider", "text", "toggle", "dropdown"}
Within(p, n) == (\A lo \in p.min : lo <= n) /\ (\A hi \in p.max : n <= hi)
Matches(p, v) == \A re \in p.validation : re.compiles /\ v \in re.matches
NamesOf(params) == {params[i].name : i \in DOMAIN params}

\* HashMap::insert in the order of the parameters: the last of a name stays.
LastOf(params, n) == params[Max({i \in DOMAIN params : params[i].name = n})]

\* CommandSummary::from_proto: one parameter of an unknown type makes the
\* whole list fail; an empty default is dropped.
Listable(params) == \A i \in DOMAIN params : params[i].type \in Types
FromProto(params) ==
    [i \in DOMAIN params |-> [params[i] EXCEPT !.default = @ \ {<<>>}]]

\* Mutant: a toggle is sent as the user typed it.
ClientValueRaw(p, raw) ==
    LET v == Trim(raw)
    IN  CASE p.type = "slider"   -> {<<Word(Numeral[n])>> : n \in {m \in ParseInt(v) : Within(p, m)}}
          [] p.type = "toggle"   -> IF ParseBool(v) = {} THEN {} ELSE {v}
          [] p.type = "dropdown" -> {o \in ToSet(p.options) : ToLower(o) = ToLower(v)}
          [] p.type = "text"     -> IF Matches(p, v) THEN {v} ELSE {}

\* The client's validate_parameters for one value: what it sends, if any.
ClientValue(p, raw) ==
    LET v == Trim(raw)
        same == {i \in DOMAIN p.options : ToLower(p.options[i]) = ToLower(v)}
    IN  CASE p.type = "slider"   -> {<<Word(Numeral[n])>> : n \in {m \in ParseInt(v) : Within(p, m)}}
          [] p.type = "toggle"   -> {<<Word(IF b THEN "true" ELSE "false")>> : b \in ParseBool(v)}
          [] p.type = "dropdown" -> {p.options[i] : i \in {j \in same : \A k \in same : j <= k}}
          [] p.type = "text"     -> IF Matches(p, v) THEN {v} ELSE {}

\* The client's validate_parameters: what is not given is left out, for the
\* server to fill in, provided it has a default.
ClientAccepts(params, provided) ==
    /\ DOMAIN provided \subseteq NamesOf(params)
    /\ \A i \in DOMAIN params :
         IF params[i].name \in DOMAIN provided
         THEN ClientValue(params[i], provided[params[i].name]) # {}
         ELSE params[i].default # {}

Sanitized(params, provided) ==
    [n \in DOMAIN provided |-> CHOOSE v \in ClientValue(LastOf(params, n), provided[n]) : TRUE]

\* validate_parameter_value of the server: no trimming, no folding.
ValidValue(p, v) ==
    CASE p.type = "slider"   -> \E n \in ParseInt(v) : Within(p, n)
      [] p.type = "toggle"   -> \E w \in WordsOf(v) : w \in {"true", "false", "1", "0"}
      [] p.type = "dropdown" -> v \in ToSet(p.options)
      [] p.type = "text"     -> Matches(p, v)
      [] OTHER               -> FALSE

\* The server's validate_parameters: the value given, or else the default.
Given(p, sent) == IF p.name \in DOMAIN sent THEN {sent[p.name]} ELSE p.default

ServerAccepts(params, sent) ==
    /\ \A i \in DOMAIN params : \E v \in Given(params[i], sent) : ValidValue(params[i], v)
    /\ DOMAIN sent \subseteq NamesOf(params)

Validated(params, sent) ==
    [n \in NamesOf(params) |-> CHOOSE v \in Given(LastOf(params, n), sent) : TRUE]

-----------------------------------------------------------------------------
(* substitute_parameters.  Its regular expression and the one of the       *)
(* configuration's validation differ: \w+ has no dash, and has letters     *)
(* outside ASCII.                                                          *)

Dashed == {"x-y"}
Accented == {"duree"}   \* stands for a name with an accent

ReplaceHole(text, n, v) ==
    FlattenSeq([i \in DOMAIN text |-> IF text[i] = Hole(n) THEN v ELSE <<text[i]>>])

\* shell_escape::escape quotes what is empty or has a special character
Escape(v) ==
    IF v # <<>> /\ \A i \in DOMAIN v : ~v[i].hole /\ v[i] # Blank
    THEN v ELSE <<Quote>> \o v \o <<Quote>>

\* captures_iter(command): the placeholders of the command
Captures(command) == {tok \in ToSet(command) : tok.hole /\ tok.t \notin Accented}

AllProvided(command, values) == \A tok \in Captures(command) : tok.t \in DOMAIN values

\* Mutant: str::replacen(.., 1)
SubstituteFirst(command, values) ==
    LET Once(text, tok) ==
            LET at == {i \in DOMAIN text : text[i] = tok}
            IN  IF at = {} \/ tok \notin Captures(command) THEN text
                ELSE SubSeq(text, 1, Min(at) - 1) \o Escape(values[tok.t])
                     \o SubSeq(text, Min(at) + 1, Len(text))
    IN  IF command = <<>> THEN command ELSE Once(command, command[1])

\* The loop over the placeholders, in the order of the command: each one is
\* replaced everywhere in the result so far.
Substitute(command, values) ==
    LET result[k \in 0..Len(command)] ==
            IF k = 0 THEN command
            ELSE IF command[k] \in Captures(command)
                 THEN ReplaceHole(result[k - 1], command[k].t, Escape(values[command[k].t]))
                 ELSE result[k - 1]
    IN  result[Len(command)]

-----------------------------------------------------------------------------
(* validation.rs and the registry.  A capability is [id, name, parameters, *)
(* kind, mode, command, timeouts]; timeouts holds the limits it sets.      *)

ValidateParameter(p) ==
    /\ p.name # ""
    /\ CASE p.type = "slider"   -> \E lo \in p.min, hi \in p.max : lo < hi
         [] p.type = "text"     -> \A re \in p.validation : re.compiles
         [] p.type = "toggle"   -> TRUE
         [] p.type = "dropdown" -> p.options # <<>>
         [] OTHER               -> FALSE

\* validate_parameter_placeholders
PlaceholdersDefined(command, params) ==
    \A tok \in ToSet(command) : tok.hole /\ tok.t \notin Dashed => tok.t \in NamesOf(params)

ValidateCapability(c) ==
    /\ c.id # "" /\ c.name # ""
    /\ \A i, j \in DOMAIN c.parameters : c.parameters[i].name = c.parameters[j].name => i = j
    /\ \A i \in DOMAIN c.parameters : ValidateParameter(c.parameters[i])
    /\ Trim(c.command) # <<>>
    /\ 0 \notin c.timeouts
    /\ IF c.kind = "shell_script" THEN PlaceholdersDefined(c.command, c.parameters)
                                  ELSE c.mode = "realtime"

\* CapabilityRegistry::from_config fails on the second of two equal ids.
UniqueIds(caps) == \A i, j \in DOMAIN caps : caps[i].id = caps[j].id => i = j

ValidateRelay(r) ==
    /\ \A wellFormed \in r.pinned : r.selfSigned /\ wellFormed
    /\ r.enabled => r.url /\ r.secret /\ r.delay # 0 /\ 0 \notin r.maxTunnels
    /\ r.include => r.enabled /\ r.url /\ r.secret /\ r.subprotocol

ValidateConfig(c) ==
    /\ c.port # 0 /\ c.bind # "" /\ c.mdns # "" /\ c.ttl # 0
    /\ ValidateRelay(c.relay)
    /\ UniqueIds(c.capabilities)
    /\ \A i \in DOMAIN c.capabilities : ValidateCapability(c.capabilities[i])

\* list_capabilities and the client's list_commands answer.
ListsAll(c) ==
    /\ UniqueIds(c.capabilities)
    /\ \A i \in DOMAIN c.capabilities : Listable(c.capabilities[i].parameters)

\* load_config: a key the file leaves out has its default.
OrDefault(opt, d) == IF opt = {} THEN d ELSE CHOOSE v \in opt : TRUE

RelayDefault ==
    [enabled |-> FALSE, url |-> FALSE, secret |-> FALSE, include |-> FALSE, delay |-> 30,
     maxTunnels |-> {}, selfSigned |-> FALSE, pinned |-> {}, subprotocol |-> TRUE]

LoadConfig(f) ==
    [port |-> OrDefault(f.port, 50051), bind |-> OrDefault(f.bind, "::"),
     mdns |-> OrDefault(f.mdns, "handcontrol"), ttl |-> OrDefault(f.ttl, 300),
     relay |-> OrDefault(f.relay, RelayDefault), capabilities |-> f.capabilities]

\* generate_default_config, with one capability of each shape it has
Slider(n, lo, hi, d) ==
    [name |-> n, type |-> "slider", min |-> {lo}, max |-> {hi}, default |-> {d},
     options |-> <<>>, validation |-> {}]

Script(i, params, command) ==
    [id |-> i, name |-> i, parameters |-> params, kind |-> "shell_script",
     mode |-> "one_shot", command |-> command, timeouts |-> {30}]

DefaultFile ==
    [port |-> {50051}, bind |-> {"::"}, mdns |-> {"handcontrol"}, ttl |-> {300},
     relay |-> {RelayDefault},
     capabilities |->
        <<Script("lock-screen", <<>>, <<Word("loginctl")>>),
          Script("set-volume", <<Slider("level", 0, 100, <<Word("50")>>)>>,
                 <<Word("pactl"), Hole("level")>>),
          [id |-> "shell.interactive", name |-> "shell", parameters |-> <<>>,
           kind |-> "shell_interactive", mode |-> "realtime", command |-> <<Word("/bin/sh")>>,
           timeouts |-> {600, 3600}]>>]
=============================================================================
