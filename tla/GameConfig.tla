------------------------------ MODULE GameConfig ------------------------------
(***************************************************************************)
(* The way of a server's configuration from the resources a user writes to *)
(* the running game:                                                       *)
(*   - operator/internal/controller/quakeserver_controller.go: resolveConfig *)
(*     merges the template's serverConfig with the server's own, and       *)
(*     generateConfigYAML writes config.yaml;                              *)
(*   - internal/quake/server/config.go and maps.go: reload reads it over   *)
(*     the program's defaults and writes server.cfg with the map rotation. *)
(*                                                                         *)
(* A configuration is a function from fields to values.  In what a user    *)
(* writes a field may be left out (None) or hold a value, FALSE, "" and <<>> *)
(* included; in Go the zero value of a field that is not a pointer cannot  *)
(* be told from a field left out.  Durations are seconds.  The extra       *)
(* commands are a value like the others: they are taken to set no variable. *)
(***************************************************************************)
EXTENDS Integers, Sequences

CONSTANTS
    None,       \* left out
    Choices,    \* the values a user may write, by field
    Varied      \* pairs of fields that are written, or left out, together

\* The sections of ServerConfigSpec, "top" for serverConfig itself.
Sections ==
    [top    |-> {"fragLimit", "timeLimit", "maps", "commands"},
     game   |-> {"type", "motd", "forceRespawn", "inactivity", "quadFactor",
                 "password", "weaponRespawn"},
     server |-> {"hostname", "maxClients", "rconPassword"},
     bot    |-> {"minPlayers", "skill", "noChat"}]

Field == UNION {Sections[s] : s \in DOMAIN Sections}
SectionOf(f) == CHOOSE s \in DOMAIN Sections : f \in Sections[s]

Strings == {"type", "motd", "password", "hostname", "rconPassword"}
Bools == {"forceRespawn", "noChat"}
Lists == {"maps", "commands"}

ASSUME GameConfigAssumption ==
    /\ DOMAIN Choices = Field /\ Varied \subseteq Field \X Field
    /\ \A p \in Varied : p[1] # p[2]
    /\ \A v \in Choices["maps"] : Len(v) \in Nat /\ v = [i \in 1..Len(v) |-> v[i]]

\* The defaults the API server fills in where a section is written.
ApiDefault ==
    [fragLimit |-> 25, type |-> "FreeForAll", quadFactor |-> 3, maxClients |-> 12,
     skill |-> 3]

ASSUME NoneAssumption == \A f \in DOMAIN ApiDefault : ApiDefault[f] # None

\* The defaults of generateConfigYAML.
YamlDefault == [fragLimit |-> 25, timeLimit |-> 900]

FreeForAllOn(name) ==
    [name |-> name, type |-> "FreeForAll", captureLimit |-> 0, fragLimit |-> 0,
     timeLimit |-> 0]

WithDefault ==
    [fragLimit |-> 25, timeLimit |-> 900, commands |-> << >>,
     maps |-> <<FreeForAllOn("q3dm7"), FreeForAllOn("q3dm17")>>,
     type |-> "FreeForAll", motd |-> "Welcome to QuakeKube!", forceRespawn |-> FALSE,
     inactivity |-> 600, quadFactor |-> 3, password |-> "", weaponRespawn |-> 3,
     hostname |-> "quakekube", maxClients |-> 12, rconPassword |-> "changeme",
     minPlayers |-> 0, skill |-> 2, noChat |-> TRUE]

Cvar == (Field \ Lists) \cup {"captureLimit"}

VARIABLES
    stage,      \* where the configuration is
    tmpl,       \* what the template's author wrote
    inline,     \* what the server's author wrote
    config,     \* the configuration at this stage
    cvars,      \* the variables of the running game
    at          \* the map that is played, counted from 0

user == <<tmpl, inline>>
vars == <<stage, user, config, cvars, at>>

Stages == {"written", "resolved", "generated", "playing"}

\* A loaded configuration has a value for every field.
TypeOK ==
    /\ stage \in Stages
    /\ stage = "playing" =>
          /\ \A f \in Field : config[f] # None
          /\ DOMAIN cvars = Cvar
          /\ at \in 0..(Len(config.maps) - 1)

-----------------------------------------------------------------------------
(* What users write.                                                       *)

\* The fields of p have the values a and b, and the sections in given appear.
Written(p, a, b, given) ==
    [given |-> given,
     val |-> [f \in Field |-> IF f = p[1] THEN a ELSE IF f = p[2] THEN b ELSE None]]

Writings(p) ==
    {Written(p, w[1], w[2], w[3]) : w \in
        {w \in (Choices[p[1]] \cup {None}) \X (Choices[p[2]] \cup {None})
                  \X SUBSET {"top", SectionOf(p[1]), SectionOf(p[2])} :
            /\ w[3] # {} => "top" \in w[3]
            /\ \A i \in 1..2 : w[i] # None => SectionOf(p[i]) \in w[3]}}

Init ==
    /\ stage = "written"
    /\ \E p \in Varied : tmpl \in Writings(p) /\ inline \in Writings(p)
    /\ config = None /\ cvars = None /\ at = 0

\* The API server stores a resource with its defaults.
Admit(s) ==
    [s EXCEPT !.val = [f \in Field |->
        IF s.val[f] = None /\ f \in DOMAIN ApiDefault /\ SectionOf(f) \in s.given
        THEN ApiDefault[f] ELSE s.val[f]]]

IsZero(f, v) ==
    \/ f \in Strings /\ v = ""
    \/ f \in Bools /\ v = FALSE
    \/ f \in Lists /\ v = << >>

\* In the struct a zero value is as good as none, except behind a pointer.
Decode(s) ==
    [f \in Field |-> IF IsZero(f, s.val[f]) THEN None ELSE s.val[f]]

-----------------------------------------------------------------------------
(* The operator.                                                           *)

\* Variants: the template takes precedence; a nested section of the server's
\* replaces the template's section as a whole.
mergeServerConfig_BaseWins(base, override) ==
    [f \in Field |-> IF base[f] # None THEN base[f] ELSE override[f]]

mergeServerConfig_Shallow(base, override) ==
    [f \in Field |->
        IF \E g \in Sections[SectionOf(f)] \ Sections["top"] : override[g] # None
        THEN override[f]
        ELSE IF override[f] # None THEN override[f] ELSE base[f]]

mergeServerConfig(base, override) ==
    [f \in Field |-> IF override[f] # None THEN override[f] ELSE base[f]]

resolveConfig ==
    /\ stage = "written" /\ stage' = "resolved"
    /\ config' = mergeServerConfig(Decode(Admit(tmpl)), Decode(Admit(inline)))
    /\ UNCHANGED <<user, cvars, at>>

generateConfigYAML ==
    /\ stage = "resolved" /\ stage' = "generated"
    /\ config' = [f \in Field |->
          IF config[f] = None /\ f \in DOMAIN YamlDefault THEN YamlDefault[f]
          ELSE config[f]]
    /\ UNCHANGED <<user, cvars, at>>

-----------------------------------------------------------------------------
(* The game server's supervisor and the game.                              *)

Number(v) == IF v = None THEN 0 ELSE v

\* An element of maps in config.yaml, decoded: without a type the first one.
Map(m) ==
    [name |-> m.name, type |-> IF m.type = None THEN "FreeForAll" ELSE m.type,
     captureLimit |-> Number(m.captureLimit), fragLimit |-> Number(m.fragLimit),
     timeLimit |-> Number(m.timeLimit)]

\* The value a field has in Config once it has been read from config.yaml.
Decoded(f, v) == IF f = "maps" THEN [i \in DOMAIN v |-> Map(v[i])] ELSE v

Minutes(t) == t \div 60

Unmarshal(yaml) ==
    [f \in Field |-> IF yaml[f] = None THEN WithDefault[f] ELSE Decoded(f, yaml[f])]

\* server.cfg sets a variable for every field, ...
Marshal(c) ==
    [v \in Cvar |->
        IF v = "captureLimit" THEN 0
        ELSE IF v = "timeLimit" THEN Minutes(c.timeLimit) ELSE c[v]]

\* Variant: a map without a limit has none.
command_NoLimit(m, v) ==
    [v EXCEPT
        !["type"] = m.type, !["captureLimit"] = m.captureLimit,
        !["fragLimit"] = m.fragLimit, !["timeLimit"] = Minutes(m.timeLimit)]

\* ... and a map's command sets those that are the map's own.
command(m, v) ==
    [v EXCEPT
        !["type"] = m.type,
        !["captureLimit"] =
            IF m.type = "CaptureTheFlag" /\ m.captureLimit # 0 THEN m.captureLimit ELSE @,
        !["fragLimit"] = IF m.fragLimit # 0 THEN m.fragLimit ELSE @,
        !["timeLimit"] = IF m.timeLimit # 0 THEN Minutes(m.timeLimit) ELSE @]

FirstMap == 0

reload ==
    /\ stage = "generated" /\ stage' = "playing"
    /\ config' = Unmarshal(config)
    /\ cvars' = command(config'.maps[1], Marshal(config')) /\ at' = FirstMap
    /\ UNCHANGED user

\* Variant: the last map is followed by one that is not there.
MarshalMaps_NoWrap(i, n) == i + 1

MarshalMaps(i, n) == (i + 1) % n

\* vstr runs the command of the next map; it ignores a variable that is not set.
NextMap ==
    /\ stage = "playing"
    /\ LET next == MarshalMaps(at, Len(config.maps)) IN
       IF next < Len(config.maps)
       THEN at' = next /\ cvars' = command(config.maps[next + 1], cvars)
       ELSE UNCHANGED <<at, cvars>>
    /\ UNCHANGED <<stage, user, config>>

Next == resolveConfig \/ generateConfigYAML \/ reload \/ NextMap

Spec == Init /\ [][Next]_vars

\* Each program runs, and a map ends.
FairSpec == Spec /\ WF_vars(Next)

-----------------------------------------------------------------------------
(* Properties.                                                             *)

\* The fields that no map's command sets.
GameWide == Field \ (Lists \cup {"type", "fragLimit", "timeLimit"})

\* What the server's author wrote is in the configuration that the game server
\* loads, with the exception of false, "" and the empty list; and the running
\* game has it, on every map, where it is not a map's to set.
InlineWins ==
    stage = "playing" => \A f \in Field :
        Decode(inline)[f] # None =>
            /\ config[f] = Decoded(f, inline.val[f])
            /\ f \in GameWide => cvars[f] = inline.val[f]

HasApiDefault(f, given) == f \in DOMAIN ApiDefault /\ SectionOf(f) \in given

\* A field that the server's author left out has the value that the template's
\* author wrote, unless the API default of a section of the server hides it (see
\* OmittedKeepsTemplate); a field that both left out has the API default if one
\* of them wrote its section, else the program's.  Nothing is said of a false, ""
\* or empty list that somebody wrote: the code cannot tell it from nothing.
TemplateFillsIn ==
    stage = "playing" => \A f \in Field :
        inline.val[f] = None /\ ~IsZero(f, tmpl.val[f]) =>
            IF tmpl.val[f] # None
            THEN \/ config[f] = Decoded(f, tmpl.val[f])
                 \/ HasApiDefault(f, inline.given) /\ config[f] = ApiDefault[f]
            ELSE config[f] = IF HasApiDefault(f, inline.given \cup tmpl.given)
                             THEN ApiDefault[f] ELSE WithDefault[f]

\* The limit a map gives, and what the game has for it.
Gives(m, f) == m[f] # 0 /\ (f = "captureLimit" => m.type = "CaptureTheFlag")
Limit(m, f) == IF f = "timeLimit" THEN Minutes(m[f]) ELSE m[f]

\* A map that gives a limit is played with it, and a game whose maps give none
\* has its own.  On any other map the limit is the game's own or that of the
\* latest map that gave one, in this round or the one before: none that another
\* map has replaced comes back, and none is lost.
LimitsAreGiven ==
    stage = "playing" =>
        \A f \in {"fragLimit", "timeLimit", "captureLimit"} :
            LET giving == {i \in DOMAIN config.maps : Gives(config.maps[i], f)}
                soFar == {i \in giving : i <= at + 1}
                OfLatest(S) == \E i \in S :
                    (\A j \in S : j <= i) /\ cvars[f] = Limit(config.maps[i], f)
            IN  \/ OfLatest(IF soFar # {} THEN soFar ELSE giving)
                \/ at + 1 \notin giving /\ cvars[f] = Marshal(config)[f]

\* The rotation goes round: every map is played again and again.
MapsComeRound ==
    \A i \in 0..2 : (stage = "playing" /\ i < Len(config.maps)) ~> at = i

\* The tests of the merge: a section that gives the hostname only has "MaxClients
\* 12 from base".
OmittedKeepsTemplate ==
    stage = "playing" => \A f \in Field :
        inline.val[f] = None /\ Decode(tmpl)[f] # None =>
            config[f] = Decoded(f, tmpl.val[f])

\* The list of maps that is played, as it was written.
WrittenMaps ==
    IF Decode(inline).maps # None THEN inline.val.maps
    ELSE IF Decode(tmpl).maps # None THEN tmpl.val.maps ELSE WithDefault.maps

\* What a map leaves out is the game's: its limits override "the global" ones
\* "for this map" only, and in the samples a map of a server of type
\* CaptureTheFlag gives a capture limit and no type.
MapsKeepTheGame ==
    stage = "playing" =>
        LET m == WrittenMaps[at + 1] IN
        /\ m.type = None => cvars["type"] = config["type"]
        /\ \A f \in {"fragLimit", "timeLimit"} :
              Number(m[f]) = 0 => cvars[f] = Marshal(config)[f]
=============================================================================
