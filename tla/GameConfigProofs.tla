--------------------------- MODULE GameConfigProofs ---------------------------
(***************************************************************************)
(* Proofs about GameConfig, for any values users may write.                *)
(***************************************************************************)
EXTENDS GameConfig, TLAPS

\* The configuration after the merge, and as config.yaml has it.
Merged == mergeServerConfig(Decode(Admit(tmpl)), Decode(Admit(inline)))

Generated ==
    [f \in Field |->
        IF Merged[f] = None /\ f \in DOMAIN YamlDefault THEN YamlDefault[f] ELSE Merged[f]]

IsWriting(s) == s = [given |-> s.given, val |-> s.val]

\* Each stage holds what the stages before it make of what the users wrote.
ConfigInv ==
    /\ IsWriting(tmpl) /\ IsWriting(inline)
    /\ stage = "resolved" => config = Merged
    /\ stage = "generated" => config = Generated
    /\ stage = "playing" => config = Unmarshal(Generated)

LEMMA InitConfig == Init => ConfigInv
<1>1. ASSUME NEW p \in Varied, NEW s \in Writings(p) PROVE IsWriting(s)
  BY <1>1 DEF Writings, Written, IsWriting
<1>2. QED
  BY <1>1 DEF Init, ConfigInv

LEMMA NextConfig == ConfigInv /\ [Next]_vars => ConfigInv'
<1> SUFFICES ASSUME ConfigInv, [Next]_vars PROVE ConfigInv'
  OBVIOUS
<1>1. UNCHANGED user
  BY DEF Next, vars, resolveConfig, generateConfigYAML, reload, NextMap
<1>2. Merged' = Merged /\ Generated' = Generated
  BY <1>1 DEF user, Merged, Generated
<1>3. IsWriting(tmpl)' /\ IsWriting(inline)'
  BY <1>1 DEF ConfigInv, IsWriting, user
<1>4. CASE resolveConfig
  BY <1>2, <1>3, <1>4 DEF resolveConfig, ConfigInv, Merged
<1>5. CASE generateConfigYAML
  BY <1>2, <1>3, <1>5 DEF generateConfigYAML, ConfigInv, Generated
<1>6. CASE reload
  <2>1. Unmarshal(Generated)' = Unmarshal(Generated)
    BY <1>2 DEF Unmarshal
  <2>2. QED
    BY <1>2, <1>3, <1>6, <2>1 DEF reload, ConfigInv
<1>7. CASE NextMap \/ UNCHANGED vars
  <2>1. UNCHANGED <<stage, config>>
    BY <1>7 DEF NextMap, vars
  <2>2. Unmarshal(Generated)' = Unmarshal(Generated)
    BY <1>2 DEF Unmarshal
  <2>3. QED
    BY <1>2, <1>3, <2>1, <2>2 DEF ConfigInv
<1>8. QED
  BY <1>4, <1>5, <1>6, <1>7 DEF Next

\* What a user wrote stays as the API server and the decoder leave it, ...
LEMMA WrittenStays ==
    ASSUME NEW s, IsWriting(s), NEW f \in Field, Decode(s)[f] # None
    PROVE  Decode(Admit(s))[f] = s.val[f]
<1>1. s.val[f] # None /\ ~IsZero(f, s.val[f])
  BY DEF Decode
<1>2. Admit(s).val[f] = s.val[f]
  BY <1>1 DEF Admit, IsWriting
<1>3. QED
  BY <1>1, <1>2 DEF Decode

\* ... and what nobody wrote stays out, or gets the default of its section.
LEMMA OmittedIsDefault ==
    ASSUME NEW s, IsWriting(s), NEW f \in Field, Decode(s)[f] = None
    PROVE  \/ Decode(Admit(s))[f] = None
           \/ /\ f \in DOMAIN ApiDefault /\ SectionOf(f) \in s.given
              /\ Decode(Admit(s))[f] = ApiDefault[f]
<1>1. CASE s.val[f] # None
  <2>1. IsZero(f, s.val[f])
    BY <1>1 DEF Decode
  <2>2. Admit(s).val[f] = s.val[f]
    BY <1>1 DEF Admit, IsWriting
  <2>3. QED
    BY <2>1, <2>2 DEF Decode
<1>2. CASE s.val[f] = None /\ ~(f \in DOMAIN ApiDefault /\ SectionOf(f) \in s.given)
  <2>1. Admit(s).val[f] = None
    BY <1>2 DEF Admit, IsWriting
  <2>2. QED
    BY <2>1 DEF Decode
<1>3. CASE s.val[f] = None /\ f \in DOMAIN ApiDefault /\ SectionOf(f) \in s.given
  <2>1. Admit(s).val[f] = ApiDefault[f]
    BY <1>3 DEF Admit, IsWriting
  <2>2. QED
    BY <1>3, <2>1 DEF Decode
<1>4. QED
  BY <1>1, <1>2, <1>3

\* A field that is left out in a section that is given has its default, which
\* is not a zero value.
LEMMA DefaultsAreFilledIn ==
    ASSUME NEW s, IsWriting(s), NEW f \in Field, s.val[f] = None, HasApiDefault(f, s.given)
    PROVE  Decode(Admit(s))[f] = ApiDefault[f] /\ ApiDefault[f] # None
<1>1. Admit(s).val[f] = ApiDefault[f]
  BY DEF Admit, IsWriting, HasApiDefault
<1>2. ~IsZero(f, ApiDefault[f])
  <2>1. f \in {"fragLimit", "type", "quadFactor", "maxClients", "skill"}
    BY DEF HasApiDefault, ApiDefault
  <2>2. CASE f = "type"
    <3>1. ApiDefault[f] = "FreeForAll"
      BY <2>2 DEF ApiDefault
    <3>2. QED
      BY <2>2, <3>1 DEF IsZero, Bools, Lists
  <2>3. CASE f # "type"
    BY <2>1, <2>3 DEF IsZero, Strings, Bools, Lists
  <2>4. QED
    BY <2>2, <2>3
<1>3. ApiDefault[f] # None
  BY NoneAssumption DEF HasApiDefault
<1>4. QED
  BY <1>1, <1>2, <1>3 DEF Decode

\* The value the game gets, from the merged one.
LEMMA LoadedValue ==
    ASSUME NEW f \in Field
    PROVE  Unmarshal(Generated)[f]
             = IF Merged[f] # None THEN Decoded(f, Merged[f]) ELSE WithDefault[f]
<1>1. Unmarshal(Generated)[f]
        = IF Generated[f] = None THEN WithDefault[f] ELSE Decoded(f, Generated[f])
  BY DEF Unmarshal
<1>2. CASE Merged[f] # None
  <2>1. Generated[f] = Merged[f]
    BY <1>2 DEF Generated
  <2>2. QED
    BY <1>1, <1>2, <2>1
<1>3. CASE Merged[f] = None /\ f \notin DOMAIN YamlDefault
  <2>1. Generated[f] = None
    BY <1>3 DEF Generated
  <2>2. QED
    BY <1>1, <1>3, <2>1
<1>4. CASE Merged[f] = None /\ f \in DOMAIN YamlDefault
  <2>1. Generated[f] = YamlDefault[f]
    BY <1>4 DEF Generated
  <2>2. f # "maps" /\ YamlDefault[f] = WithDefault[f]
    <3>1. f = "fragLimit" \/ f = "timeLimit"
      BY <1>4 DEF YamlDefault
    <3>2. CASE f = "fragLimit"
      BY <3>2 DEF YamlDefault, WithDefault
    <3>3. CASE f = "timeLimit"
      BY <3>3 DEF YamlDefault, WithDefault
    <3>4. QED
      BY <3>1, <3>2, <3>3
  <2>3. QED
    BY <1>1, <1>4, <2>1, <2>2 DEF Decoded
<1>5. QED
  BY <1>2, <1>3, <1>4

LEMMA MergedValue ==
    ASSUME NEW f \in Field
    PROVE  Merged[f] = IF Decode(Admit(inline))[f] # None
                       THEN Decode(Admit(inline))[f] ELSE Decode(Admit(tmpl))[f]
  BY DEF Merged, mergeServerConfig

LEMMA InlineIsLoaded ==
    ASSUME ConfigInv, stage = "playing", NEW f \in Field, Decode(inline)[f] # None
    PROVE  config[f] = Decoded(f, inline.val[f])
<1>1. Decode(Admit(inline))[f] = inline.val[f]
  BY WrittenStays DEF ConfigInv
<1>2. inline.val[f] # None
  BY DEF Decode
<1>3. Merged[f] = inline.val[f]
  BY <1>1, <1>2, MergedValue
<1>4. QED
  BY <1>2, <1>3, LoadedValue DEF ConfigInv

\* What the author left out is as if decoded to nothing, a zero value aside.
LEMMA LeftOutIsNone ==
    ASSUME NEW s, NEW f \in Field, ~IsZero(f, s.val[f])
    PROVE  Decode(s)[f] = s.val[f]
  BY DEF Decode

LEMMA ConfigImpliesTemplateFillsIn == ConfigInv => TemplateFillsIn
<1> DEFINE Origin(f) ==
       IF tmpl.val[f] # None
       THEN \/ config[f] = Decoded(f, tmpl.val[f])
            \/ HasApiDefault(f, inline.given) /\ config[f] = ApiDefault[f]
       ELSE config[f] = IF HasApiDefault(f, inline.given \cup tmpl.given)
                        THEN ApiDefault[f] ELSE WithDefault[f]
<1> SUFFICES ASSUME ConfigInv, stage = "playing", NEW f \in Field,
                    inline.val[f] = None, ~IsZero(f, tmpl.val[f])
             PROVE  Origin(f)
  BY DEF TemplateFillsIn
<1>1. config[f] = IF Merged[f] # None THEN Decoded(f, Merged[f]) ELSE WithDefault[f]
  BY LoadedValue DEF ConfigInv
<1>2. IsWriting(inline) /\ IsWriting(tmpl)
  BY DEF ConfigInv
<1>3. f \in DOMAIN ApiDefault => Decoded(f, ApiDefault[f]) = ApiDefault[f]
  BY DEF Decoded, ApiDefault
<1>4. Decode(tmpl)[f] = tmpl.val[f] /\ Decode(inline)[f] = None
  <2>1. Decode(tmpl)[f] = tmpl.val[f]
    BY LeftOutIsNone
  <2>2. Decode(inline)[f] = None
    BY DEF Decode
  <2>3. QED
    BY <2>1, <2>2
<1>5. CASE Decode(Admit(inline))[f] # None
  <2>1. HasApiDefault(f, inline.given) /\ Decode(Admit(inline))[f] = ApiDefault[f]
    BY <1>2, <1>4, <1>5, OmittedIsDefault DEF HasApiDefault
  <2>2. config[f] = ApiDefault[f]
    BY <1>1, <1>3, <1>5, <2>1, MergedValue DEF HasApiDefault
  <2>3. HasApiDefault(f, inline.given \cup tmpl.given)
    BY <2>1 DEF HasApiDefault
  <2>4. QED
    BY <2>1, <2>2, <2>3
<1>6. CASE Decode(Admit(inline))[f] = None /\ tmpl.val[f] # None
  <2>1. Merged[f] = tmpl.val[f]
    BY <1>2, <1>4, <1>6, WrittenStays, MergedValue
  <2>2. QED
    BY <1>1, <1>6, <2>1
<1>7. CASE Decode(Admit(inline))[f] = None /\ tmpl.val[f] = None
  <2>1. Merged[f] = Decode(Admit(tmpl))[f]
    BY <1>7, MergedValue
  <2>2. CASE HasApiDefault(f, inline.given \cup tmpl.given)
    <3>1. CASE HasApiDefault(f, tmpl.given)
      <4>1. Decode(Admit(tmpl))[f] = ApiDefault[f] /\ ApiDefault[f] # None
        BY <1>2, <1>7, <3>1, DefaultsAreFilledIn
      <4>2. QED
        BY <1>1, <1>3, <1>7, <2>1, <2>2, <3>1, <4>1 DEF HasApiDefault
    <3>2. CASE HasApiDefault(f, inline.given)
      <4>1. Decode(Admit(inline))[f] # None
        BY <1>2, <3>2, DefaultsAreFilledIn
      <4>2. QED
        BY <1>7, <4>1
    <3>3. QED
      BY <2>2, <3>1, <3>2 DEF HasApiDefault
  <2>3. CASE ~HasApiDefault(f, inline.given \cup tmpl.given)
    <3>1. Merged[f] = None
      BY <1>2, <1>4, <1>7, <2>1, <2>3, OmittedIsDefault DEF HasApiDefault
    <3>2. QED
      BY <1>1, <1>7, <2>3, <3>1
  <2>4. QED
    BY <2>2, <2>3
<1>8. QED
  BY <1>5, <1>6, <1>7

\* A field that the server's author left out has the template's value, an API
\* default of a section that was written, or the program's default, and an API
\* default hides the template's value only where the server's author wrote the
\* section: for any values and any pairs of fields.
THEOREM OtherValuesHaveAnOrigin == Spec => []TemplateFillsIn
<1>1. Init => ConfigInv
  BY InitConfig
<1>2. ConfigInv /\ [Next]_vars => ConfigInv'
  BY NextConfig
<1>3. ConfigInv => TemplateFillsIn
  BY ConfigImpliesTemplateFillsIn
<1>4. QED
  BY <1>1, <1>2, <1>3, PTL DEF Spec

-----------------------------------------------------------------------------
(***************************************************************************)
(* The limits.  A rotation has a first map, for a list without one is as   *)
(* good as none, and the command of a map sets what the map gives.  So at  *)
(* the end of a round the game has the limit of the last map that gave     *)
(* one, and keeps it in the next round until a map gives another.          *)
(***************************************************************************)

LimitFields == {"fragLimit", "timeLimit", "captureLimit"}

\* LimitsAreGiven, exactly: the game has the limit of the latest map that gave
\* one, be it the map that is played, an earlier one or one of the last round,
\* and its own only until a map gave one.  The type is always that of the map.
LimitsLast ==
    stage = "playing" =>
        /\ cvars["type"] = config.maps[at + 1].type
        /\ \A f \in LimitFields :
            LET giving == {i \in DOMAIN config.maps : Gives(config.maps[i], f)}
                soFar == {i \in giving : i <= at + 1}
                OfLatest(S) == \E i \in S :
                    (\A j \in S : j <= i) /\ cvars[f] = Limit(config.maps[i], f)
            IN  IF soFar # {} THEN OfLatest(soFar)
                ELSE cvars[f] = Marshal(config)[f] \/ OfLatest(giving)

\* A list that an author wrote is one of those that authors write.
MapsOf(s) == s.val["maps"] = None \/ s.val["maps"] \in Choices["maps"]

\* A rotation: a list of maps that is not empty.
Rotation(maps) ==
    /\ Len(maps) \in Nat \ {0} /\ DOMAIN maps = 1..Len(maps)

PlayInv ==
    /\ MapsOf(tmpl) /\ MapsOf(inline)
    /\ stage = "playing" =>
          /\ Rotation(config.maps)
          /\ at \in 0..(Len(config.maps) - 1)
          /\ cvars = [c \in Cvar |-> cvars[c]]
          /\ \A f \in GameWide : cvars[f] = config[f]
    /\ LimitsLast

LEMMA Fields ==
    /\ {"maps", "type", "fragLimit", "timeLimit"} \subseteq Field
    /\ {"type"} \cup LimitFields \subseteq Cvar
    /\ "maps" \notin DOMAIN ApiDefault
    /\ GameWide \subseteq Cvar \ ({"type"} \cup LimitFields)
<1>1. DOMAIN Sections = {"top", "game", "server", "bot"}
  BY DEF Sections
<1>2. {"fragLimit", "timeLimit", "maps"} \subseteq Sections["top"] /\ "type" \in Sections["game"]
  BY DEF Sections
<1>3. {"maps", "type", "fragLimit", "timeLimit"} \subseteq Field
  BY <1>1, <1>2 DEF Field
<1>4. "captureLimit" \notin Field
  <2>1. \A x \in DOMAIN Sections : "captureLimit" \notin Sections[x]
    BY DEF Sections
  <2>2. QED
    BY <2>1 DEF Field
<1>5. GameWide \subseteq Cvar \ ({"type"} \cup LimitFields)
  BY <1>4 DEF GameWide, Cvar, LimitFields
<1>6. QED
  BY <1>3, <1>5 DEF Cvar, Lists, LimitFields, ApiDefault

\* What loading makes of a list that is not empty.
LEMMA DecodedRotation ==
    ASSUME NEW v \in Choices["maps"], v # << >>
    PROVE  Rotation(Decoded("maps", v))
<1>1. Len(v) \in Nat /\ v = [i \in 1..Len(v) |-> v[i]]
  BY GameConfigAssumption
<1>2. Len(v) # 0
  <2>1. ASSUME Len(v) = 0 PROVE v = << >>
    BY <1>1, <2>1
  <2>2. QED
    BY <2>1
<1>3. PICK n \in Nat : n = Len(v)
  BY <1>1
<1>4. PICK w : w = [i \in 1..n |-> Map(v[i])]
  OBVIOUS
<1>5. Decoded("maps", v) = w
  BY <1>1, <1>3, <1>4 DEF Decoded
<1>6. Len(w) = n /\ DOMAIN w = 1..n
  BY <1>4
<1>7. QED
  BY <1>2, <1>3, <1>5, <1>6 DEF Rotation

\* A list that is left out or empty is never that of the game.
LEMMA LoadedRotation ==
    ASSUME ConfigInv, MapsOf(tmpl), MapsOf(inline)
    PROVE  Rotation(Unmarshal(Generated)["maps"])
<1>1. ASSUME NEW s, IsWriting(s), MapsOf(s), Decode(Admit(s))["maps"] # None
      PROVE  Decode(Admit(s))["maps"] \in Choices["maps"] \ {<< >>}
  <2>1. Decode(s)["maps"] # None
    BY <1>1, Fields, OmittedIsDefault
  <2>2. Decode(Admit(s))["maps"] = s.val["maps"]
    BY <1>1, <2>1, Fields, WrittenStays
  <2>3. s.val["maps"] # None /\ s.val["maps"] # << >>
    BY <2>1, Fields DEF Decode, IsZero, Lists
  <2>4. QED
    BY <1>1, <2>2, <2>3 DEF MapsOf
<1>2. Merged["maps"] # None => Merged["maps"] \in Choices["maps"] \ {<< >>}
  BY <1>1, Fields, MergedValue DEF ConfigInv
<1>3. CASE Merged["maps"] # None
  BY <1>2, <1>3, Fields, LoadedValue, DecodedRotation
<1>4. CASE Merged["maps"] = None
  <2>1. Unmarshal(Generated)["maps"] = WithDefault["maps"]
    BY <1>4, Fields, LoadedValue
  <2>2. WithDefault["maps"] = <<FreeForAllOn("q3dm7"), FreeForAllOn("q3dm17")>>
    BY DEF WithDefault
  <2>3. QED
    BY <2>1, <2>2 DEF Rotation
<1>5. QED
  BY <1>3, <1>4

\* The command of a map sets the type and the limits the map gives, no more.
LEMMA CommandSets ==
    ASSUME NEW m, NEW v, v = [c \in Cvar |-> v[c]]
    PROVE  /\ command(m, v) = [c \in Cvar |-> command(m, v)[c]]
           /\ command(m, v)["type"] = m.type
           /\ \A f \in LimitFields :
                  command(m, v)[f] = IF Gives(m, f) THEN Limit(m, f) ELSE v[f]
           /\ \A f \in GameWide : command(m, v)[f] = v[f]
<1>1. PICK u : u = command(m, v)
  OBVIOUS
<1>2. /\ u = [c \in Cvar |-> u[c]]
      /\ u["type"] = m.type
      /\ u["captureLimit"] = IF m.type = "CaptureTheFlag" /\ m.captureLimit # 0
                             THEN m.captureLimit ELSE v["captureLimit"]
      /\ u["fragLimit"] = IF m.fragLimit # 0 THEN m.fragLimit ELSE v["fragLimit"]
      /\ u["timeLimit"] = IF m.timeLimit # 0 THEN Minutes(m.timeLimit) ELSE v["timeLimit"]
  BY <1>1, Fields DEF command, LimitFields
<1>3. ASSUME NEW f \in GameWide PROVE u[f] = v[f]
  <2>1. f \in Cvar /\ f \notin {"type", "fragLimit", "timeLimit", "captureLimit"}
    BY Fields DEF LimitFields
  <2>2. QED
    BY <1>1, <2>1 DEF command
<1>4. QED
  BY <1>1, <1>2, <1>3 DEF LimitFields, Gives, Limit

\* LimitsLast for one limit of the maps 1 to k of the round.
Lasts(maps, k, f, value, own) ==
    LET giving == {i \in DOMAIN maps : Gives(maps[i], f)}
        soFar == {i \in giving : i <= k}
        OfLatest(S) == \E i \in S : (\A j \in S : j <= i) /\ value = Limit(maps[i], f)
    IN  IF soFar # {} THEN OfLatest(soFar) ELSE value = own \/ OfLatest(giving)

LEMMA LimitsAreLasting ==
    LimitsLast <=>
        (stage = "playing" =>
            /\ cvars["type"] = config.maps[at + 1].type
            /\ \A f \in LimitFields :
                   Lasts(config.maps, at + 1, f, cvars[f], Marshal(config)[f]))
  BY DEF LimitsLast, Lasts, LimitFields

\* The limit of the map that is played, if it gives one.
LEMMA GivenLasts ==
    ASSUME NEW maps, Rotation(maps), NEW k \in 1..Len(maps), NEW f, NEW own,
           Gives(maps[k], f)
    PROVE  Lasts(maps, k, f, Limit(maps[k], f), own)
  BY DEF Lasts, Rotation

\* At the first map no earlier one gave a limit in this round.
LEMMA FirstLasts ==
    ASSUME NEW maps, Rotation(maps), NEW f, NEW own, NEW value,
           ~Gives(maps[1], f),
           value = own \/ Lasts(maps, Len(maps), f, value, own)
    PROVE  Lasts(maps, 1, f, value, own)
<1>1. \A i \in DOMAIN maps : i \in 1..Len(maps) /\ i <= Len(maps) /\ (i <= 1 => i = 1)
  BY DEF Rotation
<1>2. {i \in {i \in DOMAIN maps : Gives(maps[i], f)} : i <= 1} = {}
  BY <1>1
<1>3. {i \in {i \in DOMAIN maps : Gives(maps[i], f)} : i <= Len(maps)}
        = {i \in DOMAIN maps : Gives(maps[i], f)}
  BY <1>1
<1>4. QED
  BY <1>2, <1>3 DEF Lasts

\* A map that gives no limit keeps it as it was.
LEMMA KeptLasts ==
    ASSUME NEW maps, Rotation(maps), NEW k \in 1..Len(maps), k + 1 <= Len(maps),
           NEW f, NEW own, NEW value,
           ~Gives(maps[k + 1], f), Lasts(maps, k, f, value, own)
    PROVE  Lasts(maps, k + 1, f, value, own)
<1>1. \A i \in DOMAIN maps : i \in 1..Len(maps) /\ (i <= k + 1 <=> i <= k \/ i = k + 1)
  BY DEF Rotation
<1>2. {i \in {i \in DOMAIN maps : Gives(maps[i], f)} : i <= k + 1}
        = {i \in {i \in DOMAIN maps : Gives(maps[i], f)} : i <= k}
  BY <1>1
<1>3. QED
  BY <1>2 DEF Lasts

LEMMA InitPlay == Init => PlayInv
<1> SUFFICES ASSUME Init PROVE PlayInv
  OBVIOUS
<1>1. ASSUME NEW p \in Varied, NEW s \in Writings(p)
      PROVE  MapsOf(s)
  <2>1. PICK w \in (Choices[p[1]] \cup {None}) \X (Choices[p[2]] \cup {None})
                      \X SUBSET {"top", SectionOf(p[1]), SectionOf(p[2])} :
            s = Written(p, w[1], w[2], w[3])
    BY DEF Writings
  <2>2. w[1] \in Choices[p[1]] \cup {None} /\ w[2] \in Choices[p[2]] \cup {None}
    BY <2>1
  <2>3. s.val["maps"] = IF "maps" = p[1] THEN w[1] ELSE IF "maps" = p[2] THEN w[2] ELSE None
    BY <2>1, Fields DEF Written
  <2>4. QED
    BY <2>2, <2>3 DEF MapsOf
<1>2. stage = "written"
  BY DEF Init
<1>3. QED
  BY <1>1, <1>2 DEF Init, PlayInv, LimitsLast

\* The game starts with the command of the first map.
LEMMA ReloadPlay ==
    ASSUME ConfigInv, ConfigInv', PlayInv, reload
    PROVE  PlayInv'
<1>1. /\ stage' = "playing" /\ at' = 0 /\ UNCHANGED user
      /\ cvars' = command(config'.maps[1], Marshal(config'))
  BY DEF reload, FirstMap
<1>2. MapsOf(tmpl)' /\ MapsOf(inline)'
  BY <1>1 DEF PlayInv, MapsOf, user
<1>3. Rotation(config'.maps)
  <2>1. config' = Unmarshal(Generated)
    BY DEF reload, ConfigInv
  <2>2. Rotation(Unmarshal(Generated)["maps"])
    BY LoadedRotation DEF PlayInv
  <2>3. QED
    BY <2>1, <2>2
<1>4. PICK v, m, u : v = Marshal(config') /\ m = config'.maps[1] /\ u = cvars' /\ u = command(m, v)
  BY <1>1
<1>5. v = [c \in Cvar |-> v[c]]
  BY <1>4 DEF Marshal
<1>6. /\ u = [c \in Cvar |-> u[c]]
      /\ u["type"] = m.type
      /\ \A f \in LimitFields : u[f] = IF Gives(m, f) THEN Limit(m, f) ELSE v[f]
      /\ \A f \in GameWide : u[f] = config'[f]
  <2>1. \A f \in GameWide : v[f] = config'[f]
    BY <1>4, Fields DEF Marshal, GameWide, LimitFields
  <2>2. QED
    BY <1>4, <1>5, <2>1, CommandSets
<1>7. ASSUME NEW f \in LimitFields
      PROVE  Lasts(config'.maps, 1, f, u[f], v[f])
  <2>1. 1 \in 1..Len(config'.maps)
    BY <1>3 DEF Rotation
  <2>2. CASE Gives(m, f)
    <3>1. u[f] = Limit(config'.maps[1], f)
      BY <1>4, <1>6, <2>2
    <3>2. QED
      BY <1>3, <1>4, <2>1, <2>2, <3>1, GivenLasts
  <2>3. CASE ~Gives(m, f)
    BY <1>3, <1>4, <1>6, <2>3, FirstLasts
  <2>4. QED
    BY <2>2, <2>3
<1>8. LimitsLast'
  <2>1. cvars'["type"] = config'.maps[at' + 1].type
    BY <1>1, <1>4, <1>6
  <2>2. \A f \in LimitFields :
            Lasts(config'.maps, at' + 1, f, cvars'[f], Marshal(config')[f])
    BY <1>1, <1>4, <1>7
  <2>3. QED
    BY <2>1, <2>2 DEF LimitsLast, Lasts, LimitFields
<1>9. 0 \in 0..(Len(config'.maps) - 1)
  BY <1>3 DEF Rotation
<1>10. QED
  BY <1>1, <1>2, <1>3, <1>4, <1>6, <1>8, <1>9 DEF PlayInv

\* The next map is the one after, or the first.
LEMMA Wraps ==
    ASSUME NEW n \in Nat \ {0}, NEW i \in 0..(n - 1)
    PROVE  /\ MarshalMaps(i, n) \in 0..(n - 1)
           /\ MarshalMaps(i, n) = i + 1 \/ (MarshalMaps(i, n) = 0 /\ i = n - 1)
<1>1. CASE i + 1 < n
  BY <1>1 DEF MarshalMaps
<1>2. CASE i + 1 = n
  BY <1>2 DEF MarshalMaps
<1>3. QED
  BY <1>1, <1>2

LEMMA NextMapPlay ==
    ASSUME PlayInv, NextMap
    PROVE  PlayInv'
<1>1. stage = "playing" /\ UNCHANGED <<stage, user, config>>
  BY DEF NextMap
<1>2. PICK maps, n, next, v, own :
          /\ maps = config.maps /\ n = Len(maps) /\ v = cvars /\ own = Marshal(config)
          /\ next = MarshalMaps(at, n)
  OBVIOUS
<1>3. Rotation(maps) /\ n \in Nat \ {0} /\ at \in 0..(n - 1)
  BY <1>1, <1>2 DEF PlayInv, Rotation
<1>4. next \in 0..(n - 1) /\ (next = at + 1 \/ (next = 0 /\ at = n - 1))
  BY <1>2, <1>3, Wraps
<1>5. at' = next /\ cvars' = command(maps[next + 1], v)
  BY <1>2, <1>3, <1>4 DEF NextMap
<1>6. PICK m, u : m = maps[next + 1] /\ u = cvars' /\ u = command(m, v)
  BY <1>5
<1>7. v = [c \in Cvar |-> v[c]]
  BY <1>1, <1>2 DEF PlayInv
<1>8. /\ u = [c \in Cvar |-> u[c]]
      /\ u["type"] = m.type
      /\ \A f \in LimitFields : u[f] = IF Gives(m, f) THEN Limit(m, f) ELSE v[f]
      /\ \A f \in GameWide : u[f] = v[f]
  BY <1>6, <1>7, CommandSets
<1>9. ASSUME NEW f \in LimitFields
      PROVE  Lasts(maps, next + 1, f, u[f], own[f])
  <2>1. Lasts(maps, at + 1, f, v[f], own[f])
    BY <1>1, <1>2, LimitsAreLasting DEF PlayInv
  <2>2. next + 1 \in 1..Len(maps) /\ at + 1 \in 1..Len(maps)
    BY <1>2, <1>3, <1>4
  <2>3. CASE Gives(m, f)
    BY <1>3, <1>6, <1>8, <2>2, <2>3, GivenLasts
  <2>4. CASE ~Gives(m, f) /\ next = at + 1
    <3>1. u[f] = v[f] /\ ~Gives(maps[at + 1 + 1], f)
      BY <1>6, <1>8, <2>4
    <3>2. Lasts(maps, at + 1 + 1, f, v[f], own[f])
      BY <1>3, <2>1, <2>2, <2>4, <3>1, KeptLasts
    <3>3. QED
      BY <2>4, <3>1, <3>2
  <2>5. CASE ~Gives(m, f) /\ next = 0 /\ at = n - 1
    <3>1. u[f] = v[f] /\ ~Gives(maps[1], f)
      BY <1>6, <1>8, <2>5
    <3>2. at + 1 = Len(maps)
      BY <1>2, <1>3, <2>5
    <3>3. Lasts(maps, 1, f, v[f], own[f])
      BY <1>3, <2>1, <3>1, <3>2, FirstLasts
    <3>4. QED
      BY <2>5, <3>1, <3>3
  <2>6. QED
    BY <1>4, <2>3, <2>4, <2>5
<1>10. LimitsLast'
  <2>1. /\ stage' = "playing" /\ config'.maps = maps /\ at' = next /\ cvars' = u
        /\ Marshal(config') = own
    BY <1>1, <1>2, <1>5, <1>6
  <2>2. cvars'["type"] = config'.maps[at' + 1].type
    BY <1>6, <1>8, <2>1
  <2>3. \A f \in LimitFields :
            Lasts(config'.maps, at' + 1, f, cvars'[f], Marshal(config')[f])
    BY <1>9, <2>1
  <2>4. QED
    BY <2>1, <2>2, <2>3 DEF LimitsLast, Lasts, LimitFields
<1>11. MapsOf(tmpl)' /\ MapsOf(inline)'
  BY <1>1 DEF PlayInv, MapsOf, user
<1>12. QED
  BY <1>1, <1>2, <1>3, <1>4, <1>5, <1>6, <1>8, <1>10, <1>11 DEF PlayInv

LEMMA NextPlay == ConfigInv /\ PlayInv /\ [Next]_vars => PlayInv'
<1> SUFFICES ASSUME ConfigInv, PlayInv, [Next]_vars PROVE PlayInv'
  OBVIOUS
<1>1. CASE resolveConfig \/ generateConfigYAML
  <2>1. stage' # "playing" /\ UNCHANGED user
    BY <1>1 DEF resolveConfig, generateConfigYAML
  <2>2. MapsOf(tmpl)' /\ MapsOf(inline)'
    BY <2>1 DEF PlayInv, MapsOf, user
  <2>3. QED
    BY <2>1, <2>2 DEF PlayInv, LimitsLast
<1>2. CASE reload
  BY <1>2, NextConfig, ReloadPlay
<1>3. CASE NextMap
  BY <1>3, NextMapPlay
<1>4. CASE UNCHANGED vars
  BY <1>4 DEF vars, user, PlayInv, MapsOf, LimitsLast, Marshal
<1>5. QED
  BY <1>1, <1>2, <1>3, <1>4 DEF Next

LEMMA LastingLimitsAreGiven == PlayInv => LimitsAreGiven
<1> SUFFICES ASSUME PlayInv, stage = "playing", NEW f \in LimitFields
             PROVE  LET giving == {i \in DOMAIN config.maps : Gives(config.maps[i], f)}
                        soFar == {i \in giving : i <= at + 1}
                        OfLatest(S) == \E i \in S :
                            (\A j \in S : j <= i) /\ cvars[f] = Limit(config.maps[i], f)
                    IN  \/ OfLatest(IF soFar # {} THEN soFar ELSE giving)
                        \/ at + 1 \notin giving /\ cvars[f] = Marshal(config)[f]
  BY DEF LimitsAreGiven, LimitFields
<1> DEFINE giving == {i \in DOMAIN config.maps : Gives(config.maps[i], f)}
           soFar == {i \in giving : i <= at + 1}
<1>1. Lasts(config.maps, at + 1, f, cvars[f], Marshal(config)[f])
  BY LimitsAreLasting DEF PlayInv
<1>2. at + 1 \in giving => soFar # {}
  <2>1. at \in Int
    BY DEF PlayInv, Rotation
  <2>2. at + 1 <= at + 1
    BY <2>1
  <2>3. QED
    BY <2>2
<1>3. CASE soFar # {}
  BY <1>1, <1>3 DEF Lasts
<1>4. CASE soFar = {}
  BY <1>1, <1>2, <1>4 DEF Lasts
<1>5. QED
  BY <1>3, <1>4

LEMMA ImpliesInlineWins == ConfigInv /\ PlayInv => InlineWins
<1> SUFFICES ASSUME ConfigInv, PlayInv, stage = "playing",
                    NEW f \in Field, Decode(inline)[f] # None
             PROVE  /\ config[f] = Decoded(f, inline.val[f])
                    /\ f \in GameWide => cvars[f] = inline.val[f]
  BY DEF InlineWins
<1>1. config[f] = Decoded(f, inline.val[f])
  BY InlineIsLoaded
<1>2. ASSUME f \in GameWide PROVE cvars[f] = inline.val[f]
  <2>1. cvars[f] = config[f]
    BY <1>2 DEF PlayInv
  <2>2. f # "maps"
    BY <1>2 DEF GameWide, Lists
  <2>3. QED
    BY <1>1, <2>1, <2>2 DEF Decoded
<1>3. QED
  BY <1>1, <1>2

\* What the server's author wrote, zero values aside, is in the configuration
\* that is loaded, whatever the template, and in the running game as far as no
\* map's command sets it: the type and the limits are the maps' to set.
THEOREM AuthorsValueWins == Spec => []InlineWins
<1>1. QED
  BY InitConfig, NextConfig, InitPlay, NextPlay, ImpliesInlineWins, PTL DEF Spec

\* A limit in force is that of the latest map that gave one, or the game's own.
THEOREM LimitsHaveAnOrigin == Spec => []LimitsAreGiven
<1>1. QED
  BY InitConfig, NextConfig, InitPlay, NextPlay, LastingLimitsAreGiven, PTL DEF Spec

\* The limit of a map lasts until another gives one, through the end of the
\* round: no command takes it back.  This is what the code does, and not what
\* its documentation says, see MapsKeepTheGame.
THEOREM LimitsOutliveTheirMap == Spec => []LimitsLast
<1>1. PlayInv => LimitsLast
  BY DEF PlayInv
<1>2. QED
  BY InitConfig, NextConfig, InitPlay, NextPlay, <1>1, PTL DEF Spec
=============================================================================
