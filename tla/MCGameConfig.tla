---------------------------- MODULE MCGameConfig ----------------------------
(* What users write in the runs of GameConfig. *)
EXTENDS GameConfig

Plain(name) ==
    [name |-> name, type |-> None, captureLimit |-> None, fragLimit |-> None,
     timeLimit |-> None]
Limited == [Plain("q3dm1") EXCEPT !.fragLimit = 10, !.timeLimit = 90]
Flags == [Plain("q3ctf1") EXCEPT !.type = "CaptureTheFlag", !.captureLimit = 8]

\* For each field a default and another value; zero values where users may
\* write them; a time limit that is not a number of minutes.
SomeChoices ==
    [fragLimit |-> {0, 25, 50}, timeLimit |-> {900, 90}, commands |-> {<< >>, <<"say hi">>},
     maps |-> {<< >>, <<Flags>>, <<Limited, Plain("q3dm7")>>,
              <<Plain("q3dm6"), Flags, Limited>>},
     type |-> {"FreeForAll", "CaptureTheFlag"}, motd |-> {"", "hello"},
     forceRespawn |-> BOOLEAN, inactivity |-> {600, 0}, quadFactor |-> {3, 4},
     password |-> {"", "secret"}, weaponRespawn |-> {3, 0},
     hostname |-> {"", "arena"}, maxClients |-> {12, 16}, rconPassword |-> {"", "rcon"},
     minPlayers |-> {0, 4}, skill |-> {3, 5}, noChat |-> BOOLEAN]

\* Every field is in a pair, in pairs within a section and across sections.
AllPairs ==
    {<<"fragLimit", "maps">>, <<"type", "maps">>, <<"timeLimit", "commands">>,
     <<"motd", "quadFactor">>, <<"forceRespawn", "inactivity">>,
     <<"password", "weaponRespawn">>, <<"hostname", "maxClients">>,
     <<"rconPassword", "maxClients">>, <<"minPlayers", "skill">>, <<"noChat", "skill">>}
=============================================================================
