----------------------------- MODULE MCStartup ------------------------------
(* Small files in the layouts of config/units.conf and config/map.conf: a    *)
(* triangle of paths with a detour that is cheaper than the straight way,    *)
(* two roads on from it and a path apart; two units, one with a list of      *)
(* paths.                                                                    *)
EXTENDS Startup

MCParsers == {"units", "map"}

MCKeysOf == [s \in Sections |->
    CASE s = "units"   -> {"id", "canFortify", "cooldown", "maiaAbilityPaths"}
      [] s = "regions" -> {"id", "startThreat"}
      [] s = "paths"   -> {"id", "from", "to", "cost"}
      [] s = "none"    -> {}]

MCKindOf == [k \in UNION {MCKeysOf[s] : s \in Sections} |->
    CASE k \in {"startThreat", "cost", "cooldown"} -> "number"
      [] k = "canFortify"                          -> "flag"
      [] k = "maiaAbilityPaths"                    -> "list"
      [] OTHER                                     -> "text"]

SectionLine(n) == [kind |-> "section", name |-> n, opens |-> FALSE, fields |-> <<>>, comma |-> FALSE,
               closes |-> "no", resumes |-> FALSE, items |-> <<>>]
Entry(opens, fields, comma, closes) ==
    [kind |-> "entry", name |-> "", opens |-> opens, fields |-> fields, comma |-> comma,
     closes |-> closes, resumes |-> FALSE, items |-> <<>>]
Resumed(items) == [Entry(FALSE, <<>>, TRUE, "no") EXCEPT !.resumes = TRUE, !.items = items]

Bracket == Entry(FALSE, <<>>, FALSE, "no")

F(k, v) == [key |-> k, val |-> v]

\* The layouts of an entry: closed on its line, with a comma before the brace or
\* not, or closed by a line of its own.
Layouts(fields, last) ==
    LET close == IF last THEN "brace" ELSE "brace," IN
    {<<Entry(TRUE, fields, FALSE, close)>>,
     <<Entry(TRUE, fields, TRUE, close)>>,
     <<Entry(TRUE, <<fields[1]>>, TRUE, "no"), Entry(FALSE, Tail(fields), TRUE, "no"),
       Entry(FALSE, <<>>, FALSE, close)>>}

PathFields(p, a, b, c) == <<F("id", p), F("from", a), F("to", b), F("cost", c)>>

\* A road on from the triangle with a dearer one beside it, and a path apart.
OtherPaths ==
    <<Entry(TRUE, PathFields("cd", "c", "d", 1), TRUE, "brace,"),
      Entry(TRUE, PathFields("dc", "d", "c", 2), TRUE, "brace,"),
      Entry(TRUE, PathFields("de", "d", "e", 1), TRUE, "brace,"),
      Entry(TRUE, PathFields("fg", "f", "g", 1), TRUE, "brace")>>

MapFiles ==
    {<<SectionLine("regions")>> \o r \o s \o <<Bracket, SectionLine("paths")>> \o x \o y \o z
        \o OtherPaths \o <<Bracket>> :
       r \in Layouts(<<F("id", "a"), F("startThreat", 3)>>, FALSE),
       s \in {<<Entry(TRUE, <<F("id", "b")>>, TRUE, "brace")>>},
       x \in Layouts(PathFields("ac", "a", "c", 4), FALSE),
       y \in Layouts(PathFields("ab", "a", "b", 2), FALSE),
       z \in Layouts(PathFields("bc", "b", "c", 1), FALSE)}

GondorFields == <<F("id", "gondor-army"), F("maiaAbilityPaths", <<"ab">>), F("canFortify", TRUE)>>
SarumanFields == <<F("id", "saruman"), F("cooldown", 2)>>

UnitFiles ==
    {<<SectionLine("units")>> \o g \o s \o <<Bracket>> :
       g \in Layouts(GondorFields, FALSE),
       s \in Layouts(SarumanFields, TRUE) \cup
             {<<Entry(TRUE, <<F("id", "saruman"), F("maiaAbilityPaths", <<"ab">>)>>, TRUE, "no"),
                Resumed(<<"bc">>), Entry(FALSE, <<F("cooldown", 2)>>, TRUE, "brace")>>}}

MCFiles == [p \in MCParsers |-> IF p = "map" THEN MapFiles ELSE UnitFiles]

MCRoutes == {<<>>, <<"ab">>, <<"ab", "bc">>, <<"ab", "bc", "ac">>, <<"fg", "lost", "fg">>, <<"de">>}

AllPaths == {"ab", "bc", "ac", "cd", "dc", "de", "fg"}

MCSnapshots ==
    {[status       |-> [p \in AllPaths |-> IF p = "bc" THEN status ELSE "OPEN"],
      surveillance |-> [p \in AllPaths |-> IF p = "ab" THEN 2 ELSE 1],
      threat       |-> [r \in {"a", "b", "c", "e", "g"} |-> IF r = "c" THEN 4 ELSE 1],
      nazgul       |-> n] :
       status \in {"OPEN", "THREATENED", "BLOCKED"}, n \in {{}, {"a", "b"}, {"c", "d", "f"}}}

=============================================================================
