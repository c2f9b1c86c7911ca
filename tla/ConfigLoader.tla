---------------------------- MODULE ConfigLoader ----------------------------
(***************************************************************************)
(* The two parsers of package config: LoadGameConfig for units.conf and    *)
(* LoadMapConfig for map.conf. Each goes through its file line by line and *)
(* collects the fields of the block it is in. A line is what the parsers   *)
(* tell apart of it: whether it opens and closes a block, the fields on    *)
(* it, whether a comma follows the last of them, and whether it goes on    *)
(* with a list begun on an earlier line. Comments and blank lines, which   *)
(* both parsers skip, are left out, and so are the lines that set the turn *)
(* limits. A map's blocks stand behind a section line.                     *)
(***************************************************************************)
EXTENDS Naturals, Sequences

CONSTANTS
    Parsers,  \* "units" for LoadGameConfig, "map" for LoadMapConfig
    Files,    \* bound: the files each parser may be given
    KeysOf,   \* the keys a parser knows in each section
    KindOf,   \* "text", "number", "flag" or "list"
    Garbled,  \* a text or list element with a brace left on it
    NoText    \* the empty string

Sections == {"units", "regions", "paths", "none"}

\* Where a cost is written it is a natural number, as in config/map.conf.
ASSUME FilesAssumption ==
    \A p \in Parsers : \A f \in Files[p] :
      /\ Len(f) \in Nat /\ DOMAIN f = 1..Len(f)
      /\ \A i \in 1..Len(f) :
           /\ f[i].kind = "section" => f[i].name \in Sections
           /\ f[i].fields \in Seq({f[i].fields[n] : n \in DOMAIN f[i].fields})
           /\ \A n \in DOMAIN f[i].fields :
                f[i].fields[n].key = "cost" => f[i].fields[n].val \in Nat
ASSUME ParsersAssumption == Parsers \subseteq {"units", "map"}
ASSUME KeysAssumption ==
    /\ "cost" \in KeysOf["paths"] /\ KindOf["cost"] = "number"
    /\ \A s \in Sections \ {"none"} : "id" \in KeysOf[s]
    /\ KindOf["id"] = "text"

VARIABLES
    parser,  \* which parser runs
    file,    \* the lines it is given, which never change
    pos,     \* the line it reads next
    section, \* the section it is in, "none" at first; units.conf has only one
    inBlock, \* inUnit, inBlock
    cur,     \* cur; curRegion and curPath, by their section
    loaded   \* GameConfig.Units; MapConfig.Regions and Paths: id -> fields

loaderVars == <<parser, file, pos, section, inBlock, cur, loaded>>

NoEntry == <<>>

\* What Go leaves in a field nobody sets.
Zero(k) == CASE KindOf[k] = "number" -> 0
             [] KindOf[k] = "flag"   -> FALSE
             [] KindOf[k] = "list"   -> <<>>
             [] OTHER                -> NoText

Blank  == [s \in Sections |-> [k \in KeysOf[s] |-> Zero(k)]]

LoaderInit ==
    /\ parser \in Parsers /\ file \in Files[parser]
    /\ pos = 1 /\ inBlock = FALSE
    /\ section = IF parser = "units" THEN "units" ELSE "none"
    /\ cur = Blank
    /\ loaded = [s \in Sections |-> NoEntry]

-----------------------------------------------------------------------------

Loading == pos <= Len(file)
line    == file[pos]

\* The last value of a line keeps the closing brace that follows it, unless a
\* comma comes between. Only parseUnitField trims it, and only at the very end.
BraceSticks(l, i) ==
    /\ i = Len(l.fields) /\ ~l.comma
    /\ \/ l.closes = "brace,"
       \/ l.closes = "brace" /\ parser = "map"

\* What strconv.Atoi, a comparison with "true" and strings.Trim make of a value.
ValueOf(k, v, stuck) ==
    IF ~stuck THEN v
    ELSE CASE KindOf[k] = "number" -> 0
           [] KindOf[k] = "flag"   -> FALSE
           [] KindOf[k] = "list"   -> [v EXCEPT ![Len(v)] = Garbled]
           [] OTHER                -> Garbled

\* smartSplit and the splits at "=" find no key where a list goes on, nor behind
\* its closing bracket.
FieldsOn(l) == IF l.resumes THEN <<>> ELSE l.fields

\* parseUnitField, parseRegionFields, parsePathFields: the fields of line l on
\* top of those of e.
ParseFields(s, e, l) ==
    [k \in KeysOf[s] |->
       LET at == {i \in DOMAIN FieldsOn(l) : l.fields[i].key = k} IN
       IF at = {} THEN e[k]
       ELSE LET i == CHOOSE n \in at : \A m \in at : m <= n
            IN  ValueOf(k, l.fields[i].val, BraceSticks(l, i))]

HasId(e) == "id" \in DOMAIN e /\ e["id"] # NoText

\* Entry e goes under its id, in the place of an earlier one with the same id.
Stored(e) ==
    [loaded EXCEPT ![section] =
       [i \in DOMAIN @ \cup {e["id"]} |-> IF i = e["id"] THEN e ELSE @[i]]]

\* "regions = [" and "paths = [", which only LoadMapConfig looks for.
ReadSection ==
    /\ Loading /\ line.kind = "section"
    /\ section' = IF parser = "map" THEN line.name ELSE section
    /\ pos' = pos + 1
    /\ UNCHANGED <<parser, file, inBlock, cur, loaded>>

\* A line outside of any block, such as the end of a section.
SkipLine ==
    /\ Loading /\ line.kind = "entry" /\ ~(inBlock \/ line.opens)
    /\ pos' = pos + 1
    /\ UNCHANGED <<parser, file, section, inBlock, cur, loaded>>

\* Mutant of ReadFields: a block starts from the fields of the one before.
ReadFieldsOnTop ==
    /\ Loading /\ line.kind = "entry" /\ (inBlock \/ line.opens)
    /\ LET before == cur
           e      == ParseFields(section, before[section], line)
       IN  /\ inBlock' = (line.closes = "no")
           /\ cur' = IF inBlock' \/ parser = "map" THEN [before EXCEPT ![section] = e] ELSE Blank
           /\ loaded' = IF inBlock' \/ ~HasId(e) THEN loaded ELSE Stored(e)
    /\ pos' = pos + 1
    /\ UNCHANGED <<parser, file, section>>

\* A line of a block: its fields first, then the end of the block, which stores it.
ReadFields ==
    /\ Loading /\ line.kind = "entry" /\ (inBlock \/ line.opens)
    /\ LET before == IF line.opens THEN Blank ELSE cur
           e      == ParseFields(section, before[section], line)
       IN  /\ inBlock' = (line.closes = "no")
           /\ cur' = IF inBlock' \/ parser = "map" THEN [before EXCEPT ![section] = e] ELSE Blank
           /\ loaded' = IF inBlock' \/ ~HasId(e) THEN loaded ELSE Stored(e)
    /\ pos' = pos + 1
    /\ UNCHANGED <<parser, file, section>>

ReadLine == ReadSection \/ SkipLine \/ ReadFields

-----------------------------------------------------------------------------
(* What a file f says, read by its braces, brackets and commas alone.      *)

BlocksOf(f) == {i \in DOMAIN f : f[i].kind = "entry" /\ f[i].opens}

\* The lines of the block that begins on line i, up to the first that closes it.
LastOf(f, i) ==
    LET ends == {j \in DOMAIN f : j >= i /\ f[j].closes # "no"}
    IN  CHOOSE j \in ends : \A k \in ends : j <= k
LinesOf(f, i) == i..LastOf(f, i)

Headings(f, i) == {j \in 1..i : f[j].kind = "section"}

SectionAt(p, f, i) ==
    IF p = "units" THEN "units" ELSE IF Headings(f, i) = {} THEN "none"
    ELSE f[CHOOSE j \in Headings(f, i) : \A k \in Headings(f, i) : k <= j].name

\* The values given to key k in a block.
ValuesIn(f, i, k) ==
    UNION {{f[j].fields[n].val : n \in {m \in DOMAIN f[j].fields : f[j].fields[m].key = k}} :
             j \in LinesOf(f, i)}

\* As in the two files: blocks end and do not nest, each has an id of its own, and
\* none sets a key twice.
ASSUME LayoutAssumption ==
    \A p \in Parsers : \A f \in Files[p] :
      /\ \A i \in BlocksOf(f) :
           /\ \E j \in DOMAIN f : j >= i /\ f[j].closes # "no"
           /\ \A j \in LinesOf(f, i) : f[j].kind = "entry" /\ (f[j].opens => j = i)
           /\ \A j, k \in LinesOf(f, i) :
                \A m \in DOMAIN f[j].fields, n \in DOMAIN f[k].fields :
                  f[j].fields[m].key = f[k].fields[n].key => j = k /\ m = n
           /\ SectionAt(p, f, i) # "none" /\ ValuesIn(f, i, "id") # {}
           /\ NoText \notin ValuesIn(f, i, "id") /\ Garbled \notin ValuesIn(f, i, "id")
      /\ \A i, j \in BlocksOf(f) : i # j /\ SectionAt(p, f, i) = SectionAt(p, f, j)
           => ValuesIn(f, i, "id") \cap ValuesIn(f, j, "id") = {}

\* The lines of a block that go on with a list begun before.
Rest(i) == {n \in LinesOf(file, i) : file[n].resumes}

Section(i) == SectionAt(parser, file, i)

Written(i) ==
    [k \in KeysOf[Section(i)] |->
       LET vals == ValuesIn(file, i, k) IN
       IF vals = {} THEN Zero(k)
       ELSE LET v == CHOOSE x \in vals : TRUE
            IN  IF KindOf[k] = "list" /\ Rest(i) # {}
                THEN v \o file[CHOOSE n \in Rest(i) : TRUE].items ELSE v]

\* No list runs over lines, and no brace follows a value at once.
PlainlySet(i) ==
    /\ Rest(i) = {}
    /\ \A j \in LinesOf(file, i) : \A n \in DOMAIN file[j].fields : ~BraceSticks(file[j], n)

AsWritten(i) == LET w == Written(i) IN
    /\ w["id"] \in DOMAIN loaded[Section(i)]
    /\ loaded[Section(i)][w["id"]] = w

\* Every block whose layout keeps braces away from values and lists on one line
\* is loaded as it is written, whatever stands before and after it: no field of
\* one block turns up in another, and none is lost at the end of a block
\* (LoadGameConfig, LoadMapConfig).
PlainBlocksAreLoaded == ~Loading => \A i \in BlocksOf(file) : PlainlySet(i) => AsWritten(i)

\* config.go: "LoadMapConfig parses map.conf. Returns MapConfig with all regions
\* and paths." But the costs and threats at the end of its lines are lost.
LoadedAsWritten == ~Loading => \A i \in BlocksOf(file) : AsWritten(i)

=============================================================================
