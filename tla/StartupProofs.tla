--------------------------- MODULE StartupProofs ----------------------------
(***************************************************************************)
(* What is proved of Startup: blocks are loaded as they are written, the   *)
(* costs a map is loaded with are natural numbers, over any such map       *)
(* Dijkstra finds the cost of a cheapest walk to every region that has     *)
(* one, and the risk of a route has the terms of its comment. A walk is    *)
(* written out region by region first; then the recursive function Walks,  *)
(* which the run compares with, is shown to list just those walks.         *)
(***************************************************************************)
EXTENDS Startup, FiniteSetTheorems, SequenceTheorems, WellFoundedInduction, TLAPS

-----------------------------------------------------------------------------
(* Numbers.                                                                *)

\* A non-empty set of naturals has a least element.
LEMMA LeastNumber ==
    ASSUME NEW S \in SUBSET Nat, S # {}
    PROVE  \E m \in S : \A k \in S : m <= k
<1>1. IsWellFoundedOn(OpToRel(<, Nat), Nat)
  BY NatLessThanWellFounded
<1>2. PICK m \in S : \A k \in S : ~(<<k, m>> \in OpToRel(<, Nat))
  BY <1>1, WFMin
<1>3. \A k \in S : ~(k < m)
  BY <1>2 DEF OpToRel
<1> QED
  BY <1>3

\* A set of naturals with 0 and the successor of each member has all of them.
LEMMA AllNumbers ==
    ASSUME NEW S \in SUBSET Nat, 0 \in S, \A n \in S : n + 1 \in S
    PROVE  S = Nat
<1> DEFINE T == Nat \ S
<1>1. SUFFICES ASSUME T # {}
               PROVE  FALSE
  OBVIOUS
<1>2. PICK m \in T : \A k \in T : m <= k
  BY <1>1, LeastNumber
<1>3. m - 1 \in Nat /\ ~(m <= m - 1)
  BY <1>2
<1> QED
  BY <1>2, <1>3

\* A non-empty set of numbers up to n has a greatest element.
LEMMA GreatestNumber ==
    ASSUME NEW n \in Nat, NEW S \in SUBSET (1..n), S # {}
    PROVE  \E m \in S : \A k \in S : k <= m
<1> DEFINE T == {n - k : k \in S}
<1>1. \A k \in S : n - k \in Nat
  OBVIOUS
<1> HIDE DEF T
<1>2. PICK t \in T : \A u \in T : t <= u
  <2>1. T \in SUBSET Nat
    BY <1>1 DEF T
  <2>2. PICK s \in S : TRUE
    OBVIOUS
  <2>3. n - s \in T
    BY <2>2 DEF T
  <2> QED
    BY <2>1, <2>3, LeastNumber
<1>3. PICK m \in S : t = n - m
  BY <1>2 DEF T
<1>4. \A k \in S : n - m <= n - k
  BY <1>2, <1>3 DEF T
<1> QED
  BY <1>4

-----------------------------------------------------------------------------
(* What is loaded.                                                         *)

PathsOf(l) == l["paths"]

LoaderInv ==
    /\ parser \in Parsers /\ file \in Files[parser] /\ pos \in Nat \ {0}
    /\ section \in Sections
    /\ DOMAIN cur = Sections /\ cur["paths"]["cost"] \in Nat
    /\ DOMAIN loaded = Sections /\ IsFiniteSet(DOMAIN PathsOf(loaded))
    /\ \A p \in DOMAIN PathsOf(loaded) : PathsOf(loaded)[p]["cost"] \in Nat

\* A line that is read is one of the file.
LEMMA LineType ==
    ASSUME LoaderInv, Loading
    PROVE  /\ line.kind = "section" => line.name \in Sections
           /\ line.fields \in Seq({line.fields[n] : n \in DOMAIN line.fields})
           /\ \A n \in DOMAIN line.fields : line.fields[n].key = "cost" => line.fields[n].val \in Nat
<1>1. Len(file) \in Nat
  BY FilesAssumption DEF LoaderInv
<1>2. pos \in 1..Len(file)
  BY <1>1 DEF LoaderInv, Loading
<1>3. \A i \in 1..Len(file) :
           /\ file[i].kind = "section" => file[i].name \in Sections
           /\ file[i].fields \in Seq({file[i].fields[n] : n \in DOMAIN file[i].fields})
           /\ \A n \in DOMAIN file[i].fields :
                file[i].fields[n].key = "cost" => file[i].fields[n].val \in Nat
  BY FilesAssumption DEF LoaderInv
<1> QED
  BY <1>2, <1>3 DEF line

\* The cost in the fields of a line is the one before or one written there, or 0.
LEMMA ParsedCost ==
    ASSUME LoaderInv, Loading, NEW e, e["cost"] \in Nat
    PROVE  ParseFields("paths", e, line)["cost"] \in Nat
<1> DEFINE at == {i \in DOMAIN FieldsOn(line) : line.fields[i].key = "cost"}
           i  == CHOOSE n \in at : \A m \in at : m <= n
<1>1. /\ line.fields \in Seq({line.fields[n] : n \in DOMAIN line.fields})
      /\ \A n \in DOMAIN line.fields : line.fields[n].key = "cost" => line.fields[n].val \in Nat
  BY LineType
<1>2. Len(line.fields) \in Nat /\ DOMAIN line.fields = 1..Len(line.fields)
  BY <1>1, LenProperties
<1>3. at \in SUBSET (1..Len(line.fields)) /\ at \subseteq DOMAIN line.fields
  BY <1>2 DEF FieldsOn
<1>4. ParseFields("paths", e, line)["cost"]
        = IF at = {} THEN e["cost"] ELSE ValueOf("cost", line.fields[i].val, BraceSticks(line, i))
  BY KeysAssumption DEF ParseFields
<1> HIDE DEF at
<1>5. CASE at = {}
  BY <1>4, <1>5
<1>6. CASE at # {}
  <2>1. \E n \in at : \A m \in at : m <= n
    BY <1>2, <1>3, <1>6, GreatestNumber
  <2>2. i \in at
    BY <2>1
  <2> HIDE DEF i
  <2>3. line.fields[i].val \in Nat
    BY <1>1, <1>3, <2>2 DEF at
  <2> QED
    BY <1>4, <1>6, <2>3, KeysAssumption DEF ValueOf
<1> QED
  BY <1>5, <1>6

\* The fields nobody has set.
LEMMA BlankCost == DOMAIN Blank = Sections /\ Blank["paths"]["cost"] \in Nat
<1>1. Zero("cost") = 0
  BY KeysAssumption DEF Zero
<1> QED
  BY <1>1, KeysAssumption DEF Blank, Sections

LEMMA InitLoaderInv == Init => LoaderInv
<1> SUFFICES ASSUME Init
             PROVE  LoaderInv
  OBVIOUS
<1>1. section \in Sections
  BY DEF Init, LoaderInit, Sections
<1>2. DOMAIN loaded = Sections /\ DOMAIN PathsOf(loaded) = {}
  BY DEF Init, LoaderInit, PathsOf, Sections, NoEntry
<1>3. IsFiniteSet(DOMAIN PathsOf(loaded))
  BY <1>2, FS_EmptySet
<1> QED
  BY <1>1, <1>2, <1>3, BlankCost DEF Init, LoaderInit, LoaderInv

LEMMA NextLoaderInv == LoaderInv /\ [Next]_vars => LoaderInv'
<1> SUFFICES ASSUME LoaderInv, [Next]_vars
             PROVE  LoaderInv'
  OBVIOUS
<1>1. CASE ReadFields /\ Load
  <2> DEFINE before == IF line.opens THEN Blank ELSE cur
             e == ParseFields(section, before[section], line)
  <2>1. DOMAIN Blank = Sections /\ Blank["paths"]["cost"] \in Nat
    BY BlankCost
  <2>2. DOMAIN before = Sections /\ before["paths"]["cost"] \in Nat
    BY <2>1 DEF LoaderInv
  <2>3. /\ Loading /\ cur' = IF inBlock' \/ parser = "map" THEN [before EXCEPT ![section] = e] ELSE Blank
        /\ loaded' = IF inBlock' \/ ~HasId(e) THEN loaded ELSE Stored(e)
        /\ pos' = pos + 1 /\ UNCHANGED <<parser, file, section>>
    BY <1>1 DEF ReadFields
  <2> HIDE DEF before
  <2>4. section = "paths" => e["cost"] \in Nat
    BY <2>2, <2>3, ParsedCost
  <2> HIDE DEF e
  <2>5. DOMAIN cur' = Sections /\ cur'["paths"]["cost"] \in Nat
    BY <2>1, <2>2, <2>3, <2>4 DEF LoaderInv
  <2>6. CASE loaded' = loaded
    BY <2>3, <2>5, <2>6 DEF LoaderInv
  <2>7. CASE loaded' = Stored(e)
    <3>1. DOMAIN loaded' = Sections
      BY <2>7 DEF LoaderInv, Stored
    <3>2. CASE section = "paths"
      <4>1. PathsOf(loaded') = [i \in DOMAIN PathsOf(loaded) \cup {e["id"]} |->
                                  IF i = e["id"] THEN e ELSE PathsOf(loaded)[i]]
        BY <2>7, <3>2 DEF Stored, PathsOf, LoaderInv, Sections
      <4>2. \A p \in DOMAIN PathsOf(loaded') : PathsOf(loaded')[p]["cost"] \in Nat
        BY <2>4, <3>2, <4>1 DEF LoaderInv
      <4>3. IsFiniteSet(DOMAIN PathsOf(loaded'))
        <5>1. IsFiniteSet(DOMAIN PathsOf(loaded) \cup {e["id"]})
          BY FS_AddElement DEF LoaderInv
        <5> QED
          BY <4>1, <5>1
      <4> QED
        BY <2>3, <2>5, <3>1, <4>2, <4>3 DEF LoaderInv, PathsOf
    <3>3. CASE section # "paths"
      <4>1. PathsOf(loaded') = PathsOf(loaded)
        BY <2>7, <3>3 DEF Stored, PathsOf, LoaderInv, Sections
      <4> QED
        BY <2>3, <2>5, <3>1, <4>1 DEF LoaderInv, PathsOf
    <3> QED
      BY <3>2, <3>3
  <2> QED
    BY <2>3, <2>6, <2>7
<1>2. CASE ReadSection /\ Load
  <2>1. section' \in Sections
    BY <1>2, LineType DEF ReadSection, LoaderInv
  <2> QED
    BY <1>2, <2>1 DEF ReadSection, LoaderInv, PathsOf
<1>3. CASE SkipLine /\ Load
  BY <1>3 DEF SkipLine, LoaderInv, PathsOf
<1>4. CASE Search \/ SearchOn \/ UNCHANGED vars
  BY <1>4 DEF Search, SearchOn, vars, loaderVars, LoaderInv, PathsOf
<1> QED
  BY <1>1, <1>2, <1>3, <1>4 DEF Next, Load, ReadLine

-----------------------------------------------------------------------------
(* What is loaded of a block. Reading it line by line, the parser has the  *)
(* fields of the lines so far in cur, and nothing else.                    *)

\* Line n goes on with the block that begins on line i.
Continues(i, n) == i \in BlocksOf(file) /\ n \in LinesOf(file, i) /\ n # i

\* Entry e is what the parser makes of lines i to n in section s.
ReadFrom(i, n, s, e) ==
    /\ e = [k \in KeysOf[s] |-> e[k]]
    /\ \A k \in KeysOf[s] :
         /\ (\A j \in i..n : \A m \in DOMAIN FieldsOn(file[j]) : file[j].fields[m].key # k)
              => e[k] = Zero(k)
         /\ \A j \in i..n : \A m \in DOMAIN FieldsOn(file[j]) :
              file[j].fields[m].key = k
                => e[k] = ValueOf(k, file[j].fields[m].val, BraceSticks(file[j], m))

\* Entry e is loaded under each id written in the block of line i.
LoadedAs(l, i, e) ==
    \A v \in ValuesIn(file, i, "id") : v \in DOMAIN l[Section(i)] /\ l[Section(i)][v] = e

BlockInv ==
    /\ section = Section(pos - 1)
    /\ inBlock => \E i : Continues(i, pos) /\ ReadFrom(i, pos - 1, section, cur[section])
    /\ \A i : Continues(i, pos) => inBlock
    /\ \A i \in BlocksOf(file) : LastOf(file, i) < pos /\ PlainlySet(i) =>
         \E e : ReadFrom(i, LastOf(file, i), Section(i), e) /\ LoadedAs(loaded, i, e)

\* The last line of a block is the first from its beginning on that closes it.
LEMMA BlockEnds ==
    ASSUME LoaderInv, NEW i \in BlocksOf(file)
    PROVE  /\ i \in 1..Len(file) /\ LastOf(file, i) \in 1..Len(file) /\ i <= LastOf(file, i)
           /\ file[LastOf(file, i)].closes # "no"
           /\ \A j \in 1..Len(file) : j >= i /\ file[j].closes # "no" => LastOf(file, i) <= j
<1> DEFINE ends == {j \in DOMAIN file : j >= i /\ file[j].closes # "no"}
<1>1. Len(file) \in Nat /\ DOMAIN file = 1..Len(file)
  BY FilesAssumption DEF LoaderInv
<1>2. ends \in SUBSET Nat /\ ends # {}
  BY <1>1, LayoutAssumption DEF LoaderInv
<1>3. \E j \in ends : \A k \in ends : j <= k
  BY <1>2, LeastNumber
<1>4. LastOf(file, i) = CHOOSE j \in ends : \A k \in ends : j <= k
  BY DEF LastOf
<1>5. LastOf(file, i) \in ends /\ \A k \in ends : LastOf(file, i) <= k
  BY <1>3, <1>4
<1> QED
  BY <1>1, <1>5 DEF BlocksOf

\* What the assumption on layouts says of the file that is read.
LEMMA BlockLayout ==
    ASSUME LoaderInv, NEW i \in BlocksOf(file)
    PROVE  /\ \A j \in LinesOf(file, i) : file[j].kind = "entry" /\ (file[j].opens => j = i)
           /\ \A j, k \in LinesOf(file, i) :
                \A m \in DOMAIN file[j].fields, n \in DOMAIN file[k].fields :
                  file[j].fields[m].key = file[k].fields[n].key => j = k /\ m = n
           /\ Section(i) # "none" /\ ValuesIn(file, i, "id") # {}
           /\ NoText \notin ValuesIn(file, i, "id") /\ Garbled \notin ValuesIn(file, i, "id")
           /\ \A j \in BlocksOf(file) : i # j /\ Section(i) = Section(j)
                => ValuesIn(file, i, "id") \cap ValuesIn(file, j, "id") = {}
BY LayoutAssumption DEF LoaderInv, Section

\* A line belongs to one block at most.
LEMMA OneBlock ==
    ASSUME LoaderInv, NEW i \in BlocksOf(file), NEW j \in BlocksOf(file), NEW n,
           n \in LinesOf(file, i), n \in LinesOf(file, j)
    PROVE  i = j
<1>1. i \in 1..Len(file) /\ j \in 1..Len(file) /\ Len(file) \in Nat
      /\ LastOf(file, i) \in Nat /\ LastOf(file, j) \in Nat
  BY BlockEnds, FilesAssumption DEF LoaderInv
<1>2. i \in LinesOf(file, j) \/ j \in LinesOf(file, i)
  BY <1>1 DEF LinesOf
<1> QED
  BY <1>2, BlockLayout DEF BlocksOf

\* A line that begins no section is in the section of the line before.
LEMMA SameSection ==
    ASSUME LoaderInv, NEW i \in Nat, NEW n \in Nat, i <= n,
           \A j \in (i + 1)..n : file[j].kind # "section"
    PROVE  Section(n) = Section(i)
<1>1. Headings(file, n) = Headings(file, i)
  BY DEF Headings
<1> QED
  BY <1>1 DEF Section, SectionAt

\* A block is all in the section it begins in.
LEMMA BlockSection ==
    ASSUME LoaderInv, NEW i \in BlocksOf(file), NEW n \in LinesOf(file, i)
    PROVE  Section(n) = Section(i) /\ Section(n - 1) = Section(n)
<1>1. i \in Nat \ {0} /\ n \in Nat /\ i <= n /\ LastOf(file, i) \in Nat
  BY BlockEnds, FilesAssumption DEF LoaderInv, LinesOf
<1>2. \A j \in LinesOf(file, i) : file[j].kind # "section"
  BY BlockLayout
<1>3. Section(n) = Section(i)
  BY <1>1, <1>2, SameSection DEF LinesOf
<1>4. n - 1 \in Nat /\ n - 1 <= n /\ \A j \in ((n - 1) + 1)..n : file[j].kind # "section"
  BY <1>1, <1>2
<1> QED
  BY <1>1, <1>3, <1>4, SameSection

\* A section line begins its section.
LEMMA NewSection ==
    ASSUME LoaderInv, Loading, line.kind = "section"
    PROVE  Section(pos) = IF parser = "map" THEN line.name ELSE Section(pos - 1)
<1> DEFINE heads == Headings(file, pos)
<1>1. pos \in heads /\ heads \subseteq 1..pos
  BY DEF LoaderInv, line, Headings
<1> HIDE DEF heads
<1>2. pos \in Nat /\ \A k \in heads : k \in Nat /\ k <= pos
  BY <1>1 DEF LoaderInv
<1>3. (CHOOSE j \in heads : \A k \in heads : k <= j) = pos
  <2>1. \A j \in heads : (\A k \in heads : k <= j) => j = pos
    BY <1>1, <1>2
  <2> QED
    BY <1>1, <1>2, <2>1
<1>4. parser = "units" \/ parser = "map"
  BY ParsersAssumption DEF LoaderInv
<1> QED
  BY <1>1, <1>3, <1>4 DEF Section, SectionAt, line, heads

\* What a line of a block adds to what was read of the block before.
LEMMA ReadOn ==
    ASSUME LoaderInv, NEW i \in BlocksOf(file), NEW n \in LinesOf(file, i), NEW s, NEW e,
           ReadFrom(i, n - 1, s, e)
    PROVE  ReadFrom(i, n, s, ParseFields(s, e, file[n]))
<1> DEFINE d == ParseFields(s, e, file[n])
           at(k) == {m \in DOMAIN FieldsOn(file[n]) : file[n].fields[m].key = k}
<1>1. i \in Nat /\ n \in Nat /\ i <= n /\ LastOf(file, i) \in Nat /\ n <= LastOf(file, i)
  BY BlockEnds, FilesAssumption DEF LoaderInv, LinesOf
<1>2. d = [k \in KeysOf[s] |->
             IF at(k) = {} THEN e[k]
             ELSE LET m == CHOOSE x \in at(k) : \A y \in at(k) : y <= x
                  IN  ValueOf(k, file[n].fields[m].val, BraceSticks(file[n], m))]
  BY DEF ParseFields
<1>3. \A j : DOMAIN FieldsOn(file[j]) \subseteq DOMAIN file[j].fields
  BY DEF FieldsOn
<1>4. \A j, m, x : j \in i..n /\ m \in DOMAIN FieldsOn(file[j]) /\ x \in DOMAIN FieldsOn(file[n])
        /\ file[j].fields[m].key = file[n].fields[x].key => j = n /\ m = x
  BY <1>1, <1>3, BlockLayout DEF LinesOf
<1>5. \A m \in DOMAIN FieldsOn(file[n]) : m <= m
  <2>1. n \in 1..Len(file) /\ DOMAIN file = 1..Len(file)
    BY <1>1, BlockEnds, FilesAssumption DEF LoaderInv
  <2>2. file[n].fields \in Seq({file[n].fields[x] : x \in DOMAIN file[n].fields})
    BY <2>1, FilesAssumption DEF LoaderInv
  <2>3. DOMAIN file[n].fields = 1..Len(file[n].fields) /\ Len(file[n].fields) \in Nat
    BY <2>2, LenProperties
  <2> QED
    BY <1>3, <2>3
<1> HIDE DEF d
<1>6. ASSUME NEW k \in KeysOf[s], NEW x \in at(k)
      PROVE  d[k] = ValueOf(k, file[n].fields[x].val, BraceSticks(file[n], x))
  <2>1. \A y \in at(k) : y = x
    BY <1>1, <1>4
  <2>2. (CHOOSE z \in at(k) : \A y \in at(k) : y <= z) = x
    BY <1>5, <2>1
  <2> QED
    BY <1>2, <2>2
<1>7. ASSUME NEW k \in KeysOf[s], at(k) = {}
      PROVE  d[k] = e[k]
  BY <1>2, <1>7
<1>8. d = [k \in KeysOf[s] |-> d[k]]
  BY <1>2
<1>9. \A j \in i..n : j \in i..(n - 1) \/ j = n
  BY <1>1
<1>10. i..(n - 1) \subseteq i..n /\ n \in i..n
  BY <1>1
<1>11. ASSUME NEW k \in KeysOf[s], \A j \in i..n : \A m \in DOMAIN FieldsOn(file[j]) : file[j].fields[m].key # k
       PROVE  d[k] = Zero(k)
  BY <1>7, <1>10, <1>11 DEF ReadFrom
<1>12. ASSUME NEW k \in KeysOf[s], NEW j \in i..n, NEW m \in DOMAIN FieldsOn(file[j]),
              file[j].fields[m].key = k
       PROVE  d[k] = ValueOf(k, file[j].fields[m].val, BraceSticks(file[j], m))
  <2>1. CASE at(k) = {}
    <3>1. j \in i..(n - 1)
      BY <1>9, <1>12, <2>1
    <3> QED
      BY <1>7, <1>12, <2>1, <3>1 DEF ReadFrom
  <2>2. CASE at(k) # {}
    <3>1. PICK x \in at(k) : TRUE
      BY <2>2
    <3>2. j = n /\ m = x
      BY <1>4, <1>12, <3>1
    <3> QED
      BY <1>6, <3>2
  <2> QED
    BY <2>1, <2>2
<1> QED
  <2>1. ReadFrom(i, n, s, d)
    BY <1>8, <1>11, <1>12 DEF ReadFrom
  <2> QED
    BY <2>1 DEF d

\* A block starts from an entry without fields.
LEMMA ReadNothing ==
    ASSUME LoaderInv, NEW i \in Nat, NEW s \in Sections
    PROVE  ReadFrom(i, i - 1, s, Blank[s])
<1>1. i..(i - 1) = {}
  OBVIOUS
<1>2. Blank[s] = [k \in KeysOf[s] |-> Zero(k)]
  BY DEF Blank
<1> QED
  BY <1>1, <1>2 DEF ReadFrom

\* The id of an entry is one of those written, or spoilt, or missing.
LEMMA IdRead ==
    ASSUME LoaderInv, NEW i \in BlocksOf(file), NEW s \in Sections \ {"none"}, NEW e,
           ReadFrom(i, LastOf(file, i), s, e)
    PROVE  e["id"] \in ValuesIn(file, i, "id") \cup {Garbled, NoText}
<1>1. "id" \in KeysOf[s] /\ Zero("id") = NoText
  BY KeysAssumption DEF Zero
<1>2. \A v, b : ValueOf("id", v, b) \in {v, Garbled}
  BY KeysAssumption DEF ValueOf
<1>3. CASE \A j \in LinesOf(file, i) : \A m \in DOMAIN FieldsOn(file[j]) : file[j].fields[m].key # "id"
  BY <1>1, <1>3 DEF ReadFrom, LinesOf
<1>4. CASE \E j \in LinesOf(file, i) : \E m \in DOMAIN FieldsOn(file[j]) : file[j].fields[m].key = "id"
  <2>1. PICK j \in LinesOf(file, i) : \E m \in DOMAIN FieldsOn(file[j]) : file[j].fields[m].key = "id"
    BY <1>4
  <2>2. PICK m \in DOMAIN FieldsOn(file[j]) : file[j].fields[m].key = "id"
    BY <2>1
  <2>3. m \in DOMAIN file[j].fields
    BY DEF FieldsOn
  <2>4. file[j].fields[m].val \in ValuesIn(file, i, "id")
    BY <2>2, <2>3 DEF ValuesIn
  <2>5. e["id"] = ValueOf("id", file[j].fields[m].val, BraceSticks(file[j], m))
    BY <1>1, <2>2 DEF ReadFrom, LinesOf
  <2> QED
    BY <1>2, <2>4, <2>5
<1> QED
  BY <1>3, <1>4

\* Of a plain block every field is read as it is written.
LEMMA PlainRead ==
    ASSUME LoaderInv, NEW i \in BlocksOf(file), PlainlySet(i), NEW e, NEW k \in KeysOf[Section(i)],
           ReadFrom(i, LastOf(file, i), Section(i), e)
    PROVE  /\ ValuesIn(file, i, k) = {} => e[k] = Zero(k)
           /\ \A v \in ValuesIn(file, i, k) : e[k] = v
<1>1. \A j \in LinesOf(file, i) : FieldsOn(file[j]) = file[j].fields
  BY DEF PlainlySet, Rest, FieldsOn
<1>2. \A j \in LinesOf(file, i) : \A m \in DOMAIN file[j].fields :
        file[j].fields[m].key = k => e[k] = file[j].fields[m].val
  <2>1. \A j \in LinesOf(file, i) : \A m \in DOMAIN FieldsOn(file[j]) :
          file[j].fields[m].key = k => e[k] = ValueOf(k, file[j].fields[m].val, BraceSticks(file[j], m))
    BY DEF ReadFrom, LinesOf
  <2>2. \A j \in LinesOf(file, i) : \A m \in DOMAIN file[j].fields : ~BraceSticks(file[j], m)
    BY DEF PlainlySet
  <2>3. ASSUME NEW j \in LinesOf(file, i), NEW m \in DOMAIN file[j].fields,
               file[j].fields[m].key = k
        PROVE  e[k] = file[j].fields[m].val
    <3>1. m \in DOMAIN FieldsOn(file[j]) /\ ~BraceSticks(file[j], m)
      BY <1>1, <2>2
    <3>2. e[k] = ValueOf(k, file[j].fields[m].val, BraceSticks(file[j], m))
      BY <2>1, <2>3, <3>1
    <3> QED
      BY <3>1, <3>2 DEF ValueOf
  <2> QED
    BY <2>3
<1>3. ASSUME NEW v \in ValuesIn(file, i, k) PROVE e[k] = v
  BY <1>2 DEF ValuesIn
<1>4. ASSUME ValuesIn(file, i, k) = {} PROVE e[k] = Zero(k)
  <2>1. \A j \in LinesOf(file, i) : \A m \in DOMAIN file[j].fields : file[j].fields[m].key # k
    <3> SUFFICES ASSUME NEW j \in LinesOf(file, i), NEW m \in DOMAIN file[j].fields,
                        file[j].fields[m].key = k
                 PROVE  FALSE
      OBVIOUS
    <3>1. file[j].fields[m].val \in ValuesIn(file, i, k)
      BY DEF ValuesIn
    <3> QED
      BY <1>4, <3>1
  <2> QED
    BY <1>1, <2>1 DEF ReadFrom, LinesOf
<1> QED
  BY <1>3, <1>4

LEMMA InitBlockInv == Init => BlockInv
<1> SUFFICES ASSUME Init
             PROVE  BlockInv
  OBVIOUS
<1>1. LoaderInv /\ pos = 1 /\ ~inBlock
  BY InitLoaderInv DEF Init, LoaderInit
<1>2. section = Section(0)
  <2>1. Headings(file, 0) = {}
    BY DEF Headings
  <2> QED
    BY <2>1 DEF Init, LoaderInit, Section, SectionAt
<1>3. \A i \in BlocksOf(file) : ~(LastOf(file, i) < 1) /\ ~Continues(i, 1)
  BY <1>1, BlockEnds DEF Continues, LinesOf
<1> QED
  BY <1>1, <1>2, <1>3 DEF BlockInv, Continues

\* A line outside of any block changes nothing about blocks.
LEMMA LineBetween ==
    ASSUME LoaderInv, BlockInv, Loading, \A i \in BlocksOf(file) : pos \notin LinesOf(file, i)
    PROVE  /\ ~inBlock
           /\ \A i : ~Continues(i, pos + 1)
           /\ \A i \in BlocksOf(file) : LastOf(file, i) < pos + 1 => LastOf(file, i) < pos
<1>1. ~inBlock
  BY DEF BlockInv, Continues
<1>2. pos \in Nat
  BY DEF LoaderInv
<1>3. ASSUME NEW i \in BlocksOf(file)
      PROVE  ~Continues(i, pos + 1) /\ (LastOf(file, i) < pos + 1 => LastOf(file, i) < pos)
  <2>1. i \in Nat /\ LastOf(file, i) \in Nat /\ i <= LastOf(file, i)
    BY BlockEnds, FilesAssumption DEF LoaderInv
  <2>2. ~(i <= pos /\ pos <= LastOf(file, i))
    BY <1>2, <2>1 DEF LinesOf
  <2> QED
    BY <1>2, <2>1, <2>2 DEF Continues, LinesOf
<1> QED
  BY <1>1, <1>3 DEF Continues

\* The section of a block is one of the parser's.
LEMMA SectionType == ASSUME LoaderInv, NEW i \in BlocksOf(file) PROVE Section(i) \in Sections
<1>1. CASE Headings(file, i) = {} \/ parser = "units"
  BY <1>1 DEF Section, SectionAt, Sections
<1>2. CASE Headings(file, i) # {} /\ parser # "units"
  <2>1. i \in Nat /\ i \in 1..Len(file) /\ Len(file) \in Nat
    BY BlockEnds, FilesAssumption DEF LoaderInv
  <2>2. Headings(file, i) \in SUBSET (1..i)
    BY DEF Headings
  <2>3. \E h \in Headings(file, i) : \A k \in Headings(file, i) : k <= h
    BY <1>2, <2>1, <2>2, GreatestNumber
  <2>4. PICK h \in Headings(file, i) : Section(i) = file[h].name
    BY <1>2, <2>3 DEF Section, SectionAt
  <2>5. file[h].kind = "section" /\ h \in 1..Len(file)
    BY <2>1, <2>4 DEF Headings
  <2> QED
    BY <2>4, <2>5, FilesAssumption DEF LoaderInv
<1> QED
  BY <1>1, <1>2

\* Every block whose last line has been read is loaded, and stays so.
LEMMA StoreKeeps ==
    ASSUME LoaderInv, BlockInv, NEW i \in BlocksOf(file), pos = LastOf(file, i), NEW e,
           section = Section(i), ReadFrom(i, pos, section, e),
           NEW l, l = IF HasId(e) THEN Stored(e) ELSE loaded,
           NEW j \in BlocksOf(file), LastOf(file, j) < pos + 1, PlainlySet(j)
    PROVE  \E d : ReadFrom(j, LastOf(file, j), Section(j), d) /\ LoadedAs(l, j, d)
<1>1. pos \in LinesOf(file, i) /\ LastOf(file, j) \in LinesOf(file, j) /\ pos \in Nat /\ LastOf(file, j) \in Nat
  BY BlockEnds, FilesAssumption DEF LoaderInv, LinesOf
<1>2. section \in Sections \ {"none"} /\ "id" \in KeysOf[section] /\ DOMAIN loaded = Sections
  BY BlockLayout, KeysAssumption DEF LoaderInv
<1>3. e["id"] \in ValuesIn(file, i, "id") \cup {Garbled, NoText}
  BY <1>2, IdRead
<1>4. \A v : e["id"] # v /\ v \in DOMAIN loaded[section]
        => v \in DOMAIN l[section] /\ l[section][v] = loaded[section][v]
  BY <1>2 DEF Stored
<1>5. \A s \in Sections : s # section => l[s] = loaded[s]
  BY <1>2 DEF Stored
<1>6. CASE j = i
  <2>1. \A v \in ValuesIn(file, i, "id") : e["id"] = v
    BY <1>2, <1>6, PlainRead
  <2>2. e["id"] # NoText
    BY <2>1, BlockLayout
  <2>3. "id" \in DOMAIN e
    BY <1>2 DEF ReadFrom
  <2>4. l = Stored(e)
    BY <2>2, <2>3 DEF HasId
  <2>5. e["id"] \in DOMAIN l[section] /\ l[section][e["id"]] = e
    BY <1>2, <2>4 DEF Stored
  <2>6. LoadedAs(l, j, e)
    BY <1>6, <2>1, <2>5 DEF LoadedAs
  <2> QED
    BY <1>6, <2>6
<1>7. CASE j # i
  <2>1. LastOf(file, j) < pos
    BY <1>1, <1>7, OneBlock
  <2>2. PICK d : ReadFrom(j, LastOf(file, j), Section(j), d) /\ LoadedAs(loaded, j, d)
    BY <2>1 DEF BlockInv
  <2>3. ASSUME NEW v \in ValuesIn(file, j, "id")
        PROVE  v \in DOMAIN l[Section(j)] /\ l[Section(j)][v] = d
    <3>1. v \in DOMAIN loaded[Section(j)] /\ loaded[Section(j)][v] = d
      BY <2>2 DEF LoadedAs
    <3>2. CASE Section(j) = section
      <4>1. v \notin ValuesIn(file, i, "id") /\ v # Garbled /\ v # NoText
        BY <1>7, <3>2, BlockLayout
      <4> QED
        BY <1>3, <1>4, <3>1, <3>2, <4>1
    <3>3. CASE Section(j) # section
      <4>1. Section(j) \in Sections
        BY SectionType
      <4> QED
        BY <1>5, <3>1, <3>3, <4>1
    <3> QED
      BY <3>2, <3>3
  <2>4. LoadedAs(l, j, d)
    BY <2>3 DEF LoadedAs
  <2> QED
    BY <2>2, <2>4
<1> QED
  BY <1>6, <1>7

\* What is said of a block depends on the file and its parser only.
LEMMA SameFile ==
    ASSUME UNCHANGED <<parser, file>>
    PROVE  /\ \A i : Section(i)' = Section(i)
           /\ \A i : PlainlySet(i)' <=> PlainlySet(i)
           /\ \A i, m : Continues(i, m)' <=> Continues(i, m)
           /\ \A i, m, s, e : ReadFrom(i, m, s, e)' <=> ReadFrom(i, m, s, e)
           /\ \A l, i, e : LoadedAs(l, i, e)' <=> LoadedAs(l, i, e)
<1>1. \A i : Section(i)' = Section(i)
  BY DEF Section
<1>2. \A l, i : BraceSticks(l, i)' = BraceSticks(l, i)
  BY DEF BraceSticks
<1>3. \A i : PlainlySet(i)' <=> PlainlySet(i)
  BY <1>2 DEF PlainlySet, Rest
<1>4. \A i, m, s, e : ReadFrom(i, m, s, e)' <=> ReadFrom(i, m, s, e)
  BY <1>2 DEF ReadFrom
<1>5. \A l, i, e : LoadedAs(l, i, e)' <=> LoadedAs(l, i, e)
  BY <1>1 DEF LoadedAs
<1>6. \A i, m : Continues(i, m)' <=> Continues(i, m)
  BY DEF Continues
<1> QED
  BY <1>1, <1>3, <1>4, <1>5, <1>6

LEMMA NextBlockInv == LoaderInv /\ BlockInv /\ [Next]_vars => BlockInv'
<1> SUFFICES ASSUME LoaderInv, BlockInv, [Next]_vars
             PROVE  BlockInv'
  OBVIOUS
<1>1. CASE UNCHANGED loaderVars
  <2> QED
    BY <1>1, SameFile DEF loaderVars, BlockInv
<1>2. ASSUME Loading, pos' = pos + 1
      PROVE  pos' - 1 = pos /\ pos \in Nat /\ pos \in 1..Len(file) /\ DOMAIN file = 1..Len(file)
  BY <1>2, FilesAssumption DEF LoaderInv, Loading
<1>3. ASSUME Loading, UNCHANGED <<parser, file, inBlock, loaded>>, pos' = pos + 1,
             \A i \in BlocksOf(file) : pos \notin LinesOf(file, i), section' = Section(pos)
      PROVE  BlockInv'
  <2>1. /\ ~inBlock' /\ \A i : ~Continues(i, pos + 1)
        /\ \A i \in BlocksOf(file) : LastOf(file, i) < pos' => LastOf(file, i) < pos
    BY <1>2, <1>3, LineBetween
  <2> QED
    BY <1>2, <1>3, <2>1, SameFile DEF BlockInv
<1>4. CASE ReadSection /\ Load
  <2>1. \A i \in BlocksOf(file) : pos \notin LinesOf(file, i)
    BY <1>4, BlockLayout DEF ReadSection, line
  <2>2. section' = Section(pos)
    BY <1>4, NewSection DEF ReadSection, BlockInv
  <2> QED
    BY <1>3, <1>4, <2>1, <2>2 DEF ReadSection
<1>5. CASE SkipLine /\ Load
  <2>1. pos \in 1..Len(file) /\ DOMAIN file = 1..Len(file) /\ pos \in Nat \ {0}
    BY <1>2, <1>5 DEF SkipLine, LoaderInv
  <2>2. \A i \in BlocksOf(file) : pos \notin LinesOf(file, i)
    BY <1>5 DEF SkipLine, line, BlockInv, Continues, BlocksOf
  <2>3. pos - 1 \in Nat /\ pos - 1 <= pos /\ \A j \in ((pos - 1) + 1)..pos : file[j].kind # "section"
    BY <1>5, <2>1 DEF SkipLine, line
  <2>4. section' = Section(pos)
    BY <1>5, <2>1, <2>3, SameSection DEF SkipLine, BlockInv
  <2> QED
    BY <1>3, <1>5, <2>2, <2>4 DEF SkipLine
<1>6. CASE ReadFields /\ Load
  <2> DEFINE before == IF line.opens THEN Blank ELSE cur
             e == ParseFields(section, before[section], line)
  <2>1. /\ Loading /\ line.kind = "entry" /\ (inBlock \/ line.opens)
        /\ inBlock' = (line.closes = "no")
        /\ cur' = IF inBlock' \/ parser = "map" THEN [before EXCEPT ![section] = e] ELSE Blank
        /\ loaded' = IF inBlock' \/ ~HasId(e) THEN loaded ELSE Stored(e)
        /\ pos' = pos + 1 /\ UNCHANGED <<parser, file, section>>
    BY <1>6 DEF ReadFields
  <2>2. pos' - 1 = pos /\ pos \in Nat /\ pos \in 1..Len(file) /\ DOMAIN file = 1..Len(file)
    BY <1>2, <2>1
  <2>3. section \in Sections /\ DOMAIN cur = Sections /\ DOMAIN Blank = Sections
    BY DEF LoaderInv, Blank
  <2>4. DOMAIN before = Sections
    BY <2>3
  <2>5. PICK i \in BlocksOf(file) : pos \in LinesOf(file, i) /\ ReadFrom(i, pos - 1, section, before[section])
    <3>1. CASE line.opens
      <4>1. pos \in BlocksOf(file)
        BY <2>1, <2>2, <3>1 DEF BlocksOf, line
      <4>2. pos \in LinesOf(file, pos)
        BY <2>2, <4>1, BlockEnds, FilesAssumption DEF LoaderInv, LinesOf
      <4>3. ReadFrom(pos, pos - 1, section, Blank[section])
        BY <2>2, <2>3, ReadNothing
      <4> QED
        BY <3>1, <4>1, <4>2, <4>3
    <3>2. CASE ~line.opens
      BY <2>1, <3>2 DEF BlockInv, Continues
    <3> QED
      BY <3>1, <3>2
  <2>6. ReadFrom(i, pos, section, e)
    BY <2>5, ReadOn DEF line
  <2>7. section = Section(i) /\ section' = Section(pos)
    BY <2>1, <2>5, BlockSection DEF BlockInv
  <2>8. /\ i \in 1..Len(file) /\ LastOf(file, i) \in 1..Len(file) /\ i <= LastOf(file, i)
        /\ file[LastOf(file, i)].closes # "no"
        /\ \A j \in 1..Len(file) : j >= i /\ file[j].closes # "no" => LastOf(file, i) <= j
        /\ i <= pos /\ pos <= LastOf(file, i) /\ i \in Nat /\ LastOf(file, i) \in Nat
    BY <2>5, BlockEnds, FilesAssumption DEF LinesOf, LoaderInv
  <2>9. \A j \in BlocksOf(file) : /\ j \in Nat /\ LastOf(file, j) \in Nat /\ j <= LastOf(file, j)
                                  /\ pos \in LinesOf(file, j) => j = i
    BY <2>5, BlockEnds, FilesAssumption, OneBlock DEF LoaderInv
  <2> HIDE DEF e, before
  <2>10. CASE line.closes = "no"
    <3>1. pos < LastOf(file, i)
      BY <2>2, <2>8, <2>10 DEF line
    <3>2. Continues(i, pos + 1)
      BY <2>2, <2>8, <3>1 DEF Continues, LinesOf
    <3>3. inBlock' /\ cur'[section] = e /\ loaded' = loaded
      BY <2>1, <2>3, <2>4, <2>10
    <3>4. \A j \in BlocksOf(file) : LastOf(file, j) < pos + 1 => LastOf(file, j) < pos
      <4>1. \A j \in BlocksOf(file) : LastOf(file, j) = pos => j = i
        BY <2>2, <2>9 DEF LinesOf
      <4> QED
        BY <2>2, <2>9, <3>1, <4>1
    <3> QED
      BY <2>1, <2>2, <2>6, <2>7, <3>2, <3>3, <3>4, SameFile DEF BlockInv
  <2>11. CASE line.closes # "no"
    <3>1. pos = LastOf(file, i)
      BY <2>2, <2>8, <2>11 DEF line
    <3>2. ~inBlock' /\ loaded' = IF HasId(e) THEN Stored(e) ELSE loaded
      BY <2>1, <2>11
    <3>3. \A j : ~Continues(j, pos + 1)
      <4> SUFFICES ASSUME NEW j, Continues(j, pos + 1)
                   PROVE  FALSE
        OBVIOUS
      <4>1. j \in BlocksOf(file) /\ j <= pos /\ pos < LastOf(file, j)
        BY <2>2, <2>9 DEF Continues, LinesOf
      <4>2. j = i
        BY <2>2, <2>9, <4>1 DEF LinesOf
      <4> QED
        BY <2>2, <3>1, <4>1, <4>2
    <3>4. \A j \in BlocksOf(file) : LastOf(file, j) < pos + 1 /\ PlainlySet(j) =>
            \E d : ReadFrom(j, LastOf(file, j), Section(j), d) /\ LoadedAs(loaded', j, d)
      BY <2>6, <2>7, <3>1, <3>2, StoreKeeps
    <3> QED
      BY <2>1, <2>2, <2>7, <3>2, <3>3, <3>4, SameFile DEF BlockInv
  <2> QED
    BY <2>10, <2>11
<1> QED
  BY <1>1, <1>4, <1>5, <1>6 DEF Next, Load, ReadLine, Search, SearchOn, vars

LEMMA PlainBlocksNow == LoaderInv /\ BlockInv => PlainBlocksAreLoaded
<1> SUFFICES ASSUME LoaderInv, BlockInv, ~Loading, NEW i \in BlocksOf(file), PlainlySet(i)
             PROVE  AsWritten(i)
  BY DEF PlainBlocksAreLoaded
<1>1. LastOf(file, i) < pos
  BY BlockEnds, FilesAssumption DEF LoaderInv, Loading
<1>2. PICK e : ReadFrom(i, LastOf(file, i), Section(i), e) /\ LoadedAs(loaded, i, e)
  BY <1>1 DEF BlockInv
<1>3. e = Written(i)
  <2>1. \A k \in KeysOf[Section(i)] :
          e[k] = IF ValuesIn(file, i, k) = {} THEN Zero(k) ELSE CHOOSE x \in ValuesIn(file, i, k) : TRUE
    BY <1>2, PlainRead
  <2>2. e = [k \in KeysOf[Section(i)] |-> e[k]]
    BY <1>2 DEF ReadFrom
  <2> QED
    BY <2>1, <2>2 DEF Written, PlainlySet
<1>4. e["id"] \in ValuesIn(file, i, "id")
  <2>1. Section(i) \in Sections \ {"none"}
    BY BlockLayout, SectionType
  <2>2. "id" \in KeysOf[Section(i)]
    BY <2>1, KeysAssumption
  <2> QED
    BY <1>2, <2>2, BlockLayout, PlainRead
<1> QED
  BY <1>2, <1>3, <1>4 DEF AsWritten, LoadedAs

\* A block that keeps braces away from values and lists on one line is loaded as it is
\* written, in every file of such blocks (LoadGameConfig, LoadMapConfig).
THEOREM LoaderCorrect == Spec => []PlainBlocksAreLoaded
<1> QED
  BY InitLoaderInv, NextLoaderInv, InitBlockInv, NextBlockInv, PlainBlocksNow, PTL DEF Spec

-----------------------------------------------------------------------------
(* Dijkstra. A region is settled when its cost no longer waits in the      *)
(* heap; no item of the heap is cheaper than a settled region, and the     *)
(* edges that leave it cannot improve on the cost of their ends.           *)

Settled(r) == [region |-> r, cost |-> dist[r]] \notin heap

CostsOK   == \A p \in DOMAIN Paths : Paths[p]["cost"] \in Nat
CostsType == \A r \in DOMAIN dist : dist[r] \in Nat
HeapInv   == \A item \in heap :
               /\ item = [region |-> item.region, cost |-> item.cost]
               /\ item.region \in DOMAIN dist /\ item.cost \in Nat
               /\ dist[item.region] <= item.cost
SettledInv == \A r \in DOMAIN dist : Settled(r) =>
                /\ \A item \in heap : dist[r] <= item.cost
                /\ \A e \in Neighbors(Paths, r) :
                     e.to \in DOMAIN dist /\ dist[e.to] <= dist[r] + e.cost
SourceInv == /\ ~HasGraph => source = "none" /\ DOMAIN dist = {} /\ heap = {}
             /\ source # "none" \/ heap # {} => source \in DOMAIN dist /\ dist[source] = 0

SearchInv == CostsType /\ HeapInv /\ SettledInv /\ SourceInv

\* An edge costs what its path costs.
LEMMA EdgeCost == CostsOK => \A r : \A e \in Neighbors(Paths, r) : e.cost \in Nat
BY DEF CostsOK, Neighbors

LEMMA InitSearchInv == Init => SearchInv
BY DEF Init, NoSearch, SearchInv, CostsType, HeapInv, SettledInv, SourceInv

LEMMA StartSearchInv ==
    ASSUME Search
    PROVE  SearchInv'
<1>1. PICK s : Start(s)
  BY DEF Search
<1>2. /\ source' = s /\ dist' = [r \in {s} |-> 0] /\ heap' = {[region |-> s, cost |-> 0]}
      /\ HasGraph'
  BY <1>1 DEF Start, Search, loaderVars, HasGraph, Loading
<1>3. CostsType' /\ HeapInv'
  BY <1>2 DEF CostsType, HeapInv
<1>4. SettledInv'
  BY <1>2 DEF SettledInv, Settled
<1>5. SourceInv'
  BY <1>2 DEF SourceInv
<1> QED
  BY <1>3, <1>4, <1>5 DEF SearchInv

\* An overtaken item is nobody's cost.
LEMMA StaleSearchInv ==
    ASSUME SearchInv, SearchOn, PopStale
    PROVE  /\ SearchInv'
           /\ \A r \in DOMAIN dist : Settled(r) => dist'[r] = dist[r]
<1>1. PICK item \in heap : /\ item.cost > dist[item.region] /\ heap' = heap \ {item}
                           /\ UNCHANGED <<source, dist>>
  BY DEF PopStale
<1>2. UNCHANGED <<Paths, HasGraph>>
  BY DEF SearchOn, loaderVars, Paths, HasGraph, Loading
<1>3. \A r \in DOMAIN dist : Settled(r)' => Settled(r)
  <2> SUFFICES ASSUME NEW r \in DOMAIN dist, ~Settled(r)
               PROVE  ~Settled(r)'
    OBVIOUS
  <2>1. [region |-> r, cost |-> dist[r]] # item
    BY <1>1 DEF SearchInv, CostsType, HeapInv
  <2> QED
    BY <1>1, <2>1 DEF Settled
<1>4. SettledInv'
  BY <1>1, <1>2, <1>3 DEF SearchInv, SettledInv
<1> QED
  BY <1>1, <1>2, <1>4 DEF SearchInv, CostsType, HeapInv, SourceInv

\* What the cheapest fresh item brings: better costs for the ends of its edges, all
\* of them at least its own, and each with an item of its own.
LEMMA FreshStep ==
    ASSUME SearchInv, CostsOK, SearchOn, PopFresh(Paths)
    PROVE  \E item \in heap :
             /\ IsLeast(item) /\ dist[item.region] = item.cost
             /\ UNCHANGED <<source, Paths, HasGraph>>
             /\ DOMAIN dist \subseteq DOMAIN dist'
             /\ \A r \in DOMAIN dist' :
                  \/ r \in DOMAIN dist /\ dist'[r] = dist[r]
                  \/ /\ \E e \in Neighbors(Paths, item.region) : e.to = r /\ dist'[r] = item.cost + e.cost
                     /\ r \in DOMAIN dist => dist'[r] < dist[r]
                     /\ [region |-> r, cost |-> dist'[r]] \in heap'
             /\ \A e \in Neighbors(Paths, item.region) :
                  e.to \in DOMAIN dist' /\ dist'[e.to] <= item.cost + e.cost
             /\ heap \ {item} \subseteq heap'
             /\ \A x \in heap' : x \in heap \ {item}
                  \/ \E e \in Improved(Paths, item) :
                       x = [region |-> e.to, cost |-> item.cost + e.cost]
<1> DEFINE better(item)   == Improved(Paths, item)
           cheapest(item) == {e \in better(item) : \A o \in better(item) : o.to = e.to => e.cost <= o.cost}
           found(item)    == [r \in {e.to : e \in better(item)} |->
                                item.cost + (CHOOSE e \in cheapest(item) : e.to = r).cost]
<1>1. PICK item \in heap :
        /\ IsLeast(item) /\ item.cost <= dist[item.region]
        /\ dist' = [r \in DOMAIN dist \cup DOMAIN found(item) |->
                      IF r \in DOMAIN found(item) THEN found(item)[r] ELSE dist[r]]
        /\ \E overtaken \in SUBSET (better(item) \ cheapest(item)) :
             heap' = (heap \ {item}) \cup {[region |-> e.to, cost |-> item.cost + e.cost] :
                                           e \in cheapest(item) \cup overtaken}
        /\ UNCHANGED source
  BY DEF PopFresh
<1> DEFINE b == better(item)
           c == cheapest(item)
           f == found(item)
<1>2. /\ item.cost \in Nat /\ item.region \in DOMAIN dist /\ dist[item.region] = item.cost
      /\ \A r \in DOMAIN dist : dist[r] \in Nat
  BY <1>1 DEF SearchInv, HeapInv, CostsType
<1>3. /\ b \subseteq Neighbors(Paths, item.region)
      /\ \A e \in Neighbors(Paths, item.region) :
           /\ e.cost \in Nat
           /\ e \in b <=> e.to \notin DOMAIN dist \/ item.cost + e.cost < dist[e.to]
  BY EdgeCost DEF Improved
<1>4. c \subseteq b /\ \A e \in c, o \in b : o.to = e.to => e.cost <= o.cost
  OBVIOUS
<1>5. ASSUME NEW e \in b
      PROVE  \E x \in c : x.to = e.to
  <2> DEFINE S == {x.cost : x \in {o \in b : o.to = e.to}}
  <2>1. \A o \in b : o.cost \in Nat
    BY <1>3
  <2> HIDE DEF b
  <2>2. S \in SUBSET Nat
    BY <2>1
  <2>3. e.cost \in S
    OBVIOUS
  <2> HIDE DEF S
  <2>4. PICK m \in S : \A k \in S : m <= k
    BY <2>2, <2>3, LeastNumber
  <2>5. PICK x \in b : x.to = e.to /\ x.cost = m
    BY <2>4 DEF S
  <2>6. \A o \in b : o.to = x.to => x.cost <= o.cost
    BY <2>4, <2>5 DEF S
  <2> QED
    BY <2>5, <2>6 DEF b
<1>6. DOMAIN f = {e.to : e \in b}
  OBVIOUS
<1>7. ASSUME NEW r \in DOMAIN f
      PROVE  \E e \in c : e.to = r /\ f[r] = item.cost + e.cost
  BY <1>5, <1>6
<1> HIDE DEF f, found, c, cheapest, b, better
<1>8. /\ dist' = [r \in DOMAIN dist \cup DOMAIN f |-> IF r \in DOMAIN f THEN f[r] ELSE dist[r]]
      /\ \E overtaken \in SUBSET (b \ c) :
           heap' = (heap \ {item}) \cup {[region |-> e.to, cost |-> item.cost + e.cost] :
                                         e \in c \cup overtaken}
  BY <1>1 DEF f, c, b
<1>9. UNCHANGED <<Paths, HasGraph>>
  BY DEF SearchOn, loaderVars, Paths, HasGraph, Loading
<1>10. \A r \in DOMAIN f : /\ f[r] \in Nat
                           /\ \E e \in Neighbors(Paths, item.region) : e.to = r /\ f[r] = item.cost + e.cost
                           /\ r \in DOMAIN dist => f[r] < dist[r]
  BY <1>2, <1>3, <1>4, <1>7
<1>11. DOMAIN dist' = DOMAIN dist \cup DOMAIN f
  BY <1>8
<1>12. \A r \in DOMAIN dist' : dist'[r] = IF r \in DOMAIN f THEN f[r] ELSE dist[r]
  BY <1>8
<1>13. \A r \in DOMAIN dist' :
         \/ r \in DOMAIN dist /\ dist'[r] = dist[r]
         \/ /\ \E e \in Neighbors(Paths, item.region) : e.to = r /\ dist'[r] = item.cost + e.cost
            /\ r \in DOMAIN dist => dist'[r] < dist[r]
            /\ [region |-> r, cost |-> dist'[r]] \in heap'
  <2> SUFFICES ASSUME NEW r \in DOMAIN f
               PROVE  /\ \E e \in Neighbors(Paths, item.region) : e.to = r /\ dist'[r] = item.cost + e.cost
                      /\ r \in DOMAIN dist => dist'[r] < dist[r]
                      /\ [region |-> r, cost |-> dist'[r]] \in heap'
    BY <1>11, <1>12
  <2>1. dist'[r] = f[r]
    BY <1>11, <1>12
  <2>2. PICK e \in c : e.to = r /\ f[r] = item.cost + e.cost
    BY <1>7
  <2>3. [region |-> e.to, cost |-> item.cost + e.cost] \in heap'
    BY <1>8
  <2> QED
    BY <1>10, <2>1, <2>2, <2>3
<1>14. ASSUME NEW e \in Neighbors(Paths, item.region)
       PROVE  e.to \in DOMAIN dist' /\ dist'[e.to] <= item.cost + e.cost
  <2>1. CASE e \in b
    <3>1. e.to \in DOMAIN f
      BY <1>6, <2>1
    <3>2. PICK x \in c : x.to = e.to /\ f[e.to] = item.cost + x.cost
      BY <1>7, <3>1
    <3>3. x.cost <= e.cost /\ x.cost \in Nat /\ e.cost \in Nat
      BY <1>3, <1>4, <2>1, <3>2
    <3> QED
      BY <1>2, <1>11, <1>12, <3>1, <3>2, <3>3
  <2>2. CASE e \notin b
    <3>1. e.to \in DOMAIN dist /\ dist[e.to] <= item.cost + e.cost
      BY <1>2, <1>3, <2>2
    <3>2. dist'[e.to] \in Nat /\ dist'[e.to] <= dist[e.to] /\ e.cost \in Nat
      BY <1>2, <1>3, <1>10, <1>11, <1>12, <3>1
    <3> QED
      BY <1>2, <1>11, <3>1, <3>2
  <2> QED
    BY <2>1, <2>2
<1>15. \A x \in heap' : x \in heap \ {item}
         \/ \E e \in Improved(Paths, item) :
              x = [region |-> e.to, cost |-> item.cost + e.cost]
  BY <1>4, <1>8 DEF b, better
<1>16. heap \ {item} \subseteq heap' /\ DOMAIN dist \subseteq DOMAIN dist'
  BY <1>8, <1>11
<1> QED
  BY <1>1, <1>2, <1>9, <1>13, <1>14, <1>15, <1>16

LEMMA FreshSearchInv ==
    ASSUME SearchInv, CostsOK, SearchOn, PopFresh(Paths)
    PROVE  /\ SearchInv'
           /\ \A r \in DOMAIN dist : Settled(r) => dist'[r] = dist[r]
<1>1. PICK item \in heap :
             /\ IsLeast(item) /\ dist[item.region] = item.cost
             /\ UNCHANGED <<source, Paths, HasGraph>>
             /\ DOMAIN dist \subseteq DOMAIN dist'
             /\ \A r \in DOMAIN dist' :
                  \/ r \in DOMAIN dist /\ dist'[r] = dist[r]
                  \/ /\ \E e \in Neighbors(Paths, item.region) : e.to = r /\ dist'[r] = item.cost + e.cost
                     /\ r \in DOMAIN dist => dist'[r] < dist[r]
                     /\ [region |-> r, cost |-> dist'[r]] \in heap'
             /\ \A e \in Neighbors(Paths, item.region) :
                  e.to \in DOMAIN dist' /\ dist'[e.to] <= item.cost + e.cost
             /\ heap \ {item} \subseteq heap'
             /\ \A x \in heap' : x \in heap \ {item}
                  \/ \E e \in Improved(Paths, item) :
                       x = [region |-> e.to, cost |-> item.cost + e.cost]
  BY FreshStep
<1>2. /\ item.cost \in Nat /\ item.region \in DOMAIN dist
      /\ \A r \in DOMAIN dist : dist[r] \in Nat
      /\ \A x \in heap : x.cost \in Nat /\ item.cost <= x.cost
  BY <1>1 DEF SearchInv, HeapInv, CostsType, IsLeast
<1>3. /\ \A r : \A e \in Neighbors(Paths, r) : e.cost \in Nat
      /\ Improved(Paths, item) \subseteq Neighbors(Paths, item.region)
  BY EdgeCost DEF Improved
<1>4. \A r \in DOMAIN dist' :
        /\ dist'[r] \in Nat
        /\ r \in DOMAIN dist => dist'[r] <= dist[r]
        /\ (r \in DOMAIN dist /\ dist'[r] = dist[r]) \/ item.cost <= dist'[r]
  <2> SUFFICES ASSUME NEW r \in DOMAIN dist'
               PROVE  /\ dist'[r] \in Nat
                      /\ r \in DOMAIN dist => dist'[r] <= dist[r]
                      /\ (r \in DOMAIN dist /\ dist'[r] = dist[r]) \/ item.cost <= dist'[r]
    OBVIOUS
  <2>1. CASE r \in DOMAIN dist /\ dist'[r] = dist[r]
    <3>1. dist[r] \in Nat
      BY <1>2, <2>1
    <3> QED
      BY <2>1, <3>1
  <2>2. CASE /\ \E e \in Neighbors(Paths, item.region) : e.to = r /\ dist'[r] = item.cost + e.cost
             /\ r \in DOMAIN dist => dist'[r] < dist[r]
    <3>1. dist'[r] \in Nat /\ item.cost <= dist'[r]
      BY <1>2, <1>3, <2>2
    <3>2. r \in DOMAIN dist => dist[r] \in Nat
      BY <1>2
    <3> QED
      BY <2>2, <3>1, <3>2
  <2> QED
    BY <1>1, <2>1, <2>2
<1>5. \A x \in heap' : x.cost \in Nat /\ item.cost <= x.cost
  BY <1>1, <1>2, <1>3
<1>6. ASSUME NEW r \in DOMAIN dist, Settled(r)
      PROVE  dist'[r] = dist[r] /\ dist[r] <= item.cost
  <2>1. dist[r] <= item.cost
    BY <1>1, <1>6 DEF SearchInv, SettledInv
  <2>2. dist'[r] = dist[r] \/ (item.cost <= dist'[r] /\ dist'[r] <= dist[r] /\ dist'[r] \in Nat)
    BY <1>1, <1>4
  <2> QED
    BY <1>2, <2>1, <2>2
<1>7. CostsType'
  BY <1>4 DEF CostsType
<1>8. HeapInv'
  <2> SUFFICES ASSUME NEW x \in heap'
               PROVE  /\ x = [region |-> x.region, cost |-> x.cost]
                      /\ x.region \in DOMAIN dist' /\ x.cost \in Nat
                      /\ dist'[x.region] <= x.cost
    BY DEF HeapInv
  <2>1. CASE x \in heap \ {item}
    <3>1. /\ x = [region |-> x.region, cost |-> x.cost] /\ x.region \in DOMAIN dist
          /\ x.cost \in Nat /\ dist[x.region] <= x.cost
      BY <2>1 DEF SearchInv, HeapInv
    <3>2. x.region \in DOMAIN dist' /\ dist'[x.region] <= dist[x.region] /\ dist'[x.region] \in Nat
      BY <1>1, <1>4, <3>1
    <3>3. dist[x.region] \in Nat
      BY <1>2, <3>1
    <3> QED
      BY <3>1, <3>2, <3>3
  <2>2. CASE \E e \in Neighbors(Paths, item.region) : x = [region |-> e.to, cost |-> item.cost + e.cost]
    BY <1>1, <1>2, <1>3, <2>2
  <2> QED
    BY <1>1, <1>3, <2>1, <2>2
<1>9. ASSUME NEW r \in DOMAIN dist', Settled(r)'
      PROVE  /\ \A x \in heap' : dist'[r] <= x.cost
             /\ \A e \in Neighbors(Paths', r) :
                  e.to \in DOMAIN dist' /\ dist'[e.to] <= dist'[r] + e.cost
  <2>1. r \in DOMAIN dist /\ dist'[r] = dist[r]
    BY <1>1, <1>9 DEF Settled
  <2>2. CASE r = item.region
    BY <1>1, <1>5, <2>1, <2>2
  <2>3. CASE r # item.region
    <3>1. Settled(r)
      <4>1. [region |-> r, cost |-> dist[r]] # item
        BY <2>3
      <4> QED
        BY <1>1, <1>9, <2>1, <4>1 DEF Settled
    <3>2. \A x \in heap' : dist'[r] <= x.cost
      BY <1>2, <1>5, <1>6, <2>1, <3>1
    <3>3. ASSUME NEW e \in Neighbors(Paths, r)
          PROVE  e.to \in DOMAIN dist' /\ dist'[e.to] <= dist'[r] + e.cost
      <4>1. e.to \in DOMAIN dist /\ dist[e.to] <= dist[r] + e.cost
        BY <2>1, <3>1 DEF SearchInv, SettledInv
      <4>2. /\ e.to \in DOMAIN dist' /\ dist'[e.to] <= dist[e.to]
            /\ dist'[e.to] \in Nat /\ dist[e.to] \in Nat /\ dist[r] \in Nat /\ e.cost \in Nat
        BY <1>1, <1>2, <1>3, <1>4, <2>1, <4>1
      <4> QED
        BY <2>1, <4>1, <4>2
    <3> QED
      BY <1>1, <3>2, <3>3
  <2> QED
    BY <2>2, <2>3
<1>10. SettledInv'
  BY <1>9 DEF SettledInv
<1>11. SourceInv'
  <2>1. HasGraph /\ HasGraph'
    BY <1>1 DEF SearchOn
  <2>2. source \in DOMAIN dist /\ dist[source] = 0
    BY <1>1 DEF SearchInv, SourceInv
  <2>3. source \in DOMAIN dist' /\ dist'[source] \in Nat /\ dist'[source] <= 0
    BY <1>1, <1>4, <2>2
  <2>4. dist'[source] = 0
    BY <2>3
  <2> QED
    BY <1>1, <2>1, <2>3, <2>4 DEF SourceInv
<1> QED
  BY <1>6, <1>7, <1>8, <1>10, <1>11 DEF SearchInv

LEMMA NextSearchInv ==
    ASSUME SearchInv, CostsOK, [Next]_vars
    PROVE  /\ SearchInv'
           /\ heap # {} => \A r \in DOMAIN dist : Settled(r) => dist'[r] = dist[r]
<1>1. CASE Load
  <2>1. ~HasGraph
    BY <1>1 DEF Load, ReadLine, ReadSection, SkipLine, ReadFields, HasGraph
  <2>2. DOMAIN dist = {} /\ heap = {} /\ UNCHANGED searchVars
    BY <1>1, <2>1 DEF Load, SearchInv, SourceInv
  <2> QED
    BY <2>1, <2>2 DEF SearchInv, CostsType, HeapInv, SettledInv, SourceInv, searchVars
<1>2. CASE Search
  BY <1>2, StartSearchInv DEF Search
<1>3. CASE SearchOn
  BY <1>3, StaleSearchInv, FreshSearchInv DEF SearchOn, Pop
<1>4. CASE UNCHANGED vars
  <2>1. UNCHANGED <<Paths, HasGraph, source, dist, heap>>
    BY <1>4 DEF vars, loaderVars, searchVars, Paths, HasGraph, Loading
  <2> QED
    BY <2>1 DEF SearchInv, CostsType, HeapInv, SettledInv, SourceInv, Settled
<1> QED
  BY <1>1, <1>2, <1>3, <1>4 DEF Next

LEMMA LoadedCosts == LoaderInv => CostsOK
BY DEF LoaderInv, CostsOK, PathsOf, Paths

\* Once the item with the cost of a region is popped, the region keeps that cost, on
\* every map that can be loaded (the heap of Dijkstra, graph.go).
THEOREM SettledCorrect == Spec => SettledStays
<1> DEFINE Kept == heap # {} => \A r \in DOMAIN dist :
                     [region |-> r, cost |-> dist[r]] \notin heap => dist'[r] = dist[r]
<1>1. SearchInv /\ CostsOK /\ [Next]_vars => [Kept]_vars /\ SearchInv'
  BY NextSearchInv DEF Settled
<1> QED
  BY <1>1, InitLoaderInv, NextLoaderInv, LoadedCosts, InitSearchInv, PTL DEF Spec, SettledStays

-----------------------------------------------------------------------------
(* Walks.                                                                  *)

\* w names the regions of a walk of n edges from s over the paths P, c what it has cost so far.
IsWalk(P, s, n, w, c) ==
    /\ w \in [0..n -> Places(P)] /\ c \in [0..n -> Nat]
    /\ w[0] = s /\ c[0] = 0
    /\ \A i \in 1..n : \E e \in Neighbors(P, w[i - 1]) : e.to = w[i] /\ c[i] = c[i - 1] + e.cost

\* A walk of n edges leads from s to r at the cost k; some walk does.
WalkIn(P, s, n, r, k) == \E w, c : IsWalk(P, s, n, w, c) /\ w[n] = r /\ c[n] = k
WalkTo(P, s, r, k)    == \E n \in Nat : WalkIn(P, s, n, r, k)

\* What a search is for: the least cost of a walk to each region there is a walk to.
LeastWalksFound ==
    Searched => \A r \in Places(Paths) :
      /\ r \in DOMAIN dist => WalkTo(Paths, source, r, dist[r]) /\ \A k \in Nat : WalkTo(Paths, source, r, k) => dist[r] <= k
      /\ r \notin DOMAIN dist => \A k \in Nat : ~WalkTo(Paths, source, r, k)

LEMMA EdgeEnds == \A r : \A e \in Neighbors(Paths, r) : e.to \in Places(Paths)
BY DEF Neighbors, Places

\* A walk goes on along any edge of the region it has come to.
LEMMA LongerWalk ==
    ASSUME CostsOK, NEW a, NEW n \in Nat, NEW r, NEW k \in Nat, WalkIn(Paths, a, n, r, k),
           NEW e \in Neighbors(Paths, r)
    PROVE  WalkIn(Paths, a, n + 1, e.to, k + e.cost)
<1>1. PICK w, c : IsWalk(Paths, a, n, w, c) /\ w[n] = r /\ c[n] = k
  BY DEF WalkIn
<1>2. e.cost \in Nat /\ e.to \in Places(Paths)
  BY EdgeCost, EdgeEnds
<1> DEFINE m  == n + 1
           w2 == [i \in 0..m |-> IF i = m THEN e.to ELSE w[i]]
           c2 == [i \in 0..m |-> IF i = m THEN k + e.cost ELSE c[i]]
<1>3. /\ m \in Nat /\ m # 0 /\ n # m /\ n \in 0..m /\ m \in 0..m /\ 0 \in 0..m
      /\ \A i \in 0..m : i # m => i \in 0..n
      /\ \A i \in 1..m : i \in 0..m /\ i - 1 \in 0..m /\ i - 1 # m /\ (i # m => i \in 1..n)
      /\ m - 1 = n
  OBVIOUS
<1> HIDE DEF m
<1>4. w2 \in [0..m -> Places(Paths)] /\ c2 \in [0..m -> Nat]
  <2>1. \A i \in 0..m : w2[i] \in Places(Paths) /\ c2[i] \in Nat
    BY <1>1, <1>2, <1>3 DEF IsWalk
  <2> QED
    BY <2>1
<1>5. w2[0] = a /\ c2[0] = 0 /\ w2[m] = e.to /\ c2[m] = k + e.cost
  BY <1>1, <1>3 DEF IsWalk
<1>6. ASSUME NEW i \in 1..m
      PROVE  \E x \in Neighbors(Paths, w2[i - 1]) : x.to = w2[i] /\ c2[i] = c2[i - 1] + x.cost
  <2>1. CASE i = m
    BY <1>1, <1>3, <2>1
  <2>2. CASE i # m
    <3>1. w2[i - 1] = w[i - 1] /\ w2[i] = w[i] /\ c2[i - 1] = c[i - 1] /\ c2[i] = c[i]
      BY <1>3, <2>2
    <3> QED
      BY <1>1, <1>3, <2>2, <3>1 DEF IsWalk
  <2> QED
    BY <2>1, <2>2
<1> HIDE DEF w2, c2
<1> QED
  BY <1>3, <1>4, <1>5, <1>6 DEF WalkIn, IsWalk, m

\* A walk that has an edge is a shorter one and a last edge.
LEMMA ShorterWalk ==
    ASSUME CostsOK, NEW a, NEW n \in Nat, NEW r, NEW k, WalkIn(Paths, a, n + 1, r, k)
    PROVE  \E q, j : \E e \in Neighbors(Paths, q) :
             j \in Nat /\ WalkIn(Paths, a, n, q, j) /\ e.to = r /\ k = j + e.cost
<1>1. PICK w, c : IsWalk(Paths, a, n + 1, w, c) /\ w[n + 1] = r /\ c[n + 1] = k
  BY DEF WalkIn
<1> DEFINE w1 == [i \in 0..n |-> w[i]]
           c1 == [i \in 0..n |-> c[i]]
<1>2. /\ n + 1 \in 1..(n + 1) /\ (n + 1) - 1 = n /\ n \in 0..n /\ 0 \in 0..n
      /\ \A i \in 0..n : i \in 0..(n + 1)
      /\ \A i \in 1..n : i \in 0..n /\ i - 1 \in 0..n /\ i \in 1..(n + 1)
  OBVIOUS
<1>3. w1 \in [0..n -> Places(Paths)] /\ c1 \in [0..n -> Nat]
  BY <1>1, <1>2 DEF IsWalk
<1>4. /\ w1[0] = a /\ c1[0] = 0
      /\ \A i \in 1..n : \E e \in Neighbors(Paths, w1[i - 1]) :
            e.to = w1[i] /\ c1[i] = c1[i - 1] + e.cost
  BY <1>1, <1>2 DEF IsWalk
<1>5. IsWalk(Paths, a, n, w1, c1)
  BY <1>3, <1>4 DEF IsWalk
<1>6. PICK e \in Neighbors(Paths, w[n]) : e.to = r /\ k = c[n] + e.cost
  BY <1>1, <1>2 DEF IsWalk
<1>7. w1[n] = w[n] /\ c1[n] = c[n] /\ c1[n] \in Nat
  BY <1>2, <1>3
<1>8. WalkIn(Paths, a, n, w[n], c[n])
  BY <1>5, <1>7 DEF WalkIn
<1> QED
  BY <1>6, <1>7, <1>8


\* One more edge after each of the walks W (the step of Walks).
NextWalks(P, W) ==
    UNION {{[to |-> e.to, cost |-> w.cost + e.cost] : e \in Neighbors(P, w.to)} : w \in W}

\* f is what the recursive function in Walks(P, a, n) is: the walks of 0, 1, ... n edges.
WalkTable(P, a, n, f) ==
    f = [k \in 0..n |-> IF k = 0 THEN {[to |-> a, cost |-> 0]} ELSE NextWalks(P, f[k - 1])]

\* There is such a table for every n: a table for m is continued by the walks of m + 1
\* edges. So the function that Walks defines by recursion is one.
LEMMA TableExists ==
    ASSUME NEW P, NEW a, NEW n \in Nat
    PROVE  \E f : WalkTable(P, a, n, f)
<1> DEFINE S == {m \in Nat : \E f : WalkTable(P, a, m, f)}
<1>1. 0 \in S
  <2> DEFINE f == [k \in 0..0 |-> {[to |-> a, cost |-> 0]}]
  <2>1. WalkTable(P, a, 0, f)
    BY DEF WalkTable
  <2> QED
    BY <2>1
<1>2. ASSUME NEW m \in S
      PROVE  m + 1 \in S
  <2>1. PICK f : WalkTable(P, a, m, f)
    OBVIOUS
  <2> DEFINE g == [k \in 0..(m + 1) |-> IF k = m + 1 THEN NextWalks(P, f[m]) ELSE f[k]]
             h == [k \in 0..(m + 1) |-> IF k = 0 THEN {[to |-> a, cost |-> 0]}
                                        ELSE NextWalks(P, g[k - 1])]
  <2>2. \A k \in 0..m : f[k] = IF k = 0 THEN {[to |-> a, cost |-> 0]} ELSE NextWalks(P, f[k - 1])
    BY <2>1 DEF WalkTable
  <2>3. ASSUME NEW k \in 0..(m + 1)
        PROVE  g[k] = h[k]
    <3>1. CASE k = m + 1
      <4>1. k # 0 /\ k - 1 = m /\ m \in 0..(m + 1) /\ m # m + 1
        BY <3>1
      <4>2. g[k] = NextWalks(P, f[m]) /\ g[k - 1] = f[m]
        BY <3>1, <4>1
      <4> QED
        BY <4>1, <4>2
    <3>2. CASE k # m + 1
      <4>1. k \in 0..m /\ (k # 0 => k - 1 \in 0..(m + 1) /\ k - 1 # m + 1)
        BY <3>2
      <4>2. g[k] = f[k] /\ (k # 0 => g[k - 1] = f[k - 1])
        BY <3>2, <4>1
      <4> QED
        BY <2>2, <4>1, <4>2
    <3> QED
      BY <3>1, <3>2
  <2>4. g = h
    BY <2>3
  <2>5. WalkTable(P, a, m + 1, g)
    BY <2>4 DEF WalkTable
  <2> QED
    BY <2>5
<1> HIDE DEF S
<1>3. S = Nat
  <2>1. S \in SUBSET Nat
    BY DEF S
  <2> QED
    BY <1>1, <1>2, <2>1, AllNumbers
<1> QED
  BY <1>3 DEF S

\* Walks reads its answer off such a table.
LEMMA WalksUnfold ==
    ASSUME NEW P, NEW a, NEW n \in Nat
    PROVE  \E f : WalkTable(P, a, n, f) /\ Walks(P, a, n) = f[n]
<1> DEFINE F == CHOOSE f : WalkTable(P, a, n, f)
<1>1. WalkTable(P, a, n, F)
  BY TableExists
<1>2. Walks(P, a, n) = F[n]
  BY DEF Walks, WalkTable, NextWalks
<1> QED
  BY <1>1, <1>2

\* A walk of no edges.
LEMMA EmptyWalk == ASSUME NEW P, NEW a \in Places(P) PROVE WalkIn(P, a, 0, a, 0)
<1> DEFINE w == [i \in 0..0 |-> a]
           c == [i \in 0..0 |-> 0]
<1>1. 0 \in 0..0 /\ \A i \in 1..0 : FALSE
  OBVIOUS
<1>2. IsWalk(P, a, 0, w, c) /\ w[0] = a /\ c[0] = 0
  BY <1>1 DEF IsWalk
<1> QED
  BY <1>2 DEF WalkIn

\* What the run compares with is right: Walks(Paths, a, n) are the ends and the costs of
\* the walks of n edges that lead from a.
LEMMA WalksAreWalks ==
    ASSUME CostsOK, NEW a \in Places(Paths), NEW n \in Nat
    PROVE  \A x : x \in Walks(Paths, a, n)
             <=> \E r, k : /\ x = [to |-> r, cost |-> k] /\ k \in Nat
                           /\ WalkIn(Paths, a, n, r, k)
<1> DEFINE Ends(m) == {x \in {[to |-> r, cost |-> k] : r \in Places(Paths), k \in Nat} :
                         WalkIn(Paths, a, m, x.to, x.cost)}
<1>0. PICK f : WalkTable(Paths, a, n, f) /\ Walks(Paths, a, n) = f[n]
  BY WalksUnfold
<1>1. \A m \in 0..n : f[m] = IF m = 0 THEN {[to |-> a, cost |-> 0]} ELSE NextWalks(Paths, f[m - 1])
  BY <1>0 DEF WalkTable
<1>2. ASSUME NEW m \in Nat, NEW r, NEW k, WalkIn(Paths, a, m, r, k)
      PROVE  r \in Places(Paths) /\ k \in Nat
  BY <1>2 DEF WalkIn, IsWalk
<1>3. \A m \in Nat : \A x : x \in Ends(m) <=> \E r, k : /\ x = [to |-> r, cost |-> k]
                                                        /\ WalkIn(Paths, a, m, r, k)
  BY <1>2
<1> HIDE DEF Ends
<1> DEFINE S == {m \in Nat : m <= n => f[m] = Ends(m)}
<1>4. 0 \in S
  <2>1. f[0] = {[to |-> a, cost |-> 0]}
    BY <1>1
  <2>2. WalkIn(Paths, a, 0, a, 0)
    BY EmptyWalk
  <2>3. ASSUME NEW r, NEW k, WalkIn(Paths, a, 0, r, k)
        PROVE  r = a /\ k = 0
    BY <2>3 DEF WalkIn, IsWalk
  <2>4. \A x : x \in Ends(0) <=> x = [to |-> a, cost |-> 0]
    BY <1>3, <2>2, <2>3
  <2> QED
    BY <2>1, <2>4
<1>5. ASSUME NEW m \in S
      PROVE  m + 1 \in S
  <2> SUFFICES ASSUME m + 1 <= n
               PROVE  f[m + 1] = Ends(m + 1)
    OBVIOUS
  <2>1. m \in Nat /\ m + 1 \in 0..n /\ m + 1 # 0 /\ (m + 1) - 1 = m /\ m <= n
    OBVIOUS
  <2>2. f[m + 1] = NextWalks(Paths, Ends(m))
    BY <1>1, <2>1
  <2>3. ASSUME NEW x \in NextWalks(Paths, Ends(m))
        PROVE  x \in Ends(m + 1)
    <3>1. PICK v \in Ends(m) : \E e \in Neighbors(Paths, v.to) :
                                 x = [to |-> e.to, cost |-> v.cost + e.cost]
      BY DEF NextWalks
    <3>2. PICK e \in Neighbors(Paths, v.to) : x = [to |-> e.to, cost |-> v.cost + e.cost]
      BY <3>1
    <3>3. WalkIn(Paths, a, m, v.to, v.cost) /\ v.cost \in Nat
      BY <1>2, <1>3, <2>1
    <3>4. WalkIn(Paths, a, m + 1, e.to, v.cost + e.cost)
      BY <2>1, <3>3, LongerWalk
    <3> QED
      BY <1>3, <2>1, <3>2, <3>4
  <2>4. ASSUME NEW x \in Ends(m + 1)
        PROVE  x \in NextWalks(Paths, Ends(m))
    <3>1. PICK r, k : x = [to |-> r, cost |-> k] /\ WalkIn(Paths, a, m + 1, r, k)
      BY <1>3, <2>1
    <3>2. PICK q, j : \E e \in Neighbors(Paths, q) :
             j \in Nat /\ WalkIn(Paths, a, m, q, j) /\ e.to = r /\ k = j + e.cost
      BY <2>1, <3>1, ShorterWalk
    <3>3. PICK e \in Neighbors(Paths, q) :
             j \in Nat /\ WalkIn(Paths, a, m, q, j) /\ e.to = r /\ k = j + e.cost
      BY <3>2
    <3> DEFINE v == [to |-> q, cost |-> j]
    <3>4. v \in Ends(m)
      BY <1>3, <2>1, <3>3
    <3>5. x = [to |-> e.to, cost |-> v.cost + e.cost] /\ e \in Neighbors(Paths, v.to)
      BY <3>1, <3>3
    <3> HIDE DEF v
    <3> QED
      BY <3>4, <3>5 DEF NextWalks
  <2> QED
    BY <2>2, <2>3, <2>4
<1> HIDE DEF S
<1>6. S = Nat
  <2>1. S \in SUBSET Nat
    BY DEF S
  <2> QED
    BY <1>4, <1>5, <2>1, AllNumbers
<1>7. f[n] = Ends(n)
  BY <1>6 DEF S
<1> QED
  BY <1>0, <1>2, <1>3, <1>7

\* Finitely many paths have finitely many ends.
LEMMA FinitePlaces ==
    ASSUME NEW P, IsFiniteSet(DOMAIN P)
    PROVE  IsFiniteSet(Places(P))
<1> DEFINE A == {P[p]["from"] : p \in DOMAIN P}
           B == {P[p]["to"] : p \in DOMAIN P}
           f == [p \in DOMAIN P |-> P[p]["from"]]
           g == [p \in DOMAIN P |-> P[p]["to"]]
<1>1. f \in Surjection(DOMAIN P, A) /\ g \in Surjection(DOMAIN P, B)
  BY DEF Surjection
<1>2. IsFiniteSet(A) /\ IsFiniteSet(B)
  <2> HIDE DEF A, B, f, g
  <2> QED
    BY <1>1, FS_Surjection
<1> HIDE DEF A, B
<1>3. IsFiniteSet(A \cup B)
  BY <1>2, FS_Union
<1> QED
  BY <1>3 DEF Places, A, B

\* The regions whose item has been popped.
Popped == {r \in DOMAIN dist : Settled(r)}

\* Every cost found so far is that of a walk, and of one with fewer edges than regions
\* have been popped, or as many edges when the region itself is still to be popped.
TreeInv ==
    /\ source # "none" => source \in Places(Paths)
    /\ DOMAIN dist \subseteq Places(Paths)
    /\ \A r \in DOMAIN dist : \E n \in Nat :
         /\ WalkIn(Paths, source, n, r, dist[r])
         /\ IF Settled(r) THEN n < Cardinality(Popped) ELSE n <= Cardinality(Popped)

\* A file has finitely many paths.
FiniteMap == IsFiniteSet(DOMAIN Paths)

LEMMA InitTreeInv == Init => TreeInv
BY DEF Init, NoSearch, TreeInv

\* The popped region is one more, and the walks to the ends of its edges have one edge
\* more than its own.
LEMMA FreshTreeInv ==
    ASSUME SearchInv, CostsOK, FiniteMap, TreeInv, SearchOn, PopFresh(Paths)
    PROVE  TreeInv'
<1>1. PICK item \in heap :
             /\ IsLeast(item) /\ dist[item.region] = item.cost
             /\ UNCHANGED <<source, Paths, HasGraph>>
             /\ DOMAIN dist \subseteq DOMAIN dist'
             /\ \A r \in DOMAIN dist' :
                  \/ r \in DOMAIN dist /\ dist'[r] = dist[r]
                  \/ /\ \E e \in Neighbors(Paths, item.region) : e.to = r /\ dist'[r] = item.cost + e.cost
                     /\ r \in DOMAIN dist => dist'[r] < dist[r]
                     /\ [region |-> r, cost |-> dist'[r]] \in heap'
             /\ heap \ {item} \subseteq heap'
             /\ \A x \in heap' : x \in heap \ {item}
                  \/ \E e \in Improved(Paths, item) :
                       x = [region |-> e.to, cost |-> item.cost + e.cost]
  BY FreshStep
<1> DEFINE u == item.region
<1>2. /\ item = [region |-> u, cost |-> dist[u]] /\ u \in DOMAIN dist /\ dist[u] \in Nat
      /\ ~Settled(u)
  BY <1>1 DEF SearchInv, HeapInv, CostsType, Settled
<1>3. \A r \in DOMAIN dist : Settled(r) => dist'[r] = dist[r]
  BY FreshSearchInv
<1>4. \A r \in DOMAIN dist : dist[r] \in Nat /\ \A e \in Neighbors(Paths, r) : e.cost \in Nat
  BY EdgeCost DEF SearchInv, CostsType
<1>5. dist'[u] = dist[u] /\ Settled(u)'
  <2>1. dist'[u] = dist[u]
    <3>1. SUFFICES ASSUME NEW e \in Neighbors(Paths, u), dist'[u] = dist[u] + e.cost, dist'[u] < dist[u]
                   PROVE  FALSE
      BY <1>1, <1>2
    <3>2. e.cost \in Nat /\ dist[u] \in Nat
      BY <1>2, <1>4
    <3> HIDE DEF u
    <3> QED
      BY <3>1, <3>2
  <2>2. item \notin heap'
    <3> SUFFICES ASSUME NEW e \in Improved(Paths, item), item = [region |-> e.to, cost |-> item.cost + e.cost]
                 PROVE  FALSE
      BY <1>1
    <3>1. e.to = u /\ e \in Neighbors(Paths, u) /\ item.cost = item.cost + e.cost
      BY DEF Improved
    <3>2. item.cost + e.cost < dist[u]
      BY <1>2, <3>1 DEF Improved
    <3> QED
      BY <1>1, <1>2, <3>1, <3>2
  <2> QED
    BY <1>2, <2>1, <2>2 DEF Settled
<1>6. \A r \in DOMAIN dist' : (r \in DOMAIN dist /\ Settled(r)) \/ r = u <=> Settled(r)'
  <2> SUFFICES ASSUME NEW r \in DOMAIN dist', r # u
               PROVE  (r \in DOMAIN dist /\ Settled(r)) <=> Settled(r)'
    BY <1>5
  <2>1. ASSUME Settled(r)'
        PROVE  r \in DOMAIN dist /\ Settled(r)
    <3>1. r \in DOMAIN dist /\ dist'[r] = dist[r]
      BY <1>1, <2>1 DEF Settled
    <3>2. [region |-> r, cost |-> dist[r]] \notin heap \ {item}
      BY <1>1, <2>1, <3>1 DEF Settled
    <3>3. [region |-> r, cost |-> dist[r]] # item
      BY <1>2
    <3> QED
      BY <3>1, <3>2, <3>3 DEF Settled
  <2>2. ASSUME r \in DOMAIN dist, Settled(r)
        PROVE  Settled(r)'
    <3>1. dist'[r] = dist[r] /\ dist[r] <= item.cost /\ dist[r] \in Nat
      BY <1>1, <1>3, <1>4, <2>2 DEF SearchInv, SettledInv
    <3> SUFFICES ASSUME NEW e \in Improved(Paths, item), r = e.to, dist[r] = item.cost + e.cost
                 PROVE  FALSE
      BY <1>1, <2>2, <3>1 DEF Settled
    <3>2. item.cost + e.cost < dist[r]
      BY <2>2 DEF Improved
    <3> QED
      BY <3>1, <3>2
  <2> QED
    BY <2>1, <2>2
<1>7. Popped' = Popped \cup {u} /\ u \notin Popped
  BY <1>1, <1>2, <1>6 DEF Popped
<1>8. IsFiniteSet(Popped)
  <2>1. IsFiniteSet(Places(Paths))
    BY FinitePlaces DEF FiniteMap
  <2>2. Popped \subseteq Places(Paths)
    BY DEF Popped, TreeInv
  <2> QED
    BY <2>1, <2>2, FS_Subset
<1>9. Cardinality(Popped) \in Nat /\ Cardinality(Popped)' = Cardinality(Popped) + 1
  BY <1>7, <1>8, FS_CardinalityType, FS_AddElement
<1>10. PICK m \in Nat : WalkIn(Paths, source, m, u, dist[u]) /\ m <= Cardinality(Popped)
  BY <1>2 DEF TreeInv
<1>11. ASSUME NEW r \in DOMAIN dist'
       PROVE  /\ r \in Places(Paths)
              /\ \E n \in Nat : /\ WalkIn(Paths, source, n, r, dist'[r])
                                /\ IF Settled(r)' THEN n < Cardinality(Popped)' ELSE n <= Cardinality(Popped)'
  <2>1. CASE r = u
    <3>1. m < Cardinality(Popped) + 1
      BY <1>9, <1>10
    <3> QED
      BY <1>2, <1>5, <1>9, <1>10, <2>1, <3>1 DEF TreeInv
  <2>2. CASE r # u /\ r \in DOMAIN dist /\ dist'[r] = dist[r]
    <3>1. PICK n \in Nat : /\ WalkIn(Paths, source, n, r, dist[r])
                           /\ IF Settled(r) THEN n < Cardinality(Popped) ELSE n <= Cardinality(Popped)
      BY <2>2 DEF TreeInv
    <3>2. n < Cardinality(Popped) + 1 /\ n <= Cardinality(Popped) + 1
      BY <1>9, <3>1
    <3> QED
      BY <1>9, <2>2, <3>1, <3>2 DEF TreeInv
  <2>3. CASE /\ r # u
             /\ \E e \in Neighbors(Paths, u) : e.to = r /\ dist'[r] = item.cost + e.cost
             /\ r \in DOMAIN dist => dist'[r] < dist[r]
    <3>1. PICK e \in Neighbors(Paths, u) : e.to = r /\ dist'[r] = dist[u] + e.cost
      BY <1>1, <2>3
    <3>2. WalkIn(Paths, source, m + 1, r, dist'[r])
      BY <1>2, <1>10, <3>1, LongerWalk
    <3>3. ~Settled(r)'
      <4>1. ~Settled(r) \/ r \notin DOMAIN dist
        <5> SUFFICES ASSUME r \in DOMAIN dist, Settled(r)
                     PROVE  FALSE
          OBVIOUS
        <5>1. dist'[r] = dist[r] /\ dist[r] \in Nat
          BY <1>3, <1>4
        <5> QED
          BY <2>3, <5>1
      <4> QED
        BY <1>6, <2>3, <4>1
    <3>4. m + 1 \in Nat /\ m + 1 <= Cardinality(Popped) + 1
      BY <1>9, <1>10
    <3> QED
      BY <1>9, <3>1, <3>2, <3>3, <3>4, EdgeEnds
  <2> QED
    BY <1>1, <2>1, <2>2, <2>3
<1> QED
  BY <1>1, <1>11 DEF TreeInv

LEMMA NextTreeInv == SearchInv /\ CostsOK /\ FiniteMap /\ TreeInv /\ [Next]_vars => TreeInv'
<1> SUFFICES ASSUME SearchInv, CostsOK, FiniteMap, TreeInv, [Next]_vars
             PROVE  TreeInv'
  OBVIOUS
<1>1. CASE Load
  <2>1. ~HasGraph
    BY <1>1 DEF Load, ReadLine, ReadSection, SkipLine, ReadFields, HasGraph
  <2>2. DOMAIN dist = {} /\ source = "none" /\ UNCHANGED searchVars
    BY <1>1, <2>1 DEF Load, SearchInv, SourceInv
  <2> QED
    BY <2>2 DEF TreeInv, searchVars
<1>2. CASE Search
  <2>1. PICK s \in Places(Paths) : Start(s)
    BY <1>2 DEF Search
  <2>2. Paths' = Paths
    BY <1>2 DEF Search, loaderVars, Paths
  <2>3. source' = s /\ dist' = [r \in {s} |-> 0] /\ heap' = {[region |-> s, cost |-> 0]}
    BY <2>1 DEF Start
  <2>4. Popped' = {} /\ ~Settled(s)'
    BY <2>3 DEF Popped, Settled
  <2>5. WalkIn(Paths, s, 0, s, 0) /\ 0 <= Cardinality({})
    BY <2>1, EmptyWalk, FS_EmptySet
  <2> QED
    BY <2>1, <2>2, <2>3, <2>4, <2>5 DEF TreeInv
<1>3. CASE SearchOn /\ PopStale
  <2>1. UNCHANGED <<Paths, source, dist>>
    BY <1>3 DEF SearchOn, PopStale, loaderVars, Paths
  <2>2. PICK item \in heap : item.cost > dist[item.region] /\ heap' = heap \ {item}
    BY <1>3 DEF PopStale
  <2>3. ASSUME NEW r \in DOMAIN dist
        PROVE  Settled(r)' <=> Settled(r)
    <3>1. [region |-> r, cost |-> dist[r]] # item
      BY <2>2 DEF SearchInv, CostsType, HeapInv
    <3> QED
      BY <2>1, <2>2, <3>1 DEF Settled
  <2>4. Popped' = Popped
    BY <2>1, <2>3 DEF Popped
  <2> QED
    BY <2>1, <2>3, <2>4 DEF TreeInv
<1>4. CASE SearchOn /\ PopFresh(Paths)
  BY <1>4, FreshTreeInv
<1>5. CASE UNCHANGED vars
  <2>1. UNCHANGED <<Paths, source, dist, heap>>
    BY <1>5 DEF vars, loaderVars, searchVars, Paths
  <2>2. Popped' = Popped /\ \A r \in DOMAIN dist : Settled(r)' <=> Settled(r)
    BY <2>1 DEF Popped, Settled
  <2> QED
    BY <2>1, <2>2 DEF TreeInv
<1> QED
  BY <1>1, <1>2, <1>3, <1>4, <1>5 DEF Next, SearchOn, Pop

-----------------------------------------------------------------------------
(* What a search has found when it is over.                                *)

\* When a search is over no walk is cheaper than what it has found: along a walk each
\* region is settled, and its edge has been looked at.
LEMMA NoWalkIsCheaper ==
    ASSUME SearchInv, CostsOK, Searched, NEW r, NEW k \in Nat, WalkTo(Paths, source, r, k)
    PROVE  r \in DOMAIN dist /\ dist[r] <= k
<1>0. PICK n \in Nat : WalkIn(Paths, source, n, r, k)
  BY DEF WalkTo
<1>1. PICK w, c : IsWalk(Paths, source, n, w, c) /\ w[n] = r /\ c[n] = k
  BY <1>0 DEF WalkIn
<1>2. \A a \in DOMAIN dist : /\ dist[a] \in Nat
                             /\ \A e \in Neighbors(Paths, a) :
                                  e.to \in DOMAIN dist /\ dist[e.to] <= dist[a] + e.cost
  BY DEF Searched, SearchInv, CostsType, SettledInv, Settled
<1>3. source \in DOMAIN dist /\ dist[source] = 0
  BY DEF Searched, SearchInv, SourceInv
<1> DEFINE S == {i \in Nat : i <= n => w[i] \in DOMAIN dist /\ dist[w[i]] <= c[i]}
<1>4. 0 \in S
  BY <1>1, <1>3 DEF IsWalk
<1>5. ASSUME NEW i \in S
      PROVE  i + 1 \in S
  <2> SUFFICES ASSUME i + 1 <= n
               PROVE  w[i + 1] \in DOMAIN dist /\ dist[w[i + 1]] <= c[i + 1]
    OBVIOUS
  <2>1. i \in Nat /\ i <= n /\ i + 1 \in 1..n /\ (i + 1) - 1 = i /\ i \in 0..n
    OBVIOUS
  <2>2. w[i] \in DOMAIN dist /\ dist[w[i]] <= c[i] /\ c[i] \in Nat
    BY <1>1, <2>1 DEF IsWalk
  <2>3. PICK e \in Neighbors(Paths, w[(i + 1) - 1]) :
          e.to = w[i + 1] /\ c[i + 1] = c[(i + 1) - 1] + e.cost
    BY <1>1, <2>1 DEF IsWalk
  <2>4. e \in Neighbors(Paths, w[i]) /\ c[i + 1] = c[i] + e.cost /\ e.cost \in Nat
    BY <2>1, <2>3, EdgeCost
  <2>5. w[i + 1] \in DOMAIN dist /\ dist[w[i + 1]] <= dist[w[i]] + e.cost
    BY <1>2, <2>2, <2>3, <2>4
  <2>6. dist[w[i + 1]] \in Nat /\ dist[w[i]] \in Nat
    BY <1>2, <2>2, <2>5
  <2> QED
    BY <2>2, <2>4, <2>5, <2>6
<1> HIDE DEF S
<1>6. S \in SUBSET Nat
  BY DEF S
<1>7. S = Nat
  BY <1>4, <1>5, <1>6, AllNumbers
<1> QED
  BY <1>1, <1>7 DEF S

\* When a search is over, the cost of a region is the least among those of the walks to it
\* with at most as many edges as there are regions.
LEMMA CostsOfWalks ==
    ASSUME SearchInv, CostsOK, FiniteMap, TreeInv, Searched, NEW r
    PROVE  LET costs == WalkCosts(source, r) IN
           /\ costs \in SUBSET Nat
           /\ \A c \in costs : r \in DOMAIN dist /\ dist[r] <= c
           /\ r \in DOMAIN dist => dist[r] \in costs
<1> DEFINE N == Cardinality(Places(Paths))
           costs == WalkCosts(source, r)
<1>1. source \in Places(Paths) /\ IsFiniteSet(Places(Paths)) /\ N \in Nat
  BY FinitePlaces, FS_CardinalityType DEF TreeInv, Searched, FiniteMap
<1>2. \A k : k \in costs <=> \E n \in 0..N : \E x : x \in Walks(Paths, source, n) /\ x.to = r /\ x.cost = k
  BY DEF WalkCosts
<1> HIDE DEF N, costs
<1>3. \A k : k \in costs <=> \E n \in 0..N : k \in Nat /\ WalkIn(Paths, source, n, r, k)
  <2> TAKE k
  <2>1. ASSUME k \in costs
        PROVE  \E n \in 0..N : k \in Nat /\ WalkIn(Paths, source, n, r, k)
    <3>1. PICK n \in 0..N : \E x : x \in Walks(Paths, source, n) /\ x.to = r /\ x.cost = k
      BY <1>2, <2>1
    <3>2. PICK x : x \in Walks(Paths, source, n) /\ x.to = r /\ x.cost = k
      BY <3>1
    <3>3. n \in Nat
      BY <1>1, <3>1
    <3>4. \E q, j : x = [to |-> q, cost |-> j] /\ j \in Nat /\ WalkIn(Paths, source, n, q, j)
      BY <1>1, <3>2, <3>3, WalksAreWalks
    <3> QED
      BY <3>2, <3>4
  <2>2. ASSUME NEW n \in 0..N, k \in Nat, WalkIn(Paths, source, n, r, k)
        PROVE  k \in costs
    <3>1. n \in Nat
      BY <1>1
    <3> DEFINE x == [to |-> r, cost |-> k]
    <3>2. x \in Walks(Paths, source, n)
      BY <1>1, <2>2, <3>1, WalksAreWalks
    <3> QED
      BY <1>2, <3>2
  <2> QED
    BY <2>1, <2>2
<1>4. ASSUME NEW k \in costs
      PROVE  r \in DOMAIN dist /\ dist[r] <= k
  <2>1. PICK n \in 0..N : k \in Nat /\ WalkIn(Paths, source, n, r, k)
    BY <1>3
  <2>2. n \in Nat
    BY <1>1
  <2>3. WalkTo(Paths, source, r, k)
    BY <2>1, <2>2 DEF WalkTo, WalkIn
  <2> QED
    BY <2>1, <2>3, NoWalkIsCheaper
<1>5. ASSUME r \in DOMAIN dist
      PROVE  dist[r] \in costs
  <2>1. PICK n \in Nat : WalkIn(Paths, source, n, r, dist[r]) /\ n <= Cardinality(Popped)
    <3>1. PICK n \in Nat : /\ WalkIn(Paths, source, n, r, dist[r])
                           /\ IF Settled(r) THEN n < Cardinality(Popped) ELSE n <= Cardinality(Popped)
      BY <1>5 DEF TreeInv
    <3>2. Settled(r)
      BY DEF Settled, Searched
    <3>3. Popped \subseteq Places(Paths)
      BY DEF Popped, TreeInv
    <3>4. Cardinality(Popped) \in Nat
      BY <1>1, <3>3, FS_Subset, FS_CardinalityType
    <3> QED
      BY <3>1, <3>2, <3>4
  <2>2. Popped \subseteq Places(Paths)
    BY DEF Popped, TreeInv
  <2>3. Cardinality(Popped) \in Nat /\ Cardinality(Popped) <= N
    BY <1>1, <2>2, FS_Subset, FS_CardinalityType DEF N
  <2>4. n \in 0..N
    BY <1>1, <2>1, <2>3
  <2>5. dist[r] \in Nat
    BY <1>5 DEF SearchInv, CostsType
  <2> QED
    BY <1>3, <2>1, <2>4, <2>5
<1>6. costs \in SUBSET Nat
  BY <1>3
<1> QED
  BY <1>4, <1>5, <1>6 DEF costs

LEMMA LeastNow == SearchInv /\ CostsOK /\ FiniteMap /\ TreeInv => DistancesAreLeast
<1> SUFFICES ASSUME SearchInv, CostsOK, FiniteMap, TreeInv, Searched, NEW r \in Places(Paths)
             PROVE  LET costs == WalkCosts(source, r) IN
                    IF costs = {} THEN ShortestPath(r) = Unreachable
                    ELSE ShortestPath(r) \in costs /\ \A c \in costs : ShortestPath(r) <= c
  BY DEF DistancesAreLeast
<1> DEFINE costs == WalkCosts(source, r)
<1>1. /\ \A c \in costs : r \in DOMAIN dist /\ dist[r] <= c
      /\ r \in DOMAIN dist => dist[r] \in costs
  BY CostsOfWalks
<1> HIDE DEF costs
<1>2. CASE r \in DOMAIN dist
  BY <1>1, <1>2 DEF ShortestPath, costs
<1>3. CASE r \notin DOMAIN dist
  BY <1>1, <1>3 DEF ShortestPath, costs
<1> QED
  BY <1>2, <1>3

LEMMA InterceptsNow == SearchInv /\ CostsOK /\ FiniteMap /\ TreeInv => InterceptsAreReachable
<1> SUFFICES ASSUME SearchInv, CostsOK, FiniteMap, TreeInv, Searched, NEW r \in Places(Paths),
                    NEW length \in 1..RouteLength, NEW rb \in 1..length
             PROVE  ComputeIntercept(ShortestPath(r), rb, length) > 0
                      <=> \E c \in WalkCosts(source, r) : c <= rb /\ c < length
  BY DEF InterceptsAreReachable
<1> DEFINE costs == WalkCosts(source, r)
           turns == ShortestPath(r)
<1>1. /\ costs \in SUBSET Nat
      /\ \A c \in costs : r \in DOMAIN dist /\ dist[r] <= c
      /\ r \in DOMAIN dist => dist[r] \in costs
  BY CostsOfWalks
<1>2. length \in Nat /\ rb \in Nat /\ length <= Unreachable /\ Unreachable \in Nat
  BY LengthAssumption
<1> HIDE DEF costs
<1>3. turns \in Nat
  BY <1>1, <1>2 DEF ShortestPath
<1>4. ComputeIntercept(turns, rb, length) > 0 <=> turns <= rb /\ turns < length
  <2> HIDE DEF turns
  <2> QED
    BY <1>2, <1>3 DEF ComputeIntercept
<1>5. CASE r \in DOMAIN dist
  <2>1. turns \in costs /\ \A c \in costs : turns <= c
    BY <1>1, <1>5 DEF ShortestPath
  <2> HIDE DEF turns
  <2>2. \A c \in costs : c \in Nat
    BY <1>1
  <2> QED
    BY <1>2, <1>3, <1>4, <2>1, <2>2 DEF turns, costs
<1>6. CASE r \notin DOMAIN dist
  <2>1. turns = Unreachable /\ costs = {}
    BY <1>1, <1>6 DEF ShortestPath
  <2> HIDE DEF turns
  <2> QED
    BY <1>2, <1>4, <2>1 DEF turns, costs
<1> QED
  BY <1>5, <1>6

-----------------------------------------------------------------------------
(* The risk of a route.                                                    *)

\* The table of the sums of w up to n.
SumTable(w, n, f) == f = [k \in 0..n |-> IF k = 0 THEN 0 ELSE f[k - 1] + w[k]]

\* There is such a table for every n.
LEMMA SumTableExists ==
    ASSUME NEW w, NEW n \in Nat
    PROVE  \E f : SumTable(w, n, f)
<1> DEFINE S == {m \in Nat : \E f : SumTable(w, m, f)}
<1>1. 0 \in S
  <2> DEFINE f == [k \in 0..0 |-> 0]
  <2>1. SumTable(w, 0, f)
    BY DEF SumTable
  <2> QED
    BY <2>1
<1>2. ASSUME NEW m \in S
      PROVE  m + 1 \in S
  <2>1. PICK f : SumTable(w, m, f)
    OBVIOUS
  <2> DEFINE g == [k \in 0..(m + 1) |-> IF k = m + 1 THEN f[m] + w[k] ELSE f[k]]
             h == [k \in 0..(m + 1) |-> IF k = 0 THEN 0 ELSE g[k - 1] + w[k]]
  <2>2. \A k \in 0..m : f[k] = IF k = 0 THEN 0 ELSE f[k - 1] + w[k]
    BY <2>1 DEF SumTable
  <2>3. ASSUME NEW k \in 0..(m + 1)
        PROVE  g[k] = h[k]
    <3>1. CASE k = m + 1
      <4>1. k # 0 /\ k - 1 = m /\ m \in 0..(m + 1) /\ m # m + 1
        BY <3>1
      <4>2. g[k] = f[m] + w[k] /\ g[k - 1] = f[m]
        BY <3>1, <4>1
      <4> QED
        BY <4>1, <4>2
    <3>2. CASE k # m + 1
      <4>1. k \in 0..m /\ (k # 0 => k - 1 \in 0..(m + 1) /\ k - 1 # m + 1)
        BY <3>2
      <4>2. g[k] = f[k] /\ (k # 0 => g[k - 1] = f[k - 1])
        BY <3>2, <4>1
      <4> QED
        BY <2>2, <4>1, <4>2
    <3> QED
      BY <3>1, <3>2
  <2>4. g = h
    BY <2>3
  <2>5. SumTable(w, m + 1, g)
    BY <2>4 DEF SumTable
  <2> QED
    BY <2>5
<1> HIDE DEF S
<1>3. S = Nat
  <2>1. S \in SUBSET Nat
    BY DEF S
  <2> QED
    BY <1>1, <1>2, <2>1, AllNumbers
<1> QED
  BY <1>3 DEF S

\* Total is read off such a table.
LEMMA TotalUnfolds ==
    ASSUME NEW w, NEW n \in Nat
    PROVE  \E f : SumTable(w, n, f) /\ Total(w, n) = f[n]
<1> DEFINE F == CHOOSE f : SumTable(w, n, f)
<1>1. SumTable(w, n, F)
  BY SumTableExists
<1>2. Total(w, n) = F[n]
  BY DEF Total, SumTable
<1> QED
  BY <1>1, <1>2

\* One more place is counted if it is in the set.
LEMMA CountOn ==
    ASSUME NEW B, NEW k \in Nat
    PROVE  /\ Cardinality(B \cap (1..k)) \in Nat
           /\ Cardinality(B \cap (1..(k + 1)))
                = Cardinality(B \cap (1..k)) + (IF k + 1 \in B THEN 1 ELSE 0)
<1> DEFINE A == B \cap (1..k)
<1>1. IsFiniteSet(A)
  <2>1. IsFiniteSet(1..k)
    BY FS_Interval
  <2> QED
    BY <2>1, FS_Subset
<1>2. k + 1 \notin A
  OBVIOUS
<1>3. B \cap (1..(k + 1)) = IF k + 1 \in B THEN A \cup {k + 1} ELSE A
  OBVIOUS
<1> HIDE DEF A
<1>4. Cardinality(A) \in Nat /\ Cardinality(A \cup {k + 1}) = Cardinality(A) + 1
  BY <1>1, <1>2, FS_AddElement, FS_CardinalityType
<1> QED
  BY <1>3, <1>4 DEF A

\* The risk w of each place comes from the surveillance v there, and from the place being
\* blocked or threatened.
Weighed(n, w, v, B, T) ==
    \A i \in 1..n : /\ v[i] \in Nat
                    /\ w[i] = v[i] * 3 + (IF i \in B THEN 5 ELSE 0) + (IF i \in T THEN 2 ELSE 0)

\* What the loop adds up is three for each surveillance, five for each blocked path and
\* two for each threatened one.
LEMMA LoopSum ==
    ASSUME NEW n \in Nat, NEW w, NEW v, NEW B, NEW T, Weighed(n, w, v, B, T)
    PROVE  Total(w, n) = Total(v, n) * 3 + Cardinality(B \cap (1..n)) * 5 + Cardinality(T \cap (1..n)) * 2
<1>1. PICK f : SumTable(w, n, f) /\ Total(w, n) = f[n]
  BY TotalUnfolds
<1>2. PICK g : SumTable(v, n, g) /\ Total(v, n) = g[n]
  BY TotalUnfolds
<1>3. f[0] = 0 /\ g[0] = 0
  BY <1>1, <1>2 DEF SumTable
<1>4. \A k \in 0..n : k # 0 => f[k] = f[k - 1] + w[k] /\ g[k] = g[k - 1] + v[k]
  BY <1>1, <1>2 DEF SumTable
<1> DEFINE Right(k) == /\ g[k] \in Nat
                       /\ f[k] = g[k] * 3 + Cardinality(B \cap (1..k)) * 5 + Cardinality(T \cap (1..k)) * 2
           S == {k \in Nat : k <= n => Right(k)}
<1>5. Right(0)
  <2>1. B \cap (1..0) = {} /\ T \cap (1..0) = {}
    OBVIOUS
  <2> QED
    BY <1>3, <2>1, FS_EmptySet
<1>6. ASSUME NEW k \in Nat, k + 1 <= n, Right(k)
      PROVE  Right(k + 1)
  <2>1. k + 1 \in 0..n /\ k + 1 # 0 /\ (k + 1) - 1 = k /\ k + 1 \in 1..n
    BY <1>6
  <2>2. /\ f[k + 1] = f[k] + w[k + 1] /\ g[k + 1] = g[k] + v[k + 1] /\ v[k + 1] \in Nat
        /\ w[k + 1] = v[k + 1] * 3 + (IF k + 1 \in B THEN 5 ELSE 0) + (IF k + 1 \in T THEN 2 ELSE 0)
    BY <1>4, <2>1 DEF Weighed
  <2>3. /\ Cardinality(B \cap (1..k)) \in Nat /\ Cardinality(T \cap (1..k)) \in Nat
        /\ Cardinality(B \cap (1..(k + 1)))
             = Cardinality(B \cap (1..k)) + (IF k + 1 \in B THEN 1 ELSE 0)
        /\ Cardinality(T \cap (1..(k + 1)))
             = Cardinality(T \cap (1..k)) + (IF k + 1 \in T THEN 1 ELSE 0)
    BY CountOn
  <2> QED
    BY <1>6, <2>2, <2>3
<1> HIDE DEF Right
<1>7. S = Nat
  <2>1. 0 \in S /\ S \in SUBSET Nat
    BY <1>5
  <2>2. ASSUME NEW k \in S
        PROVE  k + 1 \in S
    <3>1. k + 1 <= n => k <= n
      OBVIOUS
    <3> QED
      BY <1>6, <3>1
  <2> HIDE DEF S
  <2> QED
    BY <2>1, <2>2, AllNumbers
<1>8. Right(n)
  BY <1>7
<1> QED
  BY <1>1, <1>2, <1>8 DEF Right

\* A search of two rounds goes two paths far.
LEMMA TwoRounds ==
    ASSUME NEW P, NEW a
    PROVE  /\ Visited(P, a, 0) = {a}
           /\ Visited(P, a, 1) \subseteq Visited(P, a, 2)
           /\ \A b \in Visited(P, a, 2) : b = a \/ b \in Places(P)
<1> DEFINE Ball(A) == A \cup {e.to : e \in UNION {Neighbors(P, c) : c \in A}}
           Table(n, f) == f = [k \in 0..n |-> IF k = 0 THEN {a} ELSE Ball(f[k - 1])]
           T(n) == CHOOSE f : Table(n, f)
<1>1. \A n : Visited(P, a, n) = T(n)[n]
  BY DEF Visited
<1>2. Table(0, [k \in 0..0 |-> {a}])
  OBVIOUS
<1>3. Table(1, [k \in 0..1 |-> IF k = 0 THEN {a} ELSE Ball({a})])
  OBVIOUS
<1>4. Table(2, [k \in 0..2 |-> IF k = 0 THEN {a} ELSE IF k = 1 THEN Ball({a}) ELSE Ball(Ball({a}))])
  OBVIOUS
<1>5. Table(0, T(0)) /\ Table(1, T(1)) /\ Table(2, T(2))
  BY <1>2, <1>3, <1>4
<1> HIDE DEF T, Ball
<1>6. T(0)[0] = {a} /\ T(1)[1] = Ball({a}) /\ T(2)[2] = Ball(Ball({a}))
  BY <1>5
<1>7. \A A : \A b \in Ball(A) : b \in A \/ b \in Places(P)
  <2>1. \A c : \A e \in Neighbors(P, c) : e.to \in Places(P)
    BY DEF Neighbors, Places
  <2> QED
    BY <2>1 DEF Ball
<1>8. \A A : A \subseteq Ball(A)
  BY DEF Ball
<1> HIDE DEF Ball
<1> QED
  BY <1>1, <1>6, <1>7, <1>8

\* The least number in a set of numbers.
LEMMA LeastIs ==
    ASSUME NEW S \in SUBSET Nat, NEW n \in S, \A m \in S : n <= m
    PROVE  (CHOOSE k \in S : \A m \in S : k <= m) = n
<1>1. ASSUME NEW k \in S, \A m \in S : k <= m
      PROVE  k = n
  <2>1. k <= n /\ n <= k /\ k \in Nat /\ n \in Nat
    BY <1>1
  <2> QED
    BY <2>1
<1>2. \E k \in S : \A m \in S : k <= m
  OBVIOUS
<1> QED
  BY <1>1, <1>2

\* A region is one or two hops away when two rounds of the search find it, and it is not
\* where the search begins.
LEMMA TwoHops ==
    ASSUME NEW P, IsFiniteSet(DOMAIN P), NEW a \in Places(P), NEW b
    PROVE  b \in BFSWithinHops(P, a, 2) <=> BFSDistance(P, a, b) \in {1, 2}
<1> DEFINE N == Cardinality(Places(P))
           rounds == {n \in 0..N : b \in Visited(P, a, n)}
<1>1. N \in Nat /\ IsFiniteSet(Places(P))
  BY FinitePlaces, FS_CardinalityType
<1>2. rounds \in SUBSET Nat
  BY <1>1
<1>3. BFSDistance(P, a, b) = IF rounds = {} THEN Unreachable
                             ELSE CHOOSE n \in rounds : \A m \in rounds : n <= m
  BY DEF BFSDistance
<1>4. \A n : n \in rounds <=> n \in 0..N /\ b \in Visited(P, a, n)
  OBVIOUS
<1> HIDE DEF rounds
<1>5. CASE b = a
  <2>1. 0 \in rounds
    BY <1>1, <1>4, <1>5, TwoRounds
  <2>2. BFSDistance(P, a, b) = 0
    BY <1>2, <1>3, <2>1, LeastIs
  <2> QED
    BY <1>5, <2>2 DEF BFSWithinHops
<1>6. CASE b # a /\ b \in Visited(P, a, 2)
  <2>1. N >= 2
    <3>1. {a, b} \subseteq Places(P)
      BY <1>6, TwoRounds
    <3>2. Cardinality({a, b}) = 2 /\ IsFiniteSet({a, b})
      <4>1. IsFiniteSet({a}) /\ Cardinality({a}) = 1
        BY FS_Singleton
      <4>2. {a, b} = {a} \cup {b} /\ b \notin {a}
        BY <1>6
      <4>3. IsFiniteSet({a} \cup {b}) /\ Cardinality({a} \cup {b}) = Cardinality({a}) + 1
        BY <4>1, <4>2, FS_AddElement
      <4> QED
        BY <4>1, <4>2, <4>3
    <3> QED
      BY <1>1, <3>1, <3>2, FS_Subset
  <2>2. 2 \in rounds /\ 0 \notin rounds
    BY <1>1, <1>4, <1>6, <2>1, TwoRounds
  <2>3. PICK n \in rounds : \A m \in rounds : n <= m
    BY <1>2, <2>2, LeastNumber
  <2>4. BFSDistance(P, a, b) = n
    BY <1>2, <1>3, <2>3, LeastIs
  <2>5. n \in {1, 2}
    BY <1>2, <2>2, <2>3
  <2> QED
    BY <1>6, <2>4, <2>5 DEF BFSWithinHops
<1>7. CASE b # a /\ b \notin Visited(P, a, 2)
  <2>1. 1 \notin rounds /\ 2 \notin rounds
    BY <1>4, <1>7, TwoRounds
  <2>2. BFSDistance(P, a, b) \in rounds \/ BFSDistance(P, a, b) = Unreachable
    BY <1>2, <1>3, LeastNumber
  <2>3. Unreachable \notin {1, 2}
    BY LengthAssumption
  <2> QED
    BY <1>7, <2>1, <2>2, <2>3 DEF BFSWithinHops
<1> QED
  BY <1>5, <1>6, <1>7

\* How often the code counts Nazgul is one of the numbers the property allows: they are
\* pairs with Nazgul one or two hops from where a path leads to, so that there is one
\* where there must be one, and no more than the region sets have pairs.
LEMMA CountAllowed ==
    ASSUME IsFiniteSet(DOMAIN Paths), NEW route, NEW s, IsFiniteSet(s.nazgul)
    PROVE  Cardinality(NazgulAt(route, s, {"to"}, {1, 2})) \in NazgulCounts(route, s)
<1> DEFINE near == NazgulAt(route, s, {"to"}, {1, 2})
           all  == NazgulAt(route, s, {"from", "to"}, {0, 1, 2})
           at   == {i \in DOMAIN route : route[i] \in DOMAIN Paths}
           ends == {Paths[route[i]][e] : i \in at, e \in {"from", "to"}}
<1>1. near \in SUBSET all /\ all \in SUBSET (ends \X s.nazgul)
  BY DEF NazgulAt
<1>2. IsFiniteSet(all)
  <2>1. ends \in SUBSET Places(Paths)
    BY DEF Places
  <2> HIDE DEF ends, all
  <2>2. IsFiniteSet(ends)
    BY <2>1, FinitePlaces, FS_Subset
  <2>3. IsFiniteSet(ends \X s.nazgul)
    BY <2>2, FS_Product
  <2> QED
    BY <1>1, <2>3, FS_Subset
<1> HIDE DEF near, all
<1>3. /\ IsFiniteSet(near) /\ Cardinality(near) \in Nat /\ Cardinality(all) \in Nat
      /\ Cardinality(near) <= Cardinality(all)
  BY <1>1, <1>2, FS_Subset, FS_CardinalityType
<1>4. near # {} => Cardinality(near) # 0
  BY <1>3, FS_EmptySet
<1>5. NazgulCounts(route, s) = (IF near = {} THEN 0 ELSE 1)..Cardinality(all)
  BY DEF NazgulCounts, near, all
<1>6. (IF near = {} THEN 0 ELSE 1) \in Nat /\ (IF near = {} THEN 0 ELSE 1) <= Cardinality(near)
  BY <1>3, <1>4
<1>7. Cardinality(near) \in (IF near = {} THEN 0 ELSE 1)..Cardinality(all)
  BY <1>3, <1>6
<1> QED
  BY <1>5, <1>7 DEF near

LEMMA RiskNow ==
    ASSUME IsFiniteSet(DOMAIN Paths), NEW route \in Routes, NEW s \in Worlds
    PROVE  ComputeRouteRisk(Paths, route, s)
             = RiskBesidesNazgul(route, s) + Cardinality(NazgulAt(route, s, {"to"}, {1, 2})) * 2
<1> DEFINE n == Len(route)
           at == KnownOn(Paths, route)
           w == [i \in DOMAIN route |-> IF i \in at THEN PathRisk(route[i], s) ELSE 0]
           v == [i \in DOMAIN route |-> IF i \in at THEN s.surveillance[route[i]] ELSE 0]
           B == {i \in at : s.status[route[i]] = "BLOCKED"}
           T == {i \in at : s.status[route[i]] = "THREATENED"}
           regions == RegionsOn(Paths, route)
           near == {pair \in regions \X s.nazgul : BFSDistance(Paths, pair[1], pair[2]) \in {1, 2}}
<1>1. /\ n \in Nat /\ DOMAIN route = 1..n
      /\ \A p \in DOMAIN s.surveillance : s.surveillance[p] \in Nat
      /\ DOMAIN s.surveillance = DOMAIN Paths
  BY RiskAssumption DEF Worlds
<1>2. at \in SUBSET (1..n) /\ \A i \in at : route[i] \in DOMAIN Paths
  BY <1>1 DEF KnownOn
<1>3. \A i \in at : s.surveillance[route[i]] \in Nat
  BY <1>1, <1>2
<1> HIDE DEF at
<1>4. Weighed(n, w, v, B, T)
  <2> SUFFICES ASSUME NEW i \in 1..n
               PROVE  /\ v[i] \in Nat
                      /\ w[i] = v[i] * 3 + (IF i \in B THEN 5 ELSE 0) + (IF i \in T THEN 2 ELSE 0)
    BY DEF Weighed
  <2>1. CASE i \notin at
    BY <1>1, <2>1
  <2>2. CASE i \in at
    <3>1. /\ i \in B <=> s.status[route[i]] = "BLOCKED"
          /\ i \in T <=> s.status[route[i]] = "THREATENED"
      BY <2>2
    <3>2. PathRisk(route[i], s) = s.surveillance[route[i]] * 3
            + (IF i \in B THEN 5 ELSE 0) + (IF i \in T THEN 2 ELSE 0)
      BY <1>3, <2>2, <3>1 DEF PathRisk
    <3> QED
      BY <1>1, <1>3, <2>2, <3>2
  <2> QED
    BY <2>1, <2>2
<1>5. B \cap (1..n) = B /\ T \cap (1..n) = T
  BY <1>2
<1> HIDE DEF w, v, B, T
<1>6. Total(w, n) = Total(v, n) * 3 + Cardinality(B) * 5 + Cardinality(T) * 2
  <2>1. n \in Nat
    BY <1>1
  <2> HIDE DEF n
  <2>2. Total(w, n) = Total(v, n) * 3 + Cardinality(B \cap (1..n)) * 5 + Cardinality(T \cap (1..n)) * 2
    BY <1>4, <2>1, LoopSum
  <2> QED
    BY <1>5, <2>2
<1>7. NazgulProximity(Paths, regions, s) = Cardinality(near)
  <2>1. \A r \in regions : r \in Places(Paths)
    BY <1>2 DEF RegionsOn, Places, at
  <2>2. near = {pair \in regions \X s.nazgul : pair[2] \in BFSWithinHops(Paths, pair[1], 2)}
    BY <2>1, TwoHops
  <2> QED
    BY <2>2 DEF NazgulProximity
<1> HIDE DEF n, regions, near
<1>8. ComputeRouteRisk(Paths, route, s) = Total(w, n) + ThreatOf(s, regions) + NazgulProximity(Paths, regions, s) * 2
  BY DEF ComputeRouteRisk, w, n, at, regions
<1>9. RiskBesidesNazgul(route, s)
        = Total(v, n) * 3 + Cardinality(B) * 5 + Cardinality(T) * 2 + ThreatOf(s, regions)
  BY DEF RiskBesidesNazgul, v, n, at, B, T, regions, KnownOn, RegionsOn
<1>10. NazgulAt(route, s, {"to"}, {1, 2}) = near
  <2>1. {Paths[route[i]][e] : i \in at, e \in {"to"}} = regions
    BY DEF regions, at, RegionsOn
  <2>2. NazgulAt(route, s, {"to"}, {1, 2})
          = {pair \in {Paths[route[i]][e] : i \in at, e \in {"to"}} \X s.nazgul :
               BFSDistance(Paths, pair[1], pair[2]) \in {1, 2}}
    BY DEF NazgulAt, at, KnownOn
  <2> QED
    BY <2>1, <2>2 DEF near
<1> QED
  BY <1>6, <1>7, <1>8, <1>9, <1>10

LEMMA LoadedMap == LoaderInv => FiniteMap
BY DEF LoaderInv, FiniteMap, PathsOf, Paths

\* Dijkstra is right: when a search over a loaded map ends, every region has the cost
\* of a cheapest walk to it, and those without a cost cannot be walked to
\* (Dijkstra, ShortestPath).
THEOREM DijkstraCorrect == Spec => []LeastWalksFound
<1>1. SearchInv /\ CostsOK /\ TreeInv => LeastWalksFound
  BY NoWalkIsCheaper DEF LeastWalksFound, TreeInv, WalkTo
<1>2. SearchInv /\ CostsOK /\ [Next]_vars => SearchInv'
  BY NextSearchInv
<1> QED
  BY <1>1, <1>2, InitLoaderInv, NextLoaderInv, LoadedCosts, LoadedMap, InitSearchInv,
     InitTreeInv, NextTreeInv, PTL DEF Spec

\* The costs a search ends with are those of the cheapest among the walks Walks lists, and
\* a region no walk leads to has none, on every map that can be loaded (ShortestPath).
THEOREM DistancesCorrect == Spec => []DistancesAreLeast
<1>1. SearchInv /\ CostsOK /\ [Next]_vars => SearchInv'
  BY NextSearchInv
<1> QED
  BY <1>1, LeastNow, InitLoaderInv, NextLoaderInv, LoadedCosts, LoadedMap, InitSearchInv, InitTreeInv,
     NextTreeInv, PTL DEF Spec

\* A Nazgul scores at a region exactly when a walk takes it there in time, on every map
\* that can be loaded and for routes of every length below Unreachable (ComputeIntercept).
THEOREM InterceptsCorrect == Spec => []InterceptsAreReachable
<1>1. SearchInv /\ CostsOK /\ [Next]_vars => SearchInv'
  BY NextSearchInv
<1> QED
  BY <1>1, InterceptsNow, InitLoaderInv, NextLoaderInv, LoadedCosts, LoadedMap, InitSearchInv, InitTreeInv,
     NextTreeInv, PTL DEF Spec

\* The loop over a route comes to the terms of its formula, for every route, world and
\* loaded map, and Nazgul count within the bounds that its comment, its test and the
\* code agree on (ComputeRouteRisk, countNazgulProximity).
THEOREM RiskCorrect == Spec => []RiskIsExplained
<1>1. FiniteMap => RiskIsExplained
  <2> SUFFICES ASSUME IsFiniteSet(DOMAIN Paths), NEW route \in Routes, NEW s \in Worlds
               PROVE  \E n \in NazgulCounts(route, s) :
                        ComputeRouteRisk(Paths, route, s) = RiskBesidesNazgul(route, s) + n * 2
    BY DEF FiniteMap, RiskIsExplained
  <2>1. IsFiniteSet(s.nazgul)
    BY RiskAssumption DEF Worlds
  <2> QED
    BY <2>1, CountAllowed, RiskNow
<1> QED
  BY <1>1, InitLoaderInv, NextLoaderInv, LoadedMap, PTL DEF Spec

=============================================================================
