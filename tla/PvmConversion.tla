--------------------------- MODULE PvmConversion ----------------------------
(***************************************************************************)
(* The migration of PvmMigration over what the scanner and the scaffold of *)
(* PvmScan make of the legacy sources, and what a scaffold promises.       *)
(***************************************************************************)
EXTENDS PvmMigration, PvmScan

CONSTANTS
  Trees,          \* the versions of the legacy sources
  Changed(_, _)   \* the file each of Changes leaves of a scaffold

\* A report is known by what was scanned, the version and the number of the
\* selection; of the scans with one result the same one stands for all.
Found ==
  TableOf([k \in (DOMAIN Trees) \X (DOMAIN Selections) |-> Scan(Trees[k[1]], Selections[k[2]])])

FirstLike(found) ==
  TableOf([k \in DOMAIN found |->
             IF found[k] = <<>> THEN <<>> ELSE CHOOSE j \in DOMAIN found : found[j] = found[k]])

Named == FirstLike(Found)

\* What convert makes of a report.
ReportOf(report, selection) ==
  [report |-> report, selection |-> selection, items |-> ReviewItems(report),
   suggested |-> Suggested(report), scaffold |-> Scaffold(report)]

ReportsOf(found) ==
  TableOf([r \in Range(FirstLike(found)) \ {<<>>} |-> ReportOf(found[r][1], r[2])])

Converted == ReportsOf(Found)

\* What is on disk of a module source: its text, and what it says if it is JSON.
\* A "foreign" text is JSON of another shape, on which the compiler fails in a way
\* verify does not catch.
ModuleFile(text, source) == [text |-> text, source |-> source]

Binding(source) == <<source.module.application, source.module.channel, source.delivery.platform,
                     source.delivery.profile>>

\* With the verdicts of lint and of the compiler, if it can be read.
Judged(file) ==
  LET parsed == file.text \in {"canonical", "loose"}
  IN  [text         |-> file.text,
       source       |-> file.source,
       linted       |-> parsed /\ Linted(file.source),
       built        |-> parsed /\ Build(file.source, 5) # <<>>,
       capabilities |-> Capabilities(file.source),
       binding      |-> Binding(file.source),
       release      |-> file.source.module.release]

ModulesOf(reports) ==
  TableOf([m \in {r \in DOMAIN reports : reports[r].scaffold # <<>>} \X Changes |->
             Judged(Changed(m[2], reports[m[1]].scaffold[1]))])

Written == ModulesOf(Converted)

\* The protocol is that of these reports and these modules.
ASSUME ConversionAssumption ==
  /\ Versions = DOMAIN Trees
  /\ Scans = Named /\ Reports = Converted /\ Modules = Written

\* Files, declarations and states are found in an order.
IsList(s) == s \in Seq(ToSet(s))

IsTree(tree) ==
  /\ IsList(tree)
  /\ \A f \in ToSet(tree) :
       /\ IsList(f.whole.states) /\ IsList(f.declarations)
       /\ \A d \in ToSet(f.declarations) : IsList(d.states)

ASSUME TreesAssumption ==
  /\ IsList(IdOrder) /\ \A t \in DOMAIN Trees : IsTree(Trees[t])
  /\ \A scaffold \in {Reports[r].scaffold : r \in DOMAIN Reports} :
       scaffold # <<>> => Changed("scaffold", scaffold[1]).source = scaffold[1]

\* Two numbers make two names of one.
Numberable(wanted) ==
  \A i \in DOMAIN wanted : \A j, k \in DOMAIN wanted :
    Numbered(wanted[i], j) = Numbered(wanted[i], k) => j = k

ASSUME NumberAssumption ==
  \A r \in DOMAIN Reports :
    /\ Numberable(PagesWanted(Reports[r].report))
    /\ Numberable(StatesWanted(Reports[r].report))

-----------------------------------------------------------------------------
\* The scaffold loses none of the states that were found, and merges no two: each
\* has a slot of its own, of its type, that its own page shows.
ShownName(source, report, p) ==
  LET page == source.pages[PageNamesOf(report)[p[1]]]
  IN  page[p[2] + 2].props["text"][2].of

ScaffoldKeepsAll ==
  run.does = "convert" /\ DOMAIN out = {} =>
    LET report == Reports[Last(run.todo)[2][1]].report
        source == Modules[Last(run.todo)[2]].source
        places == ToSet(Places(report))
        Name(p) == ShownName(source, report, p)
    IN  /\ Cardinality(DOMAIN source.pages) = Len(report.units)
        /\ DOMAIN source.state = {Name(p) : p \in places}
        /\ Cardinality(DOMAIN source.state) = Cardinality(places)
        /\ \A p \in places : source.state[Name(p)].initial = StateAt(report, p).initial
=============================================================================
