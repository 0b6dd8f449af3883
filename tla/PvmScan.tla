------------------------------ MODULE PvmScan ------------------------------
(***************************************************************************)
(* The scanner and the scaffold of server/src/pvm_server/migrate.py: from  *)
(* a tree of legacy sources and a selection to a report of what the chosen *)
(* declarations hold, to the items a person has to review, and to a first  *)
(* source for the compiler.                                                *)
(*                                                                         *)
(* Lexing is data: a file comes with what the patterns of the scanner find *)
(* in it.  A tree is a sequence of files, in the order of their paths:     *)
(*   path, stem    : its path, and its name without the suffix             *)
(*   modules       : the directories it is in, as --module names them      *)
(*   kind          : "source", or why it is not scanned                    *)
(*   package       : a prefix for qualified names, or the empty string     *)
(*   sha           : the hash of its text                                  *)
(*   imports       : the capabilities its imports hint at                  *)
(*   declarations  : its declarations; the file as a whole if there is none*)
(*   whole         : what the file holds as a whole                        *)
(* A declaration has a name and a line, the names it mentions, its states, *)
(* and the hints found in it, each with the line of its first occurrence.  *)
(***************************************************************************)
EXTENDS PvmTooling, TLC

CONSTANTS
  IdOrder,        \* all ids of units, in the order Python sorts them
  Cleaned,        \* per name, the identifier _safe_name makes of it, or ""
  Lower,          \* per identifier, the same in lower case
  Sensitive,      \* names of states that look like credentials
  Target,         \* the arguments of convert: application, platform, profile, ...
  LeastNodes,     \* the least max_ui_nodes of a scaffold, ...
  NodesPerPage    \* ... and what a page adds to it

\* The same function, and the same sequence, worked out once and for all.
TableOf(f) == CHOOSE t \in {f} : t = f
ListOf(s)  == <<>> \o s

(***************************************************************************)
(* Files and units                                                         *)
(***************************************************************************)
Scanned(tree)     == Among(tree, {f \in ToSet(tree) : f.kind \in {"source", "binary"}})
Diagnostics(tree) ==
  {[path |-> f.path, reason |-> f.kind] : f \in {f \in ToSet(tree) : f.kind \in {"symlink", "large", "binary"}}}

Unit(f, name, line, qualified, text) ==
  [id |-> <<f.path, name, line>>, path |-> f.path, name |-> name, qualified |-> qualified,
   place |-> <<f.path, name>>, modules |-> f.modules, sha |-> f.sha, imports |-> f.imports,
   text |-> text]

UnitsOfFile(f) ==
  IF f.declarations = <<>> THEN <<Unit(f, f.stem, 1, f.stem, f.whole)>>
  ELSE [k \in DOMAIN f.declarations |->
          LET d == f.declarations[k]
          IN  Unit(f, d.name, d.line, f.package \o d.name, d)]

\* A file that is not UTF-8 counts as found, and has no units.
Units(tree) ==
  LET readable == Among(tree, {f \in ToSet(tree) : f.kind = "source"})
  IN  FlattenSeq([k \in DOMAIN readable |-> UnitsOfFile(readable[k])])

Bearing(units, name) == {u \in units : u.name = name}

\* A name that one unit bears is a dependency on it; a name that several bear is
\* left to the reviewer.
DependenciesOf(units, u) ==
  {v.id : v \in {v \in units : v.name \in u.text.names /\ Bearing(units, v.name) = {v} /\ v.id # u.id}}

AmbiguousOf(units, u) ==
  {[name |-> n, candidates |-> {v.id : v \in Bearing(units, n)}] :
     n \in {n \in u.text.names : 1 < Cardinality(Bearing(units, n))}}

(***************************************************************************)
(* The selection: classes by name, qualified name or place, whole modules, *)
(* everything when neither is given; then what these depend on, if asked.  *)
(***************************************************************************)
\* A selector with a colon is a place.  So is the id of a unit when it is used as
\* one, and then it matches nothing: its last part is no unit's name.
ChosenByClass(units, s) == {u \in units : s.by # "id" /\ u[s.by] = s.is}

ChosenByModule(units, m) == {u \in units : m \in u.modules}

ClassesHold(units, selection) ==
  \A s \in ToSet(selection.classes) : Cardinality(ChosenByClass(units, s)) = 1

ModulesHold(tree, selection) ==
  ToSet(selection.modules) \subseteq UNION {f.modules : f \in ToSet(tree)}

Chosen(units, selection) ==
  IF selection.classes = <<>> /\ selection.modules = <<>> THEN units
  ELSE (UNION {ChosenByClass(units, s) : s \in ToSet(selection.classes)})
         \cup (UNION {ChosenByModule(units, m) : m \in ToSet(selection.modules)})

\* As many rounds as there are units reach everything there is to reach.
Closed(units, chosen) ==
  LET Extended(before) ==
        before \cup {v \in units : \E u \in before : v.id \in DependenciesOf(units, u)}
      Round[n \in Nat] ==
        IF n = 0 THEN chosen ELSE UNION {Extended(before) : before \in {Round[n - 1]}}
  IN  Round[Cardinality(units)]

Selected(units, selection) ==
  IF selection.includeDependencies THEN Closed(units, Chosen(units, selection))
  ELSE Chosen(units, selection)

(***************************************************************************)
(* What is said of a selected unit                                         *)
(***************************************************************************)
\* A literal keeps its type; a text loses its content.  Anything else is a
\* text, if it is declared as one.
Parsed(s) ==
  CASE s.value = <<>> /\ s.type # "String" -> <<>>
    [] s.value = <<>>                      -> <<[initial |-> String(EmptyString), redacted |-> TRUE]>>
    [] s.value # <<>> /\ TypeOf(s.value[1]) = "String" ->
         <<[initial |-> String(EmptyString), redacted |-> s.value[1] # String(EmptyString)]>>
    [] OTHER                               -> <<[initial |-> s.value[1], redacted |-> FALSE]>>

StatesOf(text) ==
  LET kept  == Among(text.states,
                     {s \in ToSet(text.states) : s.name \notin Sensitive /\ Parsed(s) # <<>>})
      order == Among([k \in DOMAIN kept |-> k],
                     {k \in DOMAIN kept : \A j \in 1 .. k - 1 : kept[j].name # kept[k].name})
  IN  ListOf([k \in DOMAIN order |-> Parsed(kept[order[k]])[1] @@
                                     [name |-> kept[order[k]].name, line |-> kept[order[k]].line]])

StateFindings(text) ==
  {[id |-> IF s.name \in Sensitive THEN "sensitive_state" ELSE "non_literal_state",
    line |-> s.line, token |-> s.name] :
     s \in {s \in ToSet(text.states) : s.name \in Sensitive \/ Parsed(s) = <<>>}}

\* A capability that only the imports hint at has no line.
CapabilityHints(u) ==
  u.text.capabilities
    \cup {[id |-> c, line |-> 0] : c \in {c \in u.imports : \A h \in u.text.capabilities : h.id # c}}

Analyzed(units, chosen, u) ==
  [id |-> u.id, name |-> u.name, sha |-> u.sha,
   states       |-> StatesOf(u.text),
   ui           |-> u.text.ui,
   capabilities |-> CapabilityHints(u),
   manual       |-> StateFindings(u.text) \cup u.text.manual,
   dependencies |-> DependenciesOf(units, u),
   ambiguous    |-> AmbiguousOf(units, u),
   unselected   |-> DependenciesOf(units, u) \ {v.id : v \in chosen}]

\* scan_project: the report, or nothing when a selector is refused.
Scan(tree, selection) ==
  LET units  == ToSet(Units(tree))
      chosen == Selected(units, selection)
      order  == Among(IdOrder, {u.id : u \in chosen})
  IN  IF ~(ClassesHold(units, selection) /\ ModulesHold(tree, selection)) THEN <<>>
      ELSE <<[selection   |-> selection,
              files       |-> Len(Scanned(tree)),
              found       |-> Cardinality(units),
              diagnostics |-> Diagnostics(tree),
              units       |-> ListOf([k \in DOMAIN order |->
                                 Analyzed(units, chosen, CHOOSE u \in chosen : u.id = order[k])])]>>

(***************************************************************************)
(* What a person has to decide.  An item is known by its unit, its kind,   *)
(* its detail and its line; the text it was found in is not part of it.    *)
(***************************************************************************)
Item(u, kind, detail, line) == [unit |-> u.id, kind |-> kind, detail |-> detail, line |-> line]

ItemsOf(u) ==
  {Item(u, "redacted_state", <<s.name>>, s.line) : s \in {s \in ToSet(u.states) : s.redacted}}
    \cup {Item(u, "ui_hint", <<h.id>>, h.line) : h \in u.ui}
    \cup {Item(u, "manual_review", <<h.id, h.token>>, h.line) : h \in u.manual}
    \cup {Item(u, "unselected_dependency", id, 0) : id \in u.unselected}
    \cup {Item(u, "ambiguous_dependency", <<a.name>>, 0) : a \in u.ambiguous}

ReviewItems(report) == UNION {ItemsOf(u) : u \in ToSet(report.units)}

Suggested(report) == UNION {{h.id : h \in u.capabilities} : u \in ToSet(report.units)}

(***************************************************************************)
(* _dsl: a page for every unit, a state for every state found.             *)
(***************************************************************************)
SafeName(name, fallback) == IF Cleaned[name] = EmptyString THEN fallback ELSE Cleaned[name]

Numbered(name, k) == IF k = 1 THEN name ELSE name \o "_" \o ToString(k)

\* The name itself, or with the first number that makes it new.
Fresh(name, used) ==
  Numbered(name, CHOOSE k \in 1 .. Cardinality(used) + 1 :
                   /\ Numbered(name, k) \notin used
                   /\ \A j \in 1 .. k - 1 : Numbered(name, j) \in used)

WithFresh(names, name) == Append(names, Fresh(name, ToSet(names)))

\* Names made different, one after the other.
MadeUnique(wanted) ==
  LET upto[k \in 0 .. Len(wanted)] ==
        IF k = 0 THEN <<>> ELSE WithFresh(upto[k - 1], wanted[k])
  IN  upto[Len(wanted)]

PageName(report, k) == Lower[SafeName(report.units[k].name, "page_" \o ToString(k))]

PagesWanted(report) == [k \in DOMAIN report.units |-> PageName(report, k)]
PageNamesOf(report) == MadeUnique(PagesWanted(report))

\* The states of all units in order, each by the numbers of its unit and its own.
Places(report) ==
  FlattenSeq([u \in DOMAIN report.units |->
                [s \in DOMAIN report.units[u].states |-> <<u, s>>]])

StateAt(report, p) == report.units[p[1]].states[p[2]]

Namesakes(report, name) ==
  {p \in ToSet(Places(report)) : StateAt(report, p).name = name}

TargetName(report, p) ==
  LET name == StateAt(report, p).name
  IN  IF Namesakes(report, name) = {p} THEN SafeName(name, "state_" \o ToString(p[2]))
      ELSE SafeName(report.units[p[1]].name \o "_" \o name,
                    "state_" \o ToString(p[1]) \o "_" \o ToString(p[2]))

StatesWanted(report) == [k \in DOMAIN Places(report) |-> TargetName(report, Places(report)[k])]

StateNamesPlain(report) == StatesWanted(report)   \* mutant: a taken name is taken again

\* The names of the new states, in the order of Places.
StateNamesOf(report) == MadeUnique(StatesWanted(report))

NameAt(report, names, p) ==
  names[CHOOSE k \in DOMAIN names : Places(report)[k] = p]

TextNode(id, template) ==
  [id |-> id, type |-> "text", props |-> [text |-> template], events |-> [x \in {} |-> x],
   level |-> 2]

ScaffoldPage(report, names, page, u) ==
  LET unit == report.units[u]
      root == [id    |-> page \o "_root", type |-> "column", events |-> [x \in {} |-> x],
               props |-> [accessibility_label |-> <<Literal("Migrated " \o unit.name)>>],
               level |-> 1]
  IN  <<root, TextNode(page \o "_title", <<Literal(unit.name)>>)>> \o
        [s \in DOMAIN unit.states |->
           TextNode(page \o "_state_" \o ToString(s),
                    <<Literal(unit.states[s].name \o ": "),
                      Reference(NameAt(report, names, <<u, s>>))>>)]

\* A name that is met again keeps its last meaning.
PlaceOf(report, names, n) ==
  Places(report)[CHOOSE k \in DOMAIN names :
                   names[k] = n /\ \A j \in k + 1 .. Len(names) : names[j] # n]

ScaffoldState(report, pages, p) ==
  LET state == StateAt(report, p)
  IN  [type |-> TypeOf(state.initial), initial |-> state.initial,
       persistence |-> pages[p[1]] \o "." \o state.name]

ScaffoldModule(report, pages) ==
  [id |-> Target.module, application |-> Target.application, tenant |-> "migration",
   channel |-> Target.channel, release |-> Target.release, keyVersion |-> 1,
   minimumRuntime |-> 5, capabilities |-> <<>>, versions |-> [x \in {} |-> x],
   domains |-> <<>>, scopes |-> <<>>, usage |-> {},
   entryPage |-> pages[1], entryHandler |-> None,
   budget |-> [maxInstructions |-> 1000, maxStack |-> 32, maxStateBytes |-> 65536,
               maxNodes |-> Max({LeastNodes, Len(report.units) * NodesPerPage}),
               maxTasks |-> 16]]

ScaffoldDelivery ==
  [profile |-> Target.profile, platform |-> Target.platform,
   fallback |-> Target.profile = "online_provisioned",
   bundled |-> Target.profile = "offline_sealed",
   nativeDownload |-> FALSE, artifacts |-> {}]

ScaffoldWith(report, pages, names) ==
  [module   |-> ScaffoldModule(report, pages),
   delivery |-> ScaffoldDelivery,
   state    |-> TableOf([n \in ToSet(names) |->
                   ScaffoldState(report, pages, PlaceOf(report, names, n))]),
   handlers |-> [x \in {} |-> <<>>],
   pages    |-> TableOf([n \in ToSet(pages) |->
                   ScaffoldPage(report, names, n, CHOOSE k \in DOMAIN pages : pages[k] = n)])]

\* It goes through the compiler before it is written.
Compiling(source) == IF Build(source, 5) # <<>> THEN <<source>> ELSE <<>>

\* The scaffold, or nothing.
Scaffold(report) ==
  IF /\ Target.platform \in Platforms \ {"desktop"}
     /\ Target.profile \in Profiles
     /\ report.units # <<>>
  THEN Compiling(ScaffoldWith(report, PageNamesOf(report), StateNamesOf(report)))
  ELSE <<>>
=============================================================================
