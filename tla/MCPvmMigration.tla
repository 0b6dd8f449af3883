--------------------------- MODULE MCPvmMigration ---------------------------
(***************************************************************************)
(* A small application for TLC: two classes of one name in two modules,    *)
(* one of them depending on a third, and three versions of it.             *)
(***************************************************************************)
EXTENDS PvmConversion

MCNameOrder == <<"Home_count", "Home_count_2", "Home_title", "Repo_count", "accessibility_label",
  "clipboard.system", "count", "extra", "home", "home_2", "map.view", "repo", "surface_type", "text", "title">>

MCSafeNames == {"app", "flow", "migration", "channel", "home.count", "home.title", "home_2.count",
  "repo.count"}

MCNodeIds == <<"home_root", "home_title", "home_state_1", "home_state_2", "home_2_root",
  "home_2_title", "home_2_state_1", "repo_root", "repo_title",
  "repo_state_1", "extra_root", "extra_title">>

MCNodeHash == [id \in ToSet(MCNodeIds) |-> CHOOSE k \in DOMAIN MCNodeIds : MCNodeIds[k] = id]

MCCleaned == [n \in {"Extra", "Home", "Repo", "count", "title", "Home_count", "Repo_count"} |-> n]

MCLower == [Extra |-> "extra", Home |-> "home", Repo |-> "repo"]

NoTable == [x \in {} |-> x]

MCMinInteger == -2

MCStringSize == [s \in {"", "a"} |-> IF s = "" THEN 0 ELSE 1]

MCInterface ==
  [schemaVersion |-> 1,
   capabilities |-> <<[id |-> "clipboard.system", version |-> 1, async |-> FALSE,
                       operations |-> [read |-> [args |-> <<>>, result |-> "string"]]]>>,
   components |-> <<[id |-> "map.view", version |-> 1, props |-> NoTable, events |-> NoTable,
                     commands |-> NoTable]>>]

MCTarget == [application |-> "app", platform |-> "ios", profile |-> "online_provisioned",
             channel |-> "channel", module |-> "flow", release |-> 1]

StateFound(name, line, type, value) == [name |-> name, line |-> line, type |-> type, value |-> value]

Declaration(name, line, names, states, ui) ==
  [name |-> name, line |-> line, names |-> names \cup {name}, states |-> states,
   ui |-> {[id |-> h, line |-> line] : h \in ui}, capabilities |-> {}, manual |-> {}]

NoText == [name |-> "", line |-> 1, names |-> {}, states |-> <<>>, ui |-> {}, capabilities |-> {},
           manual |-> {}]

File(path, stem, module, kind, sha, imports, declarations) ==
  [path |-> path, stem |-> stem, modules |-> {module, "."}, kind |-> kind, package |-> "",
   sha |-> sha, imports |-> imports, declarations |-> declarations, whole |-> NoText]

AppHome(sha) ==
  File("app/Home.kt", "Home", "app", "source", sha, {},
       <<Declaration("Home", 3, {"Repo"},
           <<StateFound("count", 4, None, <<Integer(1)>>),
             StateFound("title", 5, None, <<String("a")>>),
             StateFound("count", 6, None, <<Integer(0)>>),
             StateFound("token", 7, "String", <<>>)>>, {})>>)

DataRepo ==
  File("data/Repo.kt", "Repo", "data", "source", "r1", {"clipboard.system"},
       <<Declaration("Repo", 1, {}, <<StateFound("count", 2, None, <<Boolean(TRUE)>>)>>, {})>>)

OldHome ==
  File("old/Home.kt", "Home", "old", "source", "o1", {},
       <<Declaration("Home", 1, {}, <<StateFound("count", 2, "Int", <<Integer(0)>>),
                                      StateFound("later", 3, "Int", <<>>)>>, {"column"})>>)

Link == File("old/Link.kt", "Link", "old", "symlink", "l1", {}, <<>>)

Extra == File("zoo/Extra.kt", "Extra", "zoo", "source", "x1", {}, <<>>)

MCTrees == << <<AppHome("h1"), DataRepo, OldHome, Link>>,
              <<AppHome("h2"), DataRepo, OldHome, Link>>,
              <<AppHome("h1"), DataRepo, OldHome, Link, Extra>> >>

MCIdOrder == << <<"app/Home.kt", "Home", 3>>, <<"data/Repo.kt", "Repo", 1>>,
                <<"old/Home.kt", "Home", 1>>, <<"zoo/Extra.kt", "Extra", 1>> >>

MCRevisions == {<<1, 2>>, <<1, 3>>, <<2, 1>>}

Selection(classes, modules, closed) ==
  [classes |-> classes, modules |-> modules, includeDependencies |-> closed]

MCSelections == <<
  Selection(<<[by |-> "place", is |-> <<"app/Home.kt", "Home">>]>>, <<>>, TRUE),
  Selection(<<[by |-> "name", is |-> "Home"]>>, <<>>, FALSE),
  Selection(<<>>, <<"app", "old">>, FALSE),
  Selection(<<>>, <<>>, FALSE)>>

MCChanges == {"scaffold", "capability", "title", "loose", "foreign"}

MCChanged(change, source) ==
  CASE change = "capability" ->
         ModuleFile("canonical", [source EXCEPT !.module.capabilities = <<"clipboard.system">>])
    [] change = "title" ->
         ModuleFile("canonical", [source EXCEPT !.pages = [p \in DOMAIN @ |->
                      [@[p] EXCEPT ![2].props = [text |-> <<Literal("b")>>]]]])
    [] change = "loose"   -> ModuleFile("loose", source)
    [] change = "foreign" -> ModuleFile("foreign", source)
    [] OTHER              -> ModuleFile("canonical", source)

MCVersions == DOMAIN MCTrees

MCScans   == LET scans == Named IN scans
MCReports == LET reports == Converted IN reports
MCModules == LET modules == Written IN modules

\* No scaffold has a node to tap: the state stays, and a tap fails.
MCPrinted(m, taps) ==
  IF \E k \in DOMAIN taps : taps[k] # <<>> THEN <<>>
  ELSE LET source == Modules[m].source
           nodes  == source.pages[source.module.entryPage]
       IN  <<UNION {ToSet(LiteralsOf(nodes[k])) : k \in DOMAIN nodes}>>

Step(tap, expected) == [tap |-> tap, expected |-> expected, forbidden |-> {"b"}]

Case(name, evidence, steps) == [name |-> name, evidence |-> evidence, steps |-> steps]

MCCaseFiles == {
  <<Case("start", TRUE, <<Step(<<>>, {"count: "})>>)>>,
  <<Case("start", FALSE, <<Step(<<>>, {"count: "})>>)>>,
  <<Case("start", TRUE, <<Step(<<>>, {"count: "}), Step(<<0>>, {"count: "})>>)>>}
=============================================================================
