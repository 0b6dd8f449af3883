----------------------------- MODULE MCPvmBuild -----------------------------
(***************************************************************************)
(* Sources for TLC.  Most are compiled and built once: handlers of up to   *)
(* three instructions (kind 0), pages (kind 1) and policies (kind 2).  The *)
(* versions of an application (kind 3) are edited and built for the matrix.*)
(***************************************************************************)
EXTENDS PvmBuild

MCNameOrder == <<"accessibility_label", "app", "appear", "camera.capture", "change", "channel",
  "clipboard.system", "form", "home", "map.view", "n", "network.http", "on_change", "on_tap",
  "s", "submit", "surface_type", "tap", "text", "value">>

MCSafeNames == ToSet(MCNameOrder)

MCCapabilityNames == {"camera.capture", "clipboard.system", "map.view", "network.http"}

MCStrings     == {"", "a", "b", "photo", "map.view"}
MCStringSize  == [x \in MCStrings |-> IF x = "" THEN 0 ELSE IF x = "b" THEN 2 ELSE 1]
MCMinInteger  == -2

\* "z" hashes to 0, "x" and "y" to the same number.
MCNodeHash == [id \in {"r", "c", "d", "f", "x", "y", "z"} |->
  CASE id = "r" -> 1 [] id = "c" -> 2 [] id = "d" -> 3 [] id = "z" -> 0 [] id = "f" -> 5 [] OTHER -> 4]

MCInterface ==
  [schemaVersion |-> 1,
   capabilities |-> <<
     [id |-> "camera.capture", version |-> 1, async |-> TRUE,
      operations |-> [photo |-> [args |-> <<"string">>, result |-> "string"]]],
     [id |-> "clipboard.system", version |-> 1, async |-> FALSE,
      operations |-> [a |-> [args |-> <<>>, result |-> "string"]]]>>,
   components |-> <<
     [id |-> "map.view", version |-> 1, props |-> [value |-> "string"],
      events |-> [change |-> "string"], commands |-> [tap |-> <<"int", "int">>]]>>]

MCPermissions  == [android |-> [c \in {"camera.capture"} |-> {"CAMERA"}]]
MCUsageKey     == [c \in {"camera.capture"} |-> "NSCameraUsageDescription"]
MCDeclarations == [c \in {"camera.capture"} |-> {"camera-data-use"}]

\* Instructions of the source.
Ins(op)        == [op |-> op, value |-> Integer(0), name |-> None, target |-> 0,
                   operation |-> EmptyString, args |-> 0]
Const(v)       == [Ins("Constant") EXCEPT !.value = v]
Named(op, n)   == [Ins(op) EXCEPT !.name = n]
To(op, t)      == [Ins(op) EXCEPT !.target = t]
Call(op, n, x) == [Named(op, "camera.capture") EXCEPT !.operation = n, !.args = x]

Menu == <<Const(Integer(1)), Const(String("b")), Const(Boolean(TRUE)), Named("StateGet", "n"),
  Named("StateSet", "s"), Ins("IntegerAdd"), Ins("Equal"), To("Jump", 0), To("Jump", 3),
  To("JumpIfFalse", 1), To("JumpIfFalse", 2), Call("AsyncEffect", "photo", 1), Ins("Pop"),
  Ins("Halt"), Named("Render", "form"), Call("Effect", "b", 0), Ins("EventValue"),
  Named("StateGet", "missing")>>

Pick(k) == IF k = 0 THEN <<>> ELSE <<Menu[k]>>

NoTable  == [x \in {} |-> x]
Node(id, type, props, events) ==
  <<[id |-> id, type |-> type, props |-> props, events |-> events, level |-> 1]>>
Plain(id)            == Node(id, "text", NoTable, NoTable)
Showing(id, t)       == Node(id, "text", [text |-> t], NoTable)
On(id, event, h)     == Node(id, "input", NoTable, [e \in {event} |-> h])
Box(id, children)    ==
  Node(id, "column", NoTable, NoTable)
    \o LET nodes == FlattenSeq(children)
       IN  [k \in DOMAIN nodes |-> [nodes[k] EXCEPT !.level = @ + 1]]

Home == Box("r", <<On("c", "change", "on_change"), On("d", "tap", "on_tap")>>)

Trees == <<
  Home,
  Box("r", <<On("c", "tap", "on_change")>>),
  Box("r", <<Box("c", <<On("d", "appear", "on_change")>>), On("x", "submit", "on_change")>>),
  On("r", "submit", "on_change"),
  Plain("r"),
  Box("x", <<On("y", "change", "on_change")>>),
  Box("z", <<On("y", "change", "on_change")>>),
  Box("r", <<Box("c", <<Box("d", <<On("x", "change", "on_change")>>)>>)>>),
  Box("r", <<On("c", "change", "missing")>>),
  Box("r", <<Showing("c", <<>>), On("d", "change", "on_change")>>),
  Box("r", <<Showing("c", <<Literal("b"), Reference("s"), Reference("n")>>),
             On("d", "change", "on_change")>>),
  Box("r", <<Showing("c", <<Reference("n"), Literal("a"), Reference("n"), Literal("b")>>),
             On("d", "change", "on_change")>>),
  Node("r", "native_surface",
       [surface_type |-> <<Literal("map.view")>>, text |-> <<Literal("a")>>,
        accessibility_label |-> <<Literal("b")>>],
       [change |-> "on_change", appear |-> "on_tap"])>>

Budget == [maxInstructions |-> 10, maxStack |-> 2, maxStateBytes |-> 9, maxNodes |-> 5,
           maxTasks |-> 1]

Good ==
  [module |-> [id |-> "app", application |-> "app", tenant |-> "app", channel |-> "channel",
               release |-> 1, keyVersion |-> 1, minimumRuntime |-> 5,
               capabilities |-> <<"clipboard.system", "camera.capture">>,
               versions |-> [c \in {"clipboard.system"} |-> 1],
               domains |-> <<>>, scopes |-> <<>>, budget |-> Budget,
               entryPage |-> "home", entryHandler |-> "on_tap",
               usage |-> {"NSCameraUsageDescription"}],
   delivery |-> [profile |-> "offline_sealed", platform |-> "android", bundled |-> TRUE,
                 fallback |-> FALSE, nativeDownload |-> FALSE, artifacts |-> {}],
   state |-> [n |-> [type |-> "Integer", initial |-> Integer(1), persistence |-> "n"],
              s |-> [type |-> "String", initial |-> String("a"), persistence |-> "value"]],
   handlers |-> [on_change |-> <<Ins("EventValue"), Named("StateSet", "s")>>,
                 on_tap |-> <<Named("Render", "home"), Ins("Halt")>>],
   pages |-> [form |-> Plain("f"), home |-> Home]]

\* Sources that differ from the good one in one or two places.
M(field, x) == [Good.module EXCEPT ![field] = x]
D(profile, platform, flag) ==
  [profile |-> profile, platform |-> platform, bundled |-> flag, fallback |-> flag,
   nativeDownload |-> flag, artifacts |-> IF flag THEN {"so"} ELSE {}]
OfModule(m)   == [Good EXCEPT !.module = m]
OfDelivery(d) == [Good EXCEPT !.delivery = d]

Policies == <<
  Good,
  OfModule(M("release", 0)), OfModule(M("keyVersion", 0)), OfModule(M("id", "..")),
  OfModule(M("minimumRuntime", 6)), OfModule(M("minimumRuntime", 1)),
  OfModule(M("capabilities", <<"camera.capture", "camera.capture">>)),
  OfModule(M("versions", [c \in {"clipboard.system"} |-> 0])),
  OfModule(M("versions", [c \in {"network.http"} |-> 1])),
  OfModule(M("versions", [c \in {"camera.capture"} |-> 2])),
  OfModule(M("capabilities", <<"network.http">>)), OfModule(M("capabilities", <<"n">>)),
  OfModule([M("capabilities", <<"network.http">>) EXCEPT !.domains = <<"n", "app">>,
                                                         !.versions = NoTable]),
  OfModule([M("domains", <<"n", "n">>) EXCEPT !.scopes = <<"s">>]),
  OfModule(M("entryHandler", "on_change")), OfModule(M("entryHandler", None)),
  OfModule(M("entryHandler", "missing")), OfModule(M("entryPage", "missing")),
  OfModule(M("budget", [Budget EXCEPT !.maxNodes = 3])),
  OfModule(M("budget", [Budget EXCEPT !.maxTasks = 0])),
  [OfModule(M("budget", [Budget EXCEPT !.maxStack = 1])) EXCEPT
     !.handlers.on_tap = <<Menu[1], Menu[4], Ins("Equal"), Ins("Pop")>>],
  OfModule(M("budget", [Budget EXCEPT !.maxStateBytes = 8])),
  OfDelivery(D("offline_sealed", "ios", FALSE)), OfDelivery(D("online_provisioned", "ios", FALSE)),
  OfDelivery(D("store_on_demand", "ios", TRUE)), OfDelivery(D("store_on_demand", "android", TRUE)),
  OfDelivery(D("store_on_demand", "ios", FALSE)), OfDelivery(D("bundled", "ios", TRUE)),
  [Good EXCEPT !.state.n.persistence = None], [Good EXCEPT !.state.n.persistence = "value"],
  [Good EXCEPT !.state.n.type = "Boolean"], [Good EXCEPT !.state.s.initial = String("b")],
  [Good EXCEPT !.state.n.persistence = ".."],
  [[Good EXCEPT !.state.n.persistence = None] EXCEPT !.handlers.on_change = <<>>,
     !.module.minimumRuntime = 3],
  [OfModule(M("versions", [c \in {"camera.capture"} |-> 2])) EXCEPT !.handlers.on_change = <<>>],
  [Good EXCEPT !.handlers.on_change = <<>>, !.module.minimumRuntime = 1]>>

\* An application's versions: two that can be built, and one whose use of the
\* camera is not explained.
Application ==
  LET base == [OfDelivery(D("enterprise_managed", "ios", FALSE)) EXCEPT !.module.keyVersion = 2]
  IN  << [base EXCEPT !.module.capabilities = <<"clipboard.system">>],
         [base EXCEPT !.module.release = 2],
         [base EXCEPT !.module.release = 3, !.module.usage = {}] >>

Code == {Pick(i) \o Pick(j) \o Pick(k) : i \in 0 .. Len(Menu), j \in 0 .. Len(Menu),
                                        k \in {0, 8, 11, 13}}

MCCompiled ==
  {[Good EXCEPT !.handlers.on_tap = code] : code \in Code}
    \cup {[Good EXCEPT !.pages.home = Trees[t], !.handlers.on_tap = code] :
            t \in DOMAIN Trees, code \in {<<>>, <<Ins("Pop")>>}}
    \cup ToSet(Policies)

\* The builder: two profiles, which between them write every file.
Variant(profile) == [profile |-> profile, platform |-> "ios"]

MCOwnVariant == [v \in DOMAIN Application |-> Variant("enterprise_managed")]

MCMatrix ==
  [v \in DOMAIN Application |-> <<Variant("offline_sealed"), Variant("enterprise_managed")>>]

MCBuildable == (1 .. 3) \X {Variant("offline_sealed"), Variant("enterprise_managed")}

MCManifestable == {b \in MCBuildable : b[1] # 3}

MCRevisions == (1 .. 3) \X (1 .. 3)
=============================================================================
