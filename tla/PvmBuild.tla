------------------------------ MODULE PvmBuild ------------------------------
(***************************************************************************)
(* The delivery builder on sources the compiler and the tools judge, and   *)
(* what the compiler promises of each of them.                             *)
(***************************************************************************)
EXTENDS PvmDeliveryBuild, PvmTooling

CONSTANTS
  Text,      \* the text of each source the builder is run on
  Compiled   \* the texts the compiler is run on

VARIABLES
  tool,      \* "build": the delivery builder; "compile": the compiler by itself
  text,      \* the text the compiler is run on
  output     \* the format asked for and the module written, once it was run

allVars == <<vars, tool, text, output>>

\* --all replaces the delivery of the source by one that keeps to the policy.
MatrixDelivery(v) ==
  [profile |-> v.profile, platform |-> v.platform,
   fallback |-> v.profile = "online_provisioned", bundled |-> v.profile = "offline_sealed",
   nativeDownload |-> FALSE, artifacts |-> {}]

TextOf(b) ==
  IF b[2] = OwnVariant[b[1]] THEN Text[b[1]]
  ELSE [Text[b[1]] EXCEPT !.delivery = MatrixDelivery(b[2])]

\* The builder's verdicts are those of lint and of the host manifest.
ASSUME VerdictAssumption ==
  /\ Buildable = {b \in Builds : Linted(TextOf(b))}
  /\ Manifestable = {b \in Builds : HostManifest(TextOf(b)) # <<>>}

ASSUME SourceAssumption == \A s \in Compiled : IsSource(s)

Init ==
  /\ BuildInit
  /\ \/ tool = "build" /\ text = Text[source]
     \/ tool = "compile" /\ text \in Compiled /\ source = CHOOSE s \in Sources : TRUE
  /\ output = <<>>

\* main of compiler.py: one text, to a format of the caller's choice.
CompileFile(format) ==
  /\ tool = "compile" /\ output = <<>>
  /\ output' = [format |-> format, module |-> Build(text, format)]
  /\ UNCHANGED <<vars, tool, text>>

Deliver == tool = "build" /\ BuildNext /\ UNCHANGED <<tool, text, output>>

Next == Deliver \/ \E format \in Formats : CompileFile(format)

Spec == Init /\ [][Next]_allVars

\* The builder waits for nothing, and is run again with --all.
FairSpec ==
  /\ Spec
  /\ WF_vars(tool = "build" /\ Work)
  /\ SF_vars(tool = "build" /\ Start(Matrix[source]))

-----------------------------------------------------------------------------
(***************************************************************************)
(* The limits the compiler leaves to the loader: the depth of trees, the   *)
(* segments of a property, a node whose hash is 0, the stack budget and    *)
(* the bytes of the initial state.                                         *)
(***************************************************************************)
KeepsLoaderLimits(p) ==
  /\ \A k \in DOMAIN PackageNodes(p) :
       /\ PackageNodes(p)[k].level <= MaxDepth /\ PackageNodes(p)[k].id # 0
       /\ \A j \in DOMAIN PackageNodes(p)[k].props :
            Len(PackageNodes(p)[k].props[j][2]) <= MaxSegments
  /\ StateSize(ReadModule(p).initial) <= p.limits.maxStateBytes
  /\ \A h \in DOMAIN p.handlers : \A pc \in DOMAIN Typing(p, h - 1) :
       Len(StackAfter(p.handlers[h][pc + 1], Typing(p, h - 1)[pc],
                      [k \in DOMAIN p.states |-> p.states[k].type])) <= p.limits.maxStack

\* Where the builder is run, it brings out what it can in the end.
DeliveredInTheEnd == tool = "build" => BuiltInTheEnd

Written == IF output = <<>> THEN {} ELSE ToSet(output.module)

\* A source that compiles, to whatever format, gives a module that loads, unless
\* it exceeds a limit that only the loader knows.
CompiledLoads ==
  \A p \in Written : KeepsLoaderLimits(p) => Loads(p)

(***************************************************************************)
(* A module read back with the names of its source.                        *)
(***************************************************************************)
NameOf(id, names) == Sorted(names)[id + 1]

ReadInstruction(s, p, i) ==
  [op        |-> i.op,
   value     |-> Resolved(p, i.value),
   name      |-> CASE i.op \in {"StateGet", "StateSet"}  -> NameOf(i.first, StateNames(s))
                   [] i.op \in {"Effect", "AsyncEffect"} -> p.capabilities[i.first + 1]
                   [] i.op = "Render"                    -> NameOf(i.first, PageNames(s))
                   [] OTHER                              -> None,
   target    |-> IF i.op \in {"Jump", "JumpIfFalse"} THEN i.first ELSE 0,
   operation |-> IF i.op \in {"Effect", "AsyncEffect"} THEN p.constants[i.second + 1]
                 ELSE EmptyString,
   args      |-> i.args]

SameState(s, p, n, got) ==
  /\ got.type = s.state[n].type
  /\ Resolved(p, got.initial) = s.state[n].initial
  /\ got.id = IF 4 <= p.format THEN PersistenceName(s, n) ELSE None

ReadTemplate(s, p, segments) ==
  [k \in DOMAIN segments |->
     IF segments[k][1] = 1 THEN Literal(p.constants[segments[k][2] + 1])
     ELSE Reference(NameOf(segments[k][2], StateNames(s)))]

SameNode(s, p, node, got) ==
  /\ got.type = node.type /\ got.id = NodeHash[node.id] /\ got.level = node.level
  /\ {got.props[k][1] : k \in DOMAIN got.props} = DOMAIN node.props
  /\ \A k \in DOMAIN got.props :
       ReadTemplate(s, p, got.props[k][2]) = Parts(node.props[got.props[k][1]])
  /\ {<<e, node.events[e]>> : e \in DOMAIN node.events}
       = {<<got.events[k][1], NameOf(got.events[k][2], HandlerNames(s))>> :
            k \in DOMAIN got.events}

SamePage(s, p, page, got) ==
  /\ Len(got) = Len(page)
  /\ \A k \in DOMAIN page : SameNode(s, p, page[k], got[k])

SameHandler(s, p, raw, got) ==
  LET code == [k \in DOMAIN got |-> ReadInstruction(s, p, got[k])]
  IN  \/ code = raw
      \/ Len(code) = Len(raw) + 1 /\ SubSeq(code, 1, Len(raw)) = raw /\ Last(code).op = "Halt"

\* The module says what the source says: types, initial values and persistent names
\* of states, instructions, templates and event bindings survive the change from names
\* to indices and from strings to the pool.  What a format has no room for is lost: a
\* persistent name below format 4, and below format 3 the version of a capability,
\* which the loader then takes to be 1 whatever the source and its host manifest say.
Faithful ==
  LET s == text
  IN  \A p \in Written :
        /\ \A n \in StateNames(s) :
             SameState(s, p, n, p.states[IdOf(n, StateNames(s)) + 1])
        /\ \A n \in HandlerNames(s) :
             SameHandler(s, p, s.handlers[n], p.handlers[IdOf(n, HandlerNames(s)) + 1])
        /\ \A n \in PageNames(s) :
             SamePage(s, p, s.pages[n], p.pages[IdOf(n, PageNames(s)) + 1])
        /\ {<<p.capabilities[k], VersionRead(p, k)>> : k \in DOMAIN p.capabilities}
             = {<<c, IF 3 <= p.format THEN Version(s.module, c) ELSE 1>> : c \in Capabilities(s)}
        /\ NameOf(p.entryPage, PageNames(s)) = s.module.entryPage

\* A handler that reads the value of its event is entered by events that have one
\* only: neither at the start, nor from a tap or an appearance anywhere in a tree.
EventValueSupplied ==
  \A p \in Written :
    LET reads == {h \in 0 .. Len(p.handlers) - 1 :
                    \E k \in DOMAIN p.handlers[h + 1] : p.handlers[h + 1][k].op = "EventValue"}
    IN  /\ \A n \in DOMAIN p.entryHandler : p.entryHandler[n] \notin reads
        /\ \A k \in DOMAIN PackageNodes(p) : \A e \in ToSet(PackageNodes(p)[k].events) :
             e[2] \in reads => e[1] \in {"change", "submit"}
=============================================================================
