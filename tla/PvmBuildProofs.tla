--------------------------- MODULE PvmBuildProofs ---------------------------
(***************************************************************************)
(* The compiler and the delivery builder, for any sources, names, limits,  *)
(* matrices and edits, and any number of builds that are refused or cut    *)
(* off.                                                                    *)
(*                                                                         *)
(* The compiler: what it writes says what its source says, a handler that  *)
(* reads the value of its event is entered by events that have one, and    *)
(* what it writes loads unless it exceeds a limit only the loader knows.   *)
(* The invariant (Compiles) is that what was written is Build of a text    *)
(* the compiler is run on; the rest is what Build computes, section by     *)
(* section of the module, from the facts of PvmCompilerProofs.             *)
(*                                                                         *)
(* The builder: the types of its files, that the manifest of a repository  *)
(* names a module that is there, and that the last file of a build is      *)
(* written when all others were (BuilderInv).                              *)
(***************************************************************************)
EXTENDS PvmBuild, PvmCompilerProofs

\* What has been written is the build of a text the compiler is run on.
Compiles ==
  /\ tool = "compile" => text \in Compiled
  /\ output # <<>> =>
       /\ tool = "compile" /\ output.format \in Formats
       /\ output.module = Build(text, output.format)

LEMMA InitCompiles ==
  ASSUME Init
  PROVE  Compiles
BY DEF Init, Compiles

LEMMA NextCompiles ==
  ASSUME Compiles, [Next]_allVars
  PROVE  Compiles'
<1>1. CASE Deliver
  BY <1>1 DEF Deliver, Compiles
<1>2. ASSUME NEW format \in Formats, CompileFile(format)
      PROVE  Compiles'
  <2>1. /\ tool = "compile" /\ tool' = tool /\ text' = text
        /\ output' = [format |-> format, module |-> Build(text, format)]
    BY <1>2 DEF CompileFile
  <2>2. output'.format = format /\ output'.module = Build(text, format)
    BY <2>1
  <2> QED
    BY <2>1, <2>2 DEF Compiles
<1>3. CASE UNCHANGED allVars
  BY <1>3 DEF allVars, Compiles
<1> QED
  BY <1>1, <1>2, <1>3 DEF Next

LEMMA WrittenIsBuilt ==
  ASSUME Compiles, NEW p \in Written
  PROVE  /\ text \in Compiled /\ IsSource(text)
         /\ \E format \in Formats : p \in ToSet(Build(text, format))
<1>1. output # <<>>
  BY DEF Written
<1>2. p \in ToSet(output.module)
  BY <1>1 DEF Written
<1> QED
  BY <1>1, <1>2, SourceAssumption DEF Compiles

-----------------------------------------------------------------------------
(***************************************************************************)
(* Names come back from indices                                            *)
(***************************************************************************)
LEMMA NameComesBack ==
  ASSUME NEW names \in SUBSET Names, NEW n \in names
  PROVE  NameOf(IdOf(n, names), names) = n
BY IdOfName DEF NameOf

\* The table of capabilities has them all, each at the index of its name.
LEMMA CapabilitiesWritten ==
  ASSUME NEW s, IsSource(s), NEW table, table = Sorted(Capabilities(s))
  PROVE  /\ ToSet(table) = Capabilities(s)
         /\ \A c \in Capabilities(s) : table[IdOf(c, Capabilities(s)) + 1] = c
         /\ \A k \in DOMAIN table : table[k] \in Capabilities(s)
BY TablesOf, SortedNames, IdOfName

\* The version read of each is the one asked for, where the format has room for it.
LEMMA VersionsWritten ==
  ASSUME NEW s, NEW format, IsSource(s), NEW p, p.format = format,
         p.capabilities = Sorted(Capabilities(s)), p.versions = CapabilityVersions(s, format)
  PROVE  {<<p.capabilities[k], VersionRead(p, k)>> : k \in DOMAIN p.capabilities}
           = {<<c, IF 3 <= p.format THEN Version(s.module, c) ELSE 1>> : c \in Capabilities(s)}
<1> DEFINE names      == Sorted(Capabilities(s))
           Asked(c)   == IF 3 <= format THEN Version(s.module, c) ELSE 1
<1>1. ToSet(names) = Capabilities(s)
  BY CapabilitiesWritten
<1>2. ASSUME NEW k \in DOMAIN names PROVE VersionRead(p, k) = Asked(names[k])
  BY DEF VersionRead, CapabilityVersions
<1> HIDE DEF names
<1>3. {names[k] : k \in DOMAIN names} = Capabilities(s)
  BY <1>1 DEF ToSet
<1>4. {<<names[k], VersionRead(p, k)>> : k \in DOMAIN names}
        = {<<names[k], Asked(names[k])>> : k \in DOMAIN names}
  BY <1>2
<1> HIDE DEF Asked
<1>5. {<<names[k], Asked(names[k])>> : k \in DOMAIN names} = {<<c, Asked(c)>> : c \in Capabilities(s)}
  BY <1>3
<1> QED
  BY <1>4, <1>5 DEF names, Asked

\* An instruction comes back as it was.
LEMMA InstructionComesBack ==
  ASSUME NEW s, NEW format, IsSource(s), NEW pool, PoolHolds(s, pool),
         NEW i \in InstructionsIn(s), InstructionHolds(s, format, i),
         NEW p, p.constants = pool, p.capabilities = Sorted(Capabilities(s))
  PROVE  ReadInstruction(s, p, EncodedInstruction(s, pool, i)) = i
<1> DEFINE e == EncodedInstruction(s, pool, i)
           r == ReadInstruction(s, p, e)
<1>1. /\ e.op = i.op /\ e.args = i.args /\ e.value = Encoded(pool, i.value)
      /\ i \in SourceInstruction
      /\ i.op \in {"StateGet", "StateSet"} =>
           i.name \in StateNames(s) /\ e.first = IdOf(i.name, StateNames(s))
      /\ i.op \in {"Effect", "AsyncEffect"} =>
           /\ i.name \in Capabilities(s) /\ e.first = IdOf(i.name, Capabilities(s))
           /\ i.operation \in ToSet(pool) /\ e.second = ConstantId(pool, i.operation)
      /\ i.op = "Render" => i.name \in PageNames(s) /\ e.first = IdOf(i.name, PageNames(s))
      /\ i.op \in {"Jump", "JumpIfFalse"} => e.first = i.target
      /\ TypeOf(i.value) = "String" => Payload(i.value) \in ToSet(pool)
      /\ i.value \in Value
  BY InstructionEncoded
<1>2. pool \in Seq(AnyString)
  BY DEF PoolHolds
<1> HIDE DEF e
<1>3. r.op = i.op /\ r.args = i.args
  BY <1>1 DEF ReadInstruction
<1>4. r.value = i.value
  <2>1. Resolved(p, Encoded(pool, i.value)) = i.value
    BY <1>1, <1>2, ValueResolved
  <2> QED
    BY <1>1, <2>1 DEF ReadInstruction
<1>5. r.name = i.name
  <2>1. CASE i.op \in {"StateGet", "StateSet"}
    <3>1. NameOf(e.first, StateNames(s)) = i.name
      BY <1>1, <2>1, TablesOf, NameComesBack
    <3> QED
      BY <1>1, <2>1, <3>1 DEF ReadInstruction
  <2>2. CASE i.op \in {"Effect", "AsyncEffect"}
    <3>1. p.capabilities[e.first + 1] = i.name
      BY <1>1, <2>2, CapabilitiesWritten
    <3> QED
      BY <1>1, <2>2, <3>1 DEF ReadInstruction
  <2>3. CASE i.op = "Render"
    <3>1. NameOf(e.first, PageNames(s)) = i.name
      BY <1>1, <2>3, TablesOf, NameComesBack
    <3> QED
      BY <1>1, <2>3, <3>1 DEF ReadInstruction
  <2>4. CASE i.op \notin {"StateGet", "StateSet", "Effect", "AsyncEffect", "Render"}
    <3>1. i.name = None
      BY <1>1, <2>4 DEF SourceInstruction
    <3> QED
      BY <1>1, <2>4, <3>1 DEF ReadInstruction
  <2> QED
    BY <2>1, <2>2, <2>3, <2>4
<1>6. r.target = i.target
  <2>1. i.op \notin {"Jump", "JumpIfFalse"} => i.target = 0
    BY <1>1 DEF SourceInstruction
  <2> QED
    BY <1>1, <2>1 DEF ReadInstruction
<1>7. r.operation = i.operation
  <2>1. CASE i.op \in {"Effect", "AsyncEffect"}
    <3>1. pool[e.second + 1] = i.operation
      BY <1>1, <1>2, <2>1, ConstantIdOf
    <3> QED
      BY <1>1, <2>1, <3>1 DEF ReadInstruction
  <2>2. CASE i.op \notin {"Effect", "AsyncEffect"}
    <3>1. i.operation = EmptyString
      BY <1>1, <2>2 DEF SourceInstruction
    <3> QED
      BY <1>1, <2>2, <3>1 DEF ReadInstruction
  <2> QED
    BY <2>1, <2>2
<1>8. i = [op |-> i.op, value |-> i.value, name |-> i.name, target |-> i.target,
           operation |-> i.operation, args |-> i.args]
  BY <1>1 DEF SourceInstruction
<1>9. r = [op |-> r.op, value |-> r.value, name |-> r.name, target |-> r.target,
           operation |-> r.operation, args |-> r.args]
  BY DEF ReadInstruction
<1> QED
  BY <1>3, <1>4, <1>5, <1>6, <1>7, <1>8, <1>9 DEF e

\* A handler comes back as it was, but for the halt the compiler adds.
LEMMA HandlerComesBack ==
  ASSUME NEW s, NEW format, IsSource(s), NEW pool, PoolHolds(s, pool),
         NEW n \in HandlerNames(s), HandlersHold(s, format, pool),
         NEW p, p.constants = pool, p.capabilities = Sorted(Capabilities(s))
  PROVE  SameHandler(s, p, s.handlers[n], EncodedHandler(s, pool, s.handlers[n]))
<1> DEFINE raw  == s.handlers[n]
           got  == EncodedHandler(s, pool, raw)
           code == [k \in DOMAIN got |-> ReadInstruction(s, p, got[k])]
<1>1. raw \in Seq(SourceInstruction)
  BY HandlersOf
<1>2. \A k \in DOMAIN raw : raw[k] \in InstructionsIn(s) /\ InstructionHolds(s, format, raw[k])
  BY ElementIsIn DEF HandlersHold, InstructionsIn
<1>3. /\ Len(raw) \in Nat /\ DOMAIN raw = 1 .. Len(raw)
      /\ Len(got) \in Nat \ {0} /\ DOMAIN got = 1 .. Len(got)
      /\ Len(got) = Len(raw) \/ Len(got) = Len(raw) + 1
      /\ \A k \in DOMAIN raw : got[k] = EncodedInstruction(s, pool, raw[k])
      /\ got[Len(got)].op = "Halt"
  BY <1>1, HandlerEncoded
<1> HIDE DEF raw, got
<1>4. ASSUME NEW k \in 1 .. Len(raw) PROVE code[k] = raw[k]
  <2>1. k \in DOMAIN got /\ k \in DOMAIN raw
    <3>1. \A a, b \in Nat : (b = a \/ b = a + 1) => 1 .. a \subseteq 1 .. b
      OBVIOUS
    <3> QED
      BY <1>3, <3>1
  <2>2. ReadInstruction(s, p, EncodedInstruction(s, pool, raw[k])) = raw[k]
    BY <1>2, <2>1, InstructionComesBack
  <2> QED
    BY <1>3, <2>1, <2>2
<1>5. DOMAIN code = 1 .. Len(got) /\ Len(code) = Len(got) /\ code[Len(got)].op = "Halt"
  <2> DEFINE All == {code[k] : k \in 1 .. Len(got)}
  <2>1. code \in [1 .. Len(got) -> All] /\ DOMAIN code = 1 .. Len(got)
    BY <1>3
  <2>2. code[Len(got)].op = got[Len(got)].op
    <3>1. Len(got) \in DOMAIN got
      <4>1. \A m \in Nat \ {0} : m \in 1 .. m
        OBVIOUS
      <4> QED
        BY <1>3, <4>1
    <3>2. code[Len(got)] = ReadInstruction(s, p, got[Len(got)])
      BY <3>1
    <3> QED
      BY <3>2, SMTT(30) DEF ReadInstruction
  <2> HIDE DEF All, code
  <2>3. Len(code) = Len(got)
    BY <1>3, <2>1, FunctionIsSeq
  <2> QED
    BY <1>3, <2>1, <2>2, <2>3
<1>6. code = [k \in 1 .. Len(got) |-> code[k]]
  BY <1>3
<1>7. SameHandler(s, p, raw, got) <=>
        \/ code = raw
        \/ Len(code) = Len(raw) + 1 /\ SubSeq(code, 1, Len(raw)) = raw /\ Last(code).op = "Halt"
  BY DEF SameHandler
<1> HIDE DEF code
<1>8. CASE Len(got) = Len(raw)
  <2>1. raw = [k \in 1 .. Len(raw) |-> raw[k]]
    BY <1>1, LenProperties
  <2>2. code = raw
    BY <1>4, <1>6, <1>8, <2>1
  <2> QED
    BY <1>7, <2>2 DEF raw, got
<1>9. CASE Len(got) = Len(raw) + 1
  <2>1. SubSeq(code, 1, Len(raw)) = raw
    <3> DEFINE All == {code[k] : k \in 1 .. Len(got)}
    <3>1. code \in Seq(All)
      <4>1. code \in [1 .. Len(got) -> All]
        BY <1>6
      <4> HIDE DEF All
      <4> QED
        BY <1>3, <4>1, FunctionIsSeq
    <3> HIDE DEF All
    <3>2. Len(raw) \in 0 .. Len(code)
      BY <1>3, <1>5, <1>9
    <3>3. SubSeq(code, 1, Len(raw)) = [k \in 1 .. Len(raw) |-> code[k]]
      BY <3>1, <3>2, FrontOf
    <3>4. raw = [k \in 1 .. Len(raw) |-> raw[k]]
      BY <1>1, LenProperties
    <3> QED
      BY <1>4, <3>3, <3>4
  <2>2. Last(code).op = "Halt"
    BY <1>5 DEF Last
  <2> QED
    BY <1>5, <1>7, <1>9, <2>1, <2>2 DEF raw, got
<1> QED
  BY <1>3, <1>8, <1>9

LEMMA TemplateComesBack ==
  ASSUME NEW s, IsSource(s), NEW pool, PoolHolds(s, pool), NEW node \in NodesIn(s),
         NodeHolds(s, node), NEW key \in DOMAIN node.props, NEW p, p.constants = pool
  PROVE  ReadTemplate(s, p, Segments(s, pool, node.props[key])) = Parts(node.props[key])
<1> DEFINE parts == Parts(node.props[key])
           got   == Segments(s, pool, node.props[key])
           back  == ReadTemplate(s, p, got)
<1>1. node.props[key] \in Template
  BY AllNodesOf DEF IsTable
<1>2. /\ DOMAIN got = DOMAIN parts
      /\ \A k \in DOMAIN got :
              /\ parts[k].kind \in {"literal", "state"}
              /\ parts[k].kind = "literal" => got[k] = <<1, ConstantId(pool, parts[k].of)>>
              /\ parts[k].kind = "state" => got[k] = <<2, IdOf(parts[k].of, StateNames(s))>>
  BY <1>1, SegmentsOf
<1>3. \A k \in DOMAIN got :
        /\ parts[k].kind = "literal" => parts[k].of \in ToSet(pool)
        /\ parts[k].kind = "state" => parts[k].of \in StateNames(s)
  BY <1>2, NodeNames
<1>4. parts \in Seq(Part)
  BY <1>1, PartsOf
<1>5. /\ DOMAIN back = DOMAIN got
      /\ \A k \in DOMAIN got :
           back[k] = IF got[k][1] = 1 THEN Literal(p.constants[got[k][2] + 1])
                     ELSE Reference(NameOf(got[k][2], StateNames(s)))
      /\ back = [k \in DOMAIN back |-> back[k]]
  BY DEF ReadTemplate
<1>6. pool \in Seq(AnyString) /\ StateNames(s) \in SUBSET Names
  BY TablesOf DEF PoolHolds
<1> HIDE DEF parts, got, back
<1>7. ASSUME NEW k \in DOMAIN got PROVE back[k] = parts[k]
  <2>1. parts[k] = [kind |-> parts[k].kind, of |-> parts[k].of]
    <3>1. parts[k] \in Part
      BY <1>2, <1>4, LenProperties
    <3> QED
      BY <3>1 DEF Part
  <2>2. CASE parts[k].kind = "literal"
    <3>1. got[k][1] = 1 /\ pool[got[k][2] + 1] = parts[k].of
      BY <1>2, <1>3, <1>6, <2>2, ConstantIdOf
    <3> QED
      BY <1>5, <2>1, <2>2, <3>1 DEF Literal
  <2>3. CASE parts[k].kind = "state"
    <3>1. got[k][1] = 2 /\ NameOf(got[k][2], StateNames(s)) = parts[k].of
      BY <1>2, <1>3, <1>6, <2>3, NameComesBack
    <3> QED
      BY <1>5, <2>1, <2>3, <3>1 DEF Reference
  <2> QED
    BY <1>2, <2>2, <2>3
<1>8. parts = [k \in DOMAIN parts |-> parts[k]]
  BY <1>4
<1> QED
  BY <1>2, <1>5, <1>7, <1>8 DEF parts, got, back

LEMMA NodeComesBack ==
  ASSUME NEW s, IsSource(s), NEW pool, PoolHolds(s, pool), NEW node \in NodesIn(s),
         NodeHolds(s, node), NEW p, p.constants = pool
  PROVE  SameNode(s, p, node, EncodedNode(s, pool, node))
<1> DEFINE keys   == Sorted(DOMAIN node.props)
           events == Sorted(DOMAIN node.events)
           got    == EncodedNode(s, pool, node)
<1>1. DOMAIN node.props \in SUBSET Names /\ DOMAIN node.events \in SUBSET Names
  BY AllNodesOf DEF IsTable
<1>2. /\ \A k \in DOMAIN keys : keys[k] \in DOMAIN node.props
      /\ ToSet(keys) = DOMAIN node.props
      /\ \A k \in DOMAIN events : events[k] \in DOMAIN node.events
      /\ ToSet(events) = DOMAIN node.events
  BY <1>1, SortedNames
<1>3. /\ got.type = node.type /\ got.id = NodeHash[node.id] /\ got.level = node.level
      /\ DOMAIN got.props = DOMAIN keys /\ DOMAIN got.events = DOMAIN events
      /\ \A k \in DOMAIN keys : got.props[k] = <<keys[k], Segments(s, pool, node.props[keys[k]])>>
      /\ \A k \in DOMAIN events :
           got.events[k] = <<events[k], IdOf(node.events[events[k]], HandlerNames(s))>>
  BY DEF EncodedNode
<1>4. HandlerNames(s) \in SUBSET Names /\ \A e \in DOMAIN node.events : node.events[e] \in HandlerNames(s)
  BY TablesOf DEF NodeHolds
<1> HIDE DEF keys, events, got
<1>5. {got.props[k][1] : k \in DOMAIN got.props} = DOMAIN node.props
  <2>1. {got.props[k][1] : k \in DOMAIN got.props} = {keys[k] : k \in DOMAIN keys}
    BY <1>3
  <2> QED
    BY <1>2, <2>1 DEF ToSet
<1>6. \A k \in DOMAIN got.props :
        ReadTemplate(s, p, got.props[k][2]) = Parts(node.props[got.props[k][1]])
  BY <1>2, <1>3, TemplateComesBack
<1>7. {<<e, node.events[e]>> : e \in DOMAIN node.events}
       = {<<got.events[k][1], NameOf(got.events[k][2], HandlerNames(s))>> : k \in DOMAIN got.events}
  <2>1. \A k \in DOMAIN got.events :
          <<got.events[k][1], NameOf(got.events[k][2], HandlerNames(s))>>
            = <<events[k], node.events[events[k]]>>
    BY <1>2, <1>3, <1>4, NameComesBack
  <2>2. {<<got.events[k][1], NameOf(got.events[k][2], HandlerNames(s))>> : k \in DOMAIN got.events}
          = {<<events[k], node.events[events[k]]>> : k \in DOMAIN events}
    BY <1>3, <2>1
  <2>3. {events[k] : k \in DOMAIN events} = DOMAIN node.events
    BY <1>2 DEF ToSet
  <2> QED
    BY <2>2, <2>3
<1> QED
  BY <1>3, <1>5, <1>6, <1>7 DEF SameNode, got

LEMMA PageComesBack ==
  ASSUME NEW s, IsSource(s), NEW pool, PoolHolds(s, pool), NodesHold(s),
         NEW page \in Range(s.pages), NEW p, p.constants = pool
  PROVE  SamePage(s, p, page, EncodedPage(s, pool, page))
<1> DEFINE got == EncodedPage(s, pool, page)
<1>1. page \in Seq(ToSet(page)) /\ \A k \in DOMAIN page : page[k] \in NodesIn(s)
  BY ElementIsIn DEF IsSource, IsPage, NodesIn
<1>2. Len(page) \in Nat /\ DOMAIN page = 1 .. Len(page)
  BY <1>1, LenProperties
<1>3. DOMAIN got = DOMAIN page /\ \A k \in DOMAIN page : got[k] = EncodedNode(s, pool, page[k])
  BY DEF EncodedPage
<1>4. Len(got) = Len(page)
  <2> DEFINE All == {EncodedNode(s, pool, page[k]) : k \in DOMAIN page}
  <2>1. got \in [1 .. Len(page) -> All]
    BY <1>2 DEF EncodedPage
  <2> HIDE DEF All, got
  <2> QED
    BY <1>2, <2>1, FunctionIsSeq
<1>5. \A node \in NodesIn(s) : NodeHolds(s, node)
  <2>1. ToSet(AllNodes(s)) = NodesIn(s)
    BY AllNodesOf
  <2> QED
    BY <2>1 DEF NodesHold, ToSet
<1> HIDE DEF got
<1>6. \A k \in DOMAIN page : SameNode(s, p, page[k], got[k])
  BY <1>1, <1>3, <1>5, NodeComesBack
<1> QED
  BY <1>4, <1>6 DEF SamePage, got

LEMMA StateComesBack ==
  ASSUME NEW s, NEW format, IsSource(s), NEW pool, PoolHolds(s, pool), StatesHold(s),
         NEW n \in StateNames(s), NEW p, p.constants = pool, p.format = format,
         p.states = EncodedStates(s, pool, format)
  PROVE  SameState(s, p, n, p.states[IdOf(n, StateNames(s)) + 1])
<1> DEFINE k == IdOf(n, StateNames(s)) + 1
<1>1. /\ k \in DOMAIN Sorted(StateNames(s)) /\ InOrder(s.state)[k] = s.state[n]
      /\ Sorted(StateNames(s))[k] = n
  BY TablesOf, TableInOrder, IdOfName DEF StateNames
<1> HIDE DEF k
<1>2. /\ p.states[k].initial = Encoded(pool, s.state[n].initial)
      /\ p.states[k].type = s.state[n].type
      /\ p.states[k].id = IF 4 <= format THEN PersistenceName(s, n) ELSE None
  BY <1>1 DEF EncodedStates
<1>3. /\ s.state[n].initial \in Value /\ pool \in Seq(AnyString)
      /\ TypeOf(s.state[n].initial) = "String" => Payload(s.state[n].initial) \in ToSet(pool)
  BY TablesOf DEF PoolHolds, StatesHold
<1>4. Resolved(p, p.states[k].initial) = s.state[n].initial
  BY <1>2, <1>3, ValueResolved
<1> QED
  BY <1>2, <1>4 DEF k, SameState

\* What a text and the module built from it say to each other.
BuildFaithful(s, p) ==
  /\ \A n \in StateNames(s) :
       SameState(s, p, n, p.states[IdOf(n, StateNames(s)) + 1])
  /\ \A n \in HandlerNames(s) :
       SameHandler(s, p, s.handlers[n], p.handlers[IdOf(n, HandlerNames(s)) + 1])
  /\ \A n \in PageNames(s) :
       SamePage(s, p, s.pages[n], p.pages[IdOf(n, PageNames(s)) + 1])
  /\ {<<p.capabilities[k], VersionRead(p, k)>> : k \in DOMAIN p.capabilities}
       = {<<c, IF 3 <= p.format THEN Version(s.module, c) ELSE 1>> : c \in Capabilities(s)}
  /\ NameOf(p.entryPage, PageNames(s)) = s.module.entryPage

LEMMA BuildIsFaithful ==
  ASSUME NEW s, NEW format, IsSource(s), NEW p \in ToSet(Build(s, format))
  PROVE  BuildFaithful(s, p)
<1> DEFINE pool == Constants(s)
<1>1. /\ Accepted(s, format) /\ p.constants = pool /\ p.format = format
      /\ p.capabilities = Sorted(Capabilities(s)) /\ p.versions = CapabilityVersions(s, format)
      /\ p.states = EncodedStates(s, pool, format)
      /\ p.handlers = HandlerTable(s, pool) /\ p.pages = PageTable(s, pool)
      /\ p.entryPage = IdOf(s.module.entryPage, PageNames(s))
  BY BuildWrites
<1>2. StatesHold(s) /\ HandlersHold(s, format, pool) /\ NodesHold(s) /\ s.module.entryPage \in PageNames(s)
  BY <1>1 DEF Accepted, LimitsHold
<1>3. PoolHolds(s, pool)
  BY <1>2, PoolIsComplete
<1>4. /\ StateNames(s) \in SUBSET Names /\ HandlerNames(s) \in SUBSET Names
      /\ PageNames(s) \in SUBSET Names
  BY TablesOf
<1> HIDE DEF pool
<1>5. ASSUME NEW n \in HandlerNames(s)
      PROVE  SameHandler(s, p, s.handlers[n], p.handlers[IdOf(n, HandlerNames(s)) + 1])
  <2> DEFINE k == IdOf(n, HandlerNames(s)) + 1
  <2>1. k \in DOMAIN InOrder(s.handlers) /\ InOrder(s.handlers)[k] = s.handlers[n]
    BY <1>4, TableInOrder DEF HandlerNames
  <2> HIDE DEF k
  <2>2. p.handlers[k] = EncodedHandler(s, pool, s.handlers[n])
    BY <1>1, <2>1 DEF HandlerTable
  <2> QED
    BY <1>1, <1>2, <1>3, <2>2, HandlerComesBack DEF k
<1>6. ASSUME NEW n \in PageNames(s)
      PROVE  SamePage(s, p, s.pages[n], p.pages[IdOf(n, PageNames(s)) + 1])
  <2> DEFINE k == IdOf(n, PageNames(s)) + 1
  <2>1. k \in DOMAIN InOrder(s.pages) /\ InOrder(s.pages)[k] = s.pages[n]
    BY <1>4, TableInOrder DEF PageNames
  <2> HIDE DEF k
  <2>2. p.pages[k] = EncodedPage(s, pool, s.pages[n])
    BY <1>1, <2>1 DEF PageTable
  <2>3. s.pages[n] \in Range(s.pages)
    BY DEF Range, PageNames
  <2> QED
    BY <1>1, <1>2, <1>3, <2>2, <2>3, PageComesBack DEF k
<1>7. \A n \in StateNames(s) :
        SameState(s, p, n, p.states[IdOf(n, StateNames(s)) + 1])
  BY <1>1, <1>2, <1>3, StateComesBack
<1>8. {<<p.capabilities[k], VersionRead(p, k)>> : k \in DOMAIN p.capabilities}
        = {<<c, IF 3 <= p.format THEN Version(s.module, c) ELSE 1>> : c \in Capabilities(s)}
  BY <1>1, VersionsWritten
<1>9. NameOf(p.entryPage, PageNames(s)) = s.module.entryPage
  BY <1>1, <1>2, <1>4, NameComesBack
<1> QED
  BY <1>5, <1>6, <1>7, <1>8, <1>9 DEF BuildFaithful

\* Whatever text is compiled, to whatever format, the module written says what the
\* source says: _initial_value, _instruction, _node and the tables of build.
THEOREM CompilerIsFaithful == Spec => []Faithful
<1>1. Init => Compiles
  BY InitCompiles
<1>2. Compiles /\ [Next]_allVars => Compiles'
  BY NextCompiles
<1>3. Compiles => Faithful
  <2> SUFFICES ASSUME Compiles, NEW p \in Written PROVE BuildFaithful(text, p)
    BY DEF Faithful, BuildFaithful
  <2> QED
    BY WrittenIsBuilt, BuildIsFaithful
<1> QED
  BY <1>1, <1>2, <1>3, PTL DEF Spec

-----------------------------------------------------------------------------
(***************************************************************************)
(* The value of an event                                                   *)
(***************************************************************************)
ReadsEventValue(code) == \E k \in DOMAIN code : code[k].op = "EventValue"

\* A handler whose code reads the value of an event read it in the source.
LEMMA ReadInSource ==
  ASSUME NEW s, IsSource(s), NEW pool, NEW name \in HandlerNames(s),
         NEW handlers, handlers = HandlerTable(s, pool),
         ReadsEventValue(handlers[IdOf(name, HandlerNames(s)) + 1])
  PROVE  name \in EventValueHandlers(s)
<1> DEFINE raw == s.handlers[name]
           got == EncodedHandler(s, pool, raw)
<1>1. handlers[IdOf(name, HandlerNames(s)) + 1] = got
  BY TablesOf, TableInOrder DEF HandlerNames, HandlerTable
<1>2. raw \in Seq(SourceInstruction)
  BY HandlersOf
<1>3. /\ Len(raw) \in Nat /\ DOMAIN raw = 1 .. Len(raw)
      /\ Len(got) \in Nat \ {0} /\ DOMAIN got = 1 .. Len(got)
      /\ Len(got) = Len(raw) \/ Len(got) = Len(raw) + 1
      /\ \A k \in DOMAIN raw : got[k] = EncodedInstruction(s, pool, raw[k])
      /\ Len(got) = Len(raw) + 1 => got[Len(raw) + 1] = HaltInstruction
  BY <1>2, HandlerEncoded
<1> HIDE DEF raw, got
<1>4. PICK k \in DOMAIN got : got[k].op = "EventValue"
  BY <1>1 DEF ReadsEventValue
<1>5. k \in DOMAIN raw
  <2>1. got[k] # HaltInstruction
    BY <1>4 DEF HaltInstruction
  <2>2. \A n, m \in Nat : \A j \in 1 .. m : (m = n \/ (m = n + 1 /\ j # n + 1)) => j \in 1 .. n
    OBVIOUS
  <2>3. Len(got) = Len(raw) + 1 => k # Len(raw) + 1
    BY <1>3, <2>1
  <2>4. Len(raw) \in Nat /\ Len(got) \in Nat /\ k \in 1 .. Len(got)
    <3>1. Len(got) \in Nat \ {0} => Len(got) \in Nat
      OBVIOUS
    <3> QED
      BY <1>3, <1>4, <3>1
  <2>5. k \in 1 .. Len(raw)
    BY <1>3, <2>2, <2>3, <2>4
  <2> QED
    BY <1>3, <2>5
<1>6. raw[k].op = "EventValue"
  <2>1. got[k] = EncodedInstruction(s, pool, raw[k])
    BY <1>3, <1>5
  <2> QED
    BY <1>4, <2>1 DEF EncodedInstruction
<1> QED
  BY <1>5, <1>6 DEF EventValueHandlers, raw

BuildSupplies(p) ==
  LET reads == {h \in 0 .. Len(p.handlers) - 1 : ReadsEventValue(p.handlers[h + 1])}
  IN  /\ \A n \in DOMAIN p.entryHandler : p.entryHandler[n] \notin reads
      /\ \A k \in DOMAIN PackageNodes(p) : \A e \in ToSet(PackageNodes(p)[k].events) :
           e[2] \in reads => e[1] \in {"change", "submit"}

LEMMA BuildSuppliesValues ==
  ASSUME NEW s, NEW format, IsSource(s), NEW p \in ToSet(Build(s, format))
  PROVE  BuildSupplies(p)
<1> DEFINE pool == Constants(s)
           reads == {h \in 0 .. Len(p.handlers) - 1 : ReadsEventValue(p.handlers[h + 1])}
<1>1. /\ Accepted(s, format) /\ p.handlers = HandlerTable(s, pool) /\ p.pages = PageTable(s, pool)
      /\ p.entryHandler = EntryOf(s)
  BY BuildWrites
<1>2. /\ BindingsHold(s) /\ NodesHold(s)
      /\ s.module.entryHandler = None \/ s.module.entryHandler \in HandlerNames(s)
  BY <1>1 DEF Accepted, LimitsHold
<1> HIDE DEF pool
<1>3. ASSUME NEW name \in HandlerNames(s), IdOf(name, HandlerNames(s)) \in reads
      PROVE  name \in EventValueHandlers(s)
  BY <1>1, <1>3, ReadInSource
<1> HIDE DEF reads
<1>4. ASSUME NEW n \in DOMAIN p.entryHandler PROVE p.entryHandler[n] \notin reads
  <2>1. /\ s.module.entryHandler \in HandlerNames(s)
        /\ p.entryHandler[n] = IdOf(s.module.entryHandler, HandlerNames(s))
    BY <1>1, <1>2 DEF EntryOf
  <2> QED
    BY <1>2, <1>3, <2>1 DEF BindingsHold
<1>5. ASSUME NEW k \in DOMAIN PackageNodes(p), NEW e \in ToSet(PackageNodes(p)[k].events),
             e[2] \in reads
      PROVE  e[1] \in {"change", "submit"}
  <2> DEFINE node   == AllNodes(s)[k]
             events == Sorted(DOMAIN node.events)
  <2>1. /\ PackageNodes(p)[k] = EncodedNode(s, pool, node) /\ k \in DOMAIN AllNodes(s)
        /\ node \in NodesIn(s)
    BY <1>1, PackageNodesOf
  <2>2. DOMAIN node.events \in SUBSET Names
    BY <2>1, AllNodesOf DEF IsTable
  <2>3. \A j \in DOMAIN events : events[j] \in DOMAIN node.events
    BY <2>2, SortedNames
  <2>4. PICK j \in DOMAIN events :
          e = <<events[j], IdOf(node.events[events[j]], HandlerNames(s))>>
    <3> HIDE DEF node, events
    <3>1. PackageNodes(p)[k].events =
            [j \in DOMAIN Sorted(DOMAIN node.events) |->
               <<Sorted(DOMAIN node.events)[j],
                 IdOf(node.events[Sorted(DOMAIN node.events)[j]], HandlerNames(s))>>]
      BY <2>1 DEF EncodedNode
    <3> QED
      BY <3>1 DEF ToSet, events
  <2>5. node.events[events[j]] \in HandlerNames(s)
    BY <1>2, <2>1, <2>3 DEF NodesHold, NodeHolds
  <2>6. node.events[events[j]] \in EventValueHandlers(s)
    BY <1>3, <1>5, <2>4, <2>5
  <2>7. events[j] \in BoundEvents(AllNodes(s), node.events[events[j]])
    BY <2>1, <2>3 DEF BoundEvents
  <2>8. e[1] = events[j]
    BY <2>4
  <2> QED
    BY <1>2, <2>6, <2>7, <2>8 DEF BindingsHold
<1> QED
  BY <1>4, <1>5 DEF BuildSupplies, reads

\* In every module the compiler writes, a handler that reads the value of its event
\* is neither the entry nor bound to an event without one: _check_event_bindings.
THEOREM EventsSupplyValues == Spec => []EventValueSupplied
<1>1. Init => Compiles
  BY InitCompiles
<1>2. Compiles /\ [Next]_allVars => Compiles'
  BY NextCompiles
<1>3. Compiles => EventValueSupplied
  <2> SUFFICES ASSUME Compiles, NEW p \in Written PROVE BuildSupplies(p)
    BY DEF EventValueSupplied, BuildSupplies, ReadsEventValue
  <2> QED
    BY WrittenIsBuilt, BuildSuppliesValues
<1> QED
  BY <1>1, <1>2, <1>3, PTL DEF Spec

-----------------------------------------------------------------------------
(***************************************************************************)
(* The loader's checks of the header and of the tables                     *)
(***************************************************************************)
LEMMA TasksOfFirstFormat == 64 \in 1 .. MaxBudget
<1>1. MaxBudget \in Int /\ 64 <= MaxBudget
  BY SMT DEF MaxBudget
<1>2. \A n \in Int : 64 <= n => 64 \in 1 .. n
  OBVIOUS
<1> QED
  BY <1>1, <1>2

LEMMA LimitsWritten ==
  ASSUME NEW s, NEW format, IsSource(s), Accepted(s, format), NEW limits,
         limits = LimitsOf(s, format)
  PROVE  /\ DOMAIN limits = {"maxInstructions", "maxStack", "maxStateBytes", "maxNodes", "maxTasks"}
         /\ \A k \in DOMAIN limits : limits[k] \in 1 .. MaxBudget
         /\ limits.maxNodes = s.module.budget.maxNodes
<1> DEFINE b == s.module.budget
<1>1. b \in [maxInstructions : Int, maxStack : Int, maxStateBytes : Int, maxNodes : Int,
             maxTasks : Int]
  BY DEF IsSource
<1>2. \A k \in DOMAIN b : b[k] \in 1 .. MaxBudget
  BY DEF Accepted, LimitsHold
<1>3. 64 \in 1 .. MaxBudget
  BY TasksOfFirstFormat
<1> HIDE DEF b
<1>4. DOMAIN b = {"maxInstructions", "maxStack", "maxStateBytes", "maxNodes", "maxTasks"}
  BY <1>1
<1>5. CASE 2 <= format
  <2>1. limits = b
    BY <1>5 DEF LimitsOf, b
  <2> QED
    BY <1>2, <1>4, <2>1 DEF b
<1>6. CASE ~(2 <= format)
  <2>1. limits = [b EXCEPT !.maxTasks = 64]
    BY <1>6 DEF LimitsOf, b
  <2>2. DOMAIN limits = DOMAIN b /\ \A k \in DOMAIN b : limits[k] = IF k = "maxTasks" THEN 64 ELSE b[k]
    BY <1>1, <1>4, <2>1
  <2>3. limits.maxNodes = b.maxNodes
    BY <1>4, <2>2
  <2> QED
    BY <1>2, <1>3, <1>4, <2>2, <2>3 DEF b
<1> QED
  BY <1>5, <1>6

LEMMA HeaderIsRead ==
  ASSUME NEW s, NEW format \in Formats, IsSource(s), NEW p \in ToSet(Build(s, format))
  PROVE  HeaderReads(p)
<1>1. /\ Accepted(s, format) /\ p.format = format /\ p.minimumRuntime = s.module.minimumRuntime
      /\ p.release = s.module.release /\ p.keyVersion = s.module.keyVersion
      /\ p.profile = s.delivery.profile /\ p.platform = s.delivery.platform
      /\ p.limits = LimitsOf(s, format) /\ p.capabilities = Sorted(Capabilities(s))
      /\ p.versions = CapabilityVersions(s, format)
  BY BuildWrites
<1>2. format <= p.minimumRuntime /\ p.minimumRuntime <= RuntimeVersion
  BY <1>1 DEF Accepted, LimitsHold, PolicyHolds, IdentityHolds
<1>3. p.release # 0 /\ p.keyVersion # 0
  BY <1>1 DEF Accepted, PolicyHolds, IdentityHolds
<1>4. p.profile \in Profiles /\ p.platform \in Platforms
  BY <1>1 DEF Accepted, PolicyHolds, DeliveryHolds
<1>5. \A k \in DOMAIN p.limits : p.limits[k] \in 1 .. MaxBudget
  BY <1>1, LimitsWritten
<1>6. ASSUME 3 <= p.format, NEW k \in DOMAIN p.capabilities PROVE p.versions[k] # 0
  <2> DEFINE c == Sorted(Capabilities(s))[k]
  <2>1. p.versions[k] = Version(s.module, c)
    BY <1>1, <1>6 DEF CapabilityVersions
  <2>2. c \in DOMAIN s.module.versions => s.module.versions[c] \in 1 .. MaxVersion
    BY <1>1 DEF Accepted, PolicyHolds, CapabilitiesHold
  <2>3. Version(s.module, c) # 0
    BY <2>2 DEF Version
  <2> QED
    BY <2>1, <2>3
<1> QED
  BY <1>1, <1>2, <1>3, <1>4, <1>5, <1>6 DEF HeaderReads

\* The segments of a property name constants and states that exist.
LEMMA NodeIsRead ==
  ASSUME NEW s, IsSource(s), NEW pool, PoolHolds(s, pool), NEW node \in NodesIn(s),
         NodeHolds(s, node), NEW p, p.constants = pool, Len(p.states) = Len(Sorted(StateNames(s))),
         NEW got, got = EncodedNode(s, pool, node), got.level <= MaxDepth, got.id # 0,
         \A j \in DOMAIN got.props : Len(got.props[j][2]) <= MaxSegments
  PROVE  NodeReads(p, got)
<1> DEFINE keys   == Sorted(DOMAIN node.props)
           events == Sorted(DOMAIN node.events)
<1>1. DOMAIN node.props \in SUBSET Names /\ DOMAIN node.events \in SUBSET Names
      /\ \A key \in DOMAIN node.props : node.props[key] \in Template
  BY AllNodesOf DEF IsTable
<1>2. /\ \A k \in DOMAIN keys : keys[k] \in DOMAIN node.props
      /\ IsInjective(keys) /\ IsInjective(events)
  BY <1>1, SortedNames
<1>3. /\ DOMAIN got.props = DOMAIN keys /\ DOMAIN got.events = DOMAIN events
      /\ \A k \in DOMAIN keys : got.props[k] = <<keys[k], Segments(s, pool, node.props[keys[k]])>>
      /\ \A k \in DOMAIN events :
           got.events[k] = <<events[k], IdOf(node.events[events[k]], HandlerNames(s))>>
  BY DEF EncodedNode
<1> HIDE DEF keys, events
<1>4. /\ IsInjective([k \in DOMAIN got.props |-> got.props[k][1]])
      /\ IsInjective([k \in DOMAIN got.events |-> got.events[k][1]])
  BY <1>2, <1>3 DEF IsInjective
<1>5. pool \in Seq(AnyString) /\ StateNames(s) \in SUBSET Names
  BY TablesOf DEF PoolHolds
<1>6. ASSUME NEW j \in DOMAIN got.props
      PROVE  /\ Len(got.props[j][2]) \in 1 .. MaxSegments
             /\ \A k \in DOMAIN got.props[j][2] :
                  LET segment == got.props[j][2][k]
                  IN  segment[2] < IF segment[1] = 1 THEN Len(p.constants) ELSE Len(p.states)
  <2> DEFINE key      == keys[j]
             segments == Segments(s, pool, node.props[key])
             parts    == Parts(node.props[key])
  <2>1. key \in DOMAIN node.props /\ got.props[j][2] = segments
    BY <1>2, <1>3
  <2>2. /\ Len(segments) \in Nat \ {0} /\ DOMAIN segments = DOMAIN parts
        /\ \A k \in DOMAIN segments :
              /\ parts[k].kind \in {"literal", "state"}
              /\ parts[k].kind = "literal" => segments[k] = <<1, ConstantId(pool, parts[k].of)>>
              /\ parts[k].kind = "state" => segments[k] = <<2, IdOf(parts[k].of, StateNames(s))>>
    BY <1>1, <2>1, SegmentsOf
  <2>3. \A k \in DOMAIN parts :
          /\ parts[k].kind = "literal" => parts[k].of \in ToSet(pool)
          /\ parts[k].kind = "state" => parts[k].of \in StateNames(s)
    BY <2>1, NodeNames
  <2> HIDE DEF key, segments, parts
  <2>4. Len(got.props[j][2]) \in 1 .. MaxSegments
    BY <2>1, <2>2, NestingAssumption
  <2>5. ASSUME NEW k \in DOMAIN segments
        PROVE  segments[k][2] < IF segments[k][1] = 1 THEN Len(p.constants) ELSE Len(p.states)
    <3>1. CASE parts[k].kind = "literal"
      <4>1. ConstantId(pool, parts[k].of) \in 0 .. Len(pool) - 1
        BY <1>5, <2>2, <2>3, <3>1, ConstantIdOf
      <4>2. segments[k] = <<1, ConstantId(pool, parts[k].of)>> /\ Len(pool) \in Nat
        BY <1>5, <2>2, <3>1, LenProperties
      <4> QED
        BY <4>1, <4>2
    <3>2. CASE parts[k].kind = "state"
      <4>1. /\ IdOf(parts[k].of, StateNames(s)) \in 0 .. Len(Sorted(StateNames(s))) - 1
            /\ Len(Sorted(StateNames(s))) \in Nat
        BY <1>5, <2>2, <2>3, <3>2, IdOfName, SortedNames
      <4>2. segments[k] = <<2, IdOf(parts[k].of, StateNames(s))>>
        BY <2>2, <3>2
      <4> QED
        BY <4>1, <4>2
    <3> QED
      BY <2>2, <3>1, <3>2
  <2> QED
    BY <2>1, <2>4, <2>5
<1> QED
  BY <1>4, <1>6 DEF NodeReads

\* The states of the package, in the order of their names.
TypesOf(states) == [k \in DOMAIN states |-> states[k].type]

StateIs(s, format, pool, n, state) ==
  /\ n \in StateNames(s)
  /\ state.initial = Encoded(pool, s.state[n].initial) /\ state.type = s.state[n].type
  /\ TypeOf(state.initial) = state.type /\ state.type \in ValueType
  /\ state.id = IF 4 <= format THEN PersistenceName(s, n) ELSE None

LEMMA StatesWritten ==
  ASSUME NEW s, NEW format, IsSource(s), NEW pool, PoolHolds(s, pool), StatesHold(s),
         NEW states, states = EncodedStates(s, pool, format)
  PROVE  /\ Len(states) = Len(Sorted(StateNames(s))) /\ Len(states) \in Nat
         /\ DOMAIN states = 1 .. Len(states) /\ DOMAIN states = DOMAIN Sorted(StateNames(s))
         /\ \A k \in DOMAIN states : StateIs(s, format, pool, Sorted(StateNames(s))[k], states[k])
         /\ TypesOf(states) = SlotTypes(s)
<1> DEFINE names == Sorted(StateNames(s))
<1>1. /\ DOMAIN InOrder(s.state) = DOMAIN names
      /\ \A k \in DOMAIN names : /\ InOrder(s.state)[k] = s.state[names[k]]
                                 /\ names[k] \in StateNames(s)
      /\ Len(names) \in Nat /\ DOMAIN names = 1 .. Len(names)
  BY TablesOf, TableInOrder, SortedNames DEF StateNames
<1> HIDE DEF names
<1>2. /\ DOMAIN states = DOMAIN names
      /\ \A k \in DOMAIN names :
           /\ states[k].initial = Encoded(pool, s.state[names[k]].initial)
           /\ states[k].type = s.state[names[k]].type
           /\ states[k].id = IF 4 <= format THEN PersistenceName(s, names[k]) ELSE None
  BY <1>1 DEF EncodedStates, names
<1>3. Len(states) = Len(names)
  <2> DEFINE All == {states[k] : k \in DOMAIN names}
  <2>1. states \in [1 .. Len(names) -> All]
    BY <1>1, <1>2 DEF EncodedStates, names
  <2> HIDE DEF All
  <2> QED
    BY <1>1, <2>1, FunctionIsSeq
<1>4. ASSUME NEW k \in DOMAIN states
      PROVE  TypeOf(states[k].initial) = states[k].type /\ states[k].type \in ValueType
  <2> DEFINE v == s.state[names[k]].initial
  <2>1. /\ v \in Value /\ TypeOf(v) = s.state[names[k]].type /\ s.state[names[k]].type \in ValueType
        /\ pool \in Seq(AnyString) /\ (TypeOf(v) = "String" => Payload(v) \in ToSet(pool))
    BY <1>1, <1>2, TablesOf DEF StatesHold, PoolHolds
  <2> HIDE DEF v
  <2>2. TypeOf(Encoded(pool, v)) = TypeOf(v)
    <3> DEFINE p == [constants |-> pool]
    <3>1. p.constants = pool
      OBVIOUS
    <3> HIDE DEF p
    <3> QED
      BY <2>1, <3>1, ValueResolved
  <2> QED
    BY <1>2, <2>1, <2>2 DEF v
<1>5. TypesOf(states) = SlotTypes(s)
  BY <1>1, <1>2 DEF SlotTypes, TypesOf
<1> QED
  BY <1>1, <1>2, <1>3, <1>4, <1>5 DEF names, StateIs

\* As many persistent names as states: no two states share one.
LEMMA PersistentNamesDiffer ==
  ASSUME NEW s, NEW format, IsSource(s), PersistenceHolds(s, format)
  PROVE  \A a, b \in StateNames(s) : PersistenceName(s, a) = PersistenceName(s, b) => a = b
<1> DEFINE S == StateNames(s)
           T == {PersistenceName(s, n) : n \in S}
           f == [n \in S |-> PersistenceName(s, n)]
<1>1. Cardinality(T) = Cardinality(S)
  BY DEF PersistenceHolds
<1>2. IsFiniteSet(S)
  <2> DEFINE names == Sorted(S)
  <2>1. names \in Seq(S) /\ ToSet(names) = S /\ Len(names) \in Nat /\ DOMAIN names = 1 .. Len(names)
    BY TablesOf, SortedNames
  <2> HIDE DEF names, S
  <2>2. names \in Surjection(1 .. Len(names), S)
    BY <2>1 DEF Surjection, ToSet
  <2>3. IsFiniteSet(1 .. Len(names))
    BY <2>1, FS_Interval
  <2> QED
    BY <2>2, <2>3, FS_Surjection
<1>3. f \in Surjection(S, T)
  BY DEF Surjection
<1> HIDE DEF S, T
<1>4. f \in Injection(S, T)
  <2> HIDE DEF f
  <2> QED
    BY <1>1, <1>2, <1>3, FS_Surjection
<1> QED
  BY <1>4 DEF Injection, IsInjective, S

\* The code of every handler was judged, and is made of judged instructions.
LEMMA HandlerTableIsRead ==
  ASSUME NEW s, NEW format, IsSource(s), NEW pool, PoolHolds(s, pool),
         HandlersHold(s, format, pool), NEW handlers, handlers = HandlerTable(s, pool)
  PROVE  /\ Len(handlers) = Len(Sorted(HandlerNames(s))) /\ Len(handlers) \in Nat
         /\ DOMAIN handlers = 1 .. Len(handlers)
         /\ \A h \in DOMAIN handlers :
              /\ Len(handlers[h]) \in Nat \ {0} /\ DOMAIN handlers[h] = 1 .. Len(handlers[h])
              /\ Checked(handlers[h], SlotTypes(s))
              /\ \A k \in DOMAIN handlers[h] :
                   \/ handlers[h][k] = HaltInstruction
                   \/ \E i \in InstructionsIn(s) :
                        /\ InstructionHolds(s, format, i)
                        /\ handlers[h][k] = EncodedInstruction(s, pool, i)
<1> DEFINE table == InOrder(s.handlers)
<1>1. /\ Len(table) = Len(Sorted(HandlerNames(s))) /\ Len(table) \in Nat
      /\ DOMAIN table = 1 .. Len(table)
      /\ \A k \in DOMAIN table : /\ table[k] = s.handlers[Sorted(HandlerNames(s))[k]]
                                 /\ Sorted(HandlerNames(s))[k] \in HandlerNames(s)
  BY TablesOf, TableInOrder DEF HandlerNames
<1>2. /\ DOMAIN handlers = DOMAIN table
      /\ \A k \in DOMAIN table : handlers[k] = EncodedHandler(s, pool, table[k])
  BY DEF HandlerTable
<1>3. Len(handlers) = Len(table)
  <2> DEFINE All == {handlers[k] : k \in DOMAIN table}
  <2>1. handlers \in [1 .. Len(table) -> All]
    BY <1>1, <1>2 DEF HandlerTable
  <2> HIDE DEF All, table
  <2> QED
    BY <1>1, <2>1, FunctionIsSeq
<1> HIDE DEF table
<1>4. ASSUME NEW h \in DOMAIN handlers
      PROVE  /\ Len(handlers[h]) \in Nat \ {0} /\ DOMAIN handlers[h] = 1 .. Len(handlers[h])
             /\ Checked(handlers[h], SlotTypes(s))
             /\ \A k \in DOMAIN handlers[h] :
                   \/ handlers[h][k] = HaltInstruction
                   \/ \E i \in InstructionsIn(s) :
                        /\ InstructionHolds(s, format, i)
                        /\ handlers[h][k] = EncodedInstruction(s, pool, i)
  <2> DEFINE n   == Sorted(HandlerNames(s))[h]
             raw == s.handlers[n]
             got == handlers[h]
  <2>1. n \in HandlerNames(s) /\ got = EncodedHandler(s, pool, raw)
    BY <1>1, <1>2
  <2>2. raw \in Seq(SourceInstruction)
    BY <2>1, HandlersOf
  <2>3. \A k \in DOMAIN raw : raw[k] \in InstructionsIn(s) /\ InstructionHolds(s, format, raw[k])
    BY <2>1, ElementIsIn DEF HandlersHold, InstructionsIn
  <2>4. Checked(got, SlotTypes(s))
    BY <2>1 DEF HandlersHold
  <2> HIDE DEF n, raw, got
  <2>5. /\ Len(raw) \in Nat /\ DOMAIN raw = 1 .. Len(raw)
        /\ Len(got) \in Nat \ {0} /\ DOMAIN got = 1 .. Len(got)
        /\ Len(got) = Len(raw) \/ Len(got) = Len(raw) + 1
        /\ \A k \in DOMAIN raw : got[k] = EncodedInstruction(s, pool, raw[k])
        /\ Len(got) = Len(raw) + 1 => got[Len(raw) + 1] = HaltInstruction
    BY <2>1, <2>2, HandlerEncoded
  <2>6. ASSUME NEW k \in DOMAIN got
        PROVE  \/ got[k] = HaltInstruction
               \/ \E i \in InstructionsIn(s) :
                    InstructionHolds(s, format, i) /\ got[k] = EncodedInstruction(s, pool, i)
    <3>1. CASE k \in DOMAIN raw
      BY <2>3, <2>5, <3>1
    <3>2. CASE k \notin DOMAIN raw
      <4>1. \A a, b \in Nat : \A j \in 1 .. b : (b = a \/ b = a + 1) /\ j \notin 1 .. a => b = a + 1 /\ j = a + 1
        OBVIOUS
      <4>2. Len(got) \in Nat
        <5>1. \A a \in Nat \ {0} : a \in Nat
          OBVIOUS
        <5> QED
          BY <2>5, <5>1
      <4>3. Len(got) = Len(raw) + 1 /\ k = Len(raw) + 1
        BY <2>5, <3>2, <4>1, <4>2
      <4> QED
        BY <2>5, <4>3
    <3> QED
      BY <3>1, <3>2
  <2> QED
    BY <2>4, <2>5, <2>6 DEF got
<1> QED
  BY <1>1, <1>3, <1>2, <1>4

\* What a package has in common with its source, and the limits it keeps.
Built(s, format, p) ==
  /\ IsSource(s) /\ format \in Formats /\ Accepted(s, format)
  /\ PoolHolds(s, Constants(s))
  /\ p.format = format /\ p.constants = Constants(s)
  /\ p.limits = LimitsOf(s, format) /\ p.capabilities = Sorted(Capabilities(s))
  /\ p.domains = Sorted(ToSet(s.module.domains)) /\ p.scopes = Sorted(ToSet(s.module.scopes))
  /\ p.states = EncodedStates(s, Constants(s), format)
  /\ p.handlers = HandlerTable(s, Constants(s)) /\ p.pages = PageTable(s, Constants(s))
  /\ p.entryPage = IdOf(s.module.entryPage, PageNames(s)) /\ p.entryHandler = EntryOf(s)
  /\ KeepsLoaderLimits(p)

LEMMA BuiltFrom ==
  ASSUME NEW s, NEW format \in Formats, IsSource(s), NEW p \in ToSet(Build(s, format)),
         KeepsLoaderLimits(p)
  PROVE  Built(s, format, p)
<1>1. Accepted(s, format)
  BY BuildWrites
<1>2. PoolHolds(s, Constants(s))
  BY <1>1, PoolIsComplete DEF Accepted
<1> QED
  BY <1>1, <1>2, BuildWrites DEF Built

LEMMA NodesAreRead ==
  ASSUME NEW s, NEW format, NEW p, Built(s, format, p)
  PROVE  /\ \A k \in DOMAIN PackageNodes(p) : NodeReads(p, PackageNodes(p)[k])
         /\ IsInjective([k \in DOMAIN PackageNodes(p) |-> PackageNodes(p)[k].id])
         /\ Len(PackageNodes(p)) <= p.limits.maxNodes
<1> DEFINE pool == Constants(s)
           nodes == AllNodes(s)
<1>1. /\ IsSource(s) /\ Accepted(s, format) /\ PoolHolds(s, pool) /\ p.constants = pool
      /\ p.limits = LimitsOf(s, format) /\ p.states = EncodedStates(s, pool, format)
      /\ p.pages = PageTable(s, pool) /\ KeepsLoaderLimits(p)
  BY DEF Built
<1>2. NodesHold(s) /\ StatesHold(s) /\ Len(nodes) <= s.module.budget.maxNodes
  BY <1>1 DEF Accepted, LimitsHold
<1> HIDE DEF pool
<1>3. /\ Len(PackageNodes(p)) = Len(nodes) /\ DOMAIN PackageNodes(p) = DOMAIN nodes
      /\ \A k \in DOMAIN nodes : /\ PackageNodes(p)[k] = EncodedNode(s, pool, nodes[k])
                                 /\ nodes[k] \in NodesIn(s)
  BY <1>1, PackageNodesOf
<1>4. Len(p.states) = Len(Sorted(StateNames(s)))
  <2> DEFINE states == p.states
  <2>1. /\ IsSource(s) /\ PoolHolds(s, pool) /\ StatesHold(s)
        /\ states = EncodedStates(s, pool, format)
    BY <1>1, <1>2
  <2> HIDE DEF states
  <2>2. Len(states) = Len(Sorted(StateNames(s)))
    BY <2>1, StatesWritten
  <2> QED
    BY <2>2 DEF states
<1>5. \A k \in DOMAIN nodes : NodeHolds(s, nodes[k])
  BY <1>2 DEF NodesHold
<1>6. \A k \in DOMAIN PackageNodes(p) :
        /\ PackageNodes(p)[k].level <= MaxDepth /\ PackageNodes(p)[k].id # 0
        /\ \A j \in DOMAIN PackageNodes(p)[k].props :
             Len(PackageNodes(p)[k].props[j][2]) <= MaxSegments
  BY <1>1 DEF KeepsLoaderLimits
<1>7. IsInjective([k \in DOMAIN nodes |-> NodeHash[nodes[k].id]])
  BY <1>2 DEF NodesHold
<1> HIDE DEF nodes
<1>8. \A k \in DOMAIN PackageNodes(p) : NodeReads(p, PackageNodes(p)[k])
  BY <1>1, <1>3, <1>4, <1>5, <1>6, NodeIsRead
<1>9. IsInjective([k \in DOMAIN PackageNodes(p) |-> PackageNodes(p)[k].id])
  <2>1. \A k \in DOMAIN nodes : PackageNodes(p)[k].id = NodeHash[nodes[k].id]
    BY <1>3 DEF EncodedNode
  <2> QED
    BY <1>3, <1>7, <2>1 DEF IsInjective
<1>10. p.limits.maxNodes = s.module.budget.maxNodes
  BY <1>1, LimitsWritten
<1> QED
  BY <1>2, <1>3, <1>8, <1>9, <1>10 DEF nodes

LEMMA TablesAreRead ==
  ASSUME NEW s, NEW format, NEW p, Built(s, format, p)
  PROVE  TablesRead(p)
<1> DEFINE pool == Constants(s)
<1>1. /\ IsSource(s) /\ Accepted(s, format) /\ PoolHolds(s, pool) /\ p.constants = pool
      /\ p.format = format /\ p.capabilities = Sorted(Capabilities(s))
      /\ p.domains = Sorted(ToSet(s.module.domains)) /\ p.scopes = Sorted(ToSet(s.module.scopes))
      /\ p.states = EncodedStates(s, pool, format) /\ p.handlers = HandlerTable(s, pool)
  BY DEF Built
<1>2. StatesHold(s) /\ HandlersHold(s, format, pool) /\ PersistenceHolds(s, format)
  BY <1>1 DEF Accepted
<1> HIDE DEF pool
<1>3. pool \in Seq(AnyString) /\ IsInjective(pool) /\ Len(pool) \in Nat
  BY <1>1, LenProperties DEF PoolHolds
<1>4. ASSUME NEW h \in DOMAIN p.handlers, NEW k \in DOMAIN p.handlers[h]
      PROVE  /\ p.handlers[h][k].op = "AsyncEffect" => 2 <= p.format
             /\ p.handlers[h][k].op = "EventValue" => 5 <= p.format
             /\ p.handlers[h][k].op \in {"Effect", "AsyncEffect"} =>
                  p.handlers[h][k].second < Len(p.constants)
  <2> DEFINE e == p.handlers[h][k]
  <2>1. \/ e = HaltInstruction
        \/ \E i \in InstructionsIn(s) :
             InstructionHolds(s, format, i) /\ e = EncodedInstruction(s, pool, i)
    BY <1>1, <1>2, HandlerTableIsRead
  <2> HIDE DEF e
  <2>2. CASE e = HaltInstruction
    BY <2>2 DEF HaltInstruction, e
  <2>3. ASSUME NEW i \in InstructionsIn(s), InstructionHolds(s, format, i),
               e = EncodedInstruction(s, pool, i)
        PROVE  /\ e.op = "AsyncEffect" => 2 <= format
               /\ e.op = "EventValue" => 5 <= format
               /\ e.op \in {"Effect", "AsyncEffect"} => e.second < Len(pool)
    <3>1. /\ e.op = "AsyncEffect" => 2 <= format
          /\ e.op = "EventValue" => 5 <= format
          /\ e.op \in {"Effect", "AsyncEffect"} =>
               i.operation \in ToSet(pool) /\ e.second = ConstantId(pool, i.operation)
      <4>1. IsSource(s) /\ PoolHolds(s, pool)
        BY <1>1
      <4> QED
        BY <2>3, <4>1, InstructionEncoded
    <3>2. ASSUME i.operation \in ToSet(pool) PROVE ConstantId(pool, i.operation) < Len(pool)
      <4>1. ConstantId(pool, i.operation) \in 0 .. Len(pool) - 1
        BY <1>3, <3>2, ConstantIdOf
      <4> QED
        BY <1>3, <4>1
    <3> QED
      BY <3>1, <3>2
  <2> QED
    BY <1>1, <2>1, <2>2, <2>3 DEF e
<1>5. IsInjective(p.domains) /\ IsInjective(p.scopes)
  BY <1>1, TablesOf, SortedNames
<1>6. IsInjective(p.capabilities)
  BY <1>1, TablesOf, SortedNames
<1>7. /\ DOMAIN p.states = DOMAIN Sorted(StateNames(s))
      /\ \A k \in DOMAIN p.states :
           /\ Sorted(StateNames(s))[k] \in StateNames(s)
           /\ TypeOf(p.states[k].initial) = p.states[k].type
           /\ p.states[k].id = IF 4 <= format THEN PersistenceName(s, Sorted(StateNames(s))[k])
                                ELSE None
  <2>1. /\ IsSource(s) /\ PoolHolds(s, pool) /\ StatesHold(s)
        /\ p.states = EncodedStates(s, pool, format)
    BY <1>1, <1>2
  <2>2. /\ DOMAIN p.states = DOMAIN Sorted(StateNames(s))
        /\ \A k \in DOMAIN p.states :
             StateIs(s, format, pool, Sorted(StateNames(s))[k], p.states[k])
    BY <2>1, StatesWritten
  <2> QED
    BY <2>2 DEF StateIs
<1>8. 4 <= p.format => IsInjective([k \in DOMAIN p.states |-> p.states[k].id])
  <2>1. IsInjective(Sorted(StateNames(s)))
    BY <1>1, TablesOf, SortedNames
  <2>2. \A a, b \in StateNames(s) : PersistenceName(s, a) = PersistenceName(s, b) => a = b
    BY <1>1, <1>2, PersistentNamesDiffer
  <2> SUFFICES ASSUME 4 <= format, NEW a \in DOMAIN p.states, NEW b \in DOMAIN p.states,
                      p.states[a].id = p.states[b].id
               PROVE  a = b
    BY <1>1 DEF IsInjective
  <2>3. Sorted(StateNames(s))[a] = Sorted(StateNames(s))[b]
    BY <1>7, <2>2
  <2> QED
    BY <1>7, <2>1, <2>3 DEF IsInjective
<1> QED
  BY <1>1, <1>3, <1>4, <1>5, <1>6, <1>7, <1>8, NodesAreRead DEF TablesRead

-----------------------------------------------------------------------------
(***************************************************************************)
(* What the loader reads                                                   *)
(***************************************************************************)
LEMMA LengthOf ==
  ASSUME NEW n \in Nat, NEW f, DOMAIN f = 1 .. n, f = [k \in DOMAIN f |-> f[k]]
  PROVE  Len(f) = n
<1> DEFINE All == {f[k] : k \in 1 .. n}
<1>1. f \in [1 .. n -> All]
  OBVIOUS
<1> HIDE DEF All
<1> QED
  BY <1>1, FunctionIsSeq

\* The instructions the loader reads are those of the package.
LEMMA HandlersAreRead ==
  ASSUME NEW s, NEW format, NEW p, Built(s, format, p), NEW m, m = ReadModule(p)
  PROVE  /\ Len(m.handlers) = Len(p.handlers) /\ Len(p.handlers) = Len(Sorted(HandlerNames(s)))
         /\ Len(p.handlers) \in Nat
         /\ \A h \in HandlerIds(m) :
              /\ h + 1 \in DOMAIN p.handlers
              /\ Len(m.handlers[h + 1]) = Len(p.handlers[h + 1])
              /\ Len(p.handlers[h + 1]) \in Nat \ {0}
              /\ DOMAIN p.handlers[h + 1] = 1 .. Len(p.handlers[h + 1])
              /\ \A pc \in Addresses(m, h) :
                   /\ pc + 1 \in DOMAIN p.handlers[h + 1]
                   /\ Fetch(m, h, pc).op = p.handlers[h + 1][pc + 1].op
                   /\ Fetch(m, h, pc).first = p.handlers[h + 1][pc + 1].first
                   /\ Fetch(m, h, pc).args = p.handlers[h + 1][pc + 1].args
                   /\ Fetch(m, h, pc).value = Resolved(p, p.handlers[h + 1][pc + 1].value)
<1>1. /\ IsSource(s) /\ PoolHolds(s, Constants(s)) /\ HandlersHold(s, format, Constants(s))
      /\ p.handlers = HandlerTable(s, Constants(s))
  BY DEF Built, Accepted
<1>2. /\ Len(p.handlers) = Len(Sorted(HandlerNames(s))) /\ Len(p.handlers) \in Nat
      /\ DOMAIN p.handlers = 1 .. Len(p.handlers)
      /\ \A h \in DOMAIN p.handlers : /\ Len(p.handlers[h]) \in Nat \ {0}
                                      /\ DOMAIN p.handlers[h] = 1 .. Len(p.handlers[h])
  BY <1>1, HandlerTableIsRead
<1> DEFINE Read(i) == [op |-> i.op, value |-> Resolved(p, i.value), first |-> i.first, args |-> i.args]
           code == p.handlers
<1>3. m.handlers = [h \in DOMAIN code |-> [k \in DOMAIN code[h] |-> Read(code[h][k])]]
  BY DEF ReadModule
<1> HIDE DEF Read
<1>4. DOMAIN m.handlers = 1 .. Len(code) /\ Len(m.handlers) = Len(code)
  <2>1. DOMAIN m.handlers = 1 .. Len(code) /\ m.handlers = [h \in DOMAIN m.handlers |-> m.handlers[h]]
    BY <1>2, <1>3
  <2> QED
    BY <1>2, <2>1, LengthOf
<1>5. ASSUME NEW h \in DOMAIN code
      PROVE  /\ DOMAIN m.handlers[h] = DOMAIN code[h] /\ Len(m.handlers[h]) = Len(code[h])
             /\ \A k \in DOMAIN code[h] : m.handlers[h][k] = Read(code[h][k])
  <2> DEFINE got == m.handlers[h]
             n   == Len(code[h])
  <2>1. got = [k \in DOMAIN code[h] |-> Read(code[h][k])]
    BY <1>3
  <2>2. n \in Nat /\ DOMAIN code[h] = 1 .. n
    <3>1. \A a \in Nat \ {0} : a \in Nat
      OBVIOUS
    <3> QED
      BY <1>2, <3>1
  <2> HIDE DEF got, n
  <2>3. DOMAIN got = 1 .. n /\ got = [k \in DOMAIN got |-> got[k]]
    BY <2>1, <2>2
  <2>4. Len(got) = n
    BY <2>2, <2>3, LengthOf
  <2> QED
    BY <2>1, <2>2, <2>3, <2>4 DEF got, n
<1> HIDE DEF code
<1>6. ASSUME NEW h \in HandlerIds(m)
      PROVE  h + 1 \in DOMAIN code
  <2>1. h \in 0 .. Len(code) - 1 /\ Len(code) \in Nat /\ DOMAIN code = 1 .. Len(code)
    BY <1>2, <1>4 DEF HandlerIds, code
  <2> QED
    BY <2>1
<1>7. ASSUME NEW h \in HandlerIds(m), NEW pc \in Addresses(m, h)
      PROVE  pc + 1 \in DOMAIN code[h + 1] /\ Fetch(m, h, pc) = Read(code[h + 1][pc + 1])
  <2> DEFINE n == Len(code[h + 1])
  <2>1. pc \in 0 .. n - 1 /\ n \in Nat \ {0} /\ DOMAIN code[h + 1] = 1 .. n
    BY <1>2, <1>5, <1>6 DEF Addresses, code
  <2> HIDE DEF n
  <2>2. pc + 1 \in 1 .. n
    BY <2>1
  <2> QED
    BY <1>5, <1>6, <2>1, <2>2 DEF Fetch
<1>8. \A i : /\ Read(i).op = i.op /\ Read(i).value = Resolved(p, i.value)
             /\ Read(i).first = i.first /\ Read(i).args = i.args
  BY DEF Read
<1> QED
  BY <1>2, <1>4, <1>5, <1>6, <1>7, <1>8 DEF code

\* The state the loader reads is that of the source, in the order of its names.
LEMMA StatesAreRead ==
  ASSUME NEW s, NEW format, NEW p, Built(s, format, p), NEW m, m = ReadModule(p)
  PROVE  /\ Len(m.initial) = Len(p.states) /\ Len(p.states) = Len(Sorted(StateNames(s)))
         /\ Len(p.states) \in Nat /\ DOMAIN p.states = 1 .. Len(p.states)
         /\ \A slot \in Slots(m) :
              /\ slot + 1 \in DOMAIN p.states
              /\ SlotType(m, slot) = TypesOf(p.states)[slot + 1]
              /\ SlotType(m, slot) \in ValueType
<1> DEFINE pool == Constants(s)
           states == p.states
<1>1. /\ IsSource(s) /\ PoolHolds(s, pool) /\ StatesHold(s) /\ pool \in Seq(AnyString)
      /\ states = EncodedStates(s, pool, format) /\ p.constants = pool
  BY DEF Built, Accepted, PoolHolds
<1> HIDE DEF pool, states
<1>2. /\ Len(states) = Len(Sorted(StateNames(s))) /\ Len(states) \in Nat
      /\ DOMAIN states = 1 .. Len(states)
      /\ \A k \in DOMAIN states :
           /\ Sorted(StateNames(s))[k] \in StateNames(s)
           /\ states[k].initial = Encoded(pool, s.state[Sorted(StateNames(s))[k]].initial)
           /\ TypeOf(states[k].initial) = states[k].type /\ states[k].type \in ValueType
  <2>1. /\ IsSource(s) /\ PoolHolds(s, pool) /\ StatesHold(s)
        /\ states = EncodedStates(s, pool, format)
    BY <1>1
  <2> QED
    <3>1. Len(states) = Len(Sorted(StateNames(s))) /\ Len(states) \in Nat
      BY <2>1, StatesWritten
    <3>2. DOMAIN states = 1 .. Len(states)
      BY <2>1, StatesWritten
    <3>3. \A k \in DOMAIN states : StateIs(s, format, pool, Sorted(StateNames(s))[k], states[k])
      BY <2>1, StatesWritten
    <3> QED
      BY <3>1, <3>2, <3>3 DEF StateIs
<1>3. m.initial = [k \in DOMAIN states |-> Resolved(p, states[k].initial)]
  BY DEF ReadModule, states
<1>4. Len(m.initial) = Len(states)
  <2>1. DOMAIN m.initial = 1 .. Len(states) /\ m.initial = [k \in DOMAIN m.initial |-> m.initial[k]]
    BY <1>2, <1>3
  <2> QED
    BY <1>2, <2>1, LengthOf
<1>5. ASSUME NEW k \in DOMAIN states PROVE TypeOf(m.initial[k]) = states[k].type
  <2> DEFINE v == s.state[Sorted(StateNames(s))[k]].initial
  <2>1. /\ v \in Value /\ (TypeOf(v) = "String" => Payload(v) \in ToSet(pool))
    BY <1>1, <1>2, TablesOf DEF StatesHold, PoolHolds
  <2>2. states[k].initial = Encoded(pool, v)
    BY <1>2
  <2> HIDE DEF v
  <2>3. Resolved(p, Encoded(pool, v)) = v /\ TypeOf(Encoded(pool, v)) = TypeOf(v)
    BY <1>1, <2>1, ValueResolved
  <2> QED
    BY <1>2, <1>3, <2>2, <2>3
<1>6. ASSUME NEW slot \in Slots(m) PROVE slot + 1 \in DOMAIN states
  <2>1. slot \in 0 .. Len(states) - 1
    BY <1>4 DEF Slots
  <2> QED
    BY <1>2, <2>1
<1> QED
  BY <1>2, <1>4, <1>5, <1>6 DEF SlotType, TypesOf, states

\* What an instruction the loader reads may hold.
LEMMA InstructionIsRead ==
  ASSUME NEW s, NEW format, NEW p, Built(s, format, p), NEW m, m = ReadModule(p),
         NEW h \in HandlerIds(m), NEW pc \in Addresses(m, h)
  PROVE  LET e == p.handlers[h + 1][pc + 1]
         IN  /\ OperandsDecode(m, Fetch(m, h, pc))
             /\ e.op \in Op /\ e.args \in Nat /\ e.first \in Nat
             /\ e.op = "Render" => e.first \in Pages(m)
             /\ TypeOf(Fetch(m, h, pc).value) = TypeOf(e.value) /\ TypeOf(e.value) \in ValueType
<1> DEFINE pool == Constants(s)
           e == p.handlers[h + 1][pc + 1]
           i == Fetch(m, h, pc)
<1>1. /\ IsSource(s) /\ PoolHolds(s, pool) /\ HandlersHold(s, format, pool)
      /\ p.handlers = HandlerTable(s, pool) /\ p.constants = pool /\ pool \in Seq(AnyString)
      /\ p.capabilities = Sorted(Capabilities(s)) /\ p.pages = PageTable(s, pool)
  BY DEF Built, Accepted, PoolHolds
<1>2. /\ h + 1 \in DOMAIN p.handlers /\ pc + 1 \in DOMAIN p.handlers[h + 1]
      /\ i.op = e.op /\ i.first = e.first /\ i.args = e.args /\ i.value = Resolved(p, e.value)
  BY HandlersAreRead
<1> HIDE DEF pool
<1>3. \/ e = HaltInstruction
      \/ \E raw \in InstructionsIn(s) :
           InstructionHolds(s, format, raw) /\ e = EncodedInstruction(s, pool, raw)
  BY <1>1, <1>2, HandlerTableIsRead
<1> HIDE DEF e, i
<1>4. Slots(m) = 0 .. Len(Sorted(StateNames(s))) - 1
  BY StatesAreRead DEF Slots
<1>5. m.capabilities = Len(Sorted(Capabilities(s))) /\ Len(Sorted(Capabilities(s))) \in Nat
  <2>1. Len(Sorted(Capabilities(s))) \in Nat
    BY <1>1, TablesOf, SortedNames
  <2> QED
    BY <1>1, <2>1 DEF ReadModule
<1>6. Pages(m) = 0 .. Len(Sorted(PageNames(s))) - 1
  <2>1. /\ DOMAIN p.pages = DOMAIN Sorted(PageNames(s))
        /\ p.pages = [k \in DOMAIN p.pages |-> p.pages[k]]
    BY <1>1, TablesOf, TableInOrder DEF PageTable, PageNames
  <2>2. DOMAIN m.pages = DOMAIN p.pages /\ m.pages = [k \in DOMAIN m.pages |-> m.pages[k]]
    BY DEF ReadModule
  <2>3. Len(Sorted(PageNames(s))) \in Nat
        /\ DOMAIN Sorted(PageNames(s)) = 1 .. Len(Sorted(PageNames(s)))
    BY <1>1, TablesOf, SortedNames
  <2>4. Len(m.pages) = Len(Sorted(PageNames(s)))
    BY <2>1, <2>2, <2>3, LengthOf
  <2> QED
    BY <2>4 DEF Pages
<1>7. CASE e = HaltInstruction
  <2>1. e.op = "Halt" /\ e.args = 0 /\ e.first = 0 /\ e.value = Integer(0)
    BY <1>7 DEF HaltInstruction
  <2>2. TypeOf(Integer(0)) = "Integer" /\ Resolved(p, Integer(0)) = Integer(0)
    BY DEF TypeOf, Integer, Resolved
  <2> QED
    BY <1>2, <2>1, <2>2 DEF OperandsDecode, Op, ValueType, e, i
<1>8. ASSUME NEW raw \in InstructionsIn(s), InstructionHolds(s, format, raw),
             e = EncodedInstruction(s, pool, raw)
      PROVE  /\ OperandsDecode(m, i) /\ e.op \in Op /\ e.args \in Nat /\ e.first \in Nat
             /\ e.op = "Render" => e.first \in Pages(m)
             /\ TypeOf(i.value) = TypeOf(e.value) /\ TypeOf(e.value) \in ValueType
  <2>0. IsSource(s) /\ PoolHolds(s, pool)
    BY <1>1
  <2>1. /\ e.op = raw.op /\ e.args = raw.args /\ e.value = Encoded(pool, raw.value)
        /\ raw \in SourceInstruction /\ e.op \in Op
        /\ e.op \in {"StateGet", "StateSet"} =>
             raw.name \in StateNames(s) /\ e.first = IdOf(raw.name, StateNames(s))
        /\ e.op \in {"Effect", "AsyncEffect"} =>
             /\ raw.name \in Capabilities(s) /\ e.first = IdOf(raw.name, Capabilities(s))
             /\ e.args \in 0 .. 32
        /\ e.op = "Render" => raw.name \in PageNames(s) /\ e.first = IdOf(raw.name, PageNames(s))
        /\ e.op \in {"Jump", "JumpIfFalse"} => e.first = raw.target /\ 0 <= raw.target
        /\ e.op \notin {"StateGet", "StateSet", "Effect", "AsyncEffect", "Render", "Jump",
                        "JumpIfFalse"} => e.first = 0
        /\ TypeOf(raw.value) = "String" => Payload(raw.value) \in ToSet(pool)
        /\ raw.value \in Value
    BY <1>8, <2>0, InstructionEncoded
  <2>2. raw.args \in Nat /\ raw.target \in Int
    BY <2>1 DEF SourceInstruction
  <2>3. /\ StateNames(s) \in SUBSET Names /\ Capabilities(s) \in SUBSET Names
        /\ PageNames(s) \in SUBSET Names
    BY <1>1, TablesOf
  <2>4. e.op \in {"StateGet", "StateSet"} => e.first \in Slots(m) /\ e.first \in Nat
    BY <1>4, <2>1, <2>3, IdOfName
  <2>5. e.op \in {"Effect", "AsyncEffect"} => e.first < m.capabilities /\ e.first \in Nat /\ e.args <= 32
    <3>1. ASSUME e.op \in {"Effect", "AsyncEffect"}
          PROVE  e.first \in 0 .. Len(Sorted(Capabilities(s))) - 1
      BY <2>1, <2>3, <3>1, IdOfName
    <3>2. ASSUME e.op \in {"Effect", "AsyncEffect"} PROVE e.args <= 32
      BY <2>1, <3>2
    <3>3. \A n \in Nat : \A k \in 0 .. n - 1 : k < n /\ k \in Nat
      OBVIOUS
    <3> QED
      BY <1>5, <3>1, <3>2, <3>3
  <2>6. e.op = "Render" => e.first \in Pages(m) /\ e.first \in Nat
    BY <1>6, <2>1, <2>3, IdOfName
  <2>7. e.first \in Nat
    BY <2>1, <2>2, <2>4, <2>5, <2>6
  <2>8. /\ Resolved(p, e.value) = raw.value /\ TypeOf(e.value) = TypeOf(raw.value)
    BY <1>1, <2>1, ValueResolved
  <2>9. OperandsDecode(m, i)
    BY <1>2, <2>4, <2>5 DEF OperandsDecode
  <2> QED
    BY <1>2, <2>1, <2>2, <2>6, <2>7, <2>8, <2>9, ValuePair
<1> QED
  BY <1>3, <1>7, <1>8 DEF e, i

\* A page binds handlers and reads slots that exist.
LEMMA PageIsRead ==
  ASSUME NEW s, IsSource(s), NEW pool, PoolHolds(s, pool), NodesHold(s),
         NEW page \in Range(s.pages), NEW nodes, nodes = EncodedPage(s, pool, page),
         NEW m, HandlerIds(m) = 0 .. Len(Sorted(HandlerNames(s))) - 1,
         Slots(m) = 0 .. Len(Sorted(StateNames(s))) - 1
  PROVE  PageDecodes(m, ReadPage(nodes))
<1>1. page \in Seq(ToSet(page)) /\ \A k \in DOMAIN page : page[k] \in NodesIn(s)
  BY ElementIsIn DEF IsSource, IsPage, NodesIn
<1>2. DOMAIN nodes = DOMAIN page /\ \A k \in DOMAIN page : nodes[k] = EncodedNode(s, pool, page[k])
  BY DEF EncodedPage
<1>3. \A node \in NodesIn(s) : NodeHolds(s, node)
  <2>1. ToSet(AllNodes(s)) = NodesIn(s)
    BY AllNodesOf
  <2> QED
    BY <2>1 DEF NodesHold, ToSet
<1>4. HandlerNames(s) \in SUBSET Names /\ StateNames(s) \in SUBSET Names
  BY TablesOf
<1>5. ASSUME NEW k \in DOMAIN nodes, NEW e \in DOMAIN nodes[k].events
      PROVE  nodes[k].events[e][2] \in HandlerIds(m)
  <2> DEFINE node   == page[k]
             events == Sorted(DOMAIN node.events)
  <2>1. node \in NodesIn(s) /\ nodes[k] = EncodedNode(s, pool, node) /\ NodeHolds(s, node)
    BY <1>1, <1>2, <1>3
  <2>2. DOMAIN node.events \in SUBSET Names
    BY <2>1, AllNodesOf DEF IsTable
  <2>3. \A j \in DOMAIN events : events[j] \in DOMAIN node.events
    BY <2>2, SortedNames
  <2> HIDE DEF node
  <2>4. e \in DOMAIN events /\ nodes[k].events[e] = <<events[e], IdOf(node.events[events[e]], HandlerNames(s))>>
    BY <2>1 DEF EncodedNode
  <2> HIDE DEF events
  <2>5. node.events[events[e]] \in HandlerNames(s)
    BY <2>1, <2>3, <2>4 DEF NodeHolds
  <2>6. IdOf(node.events[events[e]], HandlerNames(s)) \in 0 .. Len(Sorted(HandlerNames(s))) - 1
    BY <1>4, <2>5, IdOfName
  <2> QED
    BY <2>4, <2>6
<1>6. ASSUME NEW k \in DOMAIN nodes, NEW j \in DOMAIN nodes[k].props,
             NEW seg \in ToSet(nodes[k].props[j][2]), seg[1] = 2
      PROVE  seg[2] \in Slots(m)
  <2> DEFINE node  == page[k]
             keys  == Sorted(DOMAIN node.props)
             key   == keys[j]
             parts == Parts(node.props[key])
             segments == Segments(s, pool, node.props[key])
  <2>1. node \in NodesIn(s) /\ nodes[k] = EncodedNode(s, pool, node) /\ NodeHolds(s, node)
    BY <1>1, <1>2, <1>3
  <2>2. DOMAIN node.props \in SUBSET Names /\ \A x \in DOMAIN node.props : node.props[x] \in Template
    BY <2>1, AllNodesOf DEF IsTable
  <2>3. \A x \in DOMAIN keys : keys[x] \in DOMAIN node.props
    BY <2>2, SortedNames
  <2> HIDE DEF node
  <2>4. j \in DOMAIN keys /\ nodes[k].props[j] = <<key, segments>>
    BY <2>1 DEF EncodedNode
  <2> HIDE DEF keys
  <2>5. key \in DOMAIN node.props /\ node.props[key] \in Template
    BY <2>2, <2>3, <2>4
  <2>6. /\ DOMAIN segments = DOMAIN parts
        /\ \A x \in DOMAIN segments :
              /\ parts[x].kind \in {"literal", "state"}
              /\ parts[x].kind = "literal" => segments[x] = <<1, ConstantId(pool, parts[x].of)>>
              /\ parts[x].kind = "state" => segments[x] = <<2, IdOf(parts[x].of, StateNames(s))>>
    BY <2>5, SegmentsOf
  <2>7. \A x \in DOMAIN parts : parts[x].kind = "state" => parts[x].of \in StateNames(s)
    BY <2>1, <2>5, NodeNames
  <2> HIDE DEF key, parts, segments
  <2>8. PICK x \in DOMAIN segments : seg = segments[x]
    BY <2>4 DEF ToSet
  <2>9. parts[x].kind = "state" /\ seg = <<2, IdOf(parts[x].of, StateNames(s))>>
    BY <1>6, <2>6, <2>8
  <2>10. IdOf(parts[x].of, StateNames(s)) \in 0 .. Len(Sorted(StateNames(s))) - 1
    BY <1>4, <2>6, <2>7, <2>8, <2>9, IdOfName
  <2> QED
    BY <2>9, <2>10
<1>7. ReadPage(nodes).events \subseteq HandlerIds(m)
  BY <1>5 DEF ReadPage
<1>8. ReadPage(nodes).binds \subseteq Slots(m)
  <2> SUFFICES ASSUME NEW x \in ReadPage(nodes).binds PROVE x \in Slots(m)
    OBVIOUS
  <2>1. \E k \in DOMAIN nodes : \E j \in DOMAIN nodes[k].props :
          \E seg \in ToSet(nodes[k].props[j][2]) : seg[1] = 2 /\ x = seg[2]
    BY DEF ReadPage
  <2> QED
    BY <1>6, <2>1
<1> QED
  BY <1>7, <1>8 DEF PageDecodes

LEMMA ModuleDecodes ==
  ASSUME NEW s, NEW format, NEW p, Built(s, format, p), NEW m, m = ReadModule(p)
  PROVE  Decodes(m)
<1> DEFINE pool == Constants(s)
<1>1. /\ IsSource(s) /\ Accepted(s, format) /\ PoolHolds(s, pool)
      /\ p.limits = LimitsOf(s, format) /\ p.pages = PageTable(s, pool)
      /\ p.entryPage = IdOf(s.module.entryPage, PageNames(s)) /\ p.entryHandler = EntryOf(s)
      /\ KeepsLoaderLimits(p)
  BY DEF Built
<1>2. /\ NodesHold(s) /\ s.module.entryPage \in PageNames(s)
      /\ s.module.entryHandler = None \/ s.module.entryHandler \in HandlerNames(s)
  BY <1>1 DEF Accepted, LimitsHold
<1> HIDE DEF pool
<1>3. PageNames(s) \in SUBSET Names /\ HandlerNames(s) \in SUBSET Names
  BY <1>1, TablesOf
<1>4. LimitsDecode(m)
  <2>1. /\ m.limits.maxInstructions = p.limits.maxInstructions /\ m.limits.maxStack = p.limits.maxStack
        /\ m.limits.maxStateBytes = p.limits.maxStateBytes /\ m.limits.maxTasks = p.limits.maxTasks
    BY DEF ReadModule
  <2>2. /\ DOMAIN p.limits = {"maxInstructions", "maxStack", "maxStateBytes", "maxNodes", "maxTasks"}
        /\ \A k \in DOMAIN p.limits : p.limits[k] \in 1 .. MaxBudget
    BY <1>1, LimitsWritten
  <2>3. 0 \notin {m.limits.maxInstructions, m.limits.maxStack, m.limits.maxStateBytes, m.limits.maxTasks}
    BY <2>1, <2>2
  <2>4. StateSize(m.initial) <= m.limits.maxStateBytes
    BY <1>1, <2>1 DEF KeepsLoaderLimits
  <2> QED
    BY <2>3, <2>4 DEF LimitsDecode
<1>5. HandlerIds(m) = 0 .. Len(Sorted(HandlerNames(s))) - 1
  BY HandlersAreRead DEF HandlerIds
<1>6. ASSUME NEW h \in HandlerIds(m)
      PROVE  m.handlers[h + 1] # <<>> /\ \A pc \in Addresses(m, h) : OperandsDecode(m, Fetch(m, h, pc))
  <2>1. Len(m.handlers[h + 1]) \in Nat \ {0}
    BY HandlersAreRead
  <2>2. \A pc \in Addresses(m, h) : OperandsDecode(m, Fetch(m, h, pc))
    BY InstructionIsRead
  <2>3. m.handlers[h + 1] # <<>>
    BY <2>1
  <2> QED
    BY <2>2, <2>3
<1>7. Slots(m) = 0 .. Len(Sorted(StateNames(s))) - 1
  BY StatesAreRead DEF Slots
<1>8. /\ Pages(m) = 0 .. Len(Sorted(PageNames(s))) - 1
      /\ \A q \in Pages(m) : \E page \in Range(s.pages) : m.pages[q + 1] = ReadPage(EncodedPage(s, pool, page))
  <2> DEFINE table == InOrder(s.pages)
  <2>1. /\ Len(table) = Len(Sorted(PageNames(s))) /\ Len(table) \in Nat
        /\ DOMAIN table = 1 .. Len(table) /\ \A k \in DOMAIN table : table[k] \in Range(s.pages)
    BY <1>3, TableInOrder, ElementIsIn DEF PageNames
  <2>2. /\ DOMAIN m.pages = DOMAIN table /\ m.pages = [k \in DOMAIN m.pages |-> m.pages[k]]
        /\ \A k \in DOMAIN table : m.pages[k] = ReadPage(EncodedPage(s, pool, table[k]))
    BY <1>1 DEF ReadModule, PageTable
  <2> HIDE DEF table
  <2>3. Len(m.pages) = Len(table)
    BY <2>1, <2>2, LengthOf
  <2>4. ASSUME NEW q \in Pages(m) PROVE q + 1 \in DOMAIN table
    <3>1. q \in 0 .. Len(table) - 1
      BY <2>3 DEF Pages
    <3> QED
      BY <2>1, <3>1
  <2> QED
    BY <2>1, <2>2, <2>3, <2>4 DEF Pages
<1>9. ASSUME NEW q \in Pages(m) PROVE PageDecodes(m, m.pages[q + 1])
  <2>1. PICK page \in Range(s.pages) : m.pages[q + 1] = ReadPage(EncodedPage(s, pool, page))
    BY <1>8
  <2>2. PageDecodes(m, ReadPage(EncodedPage(s, pool, page)))
    BY <1>1, <1>2, <1>5, <1>7, PageIsRead
  <2> QED
    BY <2>1, <2>2
<1>10. m.entryPage \in Pages(m)
  <2>1. m.entryPage = IdOf(s.module.entryPage, PageNames(s))
    BY <1>1 DEF ReadModule
  <2> QED
    BY <1>2, <1>3, <1>8, <2>1, IdOfName
<1>11. \A n \in DOMAIN m.entryHandler : m.entryHandler[n] \in HandlerIds(m)
  <2>1. m.entryHandler = EntryOf(s)
    BY <1>1 DEF ReadModule
  <2>2. CASE s.module.entryHandler = None
    <3>1. m.entryHandler = <<>>
      BY <2>1, <2>2 DEF EntryOf
    <3> QED
      BY <3>1
  <2>3. CASE s.module.entryHandler # None
    <3>1. m.entryHandler = <<IdOf(s.module.entryHandler, HandlerNames(s))>>
      BY <2>1, <2>3 DEF EntryOf
    <3>2. IdOf(s.module.entryHandler, HandlerNames(s)) \in HandlerIds(m)
      BY <1>2, <1>3, <1>5, <2>3, IdOfName
    <3> QED
      BY <3>1, <3>2
  <2> QED
    BY <2>2, <2>3
<1> QED
  BY <1>4, <1>6, <1>9, <1>10, <1>11 DEF Decodes

-----------------------------------------------------------------------------
(***************************************************************************)
(* What the compiler recorded of a handler is a typing of the loader's     *)
(***************************************************************************)
LEMMA CodeIsRead ==
  ASSUME NEW s, NEW format, NEW p, Built(s, format, p), NEW m, m = ReadModule(p),
         NEW h \in HandlerIds(m)
  PROVE  /\ CodeIs(p.handlers[h + 1], TypesOf(p.states))
         /\ Checked(p.handlers[h + 1], TypesOf(p.states))
         /\ Addresses(m, h) = CodeAddresses(p.handlers[h + 1])
<1> DEFINE code  == p.handlers[h + 1]
           types == TypesOf(p.states)
           pool  == Constants(s)
<1>1. /\ h + 1 \in DOMAIN p.handlers /\ Len(m.handlers[h + 1]) = Len(code)
      /\ Len(code) \in Nat \ {0} /\ DOMAIN code = 1 .. Len(code)
      /\ \A pc \in Addresses(m, h) : Fetch(m, h, pc).op = code[pc + 1].op
      /\ \A pc \in Addresses(m, h) : Fetch(m, h, pc).first = code[pc + 1].first
  BY HandlersAreRead
<1>2. Addresses(m, h) = 0 .. Len(code) - 1
  BY <1>1 DEF Addresses
<1>3. \A slot \in Slots(m) : types[slot + 1] \in ValueType
  BY StatesAreRead
<1>4. \A pc \in Addresses(m, h) :
        /\ OperandsDecode(m, Fetch(m, h, pc))
        /\ code[pc + 1].op \in Op /\ code[pc + 1].args \in Nat /\ code[pc + 1].first \in Nat
        /\ TypeOf(code[pc + 1].value) \in ValueType
  BY InstructionIsRead
<1> HIDE DEF code, types
<1>5. ASSUME NEW k \in DOMAIN code PROVE InstructionIs(code[k], types)
  <2> DEFINE pc == k - 1
  <2>1. pc \in Addresses(m, h) /\ pc + 1 = k
    <3>1. \A n \in Nat \ {0} : \A j \in 1 .. n : j - 1 \in 0 .. n - 1 /\ (j - 1) + 1 = j
      OBVIOUS
    <3> QED
      BY <1>1, <1>2, <3>1
  <2> HIDE DEF pc
  <2>2. code[k].op \in {"StateGet", "StateSet"} => code[k].first \in Slots(m)
    BY <1>1, <1>4, <2>1 DEF OperandsDecode
  <2> QED
    BY <1>3, <1>4, <2>1, <2>2 DEF InstructionIs
<1>6. CodeIs(code, types)
  BY <1>1, <1>5 DEF CodeIs
<1>7. Checked(code, types)
  <2>1. /\ IsSource(s) /\ PoolHolds(s, pool) /\ HandlersHold(s, format, pool) /\ StatesHold(s)
        /\ p.handlers = HandlerTable(s, pool) /\ p.states = EncodedStates(s, pool, format)
    BY DEF Built, Accepted
  <2> HIDE DEF pool
  <2>2. \A k \in DOMAIN p.handlers : Checked(p.handlers[k], SlotTypes(s))
    BY <2>1, HandlerTableIsRead
  <2>3. TypesOf(p.states) = SlotTypes(s)
    BY <2>1, StatesWritten
  <2> QED
    BY <1>1, <2>2, <2>3 DEF code, types
<1> QED
  BY <1>2, <1>6, <1>7 DEF CodeAddresses, code, types

LEMMA ModuleIsTyped ==
  ASSUME NEW s, NEW format, NEW p, Built(s, format, p), NEW m, m = ReadModule(p),
         NEW h \in HandlerIds(m)
  PROVE  WellTyped(m, h, Typing(p, h))
<1> DEFINE code   == p.handlers[h + 1]
           types  == TypesOf(p.states)
           typing == Typing(p, h)
<1>1. CodeIs(code, types) /\ Checked(code, types) /\ Addresses(m, h) = CodeAddresses(code)
  BY CodeIsRead
<1>2. typing = Explored(code, types).incoming
  BY DEF Typing, TypesOf
<1>3. /\ h + 1 \in DOMAIN p.handlers /\ h \in Int /\ (h + 1) - 1 = h
      /\ \A pc \in Addresses(m, h) :
           /\ pc + 1 \in DOMAIN code /\ pc \in Nat
           /\ Fetch(m, h, pc).op = code[pc + 1].op
           /\ Fetch(m, h, pc).first = code[pc + 1].first
           /\ Fetch(m, h, pc).args = code[pc + 1].args
  <2>1. h \in Int
    BY HandlersAreRead DEF HandlerIds
  <2>2. \A pc \in Addresses(m, h) : pc \in Nat
    BY DEF Addresses
  <2> QED
    BY <2>1, <2>2, HandlersAreRead
<1>4. \A pc \in Addresses(m, h) :
        /\ OperandsDecode(m, Fetch(m, h, pc))
        /\ code[pc + 1].op = "Render" => code[pc + 1].first \in Pages(m)
        /\ TypeOf(Fetch(m, h, pc).value) = TypeOf(code[pc + 1].value)
  BY InstructionIsRead
<1>5. \A slot \in Slots(m) : SlotType(m, slot) = types[slot + 1]
  BY StatesAreRead
<1>6. \A pc \in DOMAIN typing :
        Len(StackAfter(code[pc + 1], typing[pc], types)) <= m.limits.maxStack
  <2>1. KeepsLoaderLimits(p)
    BY DEF Built
  <2>2. \A k \in DOMAIN p.handlers : \A pc \in DOMAIN Typing(p, k - 1) :
          Len(StackAfter(p.handlers[k][pc + 1], Typing(p, k - 1)[pc], types)) <= p.limits.maxStack
    BY <2>1 DEF KeepsLoaderLimits, TypesOf
  <2>3. m.limits.maxStack = p.limits.maxStack
    BY DEF ReadModule
  <2> QED
    BY <1>3, <2>2, <2>3
<1> HIDE DEF code, types, typing
<1>7. /\ 0 \in DOMAIN typing /\ typing[0] = <<>> /\ DOMAIN typing \subseteq CodeAddresses(code)
      /\ \A pc \in DOMAIN typing : typing[pc] \in Shape /\ Visited(code, types, typing, pc)
  BY <1>1, <1>2, CheckedIsTyped
<1>8. ASSUME NEW pc \in DOMAIN typing PROVE TypedAt(m, h, typing, pc)
  <2> DEFINE i == code[pc + 1]
             j == Fetch(m, h, pc)
             stack == typing[pc]
  <2>1. pc \in Addresses(m, h) /\ pc \in Nat /\ stack \in Shape
    BY <1>1, <1>3, <1>7
  <2>2. InstructionIs(i, types)
    BY <1>1, <1>3, <2>1 DEF CodeIs
  <2>3. /\ j.op = i.op /\ j.first = i.first /\ j.args = i.args
        /\ TypeOf(j.value) = TypeOf(i.value)
        /\ i.op = "Render" => i.first \in Pages(m)
    BY <1>3, <1>4, <2>1
  <2>4. i.op \in {"StateGet", "StateSet"} => SlotType(m, i.first) = types[i.first + 1]
    BY <1>4, <1>5, <2>1, <2>3 DEF OperandsDecode
  <2>5. /\ Takes(i, stack, types)
        /\ \A t \in ToSet(Follow(i, pc)) :
             t \in DOMAIN typing /\ typing[t] = StackAfter(i, stack, types)
    BY <1>7 DEF Visited
  <2>6. Len(StackAfter(i, stack, types)) <= m.limits.maxStack
    BY <1>6
  <2> HIDE DEF i, j, stack
  <2>7. Accepts(m, j, stack) /\ ShapeAfter(m, j, stack) = StackAfter(i, stack, types)
    BY <2>1, <2>2, <2>3, <2>4, <2>5, TakesIsAccepts
  <2>8. Successors(j, pc) = ToSet(Follow(i, pc))
    <3>1. ToSet(Follow(i, pc)) = Successors(i, pc)
      BY <2>1, <2>2, FollowIsSuccessors
    <3>2. Successors(j, pc) = Successors(i, pc)
      BY <2>3 DEF Successors
    <3> QED
      BY <3>1, <3>2
  <2>9. Successors(j, pc) \subseteq Addresses(m, h)
    BY <1>1, <1>7, <2>5, <2>8
  <2> QED
    BY <2>5, <2>6, <2>7, <2>8, <2>9 DEF TypedAt, StepFits, j, stack
<1> QED
  BY <1>1, <1>7, <1>8 DEF WellTyped, typing

LEMMA BuildLoads ==
  ASSUME NEW s, NEW format \in Formats, IsSource(s), NEW p \in ToSet(Build(s, format)),
         KeepsLoaderLimits(p)
  PROVE  Loads(p)
<1>1. Built(s, format, p)
  BY BuiltFrom
<1>2. HeaderReads(p)
  BY HeaderIsRead
<1>3. TablesRead(p)
  BY <1>1, TablesAreRead
<1>4. Decodes(ReadModule(p))
  BY <1>1, ModuleDecodes
<1>5. \A h \in HandlerIds(ReadModule(p)) : WellTyped(ReadModule(p), h, Typing(p, h))
  BY <1>1, ModuleIsTyped
<1> QED
  BY <1>2, <1>3, <1>4, <1>5 DEF Loads

\* Every module the compiler writes is one the loader accepts, whatever the source,
\* unless it exceeds a limit only the loader knows: build of compiler.py against
\* read_node, decode_module and validate_handlers of runtime.cpp.
THEOREM CompilerMeetsLoader == Spec => []CompiledLoads
<1>1. Init => Compiles
  BY InitCompiles
<1>2. Compiles /\ [Next]_allVars => Compiles'
  BY NextCompiles
<1>3. Compiles => CompiledLoads
  <2> SUFFICES ASSUME Compiles, NEW p \in Written, KeepsLoaderLimits(p) PROVE Loads(p)
    BY DEF CompiledLoads
  <2> QED
    BY WrittenIsBuilt, BuildLoads
<1> QED
  BY <1>1, <1>2, <1>3, PTL DEF Spec

-----------------------------------------------------------------------------
(***************************************************************************)
(* The delivery builder                                                    *)
(***************************************************************************)

-----------------------------------------------------------------------------
(***************************************************************************)
(* What a build writes, in which order.                                    *)
(***************************************************************************)
LEMMA ConcatParts ==
  ASSUME NEW S, NEW s \in Seq(S), NEW t \in Seq(S)
  PROVE  /\ s \o t \in Seq(S) /\ Len(s \o t) = Len(s) + Len(t)
         /\ \A k \in 1 .. Len(s) : (s \o t)[k] = s[k]
         /\ \A k \in 1 .. Len(t) : (s \o t)[Len(s) + k] = t[k]
<1>1. /\ s \o t \in Seq(S) /\ Len(s \o t) = Len(s) + Len(t)
      /\ \A k \in 1 .. Len(s) + Len(t) :
           (s \o t)[k] = IF k <= Len(s) THEN s[k] ELSE t[k - Len(s)]
  BY ConcatProperties
<1>2. Len(s) \in Nat /\ Len(t) \in Nat
  BY LenProperties
<1> QED
  BY <1>1, <1>2

\* The paths of a build: where each kind of file is, and of what it is.
LEMMA PathTypes ==
  ASSUME NEW b \in Builds
  PROVE  /\ VariantOf(b) \in Variants
         /\ \A kind \in {"module", "key", "host", "bootstrap"} :
              ClientFile(kind, VariantOf(b)) \in Paths
         /\ \A kind \in {"manifest", "policy"} : ServerFile(kind, VariantOf(b)) \in Paths
         /\ \A kind \in {"module", "access"} : ServerFile(kind, b) \in Paths
  BY DEF Builds, VariantOf, ClientFile, ServerFile, Paths

\* A path that build b may write, and what is written of it.
Belongs(p, b) ==
  IF p.in = "server" /\ p.kind \in {"module", "access"} THEN p.of = b ELSE p.of = VariantOf(b)

\* The files of a build in their order: the module first, then what names it, the
\* bootstrap last in a client tree, and the manifest of a repository after all of it.
Order(b, w) ==
  LET v == VariantOf(b) IN
  /\ w \in Seq(Paths)
  /\ Profile(b) \in Bundled =>
       /\ Len(w) = 4
       /\ w[1] = ClientFile("module", v) /\ w[2] = ClientFile("key", v)
       /\ w[3] = ClientFile("host", v) /\ w[4] = ClientFile("bootstrap", v)
  /\ Profile(b) \notin Bundled =>
       /\ Len(w) \in 5 .. 7
       /\ w[1] = ServerFile("module", b) /\ w[2] = ServerFile("access", b)
       /\ w[3] = ClientFile("key", v) /\ w[4] = ClientFile("host", v)
       /\ w[5] = ClientFile("bootstrap", v)
       /\ Len(w) > 5 => w[6] \in {ServerFile("manifest", v), ServerFile("policy", v)}
       /\ Len(w) > 6 => w[7] = ServerFile("policy", v)

\* How far the build in progress has come: n files are written, those that are left
\* are the rest of its list.
Progress(n) ==
  /\ Len(todo) = Len(Writes(building)) - n
  /\ \A k \in 1 .. Len(todo) : todo[k] = Writes(building)[k + n]
  /\ \A k \in 1 .. n : Holds(Writes(building)[k], building)

InProgress == building # Nothing => \E n \in 0 .. Len(Writes(building)) : Progress(n)

\* A file is of a build it belongs to; only a copied one is ever incomplete, and the
\* module of a repository only while it is copied, or after a build was cut off.
FilesSound ==
  \A p \in DOMAIN file :
    /\ file[p] = Damaged => Copied(p)
    /\ file[p] # Damaged => Belongs(p, file[p])
    /\ p.in = "server" /\ p.kind = "module" /\ file[p] = Damaged =>
         \/ 0 < failures
         \/ open /\ building = p.of /\ Head(todo) = p

\* A manifest came after the access document and the module it names.
ManifestSound ==
  \A p \in DOMAIN file : p.kind = "manifest" =>
    /\ Holds(ServerFile("access", file[p]), file[p])
    /\ ServerFile("module", file[p]) \in DOMAIN file

BuilderInv == BuildTypeOK /\ InProgress /\ FilesSound /\ ManifestSound

\* That is the order in which a build writes.
LEMMA WritesInOrder ==
  ASSUME NEW b \in Builds
  PROVE  Order(b, Writes(b))
<1> DEFINE v  == VariantOf(b)
           mw == ModuleWrites(b)
           cw == ClientWrites(v)
           mf == IF v.profile \in Remote THEN <<ServerFile("manifest", v)>> ELSE <<>>
           pf == IF v.profile = "enterprise_managed" THEN <<ServerFile("policy", v)>> ELSE <<>>
           sw == ServerWrites(v)
<1>1. /\ mw \in Seq(Paths)
      /\ Profile(b) \in Bundled => Len(mw) = 1 /\ mw[1] = ClientFile("module", v)
      /\ Profile(b) \notin Bundled =>
           Len(mw) = 2 /\ mw[1] = ServerFile("module", b) /\ mw[2] = ServerFile("access", b)
  BY PathTypes DEF ModuleWrites
<1>2. /\ cw \in Seq(Paths) /\ Len(cw) = 3
      /\ cw[1] = ClientFile("key", v) /\ cw[2] = ClientFile("host", v)
      /\ cw[3] = ClientFile("bootstrap", v)
  BY PathTypes DEF ClientWrites
<1>3. /\ mf \in Seq(Paths) /\ pf \in Seq(Paths)
      /\ Len(mf) \in {0, 1} /\ (Len(mf) = 1 => mf[1] = ServerFile("manifest", v))
      /\ Len(pf) \in {0, 1} /\ (Len(pf) = 1 => pf[1] = ServerFile("policy", v))
      /\ Profile(b) \in Bundled => Len(mf) = 0 /\ Len(pf) = 0
  BY PathTypes DEF Bundled, Remote, Profile, VariantOf
<1>4. sw = mf \o pf
  BY DEF ServerWrites
<1> HIDE DEF mw, cw, mf, pf, sw
<1>5. /\ sw \in Seq(Paths) /\ Len(sw) = Len(mf) + Len(pf)
      /\ Len(sw) > 0 => sw[1] \in {ServerFile("manifest", v), ServerFile("policy", v)}
      /\ Len(sw) > 1 => sw[2] = ServerFile("policy", v)
  <2>1. /\ sw \in Seq(Paths) /\ Len(sw) = Len(mf) + Len(pf)
        /\ \A k \in 1 .. Len(mf) : sw[k] = mf[k]
        /\ \A k \in 1 .. Len(pf) : sw[Len(mf) + k] = pf[k]
    BY <1>3, <1>4, ConcatParts
  <2> QED
    BY <1>3, <2>1
<1> DEFINE mc == mw \o cw
<1>6. /\ mc \in Seq(Paths) /\ Len(mc) = Len(mw) + Len(cw)
      /\ \A k \in 1 .. Len(mw) : mc[k] = mw[k]
      /\ \A k \in 1 .. Len(cw) : mc[Len(mw) + k] = cw[k]
  <2>1. mw \in Seq(Paths) /\ cw \in Seq(Paths)
    BY <1>1, <1>2
  <2> QED
    BY <2>1, ConcatParts
<1> HIDE DEF mc
<1> DEFINE w == mc \o sw
<1>7. /\ w \in Seq(Paths) /\ Len(w) = Len(mc) + Len(sw)
      /\ \A k \in 1 .. Len(mc) : w[k] = mc[k]
      /\ \A k \in 1 .. Len(sw) : w[Len(mc) + k] = sw[k]
  <2>1. mc \in Seq(Paths) /\ sw \in Seq(Paths)
    BY <1>5, <1>6
  <2> QED
    BY <2>1, ConcatParts
<1>8. w = Writes(b)
  <2>1. Writes(b) = mw \o cw \o sw
    BY DEF Writes, mw, cw, sw
  <2> QED
    BY <2>1 DEF mc
<1> HIDE DEF w
<1>9. CASE Profile(b) \in Bundled
  <2> /\ Len(mw) = 1 /\ Len(cw) = 3 /\ Len(sw) = 0
    BY <1>1, <1>2, <1>3, <1>5, <1>9
  <2>1. Len(mc) = 4 /\ Len(w) = 4
    BY <1>6, <1>7
  <2>2. mc[1] = mw[1] /\ mc[2] = cw[1] /\ mc[3] = cw[2] /\ mc[4] = cw[3]
    BY <1>6
  <2>3. w[1] = mc[1] /\ w[2] = mc[2] /\ w[3] = mc[3] /\ w[4] = mc[4]
    BY <1>7, <2>1
  <2> QED
    BY <1>1, <1>2, <1>7, <1>8, <1>9, <2>1, <2>2, <2>3 DEF Order
<1>10. CASE Profile(b) \notin Bundled
  <2> /\ Len(mw) = 2 /\ Len(cw) = 3 /\ Len(sw) \in 0 .. 2
    <3>1. Len(mw) = 2 /\ Len(cw) = 3
      BY <1>1, <1>2, <1>10
    <3>2. PICK i \in 0 .. 1, j \in 0 .. 1 : Len(mf) = i /\ Len(pf) = j
      BY <1>3
    <3>3. Len(sw) = i + j
      BY <1>5, <3>2
    <3>4. Len(sw) \in 0 .. 2
      BY <3>3
    <3> QED
      BY <3>1, <3>4
  <2>1. Len(mc) = 5 /\ Len(w) = 5 + Len(sw)
    BY <1>6, <1>7
  <2>2. mc[1] = mw[1] /\ mc[2] = mw[2] /\ mc[3] = cw[1] /\ mc[4] = cw[2] /\ mc[5] = cw[3]
    BY <1>6
  <2>3. w[1] = mc[1] /\ w[2] = mc[2] /\ w[3] = mc[3] /\ w[4] = mc[4] /\ w[5] = mc[5]
    BY <1>7, <2>1
  <2>4. (Len(w) > 5 => w[6] = sw[1]) /\ (Len(w) > 6 => w[7] = sw[2])
    BY <1>7, <2>1
  <2>5. Len(w) \in 5 .. 7 /\ w \in Seq(Paths)
    BY <1>7, <2>1
  <2>6. /\ w[1] = ServerFile("module", b) /\ w[2] = ServerFile("access", b)
        /\ w[3] = ClientFile("key", v) /\ w[4] = ClientFile("host", v)
        /\ w[5] = ClientFile("bootstrap", v)
    BY <1>1, <1>2, <1>10, <2>2, <2>3
  <2>7. /\ Len(w) > 5 => w[6] \in {ServerFile("manifest", v), ServerFile("policy", v)}
        /\ Len(w) > 6 => w[7] = ServerFile("policy", v)
    BY <1>5, <2>1, <2>4
  <2> QED
    BY <1>8, <1>10, <2>5, <2>6, <2>7 DEF Order
<1> QED
  BY <1>9, <1>10

\* What follows from the order, for a file and those before it.
LEMMA WrittenBefore ==
  ASSUME NEW b \in Builds, NEW m \in 1 .. Len(Writes(b))
  PROVE  LET w == Writes(b) IN
         /\ w \in Seq(Paths) /\ w[m] \in Paths /\ Belongs(w[m], b)
         /\ Copied(w[m]) => \A k \in 1 .. m - 1 : w[k] # w[m]
         /\ w[m].kind = "manifest" =>
              {ServerFile("module", b), ServerFile("access", b)} \subseteq {w[k] : k \in 1 .. m - 1}
         /\ w[m] = LastFile(VariantOf(b)) =>
              \A p \in Paths : p \in
                (IF Profile(b) \in Bundled
                 THEN {ClientFile(kind, VariantOf(b)) : kind \in {"module", "key", "host"}}
                 ELSE {ServerFile(kind, b) : kind \in {"module", "access"}}
                        \cup {ClientFile(kind, VariantOf(b)) : kind \in {"key", "host", "bootstrap"}})
                => p \in {w[k] : k \in 1 .. m - 1}
<1> DEFINE w == Writes(b)
           v == VariantOf(b)
<1>1. Order(b, w)
  BY WritesInOrder
<1> HIDE DEF w
<1>2. w \in Seq(Paths) /\ w[m] \in Paths
  BY <1>1, ElementOfSeq DEF Order, w
<1>3. m \in Nat /\ m >= 1 /\ m <= Len(w) /\ Len(w) \in Nat
  <2>1. Len(w) \in Nat
    BY <1>2, LenProperties
  <2> QED
    BY <2>1 DEF w
<1>4. CASE Profile(b) \in Bundled
  <2>1. Len(w) = 4
    BY <1>1, <1>4 DEF Order
  <2>2. m \in {1, 2, 3, 4}
    BY <1>3, <2>1
  <2> QED
    BY <1>1, <1>2, <1>4, <2>2
    DEF Order, Belongs, Copied, ClientFile, ServerFile, LastFile, Profile, VariantOf, w
<1>5. CASE Profile(b) \notin Bundled
  <2>1. PICK n \in 5 .. 7 : Len(w) = n
    BY <1>1, <1>5 DEF Order
  <2>2. m \in 1 .. 7
    BY <1>3, <2>1
  <2>3. m \in {1, 2, 3, 4, 5, 6, 7}
    BY <2>2
  <2> QED
    BY <1>1, <1>2, <1>3, <1>5, <2>1, <2>3
    DEF Order, Belongs, Copied, ClientFile, ServerFile, LastFile, Profile, VariantOf, w
<1> QED
  BY <1>4, <1>5

-----------------------------------------------------------------------------
(***************************************************************************)
(* Types.                                                                  *)
(***************************************************************************)
LEMMA PutFile ==
  ASSUME NEW p, NEW content, Put(p, content)
  PROVE  /\ DOMAIN file' = DOMAIN file \cup {p} /\ file'[p] = content
         /\ \A q \in DOMAIN file \ {p} : file'[q] = file[q]
  BY DEF Put

LEMMA NextFile ==
  ASSUME BuildTypeOK, todo # <<>>
  PROVE  /\ building \in Builds /\ building # Nothing /\ building # Damaged
         /\ Head(todo) \in Paths /\ Tail(todo) \in Seq(Paths)
  BY BuildAssumption, HeadTailProperties DEF BuildTypeOK

LEMMA BuildTypesInit == BuildInit => BuildTypeOK
  BY BuildAssumption DEF BuildInit, BuildTypeOK

LEMMA ExitTypes ==
  ASSUME BuildTypeOK, Exit, UNCHANGED file, failures' \in 0 .. MaxFailures
  PROVE  BuildTypeOK'
  BY DEF BuildTypeOK, Exit

LEMMA StartTypes ==
  ASSUME BuildTypeOK, Start(<<OwnVariant[source]>>) \/ Start(Matrix[source])
  PROVE  BuildTypeOK'
<1>1. OwnVariant[source] \in Variants /\ Matrix[source] \in Seq(Variants)
  BY BuildAssumption DEF BuildTypeOK
<1>2. <<OwnVariant[source]>> \in Seq(Variants)
  BY <1>1
<1>3. ASSUME NEW variants \in Seq(Variants), Start(variants) PROVE BuildTypeOK'
  BY <1>3 DEF BuildTypeOK, Start
<1> QED
  BY <1>1, <1>2, <1>3

LEMMA BeginTypes ==
  ASSUME BuildTypeOK, Begin
  PROVE  BuildTypeOK'
<1> DEFINE b == <<read, Head(queue)>>
<1>1. Head(queue) \in Variants /\ Tail(queue) \in Seq(Variants)
  BY HeadTailProperties DEF BuildTypeOK, Begin
<1>2. b \in Builds
  BY <1>1 DEF BuildTypeOK, Builds
<1>3. CASE b \in Buildable
  <2>1. /\ building' = b /\ todo' = Writes(b) /\ queue' = Tail(queue) /\ ~open
        /\ UNCHANGED <<source, read, open, file, failures>>
    BY <1>3 DEF Begin, BuildTypeOK
  <2>2. Writes(b) \in Seq(Paths) /\ b # Nothing
    BY <1>2, WritesInOrder, BuildAssumption DEF Order
  <2> QED
    BY <1>1, <1>2, <2>1, <2>2 DEF BuildTypeOK
<1>4. CASE b \notin Buildable
  <2>1. Exit /\ UNCHANGED <<file, failures>>
    BY <1>4 DEF Begin
  <2> QED
    BY <2>1, ExitTypes DEF BuildTypeOK
<1> QED
  BY <1>3, <1>4

LEMMA PutTypes ==
  ASSUME BuildTypeOK, NEW p \in Paths, NEW content \in Builds \cup {Damaged}, Put(p, content)
  PROVE  DOMAIN file' \subseteq Paths /\ \A q \in DOMAIN file' : file'[q] \in Builds \cup {Damaged}
<1>1. /\ DOMAIN file' = DOMAIN file \cup {p} /\ file'[p] = content
      /\ \A q \in DOMAIN file \ {p} : file'[q] = file[q]
  BY PutFile
<1>2. DOMAIN file \subseteq Paths /\ \A q \in DOMAIN file : file[q] \in Builds \cup {Damaged}
  BY DEF BuildTypeOK
<1> QED
  BY <1>1, <1>2

LEMMA OpenTypes ==
  ASSUME BuildTypeOK, Open
  PROVE  BuildTypeOK'
  BY NextFile, PutTypes DEF BuildTypeOK, Open

LEMMA WriteFileTypes ==
  ASSUME BuildTypeOK, WriteFile
  PROVE  BuildTypeOK'
  BY NextFile, PutTypes DEF BuildTypeOK, WriteFile

LEMMA BuildTypesNext == BuildTypeOK /\ [BuildNext]_vars => BuildTypeOK'
<1> SUFFICES ASSUME BuildTypeOK, [BuildNext]_vars PROVE BuildTypeOK'
  OBVIOUS
<1>1. CASE Edit
  BY <1>1, BuildAssumption DEF Edit, BuildTypeOK
<1>2. CASE Start(<<OwnVariant[source]>>) \/ Start(Matrix[source])
  BY <1>2, StartTypes
<1>3. CASE Work
  <2>1. CASE Refuse
    BY <2>1, ExitTypes DEF Refuse, BuildTypeOK
  <2>2. CASE Complete
    BY <2>2 DEF Complete, BuildTypeOK
  <2> QED
    BY <1>3, <2>1, <2>2, BeginTypes, OpenTypes, WriteFileTypes DEF Work
<1>4. CASE Fail
  BY <1>4, ExitTypes, BuildAssumption DEF Fail, BuildTypeOK
<1>5. CASE UNCHANGED vars
  BY <1>5 DEF vars, BuildTypeOK
<1> QED
  BY <1>1, <1>2, <1>3, <1>4, <1>5 DEF BuildNext

\* The types of the builder: a file is of a build or incomplete, only a build in
\* progress has files to write, and only a copy is ever in the middle of its file.
THEOREM BuildTypeCorrect == BuildSpec => []BuildTypeOK
  BY BuildTypesInit, BuildTypesNext, PTL DEF BuildSpec

-----------------------------------------------------------------------------
(***************************************************************************)
(* The files of a build, as it goes on.                                    *)
(***************************************************************************)
\* The file at hand, and those written before it.
LEMMA FileAtHand ==
  ASSUME BuildTypeOK, InProgress, todo # <<>>
  PROVE  \E m \in 1 .. Len(Writes(building)) : Head(todo) = Writes(building)[m] /\ Progress(m - 1)
<1>1. building \in Builds /\ building # Nothing
  BY NextFile
<1>2. PICK n \in 0 .. Len(Writes(building)) : Progress(n)
  BY <1>1 DEF InProgress
<1>3. Writes(building) \in Seq(Paths)
  BY <1>1, WritesInOrder DEF Order
<1>4. todo \in Seq(Paths) /\ Len(todo) \in Nat /\ Len(todo) > 0 /\ Head(todo) = todo[1]
  BY EmptySeq, LenProperties DEF BuildTypeOK
<1>5. Len(Writes(building)) \in Nat
  BY <1>3, LenProperties
<1>6. n + 1 \in 1 .. Len(Writes(building)) /\ Head(todo) = Writes(building)[n + 1]
  BY <1>2, <1>4, <1>5 DEF Progress
<1> QED
  BY <1>2, <1>6

\* A file that is put in place disturbs no other.
LEMMA OthersHold ==
  ASSUME NEW p, NEW content, Put(p, content), NEW q, NEW b, Holds(q, b)
  PROVE  (q # p \/ content = b) => Holds(q, b)'
  BY PutFile DEF Holds

\* A step that writes nothing, and after which no build is in progress.
LEMMA RestsInv ==
  ASSUME BuilderInv, BuildTypeOK', UNCHANGED file, building' = Nothing,
         \/ failures' = failures /\ ~open
         \/ failures' = failures + 1
  PROVE  BuilderInv'
<1>1. InProgress'
  BY DEF InProgress
<1>2. failures \in Nat
  BY BuildAssumption DEF BuilderInv, BuildTypeOK
<1>3. FilesSound'
  BY <1>2 DEF BuilderInv, FilesSound, Copied, Belongs
<1>4. ManifestSound'
  BY DEF BuilderInv, ManifestSound, Holds
<1> QED
  BY <1>1, <1>3, <1>4 DEF BuilderInv

LEMMA BeginInv ==
  ASSUME BuilderInv, BuildTypeOK', Begin
  PROVE  BuilderInv'
<1> DEFINE b == <<read, Head(queue)>>
<1>1. ~open /\ UNCHANGED <<file, failures>>
  BY DEF Begin, BuilderInv, BuildTypeOK
<1>2. CASE b \in Buildable
  <2>1. building' = b /\ todo' = Writes(b) /\ UNCHANGED open
    BY <1>2 DEF Begin
  <2>2. Len(Writes(b)) \in Nat
    BY <1>2, BuildAssumption, WritesInOrder, LenProperties DEF Order
  <2>3. Progress(0)'
    BY <2>1, <2>2 DEF Progress
  <2>4. InProgress'
    BY <2>1, <2>2, <2>3 DEF InProgress
  <2>5. FilesSound' /\ ManifestSound'
    BY <1>1, <2>1 DEF BuilderInv, FilesSound, ManifestSound, Copied, Belongs, Holds
  <2> QED
    BY <2>4, <2>5 DEF BuilderInv
<1>3. CASE b \notin Buildable
  <2>1. building' = Nothing
    BY <1>3 DEF Begin, Exit
  <2> QED
    BY <1>1, <2>1, RestsInv
<1> QED
  BY <1>2, <1>3

LEMMA OpenInv ==
  ASSUME BuilderInv, BuildTypeOK', Open
  PROVE  BuilderInv'
<1> DEFINE p == Head(todo)
           w == Writes(building)
<1>1. /\ todo # <<>> /\ Copied(p) /\ Put(p, Damaged) /\ open' = TRUE
      /\ UNCHANGED <<building, todo, failures>>
  BY DEF Open
<1>2. PICK m \in 1 .. Len(w) : p = w[m] /\ Progress(m - 1)
  BY <1>1, FileAtHand DEF BuilderInv
<1>3. building \in Builds /\ building # Damaged /\ p \in Paths
  BY <1>1, NextFile DEF BuilderInv
<1>4. Belongs(p, building) /\ \A k \in 1 .. m - 1 : w[k] # p
  BY <1>1, <1>2, <1>3, WrittenBefore
<1>5. Len(w) \in Nat
  BY <1>3, WritesInOrder, LenProperties DEF Order
<1>6. Progress(m - 1)'
  BY <1>1, <1>2, <1>4, OthersHold DEF Progress
<1>7. InProgress'
  BY <1>1, <1>2, <1>5, <1>6 DEF InProgress
<1>8. /\ DOMAIN file' = DOMAIN file \cup {p} /\ file'[p] = Damaged
      /\ \A q \in DOMAIN file \ {p} : file'[q] = file[q]
  BY <1>1, PutFile
<1> HIDE DEF p, w
<1>9. FilesSound'
  <2> SUFFICES ASSUME NEW q \in DOMAIN file'
               PROVE  /\ file'[q] = Damaged => Copied(q)
                      /\ file'[q] # Damaged => Belongs(q, file'[q])
                      /\ q.in = "server" /\ q.kind = "module" /\ file'[q] = Damaged =>
                           \/ 0 < failures'
                           \/ open' /\ building' = q.of /\ Head(todo') = q
    BY DEF FilesSound, Copied, Belongs
  <2>1. CASE q = p
    BY <1>1, <1>4, <1>8, <2>1 DEF Belongs, p
  <2>2. CASE q # p
    <3>1. q \in DOMAIN file /\ file'[q] = file[q]
      BY <1>8, <2>2
    <3>2. ~open
      BY DEF Open
    <3> QED
      BY <1>1, <3>1, <3>2 DEF BuilderInv, FilesSound
  <2> QED
    BY <2>1, <2>2
<1>10. ManifestSound'
  <2> SUFFICES ASSUME NEW q \in DOMAIN file', q.kind = "manifest"
               PROVE  /\ Holds(ServerFile("access", file[q]), file[q])'
                      /\ ServerFile("module", file'[q]) \in DOMAIN file'
    BY DEF ManifestSound
  <2>1. q # p /\ q \in DOMAIN file /\ file'[q] = file[q]
    BY <1>1, <1>8 DEF Copied
  <2>2. /\ Holds(ServerFile("access", file[q]), file[q])
        /\ ServerFile("module", file[q]) \in DOMAIN file
    BY <2>1 DEF BuilderInv, ManifestSound
  <2>3. ServerFile("access", file[q]) # p
    BY <1>1 DEF Copied, ServerFile
  <2> QED
    BY <1>8, <2>1, <2>2, <2>3 DEF Holds
<1> QED
  BY <1>7, <1>9, <1>10 DEF BuilderInv

LEMMA WriteFileInv ==
  ASSUME BuilderInv, BuildTypeOK', WriteFile
  PROVE  BuilderInv'
<1> DEFINE p == Head(todo)
           b == building
           w == Writes(b)
<1>1. /\ todo # <<>> /\ (Copied(p) => open) /\ Put(p, b) /\ todo' = Tail(todo) /\ open' = FALSE
      /\ UNCHANGED <<building, failures>>
  BY DEF WriteFile
<1>2. PICK m \in 1 .. Len(w) : p = w[m] /\ Progress(m - 1)
  BY <1>1, FileAtHand DEF BuilderInv
<1>3. b \in Builds /\ b # Damaged /\ p \in Paths
  BY <1>1, NextFile DEF BuilderInv
<1>4. /\ Belongs(p, b)
      /\ p.kind = "manifest" =>
           {ServerFile("module", b), ServerFile("access", b)} \subseteq {w[k] : k \in 1 .. m - 1}
  BY <1>2, <1>3, WrittenBefore
<1>5. w \in Seq(Paths) /\ Len(w) \in Nat
  BY <1>3, WritesInOrder, LenProperties DEF Order
<1>6. /\ DOMAIN file' = DOMAIN file \cup {p} /\ file'[p] = b
      /\ \A q \in DOMAIN file \ {p} : file'[q] = file[q]
  BY <1>1, PutFile
<1>7. \A k \in 1 .. m - 1 : Holds(w[k], b)
  BY <1>2 DEF Progress
<1>8. InProgress'
  <2>1. \A k \in 1 .. m : Holds(w[k], b)'
    <3> SUFFICES ASSUME NEW k \in 1 .. m PROVE w[k] \in DOMAIN file' /\ file'[w[k]] = b
      BY <1>1 DEF Holds
    <3>1. CASE k = m
      BY <1>2, <1>6, <3>1
    <3>2. CASE k # m
      <4>1. k \in 1 .. m - 1
        BY <1>5, <3>2
      <4>2. w[k] \in DOMAIN file /\ file[w[k]] = b
        BY <1>7, <4>1 DEF Holds
      <4> QED
        BY <1>6, <4>2
    <3> QED
      BY <3>1, <3>2
  <2>2. /\ Len(todo) = Len(w) - (m - 1)
        /\ \A k \in 1 .. Len(todo) : todo[k] = w[k + (m - 1)]
    BY <1>2 DEF Progress
  <2>3. /\ Len(Tail(todo)) = Len(todo) - 1
        /\ \A k \in 1 .. Len(Tail(todo)) : Tail(todo)[k] = todo[k + 1]
    BY <1>1, HeadTailProperties DEF BuilderInv, BuildTypeOK
  <2>4. Len(todo) \in Nat
    BY LenProperties DEF BuilderInv, BuildTypeOK
  <2>5. /\ Len(Tail(todo)) = Len(w) - m
        /\ \A k \in 1 .. Len(Tail(todo)) : Tail(todo)[k] = w[k + m]
    <3>1. m \in Nat /\ m <= Len(w)
      BY <1>5
    <3>2. Len(Tail(todo)) = Len(w) - m
      BY <1>5, <2>2, <2>3, <3>1
    <3>3. ASSUME NEW k \in 1 .. Len(Tail(todo)) PROVE Tail(todo)[k] = w[k + m]
      <4>1. k \in Nat /\ k + 1 \in 1 .. Len(todo) /\ (k + 1) + (m - 1) = k + m
        BY <2>3, <2>4, <3>1
      <4> QED
        BY <2>2, <2>3, <4>1
    <3> QED
      BY <3>2, <3>3
  <2>6. Progress(m)'
    BY <1>1, <2>1, <2>5 DEF Progress
  <2> QED
    BY <1>1, <1>5, <2>6 DEF InProgress
<1> HIDE DEF p, b, w
<1>9. FilesSound'
  <2> SUFFICES ASSUME NEW q \in DOMAIN file'
               PROVE  /\ file'[q] = Damaged => Copied(q)
                      /\ file'[q] # Damaged => Belongs(q, file'[q])
                      /\ q.in = "server" /\ q.kind = "module" /\ file'[q] = Damaged =>
                           \/ 0 < failures'
                           \/ open' /\ building' = q.of /\ Head(todo') = q
    BY DEF FilesSound, Copied, Belongs
  <2>1. CASE q = p
    BY <1>3, <1>4, <1>6, <2>1
  <2>2. CASE q # p
    <3>1. q \in DOMAIN file /\ file'[q] = file[q]
      BY <1>6, <2>2
    <3>2. ~(open /\ building = q.of /\ Head(todo) = q)
      BY <2>2 DEF p
    <3> QED
      BY <1>1, <3>1, <3>2 DEF BuilderInv, FilesSound
  <2> QED
    BY <2>1, <2>2
<1>10. ManifestSound'
  <2> SUFFICES ASSUME NEW q \in DOMAIN file', q.kind = "manifest"
               PROVE  /\ Holds(ServerFile("access", file[q]), file[q])'
                      /\ ServerFile("module", file'[q]) \in DOMAIN file'
    BY DEF ManifestSound
  <2>1. CASE q = p
    <3>1. {ServerFile("module", b), ServerFile("access", b)} \subseteq DOMAIN file
      BY <1>4, <1>7, <2>1 DEF Holds
    <3>2. file[ServerFile("access", b)] = b
      BY <1>4, <1>7, <2>1 DEF Holds
    <3> QED
      BY <1>6, <2>1, <3>1, <3>2 DEF Holds
  <2>2. CASE q # p
    <3>1. q \in DOMAIN file /\ file'[q] = file[q]
      BY <1>6, <2>2
    <3>2. /\ Holds(ServerFile("access", file[q]), file[q])
          /\ ServerFile("module", file[q]) \in DOMAIN file
      BY <3>1 DEF BuilderInv, ManifestSound
    <3>3. p = ServerFile("access", file[q]) => b = file[q]
      BY <1>4 DEF Belongs, ServerFile
    <3> QED
      BY <1>6, <3>1, <3>2, <3>3 DEF Holds
  <2> QED
    BY <2>1, <2>2
<1> QED
  BY <1>8, <1>9, <1>10 DEF BuilderInv

LEMMA BuilderNext == BuilderInv /\ [BuildNext]_vars => BuilderInv'
<1> SUFFICES ASSUME BuilderInv, [BuildNext]_vars PROVE BuilderInv'
  OBVIOUS
<1>1. BuildTypeOK'
  BY BuildTypesNext DEF BuilderInv
<1>2. ASSUME ~open, UNCHANGED <<file, building, failures>>, building = Nothing PROVE BuilderInv'
  BY <1>1, <1>2, RestsInv
<1>3. CASE Edit \/ Start(<<OwnVariant[source]>>) \/ Start(Matrix[source])
  <2>1. ~open
    BY <1>3 DEF Edit, Start, Idle, BuilderInv, BuildTypeOK
  <2> QED
    BY <1>2, <1>3, <2>1 DEF Edit, Start, Idle
<1>4. CASE Work
  <2>1. CASE Refuse
    <3>1. ~open
      BY <2>1 DEF Refuse, Refused, Copied, BuilderInv, BuildTypeOK
    <3> QED
      BY <1>1, <2>1, <3>1, RestsInv DEF Refuse, Exit
  <2>2. CASE Complete
    <3>1. ~open
      BY <2>2 DEF Complete, BuilderInv, BuildTypeOK
    <3> QED
      BY <1>1, <2>2, <3>1, RestsInv DEF Complete
  <2> QED
    BY <1>1, <1>4, <2>1, <2>2, BeginInv, OpenInv, WriteFileInv DEF Work
<1>5. CASE Fail
  BY <1>1, <1>5, RestsInv DEF Fail, Exit
<1>6. CASE UNCHANGED vars
  <2>1. InProgress'
    <3>1. ASSUME NEW n PROVE Progress(n)' = Progress(n)
      BY <1>6 DEF vars, Progress, Holds
    <3> QED
      BY <1>6, <3>1 DEF vars, BuilderInv, InProgress
  <2>2. FilesSound' /\ ManifestSound'
    BY <1>6 DEF vars, BuilderInv, FilesSound, ManifestSound, Copied, Belongs, Holds
  <2> QED
    BY <1>1, <2>1, <2>2 DEF BuilderInv
<1> QED
  BY <1>3, <1>4, <1>5, <1>6 DEF BuildNext

LEMMA BuilderInvariant == BuildSpec => []BuilderInv
<1>1. BuildInit => BuilderInv
  BY BuildTypesInit DEF BuildInit, BuilderInv, InProgress, FilesSound, ManifestSound
<1> QED
  BY <1>1, BuilderNext, PTL DEF BuildSpec

\* The manifest of a repository names a module that a client may have: its access
\* document is there, and it is there itself, unless it is being copied over itself
\* or a build was cut off.
THEOREM ManifestAlwaysResolves == BuildSpec => []ManifestResolves
<1>1. ASSUME BuilderInv, NEW p \in DOMAIN file, p.kind = "manifest"
      PROVE  LET b == file[p]
             IN  /\ b \in Builds /\ VariantOf(b) = p.of
                 /\ Holds(ServerFile("access", b), b)
                 /\ \/ Holds(ServerFile("module", b), b)
                    \/ Holds(ServerFile("module", b), Damaged) /\ (building = b \/ 0 < failures)
  <2> DEFINE b == file[p]
             module == ServerFile("module", b)
  <2>1. b # Damaged /\ b \in Builds /\ Belongs(p, b)
    BY <1>1 DEF BuilderInv, BuildTypeOK, FilesSound, Copied
  <2>2. VariantOf(b) = p.of
    BY <1>1, <2>1 DEF Belongs
  <2>3. Holds(ServerFile("access", b), b) /\ module \in DOMAIN file
    BY <1>1 DEF BuilderInv, ManifestSound
  <2>4. module.in = "server" /\ module.kind = "module" /\ module.of = b
    BY DEF ServerFile
  <2>5. file[module] # Damaged => file[module] = b
    <3>1. ASSUME file[module] # Damaged PROVE b = file[module]
      <4>1. Belongs(module, file[module])
        BY <1>1, <2>3, <3>1 DEF BuilderInv, FilesSound
      <4> QED
        BY <2>4, <4>1 DEF Belongs
    <3> QED
      BY <3>1
  <2>6. file[module] = Damaged => building = b \/ 0 < failures
    BY <1>1, <2>3, <2>4 DEF BuilderInv, FilesSound
  <2> QED
    BY <2>1, <2>2, <2>3, <2>5, <2>6 DEF Holds
<1>2. BuilderInv => ManifestResolves
  BY <1>1 DEF ManifestResolves
<1> QED
  BY <1>2, BuilderInvariant, PTL

\* A step that puts the last file of a build in its place.
LEMMA LastFilePut ==
  ASSUME BuilderInv, WriteFile, NEW b \in Builds, building = b,
         Head(todo) = LastFile(VariantOf(b))
  PROVE  Shipped(b)'
<1> DEFINE v == VariantOf(b)
           w == Writes(b)
           last == LastFile(v)
           before == IF Profile(b) \in Bundled
                     THEN {ClientFile(kind, v) : kind \in {"module", "key", "host"}}
                     ELSE {ServerFile(kind, b) : kind \in {"module", "access"}}
                            \cup {ClientFile(kind, v) : kind \in {"key", "host", "bootstrap"}}
<1>1. todo # <<>> /\ Put(last, b)
  BY DEF WriteFile
<1>2. PICK m \in 1 .. Len(w) : last = w[m] /\ Progress(m - 1)
  BY <1>1, FileAtHand DEF BuilderInv
<1>3. before \subseteq Paths
  BY PathTypes
<1>4. before \subseteq {w[k] : k \in 1 .. m - 1}
  BY <1>2, <1>3, WrittenBefore
<1>5. \A k \in 1 .. m - 1 : Holds(w[k], b)
  BY <1>2 DEF Progress
<1>6. /\ DOMAIN file' = DOMAIN file \cup {last} /\ file'[last] = b
      /\ \A q \in DOMAIN file \ {last} : file'[q] = file[q]
  BY <1>1, PutFile
<1>7. \A q \in before \cup {last} : q \in DOMAIN file' /\ file'[q] = b
  <2>1. \A q \in before : q \in DOMAIN file /\ file[q] = b
    <3> SUFFICES ASSUME NEW q \in before PROVE Holds(q, b)
      BY DEF Holds
    <3>1. q \in {w[k] : k \in 1 .. m - 1}
      BY <1>4
    <3> HIDE DEF before, w
    <3>2. PICK k \in 1 .. m - 1 : q = w[k]
      BY <3>1
    <3> QED
      BY <1>5, <3>2
  <2> HIDE DEF before, last
  <2> QED
    BY <1>6, <2>1
<1>8. CASE Profile(b) \in Bundled
  <2>1. last = ClientFile("bootstrap", v)
    BY <1>8 DEF LastFile, Profile, VariantOf
  <2>2. \A kind \in {"module", "key", "host", "bootstrap"} :
          ClientFile(kind, v) \in DOMAIN file' /\ file'[ClientFile(kind, v)] = b
    BY <1>7, <1>8, <2>1
  <2> QED
    BY <1>8, <2>2 DEF Shipped, Holds
<1>9. CASE Profile(b) \notin Bundled
  <2>1. last = ServerFile("manifest", v)
    BY <1>9 DEF LastFile, Profile, VariantOf
  <2>2. /\ \A kind \in {"key", "host", "bootstrap"} :
             ClientFile(kind, v) \in DOMAIN file' /\ file'[ClientFile(kind, v)] = b
        /\ \A kind \in {"module", "access"} :
             ServerFile(kind, b) \in DOMAIN file' /\ file'[ServerFile(kind, b)] = b
        /\ ServerFile("manifest", v) \in DOMAIN file' /\ file'[ServerFile("manifest", v)] = b
    BY <1>7, <1>9, <2>1
  <2> QED
    BY <1>9, <2>2 DEF Shipped, Holds
<1> QED
  BY <1>8, <1>9

\* When the bootstrap of a bundled profile, or the manifest of a remote one, comes to be
\* of a build, all other files of the build are of it too, whatever was refused or cut
\* off before.
THEOREM LastFileTellsAll == BuildSpec => LastFileTells
<1> DEFINE Tells == \A b \in Builds :
             ~Holds(LastFile(VariantOf(b)), b) /\ Holds(LastFile(VariantOf(b)), b)' => Shipped(b)'
<1>1. ASSUME BuilderInv, [BuildNext]_vars PROVE Tells
  <2> SUFFICES ASSUME NEW b \in Builds, NEW last, last = LastFile(VariantOf(b)),
                      ~Holds(last, b), Holds(last, b)'
               PROVE  Shipped(b)'
    BY DEF LastFile
  <2>1. b # Damaged
    BY BuildAssumption
  <2>2. ASSUME NEW p, NEW content, Put(p, content) PROVE p = last /\ content = b
    <3>1. /\ DOMAIN file' = DOMAIN file \cup {p} /\ file'[p] = content
          /\ \A q \in DOMAIN file \ {p} : file'[q] = file[q]
      BY <2>2, PutFile
    <3>2. last \in DOMAIN file' /\ file'[last] = b /\ ~(last \in DOMAIN file /\ file[last] = b)
      BY DEF Holds
    <3> QED
      BY <3>1, <3>2
  <2>3. CASE Open
    BY <2>1, <2>2, <2>3 DEF Open
  <2>4. CASE WriteFile
    BY <1>1, <2>2, <2>4, LastFilePut DEF WriteFile
  <2>5. CASE UNCHANGED file
    BY <2>5 DEF Holds
  <2> QED
    BY <1>1, <2>3, <2>4, <2>5
    DEF BuildNext, Work, Edit, Start, Begin, Refuse, Complete, Fail, vars
<1>2. BuilderInv /\ [BuildNext]_vars => [Tells]_vars
  BY <1>1
<1> QED
  BY <1>2, BuilderInvariant, PTL DEF BuildSpec, LastFileTells

\* Whatever the compiler is run on besides, the builder keeps to its specification, so
\* that all of the above holds of it where its verdicts are those of lint and of the
\* host manifest on the texts it is run on.
THEOREM BuilderImplemented == Spec => BuildSpec
<1>1. Init => BuildInit
  BY DEF Init
<1>2. [Next]_allVars => [BuildNext]_vars
  BY DEF Next, Deliver, CompileFile, allVars, vars
<1> QED
  BY <1>1, <1>2, PTL DEF Spec, BuildSpec
=============================================================================
