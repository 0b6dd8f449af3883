---------------------------- MODULE PvmCompiler ----------------------------
(***************************************************************************)
(* The compiler of server/src/pvm_server/compiler.py: a source, that is,   *)
(* the JSON object a developer writes, to the tables of a module.  Names   *)
(* become indices, strings are interned, templates become segments.        *)
(*                                                                         *)
(* What the loader of client/src/runtime.cpp makes of those tables is at   *)
(* the end; the two are written apart here because they are apart in the   *)
(* code, and share only the format.                                        *)
(***************************************************************************)
EXTENDS PvmBytecode, SequencesExt

CONSTANTS
  NameOrder,    \* all names, in the order Python sorts them
  SafeNames,    \* those that are safe identifiers
  CapabilityNames,  \* those that are names of capabilities
  Network,      \* the capabilities whose name begins with "network."
  Storage,      \* ... and with "storage."
  NodeHash,     \* fnv1a32 of each node id
  MaxDepth,     \* kMaximumUiDepth of the loader
  MaxSegments   \* the segments of a property the loader allows

None        == "none"
EmptyString == ""

Formats         == 1 .. 5
RuntimeVersion  == 5
Profiles        == {"offline_sealed", "online_provisioned", "store_on_demand",
                    "enterprise_managed"}
Platforms       == {"android", "ios", "harmonyos", "desktop"}
NodeTypes       == {"text", "image", "row", "column", "stack", "scroll", "list", "button",
                    "input", "switch", "native_surface"}
PropertyKeys    == {"text", "source", "accessibility_label", "enabled", "value",
                    "surface_type"}
EventTypes      == {"tap", "change", "submit", "appear"}
MaxVersion      == 65535
MaxBudget       == 10000000
NativeCode      == {"dex", "jar", "so"}

\* The elements of a sequence that are in a set, in their order.
Among(s, set) ==
  LET upto[k \in 0 .. Len(s)] ==
        IF k = 0 THEN <<>>
        ELSE upto[k - 1] \o IF s[k] \in set THEN <<s[k]>> ELSE <<>>
  IN  upto[Len(s)]

Sorted(names) == Among(NameOrder, names)

\* The position of a name in a sorted table, from 0, and the values of a table
\* in the order of its names.
IdOf(name, names) == (CHOOSE k \in DOMAIN Sorted(names) : Sorted(names)[k] = name) - 1
InOrder(table)    == [k \in DOMAIN Sorted(DOMAIN table) |-> table[Sorted(DOMAIN table)[k]]]

(***************************************************************************)
(* Sources.  A value of another JSON type than is asked for is refused as  *)
(* it is met; sources that hold one are left out.                          *)
(***************************************************************************)
Names == ToSet(NameOrder)

ASSUME NameAssumption == NameOrder \in Seq(STRING) /\ IsInjective(NameOrder)

ASSUME NestingAssumption == MaxDepth \in Nat /\ MaxSegments \in Nat

IsTable(t, values) == DOMAIN t \subseteq Names /\ t \in [DOMAIN t -> values]

\* The fields that an instruction does not have are set to one value.
SourceInstruction ==
  {i \in [op : STRING, value : Value, name : STRING, target : Int, operation : STRING, args : Nat] :
     /\ i.op # "Constant" => i.value = Integer(0)
     /\ i.op \notin {"StateGet", "StateSet", "Effect", "AsyncEffect", "Render"} => i.name = None
     /\ i.op \notin {"Jump", "JumpIfFalse"} => i.target = 0
     /\ i.op \notin {"Effect", "AsyncEffect"} => i.operation = EmptyString}

Template == Seq([kind : {"literal", "state"}, of : STRING])

\* A page is the sequence of its nodes, each with its level, in the order in which
\* both sides visit them: a node, then what is below it.
IsPage(page) ==
  /\ page \in Seq(ToSet(page)) /\ page # <<>>
  /\ \A k \in DOMAIN page :
       /\ IsTable(page[k].props, Template) /\ IsTable(page[k].events, STRING)
       /\ IF k = 1 THEN page[k].level = 1 ELSE page[k].level \in 2 .. page[k - 1].level + 1

IsSource(source) ==
  /\ IsTable(source.state, [type : STRING, initial : Value, persistence : STRING])
  /\ IsTable(source.handlers, Seq(SourceInstruction))
  /\ DOMAIN source.pages \subseteq Names /\ \A page \in Range(source.pages) : IsPage(page)
  /\ {source.module.capabilities, source.module.domains, source.module.scopes} \subseteq Seq(Names)
  /\ source.module.budget \in [maxInstructions : Int, maxStack : Int, maxStateBytes : Int,
                                maxNodes : Int, maxTasks : Int]

(***************************************************************************)
(* validate_policy                                                         *)
(***************************************************************************)
DeliveryHolds(d) ==
  /\ d.profile \in Profiles /\ d.platform \in Platforms
  /\ d.profile = "offline_sealed" => d.bundled
  /\ d.profile = "online_provisioned" => d.fallback
  /\ d.profile = "store_on_demand" /\ d.platform = "ios" => ~d.nativeDownload
  /\ d.profile = "store_on_demand" /\ d.platform = "android" =>
       d.artifacts \cap NativeCode = {}

IdentityHolds(m) ==
  /\ {m.id, m.application, m.tenant, m.channel} \subseteq SafeNames
  /\ 0 < m.release /\ 0 < m.keyVersion
  /\ m.minimumRuntime <= RuntimeVersion

\* Lists without repetition; a version for declared capabilities only.
CapabilitiesHold(m) ==
  /\ IsInjective(m.capabilities) /\ IsInjective(m.domains) /\ IsInjective(m.scopes)
  /\ ToSet(m.capabilities) \subseteq CapabilityNames
  /\ ToSet(m.domains) \cup ToSet(m.scopes) \subseteq SafeNames
  /\ DOMAIN m.versions \subseteq ToSet(m.capabilities)
  /\ \A c \in DOMAIN m.versions : m.versions[c] \in 1 .. MaxVersion
  /\ ToSet(m.capabilities) \cap Network # {} => m.domains # <<>>
  /\ ToSet(m.capabilities) \cap Storage # {} => m.scopes # <<>>

PolicyHolds(source) ==
  /\ DeliveryHolds(source.delivery)
  /\ IdentityHolds(source.module)
  /\ CapabilitiesHold(source.module)

(***************************************************************************)
(* The tables of names, and the state.  A hash stands for its material.    *)
(***************************************************************************)
StateNames(source)   == DOMAIN source.state
HandlerNames(source) == DOMAIN source.handlers
PageNames(source)    == DOMAIN source.pages
Capabilities(source) == ToSet(source.module.capabilities)

PersistenceName(source, n) ==
  IF source.state[n].persistence = None THEN n ELSE source.state[n].persistence

\* Format 4 makes the persistent name of a state explicit.
PersistenceHolds(source, format) ==
  LET names == {PersistenceName(source, n) : n \in StateNames(source)}
  IN  /\ 4 <= format => \A n \in StateNames(source) : source.state[n].persistence # None
      /\ names \subseteq SafeNames
      /\ Cardinality(names) = Cardinality(StateNames(source))

StatesHold(source) ==
  \A n \in StateNames(source) :
    source.state[n].type \in ValueType /\ TypeOf(source.state[n].initial) = source.state[n].type

SlotTypes(source) ==
  [k \in DOMAIN InOrder(source.state) |-> InOrder(source.state)[k].type]

(***************************************************************************)
(* Strings, in the order they are met: initial states, constants and       *)
(* operations of handlers, literals of pages.  Each enters the pool once.  *)
(***************************************************************************)
AllNodes(source) == FlattenSeq(InOrder(source.pages))

\* A template is the sequence of its literals and of its states' names; the
\* empty one is one empty literal.
Literal(s)    == [kind |-> "literal", of |-> s]
Reference(n)  == [kind |-> "state", of |-> n]

Parts(template) == IF template = <<>> THEN <<Literal(EmptyString)>> ELSE template

LiteralsOf(node) ==
  LET parts    == FlattenSeq([k \in DOMAIN InOrder(node.props) |-> Parts(InOrder(node.props)[k])])
      literals == Among(parts, {p \in ToSet(parts) : p.kind = "literal"})
  IN  [k \in DOMAIN literals |-> literals[k].of]

InstructionStrings(i) ==
  IF i.op = "Constant" /\ TypeOf(i.value) = "String" THEN <<Payload(i.value)>>
  ELSE IF i.op \in {"Effect", "AsyncEffect"} THEN <<i.operation>> ELSE <<>>

StateStrings(source) ==
  LET strings == Among(InOrder(source.state),
                       {slot \in Range(source.state) : slot.type = "String"})
  IN  [k \in DOMAIN strings |-> Payload(strings[k].initial)]

HandlerStrings(source) ==
  LET code == FlattenSeq(InOrder(source.handlers))
  IN  FlattenSeq([k \in DOMAIN code |-> InstructionStrings(code[k])])

PageStrings(source) ==
  FlattenSeq([k \in DOMAIN AllNodes(source) |-> LiteralsOf(AllNodes(source)[k])])

\* A sequence without its repetitions.
Interned(s) ==
  LET first == Among([k \in DOMAIN s |-> k],
                     {k \in DOMAIN s : \A j \in 1 .. k - 1 : s[j] # s[k]})
  IN  [n \in DOMAIN first |-> s[first[n]]]

Constants(source) ==
  Interned(StateStrings(source) \o HandlerStrings(source) \o PageStrings(source))

ConstantIdLatest(pool, s) == Len(pool) - 1           \* mutant: a string met again
ConstantId(pool, s) == (CHOOSE k \in DOMAIN pool : pool[k] = s) - 1

Encoded(pool, v) ==
  IF TypeOf(v) = "String" THEN <<"String", ConstantId(pool, Payload(v))>> ELSE v

(***************************************************************************)
(* Handlers: every instruction by itself, then the shapes of the stack.    *)
(***************************************************************************)
InstructionHolds(source, format, i) ==
  /\ i.op \in Op
  /\ i.op = "AsyncEffect" => 2 <= format
  /\ i.op = "EventValue" => 5 <= format
  /\ i.op \in {"StateGet", "StateSet"} => i.name \in StateNames(source)
  /\ i.op \in {"Jump", "JumpIfFalse"} => 0 <= i.target
  /\ i.op \in {"Effect", "AsyncEffect"} =>
       i.name \in Capabilities(source) /\ i.operation # EmptyString /\ i.args \in 0 .. 32
  /\ i.op = "Render" => i.name \in PageNames(source)

EncodedInstruction(source, pool, i) ==
  [op     |-> i.op,
   value  |-> Encoded(pool, i.value),
   first  |-> CASE i.op \in {"StateGet", "StateSet"}     -> IdOf(i.name, StateNames(source))
                [] i.op \in {"Effect", "AsyncEffect"}    -> IdOf(i.name, Capabilities(source))
                [] i.op = "Render"                       -> IdOf(i.name, PageNames(source))
                [] i.op \in {"Jump", "JumpIfFalse"}      -> i.target
                [] OTHER                                 -> 0,
   second |-> IF i.op \in {"Effect", "AsyncEffect"} THEN ConstantId(pool, i.operation) ELSE 0,
   args   |-> i.args]

HaltInstruction == [op |-> "Halt", value |-> Integer(0), first |-> 0, second |-> 0, args |-> 0]

\* A handler that does not end with halt is given one.
Halted(code) ==
  IF code = <<>> \/ Last(code).op # "Halt" THEN Append(code, HaltInstruction) ELSE code

EncodedHandler(source, pool, raw) ==
  Halted([k \in DOMAIN raw |-> EncodedInstruction(source, pool, raw[k])])

\* What an instruction pops, the top first, and what it pushes.
Operands(i, slotTypes) ==
  CASE i.op = "StateSet"                    -> <<{slotTypes[i.first + 1]}>>
    [] i.op = "IntegerAdd"                  -> <<{"Integer"}, {"Integer"}>>
    [] i.op = "Equal"                       -> <<ValueType, ValueType>>
    [] i.op = "JumpIfFalse"                 -> <<{"Boolean"}>>
    [] i.op \in {"Effect", "AsyncEffect"}   -> [k \in 1 .. i.args |-> ValueType]
    [] i.op = "Pop"                         -> <<ValueType>>
    [] OTHER                                -> <<>>

Results(i, slotTypes) ==
  CASE i.op = "Constant"                                 -> <<TypeOf(i.value)>>
    [] i.op = "StateGet"                                 -> <<slotTypes[i.first + 1]>>
    [] i.op = "IntegerAdd"                               -> <<"Integer">>
    [] i.op = "Equal"                                    -> <<"Boolean">>
    [] i.op \in {"EventValue", "Effect", "AsyncEffect"}  -> <<"String">>
    [] OTHER                                             -> <<>>

TakesUnchecked(i, stack, slotTypes) ==       \* mutant: an operand may have any type
  Len(Operands(i, slotTypes)) <= Len(stack)

\* The instruction finds its operands on the stack.
Takes(i, stack, slotTypes) ==
  LET operands == Operands(i, slotTypes)
  IN  /\ Len(operands) <= Len(stack)
      /\ \A k \in DOMAIN operands : stack[Len(stack) + 1 - k] \in operands[k]
      /\ i.op = "Equal" => stack[Len(stack)] = stack[Len(stack) - 1]
      /\ i.op = "Halt" => stack = <<>>

StackAfter(i, stack, slotTypes) ==
  SubSeq(stack, 1, Len(stack) - Len(Operands(i, slotTypes))) \o Results(i, slotTypes)

Follow(i, pc) ==
  CASE i.op = "Jump"        -> <<i.first>>
    [] i.op = "JumpIfFalse" -> <<i.first, pc + 1>>
    [] i.op = "Halt"        -> <<>>
    [] OTHER                -> <<pc + 1>>

\* The search of _check_handler: the stacks on entry to the addresses reached so
\* far, and the queue of those still to visit.
SearchStart == [incoming |-> [pc \in {0} |-> <<>>], queue |-> <<0>>]

\* The instruction at the head of the queue fits, and so does what follows it.
Fits(code, slotTypes, search) ==
  LET pc    == Head(search.queue)
      i     == code[pc + 1]
      stack == search.incoming[pc]
  IN  /\ Takes(i, stack, slotTypes)
      /\ \A t \in ToSet(Follow(i, pc)) :
           /\ t < Len(code)
           /\ t \in DOMAIN search.incoming => search.incoming[t] = StackAfter(i, stack, slotTypes)

\* A target met for the first time gets its stack, and is queued once.
Visit(code, slotTypes, search) ==
  LET pc    == Head(search.queue)
      i     == code[pc + 1]
      known == DOMAIN search.incoming
      new   == ToSet(Follow(i, pc)) \ known
      stack == StackAfter(i, search.incoming[pc], slotTypes)
  IN  [incoming |-> [t \in known \cup new |-> IF t \in known THEN search.incoming[t] ELSE stack],
       queue    |-> Tail(search.queue) \o Interned(Among(Follow(i, pc), new))]

\* Every address is queued at most once, so that as many turns as there are
\* instructions empty the queue, unless one does not fit: the search ends there.
Explored(code, slotTypes) ==
  LET Turn(search) == IF search.queue # <<>> /\ Fits(code, slotTypes, search)
                      THEN Visit(code, slotTypes, search) ELSE search
      after[n \in 0 .. Len(code)] == IF n = 0 THEN SearchStart ELSE Turn(after[n - 1])
  IN  after[Len(code)]

Checked(code, slotTypes) ==
  /\ \E k \in DOMAIN code : code[k].op = "Halt"
  /\ Explored(code, slotTypes).queue = <<>>

HandlersHold(source, format, pool) ==
  \A name \in HandlerNames(source) :
    LET raw == source.handlers[name]
    IN  /\ \A k \in DOMAIN raw : InstructionHolds(source, format, raw[k])
        /\ Checked(EncodedHandler(source, pool, raw), SlotTypes(source))

(***************************************************************************)
(* Pages.  The id of a node is a hash, so ids of the source may collide.   *)
(***************************************************************************)
NodeHolds(source, node) ==
  /\ node.type \in NodeTypes /\ node.id # EmptyString
  /\ DOMAIN node.props \subseteq PropertyKeys
  /\ \A key \in DOMAIN node.props : \A k \in DOMAIN node.props[key] :
       node.props[key][k].kind = "state" => node.props[key][k].of \in StateNames(source)
  /\ DOMAIN node.events \subseteq EventTypes
  /\ \A event \in DOMAIN node.events : node.events[event] \in HandlerNames(source)

NodesHold(source) ==
  /\ \A k \in DOMAIN AllNodes(source) : NodeHolds(source, AllNodes(source)[k])
  /\ IsInjective([k \in DOMAIN AllNodes(source) |-> NodeHash[AllNodes(source)[k].id]])

Segments(source, pool, template) ==
  [k \in DOMAIN Parts(template) |->
     IF Parts(template)[k].kind = "literal"
     THEN <<1, ConstantId(pool, Parts(template)[k].of)>>
     ELSE <<2, IdOf(Parts(template)[k].of, StateNames(source))>>]

EncodedNode(source, pool, node) ==
  LET keys   == Sorted(DOMAIN node.props)
      events == Sorted(DOMAIN node.events)
  IN  [type     |-> node.type,
       id       |-> NodeHash[node.id],
       props    |-> [k \in DOMAIN keys |->
                       <<keys[k], Segments(source, pool, node.props[keys[k]])>>],
       events   |-> [k \in DOMAIN events |->
                       <<events[k], IdOf(node.events[events[k]], HandlerNames(source))>>],
       level    |-> node.level]

EncodedPage(source, pool, page) ==
  [k \in DOMAIN page |-> EncodedNode(source, pool, page[k])]

(***************************************************************************)
(* A handler that reads the event's value is bound to events that have one,*)
(* at least once, and does not start the module.                           *)
(***************************************************************************)
EventValueHandlers(source) ==
  {name \in HandlerNames(source) :
     \E k \in DOMAIN source.handlers[name] : source.handlers[name][k].op = "EventValue"}

BoundEvents(nodes, name) ==
  UNION {{e \in DOMAIN nodes[k].events : nodes[k].events[e] = name} : k \in DOMAIN nodes}

BindingsOfTops(source) ==                      \* mutant: nodes inside a page are not visited
  LET tops == [k \in DOMAIN InOrder(source.pages) |-> Head(InOrder(source.pages)[k])]
  IN  /\ source.module.entryHandler \notin EventValueHandlers(source)
      /\ \A name \in EventValueHandlers(source) :
           BoundEvents(tops, name) \subseteq {"change", "submit"}

BindingsHold(source) ==
  /\ source.module.entryHandler \notin EventValueHandlers(source)
  /\ \A name \in EventValueHandlers(source) :
       LET events == BoundEvents(AllNodes(source), name)
       IN  events # {} /\ events \subseteq {"change", "submit"}

(***************************************************************************)
(* build: the tables of a module, or nothing                               *)
(***************************************************************************)
LimitsHold(source, format) ==
  LET m == source.module
  IN  /\ format <= m.minimumRuntime
      /\ \A k \in DOMAIN m.budget : m.budget[k] \in 1 .. MaxBudget
      /\ Len(AllNodes(source)) <= m.budget.maxNodes
      /\ m.entryPage \in PageNames(source)
      /\ m.entryHandler = None \/ m.entryHandler \in HandlerNames(source)

Accepted(source, format) ==
  /\ PolicyHolds(source)
  /\ PersistenceHolds(source, format)
  /\ StatesHold(source)
  /\ HandlersHold(source, format, Constants(source))
  /\ NodesHold(source)
  /\ BindingsHold(source)
  /\ LimitsHold(source, format)

EncodedStates(source, pool, format) ==
  LET names == Sorted(StateNames(source))
      slot  == InOrder(source.state)
  IN  [k \in DOMAIN names |->
         [id      |-> IF 4 <= format THEN PersistenceName(source, names[k]) ELSE None,
          type    |-> slot[k].type,
          initial |-> Encoded(pool, slot[k].initial)]]

\* The version a source asks for; a module has room for it from format 3 on.
Version(m, c) == IF c \in DOMAIN m.versions THEN m.versions[c] ELSE 1

CapabilityVersionsUnsorted(source, format) ==   \* mutant: in the order of the source
  LET names == source.module.capabilities
  IN  IF 3 <= format THEN [k \in DOMAIN names |-> Version(source.module, names[k])] ELSE <<>>

CapabilityVersions(source, format) ==
  LET names == Sorted(Capabilities(source))
  IN  IF 3 <= format THEN [k \in DOMAIN names |-> Version(source.module, names[k])] ELSE <<>>

Build(source, format) ==
  LET m    == source.module
      pool == Constants(source)
  IN  IF ~Accepted(source, format) THEN <<>>
      ELSE <<[format        |-> format,
            minimumRuntime |-> m.minimumRuntime,
            release        |-> m.release,
            keyVersion     |-> m.keyVersion,
            profile        |-> source.delivery.profile,
            platform       |-> source.delivery.platform,
            identity       |-> <<m.id, m.application, m.tenant, m.channel>>,
            limits         |-> IF 2 <= format THEN m.budget ELSE [m.budget EXCEPT !.maxTasks = 64],
            capabilities   |-> Sorted(Capabilities(source)),
            versions       |-> CapabilityVersions(source, format),
            domains        |-> Sorted(ToSet(m.domains)),
            scopes         |-> Sorted(ToSet(m.scopes)),
            constants      |-> pool,
            states         |-> EncodedStates(source, pool, format),
            handlers       |-> [k \in DOMAIN InOrder(source.handlers) |->
                                  EncodedHandler(source, pool, InOrder(source.handlers)[k])],
            pages          |-> [k \in DOMAIN InOrder(source.pages) |->
                                  EncodedPage(source, pool, InOrder(source.pages)[k])],
            entryPage      |-> IdOf(m.entryPage, PageNames(source)),
            entryHandler   |-> IF m.entryHandler = None THEN <<>>
                               ELSE <<IdOf(m.entryHandler, HandlerNames(source))>>]>>

(***************************************************************************)
(* The other side: what the loader reads.  Indices become strings again,   *)
(* and what is left of a page is what PvmBytecode keeps of it.             *)
(***************************************************************************)
Resolved(p, v) == IF TypeOf(v) = "String" THEN String(p.constants[Payload(v) + 1]) ELSE v

ReadPage(nodes) ==
  [events |-> UNION {{nodes[k].events[e][2] : e \in DOMAIN nodes[k].events} : k \in DOMAIN nodes},
   binds  |-> UNION {UNION {{seg[2] : seg \in {x \in ToSet(nodes[k].props[j][2]) : x[1] = 2}} :
                              j \in DOMAIN nodes[k].props} : k \in DOMAIN nodes}]

ReadModule(p) ==
  [handlers     |-> [h \in DOMAIN p.handlers |-> [k \in DOMAIN p.handlers[h] |->
                       LET i == p.handlers[h][k]
                       IN  [op |-> i.op, value |-> Resolved(p, i.value),
                            first |-> i.first, args |-> i.args]]],
   initial      |-> [k \in DOMAIN p.states |-> Resolved(p, p.states[k].initial)],
   pages        |-> [k \in DOMAIN p.pages |-> ReadPage(p.pages[k])],
   capabilities |-> Len(p.capabilities),
   entryPage    |-> p.entryPage,
   entryHandler |-> p.entryHandler,
   limits       |-> [maxInstructions |-> p.limits.maxInstructions, maxStack |-> p.limits.maxStack,
                     maxStateBytes |-> p.limits.maxStateBytes, maxTasks |-> p.limits.maxTasks]]

\* The version of a capability the loader takes the module to need.
VersionRead(p, k) == IF 3 <= p.format THEN p.versions[k] ELSE 1

PackageNodes(p) == FlattenSeq(p.pages)

NodeReads(p, node) ==
  /\ node.level <= MaxDepth /\ node.id # 0
  /\ IsInjective([k \in DOMAIN node.props |-> node.props[k][1]])
  /\ IsInjective([k \in DOMAIN node.events |-> node.events[k][1]])
  /\ \A j \in DOMAIN node.props :
       /\ Len(node.props[j][2]) \in 1 .. MaxSegments
       /\ \A k \in DOMAIN node.props[j][2] :
            LET segment == node.props[j][2][k]
            IN  segment[2] < IF segment[1] = 1 THEN Len(p.constants) ELSE Len(p.states)

\* The checks of read_node, of the opcodes of a format, and of the tables.
TablesRead(p) ==
  /\ \A k \in DOMAIN PackageNodes(p) : NodeReads(p, PackageNodes(p)[k])
  /\ IsInjective([k \in DOMAIN PackageNodes(p) |-> PackageNodes(p)[k].id])
  /\ Len(PackageNodes(p)) <= p.limits.maxNodes
  /\ \A h \in DOMAIN p.handlers : \A k \in DOMAIN p.handlers[h] :
       /\ p.handlers[h][k].op = "AsyncEffect" => 2 <= p.format
       /\ p.handlers[h][k].op = "EventValue" => 5 <= p.format
       /\ p.handlers[h][k].op \in {"Effect", "AsyncEffect"} =>
            p.handlers[h][k].second < Len(p.constants)
  /\ IsInjective(p.constants) /\ IsInjective(p.domains) /\ IsInjective(p.scopes)
  /\ IsInjective(p.capabilities)
  /\ 4 <= p.format => IsInjective([k \in DOMAIN p.states |-> p.states[k].id])
  /\ \A k \in DOMAIN p.states : TypeOf(p.states[k].initial) = p.states[k].type

HeaderReads(p) ==
  /\ p.format \in Formats /\ p.format <= p.minimumRuntime /\ p.minimumRuntime <= RuntimeVersion
  /\ p.release # 0 /\ p.keyVersion # 0
  /\ p.profile \in Profiles /\ p.platform \in Platforms
  /\ \A k \in DOMAIN p.limits : p.limits[k] \in 1 .. MaxBudget
  /\ 3 <= p.format => \A k \in DOMAIN p.capabilities : p.versions[k] # 0

\* What the compiler recorded about a handler, as a typing of the loader's.
Typing(p, h) ==
  Explored(p.handlers[h + 1], [k \in DOMAIN p.states |-> p.states[k].type]).incoming

Loads(p) ==
  /\ HeaderReads(p)
  /\ TablesRead(p)
  /\ Decodes(ReadModule(p))
  /\ \A h \in HandlerIds(ReadModule(p)) : WellTyped(ReadModule(p), h, Typing(p, h))
============================================================================
