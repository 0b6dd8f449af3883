----------------------------- MODULE PvmTooling -----------------------------
(***************************************************************************)
(* The tools around the compiler, server/src/pvm_server: the host          *)
(* interface (host_idl.py), the lint of a source against it (tooling.py),  *)
(* and the declarations a host's package needs (host_manifest.py).         *)
(*                                                                         *)
(* A host interface is the content of spec/host_idl.json:                  *)
(*   capabilities, components : sequences of entries with an id and a      *)
(*   version; a capability also says whether it is async and gives, for    *)
(*   each of its operations, the types of the arguments and of the result; *)
(*   a component gives the types of its props, events and commands.        *)
(***************************************************************************)
EXTENDS PvmCompiler

CONSTANTS
  Interface,      \* the host interface of the tree
  Permissions,    \* per platform, the permissions a capability needs
  UsageKey,       \* the text iOS asks for before a capability is used, if any
  Declarations    \* what a store's review asks about a capability

IdlTypes == {"bool", "int", "string"}

Ids(entries)        == {e.id : e \in ToSet(entries)}
Entry(entries, id)  == CHOOSE e \in ToSet(entries) : e.id = id

EntriesHold(entries) ==
  /\ [k \in DOMAIN entries |-> entries[k].id] = Sorted(Ids(entries))
  /\ \A e \in ToSet(entries) : e.id \in CapabilityNames /\ 0 < e.version

OperationHolds(operation) ==
  ToSet(operation.args) \cup {operation.result} \subseteq IdlTypes

ComponentHolds(c) ==
  Range(c.props) \cup Range(c.events) \cup UNION {ToSet(args) : args \in Range(c.commands)}
    \subseteq IdlTypes

\* load: sorted, without repetition, versions from 1, operations of known types.
InterfaceHolds(idl) ==
  /\ idl.schemaVersion = 1
  /\ EntriesHold(idl.capabilities) /\ EntriesHold(idl.components)
  /\ \A c \in ToSet(idl.capabilities) :
       /\ c.async \in BOOLEAN
       /\ DOMAIN c.operations # {}
       /\ \A name \in DOMAIN c.operations : OperationHolds(c.operations[name])
  /\ \A c \in ToSet(idl.components) : ComponentHolds(c)

(***************************************************************************)
(* lint: the source compiles, its capabilities exist in the versions it    *)
(* asks for, and every effect fits the operation it names.                 *)
(***************************************************************************)
CapabilitiesProvided(source) ==
  \A c \in Capabilities(source) :
    /\ c \in Ids(Interface.capabilities)
    /\ Version(source.module, c) <= Entry(Interface.capabilities, c).version

EffectFits(i) ==
  i.op \in {"Effect", "AsyncEffect"} =>
    LET capability == Entry(Interface.capabilities, i.name)
    IN  /\ i.operation \in DOMAIN capability.operations
        /\ (i.op = "AsyncEffect") = capability.async
        /\ i.args = Len(capability.operations[i.operation].args)

\* A native surface names a component of the interface, as a plain text.
SurfaceKnown(node) ==
  node.type = "native_surface" =>
    /\ "surface_type" \in DOMAIN node.props
    /\ \E id \in Ids(Interface.components) : node.props.surface_type = <<Literal(id)>>

Linted(source) ==
  /\ InterfaceHolds(Interface)
  /\ Build(source, 5) # <<>>
  /\ CapabilitiesProvided(source)
  /\ \A name \in HandlerNames(source) :
       \A k \in DOMAIN source.handlers[name] : EffectFits(source.handlers[name][k])
  /\ \A k \in DOMAIN AllNodes(source) : SurfaceKnown(AllNodes(source)[k])

(***************************************************************************)
(* generate of host_manifest.py: every capability that needs a text for    *)
(* iOS has one in the source, whatever platform the build is for.          *)
(***************************************************************************)
UsageGiven(source) ==
  \A c \in Capabilities(source) \cap DOMAIN UsageKey : UsageKey[c] \in source.module.usage

Declared(table, source) ==
  UNION {table[c] : c \in Capabilities(source) \cap DOMAIN table}

HostManifest(source) ==
  IF ~PolicyHolds(source) \/ ~UsageGiven(source) THEN <<>>
  ELSE <<[application  |-> source.module.application,
        platform     |-> source.delivery.platform,
        capabilities |-> [c \in Capabilities(source) |-> Version(source.module, c)],
        permissions  |-> [p \in DOMAIN Permissions |-> Declared(Permissions[p], source)],
        infoPlist    |-> {UsageKey[c] : c \in Capabilities(source) \cap DOMAIN UsageKey},
        review       |-> Declared(Declarations, source),
        domains      |-> Sorted(ToSet(source.module.domains)),
        scopes       |-> Sorted(ToSet(source.module.scopes))]>>

=============================================================================
