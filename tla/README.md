# PVM-Runtime: models, checks and proofs

PVM-Runtime ships an application as a signed bytecode module. A server compiles, signs and
releases modules; a client store downloads and keeps them; a C++ virtual machine verifies
and runs them; a native host on Android, iOS or Harmony shows the trees the machine renders
and carries out the capabilities it asks for. This directory holds TLA+ models of the parts
whose correctness depends on order, interleaving, failure or exhaustive case analysis, the
TLC configurations that check them on small instances, and proofs that hold for every value
of the constants.

## Inventory

| Component | State | Operations | Interacts with |
|---|---|---|---|
| Loader and verifier (`client/src/runtime.cpp`, `load_module`, `parse_payload`, `validate_handler`) | recorded stack shapes and worklist of the handler being validated | decode, validate each handler | hands a module to the runtime |
| State snapshots (`runtime.cpp`, `snapshot_state`, `restore_state`) | none | write the state table; read a table back, by position or by stable id | the session's state file |
| Runtime (`runtime.cpp`, `Runtime::Impl`) | started, state table, current page, last snapshot, task table, task counter | start, dispatch, complete_effect, cancel_all_tasks, restore, snapshot; one opcode at a time | calls the host back (tree, capability, asynchronous capability), and may be entered from those callbacks |
| UI diff and revisions (`runtime.cpp` 757-838; `c_api.cpp` 88-189) | last snapshot, node revisions | assign revisions, collect a delta, send a patch or a replacement | the renderers |
| C ABI (`client/src/c_api.cpp`) | callbacks, error text | one function per runtime operation, `guard` | bridges |
| Bridges (JNI, N-API, Objective-C++) | handles, generation of tasks | marshalling | hosts |
| Hosts (`PvmRuntimeHost.kt`, `PVMHost.swift`, `PvmRuntimeHost.ets`) | handle, pending UI batch, UI generation, task generation | start, dispatch, cancel, close; deliver batches; complete tasks | renderers, capability registries |
| Renderers | view per node, node revisions | replace or patch a tree | users' events |
| Sessions (`PvmRuntimeSession.ets`, demos) | persisted state file | start with restore, persist, close | module store, host |
| Module stores (`PvmModuleStore.kt`, `.swift`, `.ets`, `provision.py`) | state file (release, hash, etag, history), module files | refresh, last known good | module service |
| Release control (`publish.py`, `release.py`) | control file (current, previous, rollout), modules, access files | publish, set rollout, roll back | module service |
| Module service (`serve.py`) | repository (read), audit log | serve a manifest, serve a module | stores |
| Compiler, IDL, tooling (`compiler.py`, `host_idl.py`, `tooling.py`, `host_manifest.py`) | none | a source to the tables of a module; lint; the host manifest | the delivery builder, publish, migration |
| Delivery builder (`delivery_build.py`) | the output tree: client files per variant, a repository | build one variant, build all | compiler, lint, hosts' packaging, module service |
| Source migration (`migrate.py`) | the output directory: report, scaffold, reviews, capabilities, cases, verdict | scan, convert, verify | developers, who edit those files and the legacy sources; the compiler |
| Migration Studio, build scripts, generated ids | none of the running system | | |

What is hard in it:

* A **verified program** is only as safe as the verifier's search: joins, loops, operand
  types, stack bounds. A wrong verdict shows many instructions later.
* **Suspension.** An asynchronous effect parks its frame. Other handlers then run, rewrite
  the state the frame will read, switch the page and cancel tasks; completions come late,
  twice, or from inside the callback that began the task.
* **Reentrancy.** Every host callback runs in the middle of a handler with the runtime's
  members half updated, and may call the runtime again; it may also throw.
* **Latest-wins delivery.** Hosts keep only the newest UI batch while a batch may be a patch
  relative to the one before it.
* **Stores** await the network between reading their state and using it, may be refreshed
  twice at once, and may crash between renaming a file and recording it.
* **Release control** is a read, decide, replace cycle on one file without a lock, and its
  operations compose (publish after a stop, rollout after a publish).
* **One format, two languages.** The compiler (Python) and the loader (C++) each decide what a
  module may contain; what one lets through the other must accept, and mean the same by it.
* **The delivery builder** writes a tree of files over an older one and may be cut off between
  any two of them.
* **Migration gates** read files that people edit, one after the other, and a new conversion
  replaces six of them one by one.

What correctness means, component by component: the verifier accepts exactly the handlers
that have a typing; the runtime never meets an error that validation rules out, keeps its
stack, state and task budgets, never resumes a frame with another task's answer, and every
call ends; the host ends up showing the tree the runtime last rendered; late answers of a
closed session are dropped; a store never moves to an older release, always has the module
it names, and keeps the last known good one through failures and crashes; a stopped release
is served to no one; a source that compiles gives a module that loads and says the same; a
delivery tree never names what is not there; a migration is called verified only if every gate
holds of one and the same set of files.

## Modules

| Module | Models | Depends on |
|---|---|---|
| `PvmBytecode` | values, modules, decoding conditions, the effect of every opcode on the shape of the operand stack, and what a typing of a handler is | |
| `PvmVerifier` | `load_module`: decode, then the worklist search of `validate_handler`, one handler after the other | `PvmBytecode` |
| `PvmMachine` | `Runtime::Impl`: the operations of the C ABI, every opcode, host callbacks that answer, throw or enter the runtime again | `PvmVerifier` |
| `PvmInstall` | what a module store promises: an abstract specification of two variables | |
| `PvmModuleStore` | `refresh` of the four module stores, one file operation per step, with failures, restarts and damaged files | refines `PvmInstall` |
| `PvmRelease` | `publish.py`, `release.py` on the repository, one file operation per step; the choice `serve.py` makes | |
| `PvmDelivery` | installations that refresh from that repository while operators work | `PvmRelease` |
| `PvmCompiler` | `compiler.py`: policy, the three lowerings, the tables of a module; and what the loader makes of those tables | `PvmBytecode` |
| `PvmTooling` | the host interface, lint, the host manifest | `PvmCompiler` |
| `PvmDeliveryBuild` | `delivery_build.py` over an output tree, one file operation per step | |
| `PvmBuild` | the delivery builder with the verdicts of lint and manifest, and what the compiler promises of each source | `PvmDeliveryBuild`, `PvmTooling` |
| `PvmScan` | the scanner, the scaffold and the review items of `migrate.py` | `PvmTooling` |
| `PvmMigration` | `convert` and `verify` over one directory, step by step, while developers edit it: the protocol, for any sources, reports and modules | |
| `PvmConversion` | that protocol over the reports and modules which scanner, scaffold and compiler make of the sources, and what a scaffold promises | `PvmMigration`, `PvmScan` |
| `PvmUi` | snapshots, revisions and batches of the runtime, the hosts' queues, the four renderers | |
| `PvmState` | `snapshot_state`, `restore_state` and the byte budgets of a state table | `PvmBytecode` |
| `PvmSession` | the life of an application on a device: sessions, asynchronous capabilities and their generations, cancellation, close, the state file | `PvmState` |
| `MCPvmMachine`, `MCPvmModuleStore`, `MCPvmDelivery`, `MCPvmBuild`, `MCPvmMigration`, `MCPvmUi`, `MCPvmSession` | instances for TLC | |
| `PvmMachineProofs` (with the loader), `PvmModuleStoreProofs`, `PvmDeliveryProofs`, `PvmCompilerProofs` (lemmas on the compiler's operators), `PvmBuildProofs` (compiler and delivery builder), `PvmMigrationProofs`, `PvmUiProofs`, `PvmSessionProofs` (with the sizes of `PvmState`) | theorems and proofs | the modules they are about |

### How the state and the actions correspond to the code

`PvmBytecode` has no variables. A value is a type and a payload; a string is a member of the
set `Strings` with a size, an integer lies in `MinInteger .. MaxInteger` (the code's int64).
An instruction keeps the operands that decide control: a constant, one index or target, and
the number of arguments. `Decodes` is the conjunction of the checks `parse_payload` and
`read_instruction` make before validation (limits positive, indices in range, pages and
entries that exist). `StepFits`, `ShapeAfter` and `Successors` are the three parts of the
loop of `validate_handler`; `WellTyped` is the specification that loop is judged by, stated
without the algorithm.

`PvmVerifier` keeps the module, the `phase`, the handler it is `checking`, the `incoming`
shapes (`incoming` of the code, kept per handler so that the typing found is available
later) and the `worklist` (the deque `queue`; a set here, since the order of visits cannot
change the verdict). `Decode`, `Visit(pc)` and `FinishHandler` are its steps.

`PvmMachine` adds the members of `Runtime::Impl` (`started`, `state`, `page`, `shown`,
`tasks`, `nextTask`) and the C++ call stack, `calls`. One turn of the loop of `run` is a
step, and a turn that calls the host is two: the call and the return, between which the
host has control. A frame in a callback has `wait` set to the callback's name. What a call
throws is caught by `guard` in the C ABI and ends that call only: `Throw` drops the
innermost call and records the message in `fault`. Calls that fail before they change
anything (a second start, an event the page does not bind, an unknown task, an oversized
value) are not steps. `screen` and `disturbed` are history variables: the tree the host took last,
and whether the tree of the last render was refused, or rendered while another was being delivered.

A rendered tree is told apart by its page and by the state slots its properties read. Two
different slot values that happen to produce the same text would be two trees here and one
in the code; the model then delivers a tree the code would skip, and no property tells the
two apart. Node ids are unique over all pages (`read_node`), so trees of two pages always
differ in their root.

`PvmModuleStore` has one algorithm and four platforms; `platform` is a variable that never
changes. Android and desktop write the temporary module and state file in place (`Streams`:
the file names its writer until it is complete, and a restart leaves it damaged); iOS and
Harmony write them atomically, and other refreshes of the same store come in only at awaits
(`Actor`, `Awaits`). `moveItem` of iOS refuses to replace a file; Harmony neither looks for the
old module before it names it in the history nor deletes any. A refresh is at one of eleven
places (`at`), and remembers what the code keeps in local variables: the state it read first
(`previous`), the ETag it sent (`tag`), the manifest's build (`target`) and the state it writes
(`entry`). A build is the SHA-256 of a module, a manifest is known by the build it names and so
is its ETag. All checks of a manifest but the release floor (signature, binding, redirect, size)
are the choice between `ManifestArrives` and `ManifestFails`; the validation by the runtime is
membership in `Sound`. Which build the service offers changes at any time (`Offer`), back and
forth, as `PvmRelease` shows it may.

`PvmRelease` gives each operator's command the list of atomic writes it has still to do
(`pending`); `Open`, `Fill` and `Move` perform them one file operation at a time, for
`_write_json_atomic`, `_write` and the copy of the module alike. `Publish` queues the module
(unless it is there) and its access policy, `Replace` then reads the control file, decides and
queues the superseded envelope and the new control file; `SetRollout` and `Rollback` read and
decide at once. The legacy control format is the field `signed`. `stopped` is a history
variable: the releases whose control file was last written with percentage 0. In
`PvmDelivery` an installation receives a manifest (`Ask`) and fetches the module in a later
step (`Fetch`); its store is the abstract one, which the `store` run shows the four
implementations to implement.

`PvmCompiler` has no variables. A source is the JSON object a developer writes: a record of its
sections, with names in functions, since JSON objects have no repeated names and the compiler
sorts them. `Build(source, format)` is the module as the structure its bytes decode to, or
`<<>>` where `Compiler.build` raises. Versions of capabilities are written from format 3 on
(compiler.py:374), ids and types of states from format 4; where a module has no version, the loader
takes 1 (`VersionRead`). `Loads` at the end of the module is the loader's side,
`load_module`, written apart because it is apart in the code. Hashes of node ids are given
(`NodeHash`), so that two ids may collide and one may hash to 0.
A page is the sequence of its nodes, each with its level, in the order in which `_node`,
`_write_node` and `read_node` all visit the tree: a node, then its children (`IsPage` says which
sequences are trees). The search of `_check_handler` is `SearchStart` and turns of `Visit` as long
as the instruction at the head of the queue `Fits`; there are as many turns as instructions, since
no address is queued twice. `IsSource` says what a source is before any check of the compiler.

`PvmDeliveryBuild` keeps the output tree (`file`: each path with the build its content is from,
or `Damaged`) and the program counter of the builder: the variants left (`queue`), the source
this run has `read`, the variant in progress (`building`) and the files it has `todo`.
`_write_json` writes a draft and renames it, so it is one step; `copyfile` truncates its target
first, so it is two, `Open` and `WriteFile`. `Fail` is an error or a kill anywhere; a rebuild
starts over. `PvmBuild` fixes what the builder's verdicts are (`VerdictAssumption`, which TLC
evaluates): lint and host manifest of the text of the source under that variant.

`PvmScan` begins where `migrate.py` has matched its patterns: a file comes with the
declarations, states and hints found in it. `Scan` resolves the selection and its closure over
the names units mention; `Scaffold` is the first source; `ReviewItems` are the findings a person
must settle. Names are made different one after the other (`MadeUnique`), as the loops of `_dsl`
make them. In `PvmMigration` each file of a conversion is written in a step of its own
(`Place`), each gate of a verification is a step, and developers change sources and files in
between, also during a verification. `touched` and `torn` are history variables: something was
changed after the gate that reads it was taken, and the files are of two conversions. The steps of a
behaviour case share one state file (migrate.py:1131, 1149), so that what a step prints depends on the
taps of all steps of the case up to it. A report is known by what was scanned. What
there is to scan, the report of each scan and the verdicts on each module are constants of
`PvmMigration`; `PvmConversion` says what they are (`ConversionAssumption`, which TLC evaluates).

`PvmUi` begins where a handler ends in a render: `Render(p, s, large)` leaves the slots as `s` and
renders page `p`. It is the whole of `render`, `replace_tree` and the delivery callback up to
the first point where the code waits: snapshot, revisions, suppression, delta, and either the
renderer at once or the queue. Pages are static trees and node ids are unique, so children
change only with the page; the properties of a node are one value, that of one slot. `large` is
whether the batch exceeds the hosts' 32 KiB threshold, chosen freely. On Android the worker
(`Take`, `Post`, `Stop`) runs beside the main thread (`RunPosted`); on iOS and Harmony the drain
is one asynchronous loop (`Take`, `Deliver`), and on Harmony it takes its first batch at once. On
iOS closing tells the queue nothing. `view` is what the native views show, the revisions the
renderer has for them and, on Android, the tree it remembers. A batch the renderer refuses ends
the model (in the code Android throws, Harmony marks the runtime failed, iOS reports an error).

`PvmState` has no variables. A snapshot is what its bytes decode to: version, schema, ids, values.
`Restorable` is the conjunction of the checks of `restore_state`, `Restored` its result;
`WrittenSize`, `ReadSize` and `ValueSize` are the three ways the code counts the bytes of one value.

`PvmSession` leaves of a runtime its state table and the ids of its suspended tasks; `PvmMachine`
is about what happens inside a call. A handler may set one slot, begin one task, and fail in the
end. `Answer` is a capability calling its completion from another thread, `RunAnswer` the block
posted to the main thread; in between anything may happen. The closure of an answer holds its
host object and the generation of its beginning: here the number of the session and the
generation. The main thread is inside a call only while it writes the state file (`writing`), since
that takes time and may fail. `Start` runs any of the releases: between two sessions a module may be
installed or go back. A release whose runtime refuses the snapshot deletes the file, as the hosts do. Android and iOS do the same, and the instances have one of
them; on Harmony a failure is recorded, cancels every task and makes every later call but `close`
fail, and `close` persists. `saved` (what was persisted last, and by which release), `opened` (the
releases started since) and `refused` are history variables.

A definition marked `mutant` stands before the definition it is a broken form of. It is used
nowhere: putting it in the place of that definition must violate a property, which shows that
the property depends on the code.

## Runs

| Run | Instance | Shows |
|---|---|---|
| `machine` | every program of up to three instructions over a menu with each opcode and operands in and out of range, alone or next to a second handler, the shorter ones at two stack budgets; a module of four handlers and two pages; the host may throw from every callback, and enter the runtime again from a capability, the beginning of a task or the delivery of a tree, two calls deep; restored tables of fitting and unfitting types | the verdict is right in both directions: an accepted handler has a typing (`Soundness`), a rejected one has none at all (`Completeness`, by enumeration of every typing); every address is visited once and its shape never revised (`VisitedOnce`); loading ends (`Verdict`). What is accepted is type safe from the first instruction to the last, across suspension and resumption, and within its stack budget (`NoRuledOutFault`), with integers in range (`RunTypeOK`); every call ends (`CallsReturn`); frames stay typed, the task table keeps its budget, task ids are never used twice (`FramesTyped`, `TaskBudget`, `NoRevival`); between calls, events go to the page of the tree the host took last (`PageShown`) |
| `store` | four builds of releases 1 to 3, one of them refused by the runtime; all four platforms; one refresh at a time; a restart, possibly with a higher `minimumRelease`, and a damaged file | a refresh that fails or is cut off never costs the last known good module (`LkgKept`); the recorded release never goes back (`NoDowngrade`); only validated modules become current (`OnlyValidated`); files and history agree after a refresh that deletes (`Tidy`); every behaviour is one of `PvmInstall` (`InstallSpec`); a module that stays on offer is installed in the end, whatever happened to the files (`Recovers`) |
| `store_overlap` | iOS, two refreshes in progress | **finding**: `NoDowngrade` fails. The actor is reentrant at its awaits, and a refresh judges the manifest by the state it read before them |
| `delivery` | three builds, two of one release; one operator, one interruption; installations on both sides of a 10 percent rollout; empty and legacy repositories | whatever is served or held can be fetched (`NothingMissing`); the envelope of every installed module is kept (`EnvelopesKept`); a stopped release is offered to nobody while it is current (`StopHolds`); the published release never goes back (`PublishedForward`); widening a rollout takes the release from nobody (`NoOscillation`); what stays published to all reaches all (`Reaches`) |
| `delivery_relapse` | releases 1 to 3, no interruptions | **finding**: `StopStands` fails. Publishing a correction makes the stopped release the previous one; limiting or stopping the correction then sends the stopped release to everyone outside it |
| `build` | 1375 texts, each compiled to each format (handlers of up to three instructions, page trees, policies, a capability of version 2, ids whose hashes collide), and an application of three versions, one refused by the manifest, built for two profiles with one cut-off | whatever compiles loads, but for the limits only the loader knows (`CompiledLoads`), and says what the source says, as far as its format has room for it (`Faithful`); events without a value never reach a handler that reads one (`EventValueSupplied`); a manifest in the tree names a module that is there (`ManifestResolves`); the last file of a build tells that the others are of the same build (`LastFileTells`); building again brings all variants out (`DeliveredInTheEnd`) |
| `migration` | three classes, two of one name, in three versions; four selections; five states of the scaffold | people work between any two gates, and yet a verification says "verified" only if all of it is true, unless something changed after the gate that reads it (`VerifiedIsDeserved`); no approval outlives the sources it was given for (`ReviewsStand`); the scaffold loses and merges no state (`ScaffoldKeepsAll`) |
| `ui` | two pages with a text, a list, its item and a native surface, two slots; the four renderers; batches small and large; close at any time | once nothing is under way, the screen shows what the last handler left, unless a batch was overtaken (`ScreenFollows`); the newest batch is the last one delivered (`NewestCommitted`) |
| `ui_fallback` | Android, small batches only | **finding**: `FallbackIsFull` fails. A complete tree of the same page is compared with the last complete tree rather than with what patches made of it: a node that was patched and goes back to its old value keeps the patched one on the screen |
| `session` | two sessions of three releases: with one slot, with a second one, and of a format without ids; two tasks, whose capabilities answer up to twice, in time or late, and with an answer that fits or is too large; kills, failed writes and failed starts | an answer nobody waits for changes nothing, in its own session or a later one (`LateAnswersHarmless`); no task waits for ever but one whose answer was refused (`AnsweredEnds`); what was persisted is found again by its release, and by id by every compatible one, as long as only compatible releases were started since (`StateSurvives`) |
| `session_refused` | two releases whose states share no id | **finding**: `SnapshotRetained` fails. The host of a release that refuses the snapshot deletes it (PvmRuntimeSession.ets:208-214), where docs/SECURITY_MODEL.md:141 says to retain it: the release that wrote it then starts from nothing |
| `session_budget` | two releases, the second with one slot more | **finding**: `MatchingStateRestored` fails. A migrated table may exceed the new release's budget; it is persisted, and refused at the next start, which deletes the file |

**Bounds.** Three instructions are enough for a join, a loop, a suspension followed by a use
of its result, and any pair of producer and consumer; each opcode is in the menu with an
operand at, and one beyond, its limit. Stack budgets of 1 and 2 are each reached and
exceeded. `MaxNesting` is 2: a third level adds a frame below the top, and steps touch only
the top frame. `MaxTaskId` stops new events once that many effects were begun, with a task
budget of 1 or 2 that is reached. Integers range over -2 to 2, so that overflow is one addition
away; strings have sizes 0, 1 and 10: the last fits no state budget of the run, and one module has no
room for the second either. The programs have no fitting table to restore; the two-page module does.
`store` has one restart and one damaged file, each at any point, one after the other in
either order; releases 1 to 3 give a history of two and one to delete, and minimums 0 and 2 lie
below and above an installed release. `delivery` has one interruption, and a repetition of
the command after it; percentages 0, 10 and 100 with buckets 0 and 10 lie on the comparisons'
boundaries. `build` has one build cut off (`MaxFailures`), at any file, on a tree of any earlier
version. `migration` has three edits or changes of the sources (`MaxEdits`) and one command cut
off (`MaxCuts`): reviewing, deciding and writing cases takes three, and less leaves nothing to
verify. `ui` has four renders (`MaxRenders`): two under way at once, one that overtakes them, and
one that returns to the first page; two pages, two values, a node of each kind the code
distinguishes. `session` has two sessions, so that an answer may come in a later one with the same
task ids, and what the first persisted meets any release in the second and, since `StateSurvives`
asks what each release would find, any release after it; two tasks in each (`MaxTaskId`), so that one is begun after another was cancelled or
answered; one cancellation in each (`MaxGeneration`). `MaxPosted` is 1: an answer that is
not yet posted may come at any time, so that a longer queue adds no order of events.

**What the exemptions mean.** `VerifiedIsDeserved` and `ReviewsStand` speak of a verification
during which nothing was `touched`: changed after the gate that reads it first. Such a change comes too
late for that gate, and TLC finds verified migrations whose source changed after its gate, or whose
module, which `verify` reads twice (migrate.py:962, 1129), gained a capability nobody approved. What
changes before its gate is in the properties. `ReviewsStand` also leaves out `torn` directories:
convert; change the sources; review everything; `convert --force` is cut off after `report.json`; the
reviews of the old sources then verify the new report. The code does that. `PageShown` leaves out what is `disturbed`: `render` changes the page before it delivers
the tree and does not take that back when the host throws, so that the page is then ahead of the screen;
a host that has a tree rendered while it takes another may take them in either order. Both end with the next
render, if the host takes it. `Faithful` expects version 1 of every capability below format 3, and no
ids of states below format 4: there the modules do not hold them (docs/DSL_V1.md:288 says so of versions),
although lint and the host manifest judge the version the source declares. `ScreenFollows` leaves out behaviours in which a
batch was `lost`: one overtaken while it waited or was being decoded (a patch after it is
relative to a tree the renderer never had: the screen keeps an old value or, if the page
changed, refuses the patch; and a page that is left and entered again numbers its nodes from 1,
so that a renderer that missed the page in between may take new nodes for those it has), and,
on Android, the comparison `ui_fallback` shows. A complete tree of another page ends both.
`AnsweredEnds` leaves out tasks with a `refused` answer: `complete_effect` refuses one over
`max_state_bytes` before it takes the frame out of the table, and on Android and iOS, where the
error is only reported, the task keeps its place in the task budget until tasks are cancelled.
`StateSurvives` leaves out tables over the budget of a release that wrote or reads them, which
`session_budget` is about, and what was persisted before a release was started that is not compatible
with it, or has no room for it, which `session_refused` is about: that release deletes it. Two releases
are compatible if states of one id have one type, and some state is in both.

**Fairness.** `FairSpec` of `PvmMachine` asks that the loader and the interpreter keep going,
which wait for nothing, and that a host callback returns
(docs/PERFORMANCE.md: synchronous capabilities must be strictly bounded) - strongly at each
depth, since calls entered from a callback may come and go before it does. Nothing is asked
of users, of completions or of cancellation.
`FairSpec` of the store asks that a host refreshes again (docs/OPERATIONS.md: bounded retry), that
a refresh goes on where it waits for nothing, and that manifest and module, asked for again and
again, arrive in the end; nothing is asked of restarts, damage or the service's choices. That
of `PvmDelivery` asks the same of installations, and nothing of operators. The delivery builder
waits for nothing and is run again with `--all` (strongly: a developer may edit between). In
`PvmUi` the decode worker and the main thread are scheduled; nothing is asked of renders or of
`close`. `MaxRenders` ends the renders there: an application that goes on rendering large
batches for ever may keep its screen waiting for ever, since only the newest is delivered.
In `PvmSession` a capability answers in the end (its contract: `AsyncCapability`, `AsyncHandler`),
writing a file ends, and the main thread comes to what was posted to it, however often the
application persists in between (hence strongly).

Deadlock is checked in the store and delivery runs, which can always refresh or publish. It is
not checked in the others: a rejected module stops for good, a runtime or a screen no one calls
rests, and so do a builder whose source is final and a migration nobody works on; sessions are
bounded in number.

## Proofs

| Theorem | Establishes |
|---|---|
| `LoadTypeCorrect`, `LoaderSound` | `LoadSpec` implies `[]LoadTypeOK` and `[]Soundness` |
| `RunTypeCorrect` | `Spec` implies `[]RunTypeOK` |
| `FramesStayTyped` | `Spec` implies `[]FramesTyped` |
| `TypeSafety` | `Spec` implies `[]NoRuledOutFault` |
| `StackBounded`, `TasksBounded` | `Spec` implies `[]StackBudget` (checked as a part of `NoRuledOutFault`) and `[]TaskBudget` |
| `TasksNotRevived` | `Spec` implies `NoRevival` |
| `StoreTypeCorrect`, `OnlyValidatedBuilds` | the store's `Spec` implies `[]StoreTypeOK` and `[]OnlyValidated`, overlapping refreshes included |
| `NeverDowngraded`, `LastKnownGoodKept` | `~Overlap` and the store's `Spec` imply `NoDowngrade` and `LkgKept` |
| `StoreInstalls` | `~Overlap` and the store's `Spec` imply `InstallSpec`: the store implements `PvmInstall` |
| `StoreKeptTidy` | `~Overlap` and the store's `Spec` imply `Tidy` |
| `LoaderComplete`, `EachVisitedOnce` | `LoadSpec` implies `[]Completeness` and `VisitedOnce` |
| `PageIsShown` | `Spec` implies `[]PageShown`, whatever callbacks throw or enter the runtime again |
| `DeliveryTypeCorrect` | the delivery's `Spec` implies `[]DeliveryTypeOK`, overlapping commands included |
| `NothingIsMissing`, `EnvelopesAreKept`, `StopIsHeld` | `~Concurrent` and the delivery's `Spec` imply `[]NothingMissing`, `[]EnvelopesKept`, `[]StopHolds` |
| `ReleaseForward`, `OffersStand` | `~Concurrent` and the delivery's `Spec` imply `PublishedForward` and `NoOscillation` |
| `InstallationsKeepPromise` | the delivery's `Spec` implies `StoresPromise`, overlapping commands included: each installation implements `PvmInstall`, so that none ever moves to an older release |
| `BuildTypeCorrect`, `ManifestAlwaysResolves`, `LastFileTellsAll` | `BuildSpec` implies `[]BuildTypeOK`, `[]ManifestResolves`, `LastFileTells` |
| `BuilderImplemented` | the `Spec` of `PvmBuild` implies `BuildSpec`, and with it all that is proved of the builder |
| `CompilerMeetsLoader`, `CompilerIsFaithful`, `EventsSupplyValues` | the `Spec` of `PvmBuild` implies `[]CompiledLoads`, `[]Faithful` and `[]EventValueSupplied` |
| `MigrationTypeCorrect` | the migration's `Spec` implies `[]MigrationTypeOK` |
| `VerdictIsDeserved`, `DecisionsAreForTheseSources` | the migration's `Spec` implies `[]VerifiedIsDeserved` and `[]ReviewsStand` |
| `ScaffoldKeepsEveryState` | the migration's `Spec`, over the reports and modules of `PvmConversion`, implies `[]ScaffoldKeepsAll` |
| `ScreenAlwaysFollows` | the screen's `Spec` implies `[]ScreenFollows` |
| `LateAnswersDoNoHarm` | the session's `Spec` implies `LateAnswersHarmless` |
| `PersistedStateSurvives` | the session's `Spec` implies `[]StateSurvives` |
| `TablesStayTyped`, `TableChangesFit` | the session's `Spec` implies `[]TableTyped` (a table, restored or not, has the slots and types its bytecode was verified for: what `PvmMachine` takes for granted) and `ChangesFit` (handlers leave a table within its budget) |

They hold for every set of modules, any number of handlers, pages, instructions and nested
calls, every set of builds, releases, refreshers, operators and installations, all variants and
profiles, any pages that are trees, any number of sessions, tasks and answers, any sources, legacy
trees, selections and edits, and any values of the bounds; they assume only the named assumptions
of the modules. These say what the constants are: sets and sizes, an integer range that contains 0
(`IntegerAssumption`, `StringAssumption`, `ModulesAssumption`, `MachineAssumption`,
`StoreAssumption`, `ReleaseAssumption`, `BucketAssumption`, `BuildAssumption`, `SessionAssumption`,
`MigrationAssumption`, `NestingAssumption`); values that are not mistaken for one another (the two
`ContentAssumption`, `DamagedAssumption`, `NoneAssumption`); that pages are finite trees with unique
node ids, as `read_node` makes them (`UiAssumption`, `TreeAssumption`); that names are sorted without
repetition (`NameAssumption`) and sources are JSON objects of the types the compiler asks for
(`SourceAssumption`); that files, declarations and states are found in an order, and that convert
writes the scaffold it made (`TreesAssumption`); and that two numbers make two names of one
(`NumberAssumption`: `name`, `name_2`, `name_3`; the prover knows nothing of what strings are made
of). `VerdictAssumption` and `ConversionAssumption` join the modules of a composition. TLC
evaluates each of them on the instance of a run.

`BuildSpec` is about `PvmDeliveryBuild` alone, for any verdicts of lint and manifest; `PvmBuild`
takes the same steps with the verdicts that the compiler gives (`BuilderImplemented`), and
`PvmConversion` is `PvmMigration` with reports and modules of its own, so that what is proved of the
one holds of the other.

*Induction and recursion.* The library states induction for an operator, which the provers cannot
instantiate. `PvmCompilerProofs` therefore derives it for sets, from the well-foundedness of
finite sets (`FS_StrictSubsetOrderingWellFounded`): a set that holds 0 and the successor of each
number it holds contains all numbers. A function defined by recursion over numbers then exists,
as the union of its finite beginnings, and satisfies its equation; which is all that the
definitions of `Among`, `Explored`, `MadeUnique` and `Closed` need, and `FlattenSeq` of the community
modules.

*The loader.* `Soundness` is not inductive: it says nothing until the last handler was
accepted. `LoadInv` adds what the search knows on the way: an address recorded but not
waiting was visited, and a visited address fits its instruction and agrees with the shapes
of its successors (`Visited`); a handler whose turn has passed has no waiting address;
recorded shapes stay within the budget (`ShapesFit`); address 0 is recorded with the empty
shape (`EntryRecorded`); a handler whose turn has not come has only that (`NotBegun`). When
the worklist is empty, `Visited` is `WellTyped`. Completeness is the converse: whatever typing the
handler might have gives every recorded address the recorded shape (`Forced`), since a typing has
no choice at the entry and none at a successor. So an instruction that does not fit its recorded
shape, or a join of two shapes, refutes every typing at once.

*The runtime.* `RunInv` carries `LoadInv`, and says of every frame, running, in a callback or
suspended, that its stack has the shape the typing gives to the address it goes on from,
with the string of its result where one is owed; and that the state table keeps the types of
the module's. Suspension is then harmless: whatever ran in between left module, typing and
slot types alone. Each opcode has a step of its own, which follows from `TypedAt` at the
frame's address. Type safety and the stack budget are consequences of `RunInv`; the task
budget needs only that the guard of `AsyncEffect` is evaluated in the step that adds a task. `PageShown`
is about the two halves of a render: unless `disturbed`, at most one call is delivering a tree; while
one does, the tree is of the current page, and when none does, the tree the host took last is (`PageInv`).
A delivery that throws, or in which another tree is rendered, sets `disturbed`; a render outside of any
delivery clears it. A tree is suppressed only if
the host has taken it (`screen = shown`), so that no suppressed render is ahead of the screen.

*The store.* `StoreInv` holds however refreshes overlap: types, and that a refresh past the
validator, the state file and its draft name only builds the validator accepts; that is
`OnlyValidated`. The rest needs `SerialInv`, which holds if refreshes do not overlap: the state
a refresh read at its beginning is still the recorded one until it switches, its target is at
or above the floor of that state, and the file it validated is still whole and
is the one its draft names. `SafeStep`, a consequence of the two for every step, is the
conjunction of the action properties and a step of `PvmInstall`; a step that leaves the state
file alone has only to keep the current file whole (`SameState`), and the switch is the only
other one (`Activation`). What `store_overlap` shows is `SerialInv` failing in its first part.

`Tidy` needs one more fact: when a refresh decides on its history, the module it names first was
just installed and the other one was looked for (not on Harmony, which deletes nothing), and
neither is deleted before the refresh ends (`HistoryHeld`).

*The delivery.* Types hold however commands overlap. All else needs that they do not (`Alone`): the
temporary file is then in the hands of the one command there is, and no file but a temporary one
is ever cut off (`NothingCut`). `ControlSound` says that a readable control file can be acted upon:
its modules are there, the previous release has its envelope in the history, an incomplete rollout
has a previous release, a stopped one is at zero. `Controls` says the same of the control file a
command is about to put in place, together with the order of its writes: the superseded envelope
goes into the history first. A command that was cut off leaves only writes that are a beginning of
such a list. `Advance`, a consequence for every step, is what the action properties and the
installations need: no file is lost, and the control file keeps its two releases or puts a newer
one before the current one. `delivery_relapse` shows what this does not promise.

The installations need nothing of the operators (`InstallationsKeepPromise`): a manifest is judged by
the module the installation has, and until it is fetched or given up there is no other one
(`ManifestsNewer`). What is current may go back and forth meanwhile.

*The compiler.* Two facts about tables carry the rest: the position of a name in its sorted table
leads back to the name, and the position of a string in the pool leads back to the string, because
the pool was gathered from the very places that look it up (`PoolHolds`). So every instruction,
template, node and initial value comes back as it was (`InstructionComesBack`, `NodeComesBack`,
`StateComesBack`), and so does every capability with its version where the format has versions
(`CapabilitiesWritten`, `VersionsWritten`); this is `Faithful`. That a handler which reads the value of its event is bound
to events that have one holds of names, and is carried over to indices by the same facts. For
`CompiledLoads` each check of the loader follows from one of the compiler's, or from how the tables are
made (`HeaderIsRead`, `TablesAreRead`, `ModuleDecodes`), except those that `KeepsLoaderLimits` lists. The hard
one is the stack: the search of `_check_handler` ends with an empty queue only if every address it
recorded was visited and fits, and agrees with what follows it; then what it recorded is a typing as
`PvmBytecode` defines it, although that module was written from the loader (`ModuleIsTyped`). With
`LoaderComplete`, by which the loader's search rejects no handler that has a typing, the two
searches agree.

*The delivery builder.* The files of a build have an order: the module, what names it, the bootstrap
or the manifest at the end (`Order`). `Progress` says that of the build under way the first
files are written and of that build, and the others are what is left to do; failures and rebuilds
leave only files of earlier builds, each whole unless it is copied (`FilesSound`). A manifest came
after the access document and the module it names, and neither path is of any other build
(`ManifestSound`).

*The migration.* `GatesSeen`: what a gate that passed has seen is still so, unless it was changed after that gate; what
is changed before its gate, no gate has seen (`UnreadFile`), and a verification itself writes none of the
files it reads. The verdict follows
when all gates have passed (`VerdictSeen`). For the reviews, `PlacedFirst` says how far a conversion
has come: the files it has placed are there, and the directory counts as torn from its first file
until its last. Between whole conversions an approval is pending or was given by someone who had
the report that is there (`ApprovalsOfReport`), because a conversion replaces the approvals
together with the report.

*The scaffold.* `MadeUnique` gives a name that is not taken: of more numbered names than there are
names in use, one is free (a pigeonhole argument, `FreshIsNew`), and so names of pages and states
differ (`UniqueNamesMade`). The places of states are flattened one to one (`FlattenInjective`), hence
every place has a name of its own, the table has its value under that name, and the page of the
unit refers to it (`PageShowsState`). That reports are of this form is shown for whatever the
scanner finds, dependencies included (`ClosedIsFound`, `ScanIsReport`), and that what is
left of a conversion always ends with its scaffold (`LastOfConversion`).

*The screen.* From one snapshot of a page to the next, revisions only grow, and a node that kept its
revision kept all that is shown below it (`Advance`). A batch under way carries the last snapshot
(`Carries`), and a patch leaves out only what did not change since a snapshot that the views show
(`Catches`). So, as long as no batch was lost, the views show the last snapshot or will once they
get what is under way (`Follows`), whatever the queue does; views never have a revision ahead of
the snapshot they show, so that a renderer skips only what is as it should be. What is below a node is a
recursive function; its defining equation, and that pages are finite, is all the proof uses of it.

*The session.* On Android and iOS an answer is dropped unless its session and generation are the
current ones, and the runtime drops it unless its task waits; on Harmony a refused answer makes
the session fail, so that there the proof needs that an answer which is still heard has a task
that waits for it: there is one call to a task, and it answers once (`CallsInv`). Persisted
state survives because the file is the snapshot of the table last persisted as long as every release
started since could restore it (`StateInv`), as compatible ones can (`CompatibleRestores`), and it is one
which `restore_state` maps back to that table; the sizes of tables, sums
over their slots, are compared by exchanging one slot at a time, since a sum is the only function
that satisfies its own equation.

*Only model-checked:* the liveness properties, which the prover does not handle: `Verdict`,
`CallsReturn`, `Recovers`, `Reaches`, `DeliveredInTheEnd`, `NewestCommitted`, `AnsweredEnds`. Every
invariant and every action property of the passing runs is the subject of a theorem. For those which
assume that refreshes or commands do not overlap, so do the runs; `store_overlap` shows why.

## Plan

1. `PvmBytecode`, `PvmVerifier`, `PvmMachine`: modelled, checked and proved.
2. `PvmModuleStore`, `PvmInstall`, `PvmRelease`, `PvmDelivery`: modelled, checked and proved for
   refreshes and commands that do not overlap. When they do, types hold, only validated modules become
   current and no installation goes back. To add: what a repository still keeps when commands overlap.
3. `PvmUi`: modelled, checked and proved; that a complete tree of another page ends a divergence is part
   of `ScreenFollows`, since it resets `lost`. To add: pages of wire version 1.
4. `PvmCompiler`, `PvmTooling`, `PvmDeliveryBuild`, `PvmBuild`, `PvmScan`, `PvmMigration`,
   `PvmConversion`: modelled, checked and proved. To prove: that lint and host manifest agree with
   what hosts provide.
5. `PvmState`, `PvmSession`: modelled, checked and proved.

## Not modelled

Signatures, encryption and file formats (they decide whether there is a module, and are one
condition here); JSON text; layout and styling; wire version 1 of the UI batches, appear events,
focus and the text a user types; the key-value and network capabilities of the
hosts (a capability answers some string or fails); the console runner, a sequential loop over
the same runtime; Migration Studio, which is widgets around the commands of `migrate.py`; the
recognition of Kotlin and Java text and the Markdown report of the migration; compatibility,
conformance, key and security checks, which compare two inputs and keep nothing; a full disk,
and files lost with the power rather than the process; activation tokens
and the audit log of the service; build and policy scripts; generated identifiers; the shared Kotlin and Compose
adapters, which forward calls. Data races inside one runtime are outside the model: the C ABI is
called on one serialized host thread (`runtime_c.h`:84), and the hosts check that it is.

Known of the code and covered by no property: a release whose entry handler fails on a restored
table fails at every start, since the file is deleted only if the restore itself is refused
(MainActivity.kt:100-110, PvmRuntimeSession.ets:207-220);
an error outside the gates, or a `convert --force`,
leaves an old `verification.json` in place (migrate.py:1190, 1309); a `convert` that is killed
leaves a draft under a temporary name, for which even `--force` is refused until it is removed;
two interface entries whose ids differ only in punctuation get one symbol (host_idl.py:70); the
ids that the refusal of an ambiguous class offers (migrate.py:450) hold a colon, and a selector
with a colon is read as a path and a bare name (line 404), so that none of them selects anything.
