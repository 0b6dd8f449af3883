-------------------------- MODULE PvmDeliveryBuild --------------------------
(***************************************************************************)
(* The delivery builder of server/src/pvm_server/delivery_build.py.  For a *)
(* variant (a platform and a profile) it compiles the source and writes a  *)
(* client tree and, for the remote profiles, a repository to serve; --all  *)
(* does so for every variant in turn.                                      *)
(*                                                                         *)
(* Files are written one by one.  _write_json writes a draft and renames   *)
(* it, so its step is one; copyfile truncates its target and fills it, so  *)
(* it is two.  The builder may be killed between any two steps, and any    *)
(* write or signature may fail.  The developer edits the source between    *)
(* builds and builds again.                                                *)
(*                                                                         *)
(* A build is a source and a variant; it stands for the SHA-256 of its     *)
(* module, which is the same each time (Ed25519 is deterministic).         *)
(***************************************************************************)
EXTENDS Sequences, Naturals

CONSTANTS
  Sources,       \* versions of the source
  Revisions,     \* the edits a developer makes: pairs of versions
  Matrix,        \* per source, the variants of --all, in its order
  OwnVariant,    \* the variant a source names itself
  Buildable,     \* builds whose source passes lint and compiles
  Manifestable,  \* builds for which the host manifest can be generated
  MaxFailures,   \* bound: builds that are cut off, by an error or a kill
  Nothing,       \* no build
  Damaged        \* the content of a file that is not complete

Bundled == {"offline_sealed", "store_on_demand"}
Remote  == {"online_provisioned", "enterprise_managed"}

Variants == {OwnVariant[s] : s \in Sources} \cup UNION {{Matrix[s][k] : k \in DOMAIN Matrix[s]} : s \in Sources}
Builds   == Sources \X Variants

VariantOf(b) == b[2]
Profile(b)   == b[2].profile

\* The files of the output tree, by the part of it they are in.
ClientFile(kind, v) == [in |-> "client", kind |-> kind, of |-> v]
ServerFile(kind, x) == [in |-> "server", kind |-> kind, of |-> x]

Paths ==
  [in : {"client"}, kind : {"module", "key", "host", "bootstrap"}, of : Variants]
    \cup [in : {"server"}, kind : {"manifest", "policy"}, of : Variants]
    \cup [in : {"server"}, kind : {"module", "access"}, of : Builds]

ASSUME BuildAssumption ==
  /\ Matrix \in [Sources -> Seq(Variants)]
  /\ OwnVariant \in [Sources -> Variants]
  /\ Revisions \subseteq Sources \X Sources
  /\ Buildable \subseteq Builds /\ Manifestable \subseteq Builds
  /\ MaxFailures \in Nat
  /\ Nothing \notin Builds /\ Damaged \notin Builds

VARIABLES
  source,    \* the source as it is on disk
  file,      \* the files of the output tree, with the build each is from
  queue,     \* variants this run of the builder has still to begin
  read,      \* the source this run has read, while it is running
  building,  \* the build in progress, or Nothing
  todo,      \* the files it has still to write
  open,      \* its next file is a copy that has begun
  failures

vars == <<source, file, queue, read, building, todo, open, failures>>

Idle == queue = <<>> /\ building = Nothing

BuildInit ==
  /\ source \in Sources
  /\ file = [p \in {} |-> Nothing]
  /\ queue = <<>> /\ read = source
  /\ building = Nothing /\ todo = <<>> /\ open = FALSE
  /\ failures = 0

Edit ==
  /\ Idle
  /\ \E s \in Sources : <<source, s>> \in Revisions /\ source' = s
  /\ UNCHANGED <<file, queue, read, building, todo, open, failures>>

\* main: the source is read once, and is the source of all variants.
Start(variants) ==
  /\ Idle
  /\ queue' = variants
  /\ read' = source
  /\ UNCHANGED <<source, file, building, todo, open, failures>>

\* The module goes to the client, or to the repository with the document that
\* lets an activated client have it.
ModuleWrites(b) ==
  IF Profile(b) \in Bundled
  THEN <<ClientFile("module", VariantOf(b))>>
  ELSE <<ServerFile("module", b), ServerFile("access", b)>>

ClientWrites(v) ==
  <<ClientFile("key", v), ClientFile("host", v), ClientFile("bootstrap", v)>>

ServerWrites(v) ==
  (IF v.profile \in Remote THEN <<ServerFile("manifest", v)>> ELSE <<>>)
    \o (IF v.profile = "enterprise_managed" THEN <<ServerFile("policy", v)>> ELSE <<>>)

WritesManifestFirst(b) ==                  \* mutant: the manifest before what it names
  ServerWrites(VariantOf(b)) \o ModuleWrites(b) \o ClientWrites(VariantOf(b))

WritesModuleLast(b) ==                     \* mutant: the module after the bootstrap
  ClientWrites(VariantOf(b)) \o ModuleWrites(b) \o ServerWrites(VariantOf(b))

Writes(b) == ModuleWrites(b) \o ClientWrites(VariantOf(b)) \o ServerWrites(VariantOf(b))

ExitMidway ==                              \* mutant: the writes are not given up
  /\ queue' = <<>> /\ building' = Nothing /\ open' = FALSE
  /\ UNCHANGED <<source, read, todo>>

\* The builder exits; what it wrote stays.
Exit ==
  /\ queue' = <<>> /\ building' = Nothing /\ todo' = <<>> /\ open' = FALSE
  /\ UNCHANGED <<source, read>>

\* The head of build: lint and compile, before anything is written.
Begin ==
  /\ building = Nothing /\ queue # <<>>
  /\ LET b == <<read, Head(queue)>>
     IN  IF b \in Buildable
         THEN /\ building' = b
              /\ todo' = Writes(b)
              /\ queue' = Tail(queue)
              /\ UNCHANGED <<source, read, open>>
         ELSE Exit
  /\ UNCHANGED <<file, failures>>

Put(p, content) ==
  file' = [q \in DOMAIN file \cup {p} |-> IF q = p THEN content ELSE file[q]]

Copied(p) == p.kind \in {"module", "key"}

Open ==
  /\ todo # <<>> /\ Copied(Head(todo)) /\ ~open
  /\ Put(Head(todo), Damaged)
  /\ open' = TRUE
  /\ UNCHANGED <<source, queue, read, building, todo, failures>>

\* The host manifest may turn out to be impossible, with the module in place.
Refused == Head(todo).kind = "host" /\ building \notin Manifestable

WriteFile ==
  /\ todo # <<>> /\ (Copied(Head(todo)) => open) /\ ~Refused
  /\ Put(Head(todo), building)
  /\ todo' = Tail(todo)
  /\ open' = FALSE
  /\ UNCHANGED <<source, queue, read, building, failures>>

Refuse ==
  /\ todo # <<>> /\ Refused
  /\ Exit
  /\ UNCHANGED <<file, failures>>

CompleteFirst ==                           \* mutant: the first variant ends the run
  /\ building # Nothing /\ todo = <<>>
  /\ building' = Nothing /\ queue' = <<>>
  /\ UNCHANGED <<source, file, read, todo, open, failures>>

Complete ==
  /\ building # Nothing /\ todo = <<>>
  /\ building' = Nothing
  /\ UNCHANGED <<source, file, queue, read, todo, open, failures>>

\* A kill, a full disk, a signer that does not answer.
Fail ==
  /\ building # Nothing /\ failures < MaxFailures
  /\ failures' = failures + 1
  /\ Exit
  /\ UNCHANGED file

Work == Begin \/ Open \/ WriteFile \/ Refuse \/ Complete

BuildNext == Edit \/ Start(<<OwnVariant[source]>>) \/ Start(Matrix[source]) \/ Work \/ Fail

BuildSpec == BuildInit /\ [][BuildNext]_vars

\* The builder waits for nothing, and is run again with --all.
FairBuildSpec == BuildSpec /\ WF_vars(Work) /\ SF_vars(Start(Matrix[source]))

-----------------------------------------------------------------------------
\* Every variable has its type, and a file is of a build it can be of.
BuildTypeOK ==
  /\ source \in Sources /\ read \in Sources
  /\ DOMAIN file \subseteq Paths
  /\ \A p \in DOMAIN file : file[p] \in Builds \cup {Damaged}
  /\ queue \in Seq(Variants)
  /\ building \in Builds \cup {Nothing}
  /\ todo \in Seq(Paths)
  /\ building = Nothing => todo = <<>>
  /\ open => todo # <<>> /\ Copied(Head(todo))
  /\ failures \in 0 .. MaxFailures

\* The manifest of a repository names a module that a client may have, at every
\* step of a build and after one that was cut off; unless that same module is being
\* copied over itself again, or was when the builder was cut off.
Holds(p, b) == p \in DOMAIN file /\ file[p] = b

ManifestResolves ==
  \A p \in DOMAIN file : p.kind = "manifest" =>
    LET b == file[p]
    IN  /\ b \in Builds /\ VariantOf(b) = p.of
        /\ Holds(ServerFile("access", b), b)
        /\ \/ Holds(ServerFile("module", b), b)
           \/ Holds(ServerFile("module", b), Damaged) /\ (building = b \/ 0 < failures)

\* All files of a build are there, and none is from another.
Shipped(b) ==
  /\ \A kind \in {"key", "host", "bootstrap"} : Holds(ClientFile(kind, VariantOf(b)), b)
  /\ IF Profile(b) \in Bundled
     THEN Holds(ClientFile("module", VariantOf(b)), b)
     ELSE /\ Holds(ServerFile("module", b), b) /\ Holds(ServerFile("access", b), b)
          /\ Holds(ServerFile("manifest", VariantOf(b)), b)

\* The last file of a build tells that all of it is there: when the bootstrap of a
\* bundled profile, or the manifest of a remote one, comes to be of a build, the
\* other files are of the same build.  A build that is refused or cut off after its
\* module was copied leaves the old bootstrap beside the new module, but never a
\* new one.
LastFile(v) ==
  IF v.profile \in Bundled THEN ClientFile("bootstrap", v) ELSE ServerFile("manifest", v)

LastFileTells ==
  [][\A b \in Builds :
       ~Holds(LastFile(VariantOf(b)), b) /\ Holds(LastFile(VariantOf(b)), b)'
         => Shipped(b)']_vars

\* If the source is left alone and every variant of the matrix can be built, then
\* building again brings all of them out, whatever was cut off before.
BuiltInTheEnd ==
  \A s \in {s \in Sources : Matrix[s] # <<>>} :
    LET wanted == {<<s, Matrix[s][k]>> : k \in DOMAIN Matrix[s]}
    IN  wanted \subseteq Buildable \cap Manifestable
          => (<>[](source = s) => <>(\A b \in wanted : Shipped(b)))
=============================================================================
