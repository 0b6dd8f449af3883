---------------------------- MODULE PvmMigration ----------------------------
(***************************************************************************)
(* The commands of server/src/pvm_server/migrate.py over one output        *)
(* directory: convert writes a scaffold and the documents a person works   *)
(* through, verify checks them against the legacy sources, gate by gate,   *)
(* and writes a verdict that a build pipeline reads.                       *)
(*                                                                         *)
(* A file is drafted under a temporary name and renamed.  A command may be *)
(* killed or fail at any step.  The legacy sources change at any time; the *)
(* files are edited whenever no conversion runs, also between two gates of *)
(* a verification.  One command runs at a time.                            *)
(***************************************************************************)
EXTENDS Sequences, Naturals, SequencesExt

CONSTANTS
  Versions,       \* of the legacy sources, numbered from 1
  Revisions,      \* pairs of versions: what one change makes of the sources
  Selections,     \* what convert may be asked for, a sequence
  Scans,          \* per version and number of a selection, the report, if any
  Reports,        \* per report, what convert makes of it
  Changes,        \* what a developer may make of a scaffold; "scaffold" leaves it
  Modules,        \* per report and change, the module source and what is said of it
  Printed(_, _),  \* what the console runner prints of a module after some taps, if any
  CaseFiles,      \* the behavior cases a developer may write
  MaxEdits,       \* bound: changes by the developer
  MaxCuts         \* bound: commands that are cut off

\* Two scans of one result are one report.  It has a selection, review items,
\* suggested capabilities and a scaffold, if that compiles.  A module source is known
\* by its report and the change that was made to its scaffold.
ASSUME MigrationAssumption ==
  /\ 1 \in Versions /\ Revisions \subseteq Versions \X Versions
  /\ DOMAIN Scans = Versions \X (DOMAIN Selections)
  /\ Range(Scans) \ {<<>>} \subseteq DOMAIN Reports
  /\ \A k \in DOMAIN Scans : Scans[k] # <<>> => Reports[Scans[k]].selection = k[2]
  /\ "scaffold" \in Changes
  /\ DOMAIN Modules = {r \in DOMAIN Reports : Reports[r].scaffold # <<>>} \X Changes
  /\ MaxEdits \in Nat /\ MaxCuts \in Nat

VARIABLES
  legacy,    \* the version of the legacy sources
  out,       \* the files of the output directory
  litter,    \* the output directory holds a draft nobody will rename
  run,       \* the command in progress
  torn,      \* the files are of two conversions: one was cut off
  edits, cuts

vars == <<legacy, out, litter, run, torn, edits, cuts>>

Nothing == [does |-> "nothing"]

\* The table with one more entry, or another one.
With(table, key, value) ==
  [k \in DOMAIN table \cup {key} |-> IF k = key THEN value ELSE table[k]]

\* An item under review.  "seen" is the report the reviewer had; the file has no
\* such field.
Undecided == [status |-> "pending", note |-> FALSE, seen |-> <<>>]

\* A capability is approved with the names of tests, or excluded with a reason;
\* without these, and while it is pending, it is not settled.
Decisions == {"unsettled", "approved", "excluded"}

Init ==
  /\ legacy = 1
  /\ out = [x \in {} |-> x]
  /\ litter = FALSE /\ run = Nothing /\ torn = FALSE
  /\ edits = 0 /\ cuts = 0

(***************************************************************************)
(* convert                                                                 *)
(***************************************************************************)
ConversionKeepsReviews(r) ==                 \* mutant: approvals survive a new conversion
  <<<<"report", r>>, <<"markdown", r>>,
    <<"capabilities", [c \in Reports[r].suggested |-> "unsettled"]>>,
    <<"approvals", IF "approvals" \in DOMAIN out THEN out["approvals"]
                   ELSE [i \in Reports[r].items |-> Undecided]>>,
    <<"cases", <<>>>>,
    <<"module", <<r, "scaffold">>>>>>

\* The files of a conversion, in the order they are written.
Conversion(r) ==
  <<<<"report", r>>, <<"markdown", r>>,
    <<"capabilities", [c \in Reports[r].suggested |-> "unsettled"]>>,
    <<"approvals", [i \in Reports[r].items |-> Undecided]>>,
    <<"cases", <<>>>>,
    <<"module", <<r, "scaffold">>>>>>

\* Refused for a file it does not know, its own drafts included, and, without
\* --force, for any file; nothing is written then, nor when the scan fails or the
\* scaffold does not compile.
Convert(s, force) ==
  /\ run = Nothing
  /\ Selections[s].classes # <<>> \/ Selections[s].modules # <<>>
  /\ ~litter /\ (DOMAIN out # {} => force)
  /\ LET r == Scans[<<legacy, s>>]
     IN  /\ r # <<>>
         /\ Reports[r].scaffold # <<>>
         /\ run' = [does |-> "convert", todo |-> Conversion(r)]
  /\ UNCHANGED <<legacy, out, litter, torn, edits, cuts>>

Put(name, content) == out' = With(out, name, content)

\* The next file is written under a temporary name, and renamed.
Place ==
  /\ run.does = "convert"
  /\ Put(run.todo[1][1], run.todo[1][2])
  /\ run' = IF Len(run.todo) = 1 THEN Nothing
            ELSE [run EXCEPT !.todo = Tail(run.todo)]
  /\ torn' = (Len(run.todo) > 1)
  /\ UNCHANGED <<legacy, litter, edits, cuts>>

\* An error removes the file that is being written; a kill leaves it.
CutOff ==
  /\ run # Nothing /\ cuts < MaxCuts
  /\ cuts' = cuts + 1
  /\ run' = Nothing
  /\ litter' \in {litter, run.does \in {"convert", "conclude"}}
  /\ UNCHANGED <<legacy, out, torn, edits>>

(***************************************************************************)
(* verify                                                                  *)
(***************************************************************************)
Present(name) == name \in DOMAIN out

Gates == <<"source", "dsl", "reviews", "capabilities", "behavior">>

\* Without a report there is no verification, and the last verdict stays.
Verify(strict) ==
  /\ run = Nothing /\ Present("report")
  /\ run' = [does |-> "verify", strict |-> strict, recorded |-> out["report"],
             gates |-> [x \in {} |-> x], dsl |-> <<>>, touched |-> FALSE]
  /\ UNCHANGED <<legacy, out, litter, torn, edits, cuts>>

\* The selection of the report is scanned again; the report is compared as a whole.
SourceCurrent(r) == Scans[<<legacy, Reports[r].selection>>] = r

ModuleSound ==
  LET file == Modules[out["module"]] IN file.text = "canonical" /\ file.linted

ReviewedUnexplained(r, items) ==        \* mutant: a note is not asked for
  /\ DOMAIN items = Reports[r].items
  /\ \A i \in DOMAIN items : items[i].status \in {"accepted", "resolved"}

Reviewed(r, items) ==
  /\ DOMAIN items = Reports[r].items
  /\ \A i \in DOMAIN items : items[i].status \in {"accepted", "resolved"} /\ items[i].note

Decided(r, m, decisions) ==
  /\ DOMAIN decisions = Reports[r].suggested \cup Modules[m].capabilities
  /\ \A c \in DOMAIN decisions : decisions[c] \in {"approved", "excluded"}
  /\ Modules[m].capabilities = {c \in DOMAIN decisions : decisions[c] = "approved"}

CasesHold(cases) ==
  /\ cases # <<>>
  /\ IsInjective([k \in DOMAIN cases |-> cases[k].name])
  /\ \A case \in ToSet(cases) :
       /\ case.evidence /\ case.steps # <<>>
       /\ \A step \in ToSet(case.steps) : step.expected # {}

\* Every step prints what is expected of it and nothing that is forbidden.  The steps
\* of a case have a state file in common: each sees what the taps before it did.
CasesPass(m, cases) ==
  \A case \in ToSet(cases) : \A k \in DOMAIN case.steps :
    LET step    == case.steps[k]
        printed == Printed(m, [j \in 1 .. k |-> case.steps[j].tap])
    IN  /\ printed # <<>>
        /\ step.expected \subseteq printed[1]
        /\ step.forbidden \cap printed[1] = {}

\* The module is read again, to be compiled and run under the binding that the
\* gate before has read.
Behaves(before, now, cases) ==
  /\ CasesHold(cases)
  /\ Modules[now].built
  /\ Modules[now].binding = Modules[before].binding
  /\ Modules[before].release <= Modules[now].release
  /\ CasesPass(now, cases)

WithGate(gate, word) == [run EXCEPT !.gates = With(run.gates, gate, word)]

Verdict(gate, holds) == run' = WithGate(gate, IF holds THEN "pass" ELSE "fail")

\* The gates are taken in their order.
AtGate(gate) ==
  /\ run.does = "verify"
  /\ \E k \in DOMAIN Gates : Gates[k] = gate /\ DOMAIN run.gates = {Gates[j] : j \in 1 .. k - 1}
  /\ UNCHANGED <<legacy, out, litter, torn, edits, cuts>>

Skip(gate) == run' = WithGate(gate, "skipped")

CheckSource == AtGate("source") /\ Verdict("source", SourceCurrent(run.recorded))

Foreign == Present("module") /\ Modules[out["module"]].text = "foreign"

CheckDsl ==
  /\ AtGate("dsl") /\ ~Foreign
  /\ LET sound == Present("module") /\ ModuleSound
     IN  run' = [WithGate("dsl", IF sound THEN "pass" ELSE "fail") EXCEPT
                   !.dsl = IF sound THEN <<out["module"]>> ELSE <<>>]

CheckReviews ==
  /\ AtGate("reviews")
  /\ IF ~run.strict THEN Skip("reviews")
     ELSE Verdict("reviews", /\ run.gates["source"] = "pass"
                             /\ Present("approvals")
                             /\ Reviewed(run.recorded, out["approvals"]))

\* The last two gates need what the first two found.
Grounded == run.gates["source"] = "pass" /\ run.dsl # <<>>

CheckCapabilities ==
  /\ AtGate("capabilities")
  /\ IF ~run.strict THEN Skip("capabilities")
     ELSE Verdict("capabilities",
                  /\ Grounded /\ Present("capabilities")
                  /\ Decided(run.recorded, run.dsl[1], out["capabilities"]))

RunsCases == run.strict /\ Grounded /\ Present("cases") /\ CasesHold(out["cases"])

CheckBehavior ==
  /\ AtGate("behavior") /\ ~(RunsCases /\ Foreign)
  /\ IF ~run.strict THEN Skip("behavior")
     ELSE Verdict("behavior", /\ RunsCases /\ Present("module")
                              /\ Behaves(run.dsl[1], out["module"], out["cases"]))

\* The compiler raises what no gate catches: the command ends, without a verdict.
Collapse ==
  /\ \/ AtGate("dsl") /\ Foreign
     \/ AtGate("behavior") /\ RunsCases /\ Foreign
  /\ run' = Nothing

Result ==
  IF "fail" \in Range(run.gates) THEN "failed"
  ELSE IF run.strict THEN "verified" ELSE "structurally_valid"

Decide ==
  /\ run.does = "verify" /\ DOMAIN run.gates = ToSet(Gates)
  /\ run' = [does |-> "conclude", touched |-> run.touched, result |-> Result]
  /\ UNCHANGED <<legacy, out, litter, torn, edits, cuts>>

Conclude ==
  /\ run.does = "conclude"
  /\ Put("verification", run.result)
  /\ run' = Nothing
  /\ UNCHANGED <<legacy, litter, torn, edits, cuts>>

(***************************************************************************)
(* The people                                                              *)
(***************************************************************************)
\* The first gate that reads a file.
ReadBy == [module |-> "dsl", approvals |-> "reviews", capabilities |-> "capabilities",
           cases |-> "behavior"]

\* Something a gate reads is changed: behind the back of a verification that has
\* taken this gate, and in time for one that has not.
Change(gate) ==
  /\ edits < MaxEdits /\ edits' = edits + 1
  /\ run' = IF run.does = "conclude" \/ (run.does = "verify" /\ gate \in DOMAIN run.gates)
            THEN [run EXCEPT !.touched = TRUE] ELSE run
  /\ UNCHANGED <<litter, torn, cuts>>

ChangeSource ==
  /\ Change("source")
  /\ \E t \in Versions : <<legacy, t>> \in Revisions /\ legacy' = t
  /\ UNCHANGED out

ChangeFile(name, contents) ==
  /\ Present(name) /\ run.does # "convert" /\ Change(ReadBy[name])
  /\ \E content \in contents : content # out[name] /\ Put(name, content)
  /\ UNCHANGED legacy

EditModule == Present("module") /\ ChangeFile("module", {<<out["module"][1], c>> : c \in Changes})

\* An item someone has settled, with a reason or without.
Settled(note) == [status |-> "accepted", note |-> note, seen |-> <<out["report"]>>]

\* Every item is accepted, or one of them, whichever, is left undecided, accepted
\* without a reason, or missing.
Reviews(items) ==
  LET odd == {CHOOSE j \in DOMAIN items : TRUE : k \in DOMAIN items}
  IN  {[i \in DOMAIN items |-> IF i \in odd THEN r ELSE Settled(TRUE)] :
         r \in {Settled(TRUE), Settled(FALSE), Undecided}}
        \cup {[i \in DOMAIN items \ odd |-> Settled(TRUE)]}

ReviewAll == Present("approvals") /\ ChangeFile("approvals", Reviews(out["approvals"]))

\* One decision for all, on the capabilities of the scan or on those now declared too.
DecideCapabilities ==
  /\ Present("capabilities") /\ Present("module")
  /\ \E added \in {{}, Modules[out["module"]].capabilities} :
       ChangeFile("capabilities",
         {[c \in DOMAIN out["capabilities"] \cup added |-> d] : d \in Decisions})

WriteCases == ChangeFile("cases", CaseFiles)

RemoveLitter ==
  /\ litter /\ run = Nothing /\ litter' = FALSE
  /\ UNCHANGED <<legacy, out, run, torn, edits, cuts>>

Next ==
  \/ \E s \in DOMAIN Selections, force \in BOOLEAN : Convert(s, force)
  \/ Place \/ CutOff
  \/ \E strict \in BOOLEAN : Verify(strict)
  \/ CheckSource \/ CheckDsl \/ CheckReviews \/ CheckCapabilities \/ CheckBehavior
  \/ Collapse \/ Decide \/ Conclude
  \/ ChangeSource \/ EditModule \/ ReviewAll \/ DecideCapabilities \/ WriteCases
  \/ RemoveLitter

Spec == Init /\ [][Next]_vars

-----------------------------------------------------------------------------
Texts == {"canonical", "loose", "garbled", "foreign"}

\* What the files of each kind may hold.
FileOK(name, content) ==
  \/ name \in {"report", "markdown"} /\ content \in DOMAIN Reports
  \/ name = "capabilities" /\ Range(content) \subseteq Decisions
  \/ /\ name = "approvals"
     /\ \A i \in DOMAIN content :
          /\ content[i].status \in {"pending", "accepted"} /\ content[i].note \in BOOLEAN
          /\ content[i].seen = <<>> \/ \E r \in DOMAIN Reports : content[i].seen = <<r>>
  \/ name = "cases" /\ content \in CaseFiles \cup {<<>>}
  \/ name = "module" /\ content \in DOMAIN Modules
  \/ name = "verification" /\ content \in {"failed", "verified", "structurally_valid"}

FilesOK ==
  \A name \in DOMAIN out : FileOK(name, out[name]) /\ Present("report")

\* The command in progress: a conversion has some of its files left to write, a
\* verification has taken the first few gates.
Converting ==
  /\ run.does = "convert" /\ run = [does |-> "convert", todo |-> run.todo]
  /\ \E r \in DOMAIN Reports, k \in 1 .. 6 :
       Reports[r].scaffold # <<>> /\ run.todo = SubSeq(Conversion(r), k, 6)

Verifying ==
  /\ run.does = "verify"
  /\ run = [does |-> "verify", strict |-> run.strict, recorded |-> run.recorded,
            gates |-> run.gates, dsl |-> run.dsl, touched |-> run.touched]
  /\ run.strict \in BOOLEAN /\ run.touched \in BOOLEAN
  /\ run.recorded \in DOMAIN Reports /\ Present("report")
  /\ \E k \in 0 .. 5 : run.gates \in [{Gates[j] : j \in 1 .. k} -> {"pass", "fail", "skipped"}]
  /\ run.dsl = <<>> \/ \E m \in DOMAIN Modules : run.dsl = <<m>>

Concluding ==
  /\ run.does = "conclude" /\ Present("report")
  /\ run \in [does : {"conclude"}, touched : BOOLEAN,
              result : {"failed", "verified", "structurally_valid"}]

MigrationTypeOK ==
  /\ legacy \in Versions /\ litter \in BOOLEAN /\ torn \in BOOLEAN
  /\ FilesOK
  /\ run = Nothing \/ Converting \/ Verifying \/ Concluding
  /\ edits \in 0 .. MaxEdits /\ cuts \in 0 .. MaxCuts

\* What "verified" tells whoever reads it: the sources are those of the report, every
\* finding was settled with a reason, the module calls what was approved with a test
\* and nothing else, and it does what the cases say the old code did.
Deserved ==
  LET report == Reports[out["report"]]
      module == Modules[out["module"]]
      items  == out["approvals"]
  IN  /\ Scans[<<legacy, report.selection>>] = out["report"]
      /\ \A i \in report.items :
           i \in DOMAIN items /\ items[i].status # "pending" /\ items[i].note
      /\ \A c \in module.capabilities : out["capabilities"][c] = "approved"
      /\ \A c \in report.suggested \ module.capabilities : out["capabilities"][c] = "excluded"
      /\ module.linted
      /\ out["cases"] # <<>> /\ CasesPass(out["module"], out["cases"])

\* A verification says "verified" only if it is deserved, although its gates read the
\* files one after the other, and the module twice, while people go on working: on the
\* sources before they are scanned, on a file before its gate.  Nobody is told of what
\* changes after the gate that read it; the verdict is about what was read then.
VerifiedIsDeserved ==
  run.does = "conclude" /\ run.result = "verified" /\ ~run.touched => Deserved

\* Nobody's decision is carried over to sources it was not made for: unless a
\* conversion was cut off and not repeated, or a file changed behind the verification's
\* back, each item of a verified migration was settled by someone who had the report of
\* the very sources that were verified.
ReviewsStand ==
  run.does = "conclude" /\ run.result = "verified" /\ ~run.touched /\ ~torn =>
    \A i \in DOMAIN out["approvals"] : out["approvals"][i].seen = <<out["report"]>>
=============================================================================
