------------------------- MODULE PvmMigrationProofs -------------------------
(***************************************************************************)
(* What PvmMigration promises, proved for any sources, selections, modules *)
(* and cases, and any number of edits and of commands that are cut off;    *)
(* and what PvmConversion promises of a scaffold, for any legacy sources   *)
(* and selections.                                                         *)
(***************************************************************************)
EXTENDS PvmConversion, PvmCompilerProofs

-----------------------------------------------------------------------------
(***************************************************************************)
(* The invariant                                                           *)
(***************************************************************************)
\* What a gate that passed has seen is still so, unless it was changed since.
SourceSeen == run.gates["source"] = "pass" => SourceCurrent(out["report"])

DslSeen ==
  run.dsl # <<>> =>
    /\ "dsl" \in DOMAIN run.gates
    /\ Present("module") /\ run.dsl = <<out["module"]>> /\ ModuleSound

ReviewsSeen ==
  run.gates["reviews"] = "pass" => Present("approvals") /\ Reviewed(out["report"], out["approvals"])

CapabilitiesSeen ==
  run.gates["capabilities"] = "pass" =>
    /\ run.dsl # <<>> /\ Present("capabilities")
    /\ Decided(out["report"], out["module"], out["capabilities"])

BehaviorSeen ==
  run.gates["behavior"] = "pass" =>
    /\ run.dsl # <<>> /\ Present("cases")
    /\ CasesHold(out["cases"]) /\ CasesPass(out["module"], out["cases"])

\* A verification behind whose back nothing changed knows what it read as it is.
GatesSeen ==
  run.does = "verify" /\ ~run.touched =>
    /\ run.recorded = out["report"]
    /\ "source" \in DOMAIN run.gates => SourceSeen
    /\ DslSeen
    /\ "dsl" \in DOMAIN run.gates /\ run.gates["dsl"] = "pass" => run.dsl # <<>>
    /\ run.strict =>
         /\ \A gate \in DOMAIN run.gates : run.gates[gate] # "skipped"
         /\ "reviews" \in DOMAIN run.gates => ReviewsSeen
         /\ "capabilities" \in DOMAIN run.gates => CapabilitiesSeen
         /\ "behavior" \in DOMAIN run.gates => BehaviorSeen

\* All that the gates of a strict verification ask for.
AllSeen ==
  /\ SourceCurrent(out["report"])
  /\ Present("module") /\ ModuleSound
  /\ Present("approvals") /\ Reviewed(out["report"], out["approvals"])
  /\ Present("capabilities") /\ Decided(out["report"], out["module"], out["capabilities"])
  /\ Present("cases") /\ CasesHold(out["cases"]) /\ CasesPass(out["module"], out["cases"])

VerdictSeen ==
  run.does = "conclude" /\ run.result = "verified" /\ ~run.touched => AllSeen

\* The files a conversion has placed are there as it placed them.
PlacedFirst ==
  run.does = "convert" =>
    \E r \in DOMAIN Reports, k \in 1 .. 6 :
      /\ Reports[r].scaffold # <<>>
      /\ run.todo = SubSeq(Conversion(r), k, 6)
      /\ \A j \in 1 .. k - 1 :
           Present(Conversion(r)[j][1]) /\ out[Conversion(r)[j][1]] = Conversion(r)[j][2]
      /\ 1 < k => torn

\* Between conversions that were finished, who settled an item had the report.
ApprovalsOfReport ==
  ~torn /\ Present("approvals") =>
    \A i \in DOMAIN out["approvals"] :
      out["approvals"][i].status = "pending" \/ out["approvals"][i].seen = <<out["report"]>>

MigrationInv ==
  MigrationTypeOK /\ GatesSeen /\ VerdictSeen /\ PlacedFirst /\ ApprovalsOfReport

-----------------------------------------------------------------------------
(***************************************************************************)
(* Files, gates and conversions                                            *)
(***************************************************************************)
\* A file that is written is there; the others are as they were.
LEMMA PutFile ==
  ASSUME NEW name, NEW content, Put(name, content)
  PROVE  /\ DOMAIN out' = DOMAIN out \cup {name}
         /\ out'[name] = content
         /\ \A n \in DOMAIN out : n # name => out'[n] = out[n]
  BY DEF Put, With

\* Files stay well formed when one is written that is.
LEMMA PutKeepsFiles ==
  ASSUME FilesOK, NEW name, NEW content, Put(name, content),
         FileOK(name, content), name = "report" \/ Present("report")
  PROVE  FilesOK' /\ Present("report")'
  <1>2. Present("report")'
    BY PutFile DEF Present
  <1>3. ASSUME NEW n \in DOMAIN out'
        PROVE  FileOK(n, out'[n])
    BY PutFile, n = name \/ (n \in DOMAIN out /\ n # name) DEF FilesOK
  <1> QED
    BY <1>2, <1>3 DEF FilesOK, FileOK

\* The gates before each gate.
LEMMA GatesInOrder ==
  /\ {Gates[j] : j \in 1 .. 0} = {}
  /\ {Gates[j] : j \in 1 .. 1} = {"source"}
  /\ {Gates[j] : j \in 1 .. 2} = {"source", "dsl"}
  /\ {Gates[j] : j \in 1 .. 3} = {"source", "dsl", "reviews"}
  /\ {Gates[j] : j \in 1 .. 4} = {"source", "dsl", "reviews", "capabilities"}
  /\ {Gates[j] : j \in 1 .. 5} = {"source", "dsl", "reviews", "capabilities", "behavior"}
  <1>1. 1 .. 0 = {} /\ 1 .. 1 = {1} /\ 1 .. 2 = {1, 2} /\ 1 .. 3 = {1, 2, 3}
        /\ 1 .. 4 = {1, 2, 3, 4} /\ 1 .. 5 = {1, 2, 3, 4, 5}
    OBVIOUS
  <1>2. /\ Gates[1] = "source" /\ Gates[2] = "dsl" /\ Gates[3] = "reviews"
        /\ Gates[4] = "capabilities" /\ Gates[5] = "behavior"
    BY DEF Gates
  <1> QED
    BY <1>1, <1>2

\* A gate is taken when those before it were, and only they.
LEMMA GateTaken ==
  ASSUME NEW gate, AtGate(gate)
  PROVE  /\ \E k \in 0 .. 4 : /\ gate = Gates[k + 1]
                              /\ DOMAIN run.gates = {Gates[j] : j \in 1 .. k}
                              /\ {Gates[j] : j \in 1 .. k + 1} = DOMAIN run.gates \cup {gate}
         /\ gate \notin DOMAIN run.gates
         /\ gate = "source" => DOMAIN run.gates = {}
         /\ gate = "dsl" => DOMAIN run.gates = {"source"}
         /\ gate = "reviews" => DOMAIN run.gates = {"source", "dsl"}
         /\ gate = "capabilities" => DOMAIN run.gates = {"source", "dsl", "reviews"}
         /\ gate = "behavior" => DOMAIN run.gates = {"source", "dsl", "reviews", "capabilities"}
  <1>1. PICK k \in 1 .. 5 : Gates[k] = gate /\ DOMAIN run.gates = {Gates[j] : j \in 1 .. k - 1}
    BY DEF AtGate, Gates
  <1>2. k - 1 \in 0 .. 4 /\ (k - 1) + 1 = k /\ k \in {1, 2, 3, 4, 5}
    BY <1>1
  <1>3. {Gates[j] : j \in 1 .. k} = {Gates[j] : j \in 1 .. k - 1} \cup {Gates[k]}
    BY <1>2
  <1>4. \E i \in 0 .. 4 : /\ gate = Gates[i + 1]
                          /\ DOMAIN run.gates = {Gates[j] : j \in 1 .. i}
                          /\ {Gates[j] : j \in 1 .. i + 1} = DOMAIN run.gates \cup {gate}
    <2> WITNESS k - 1 \in 0 .. 4
    <2> QED  BY <1>1, <1>2, <1>3
  <1>5. /\ Gates[1] = "source" /\ Gates[2] = "dsl" /\ Gates[3] = "reviews"
        /\ Gates[4] = "capabilities" /\ Gates[5] = "behavior"
    BY DEF Gates
  <1>6. CASE k = 1
    <2>1. gate = "source" /\ DOMAIN run.gates = {}
      BY <1>1, <1>5, <1>6, GatesInOrder
    <2> QED  BY <1>4, <2>1
  <1>7. CASE k = 2
    <2>1. gate = "dsl" /\ DOMAIN run.gates = {"source"}
      BY <1>1, <1>5, <1>7, GatesInOrder
    <2> QED  BY <1>4, <2>1
  <1>8. CASE k = 3
    <2>1. gate = "reviews" /\ DOMAIN run.gates = {"source", "dsl"}
      BY <1>1, <1>5, <1>8, GatesInOrder
    <2> QED  BY <1>4, <2>1
  <1>9. CASE k = 4
    <2>1. gate = "capabilities" /\ DOMAIN run.gates = {"source", "dsl", "reviews"}
      BY <1>1, <1>5, <1>9, GatesInOrder
    <2> QED  BY <1>4, <2>1
  <1>10. CASE k = 5
    <2>1. gate = "behavior" /\ DOMAIN run.gates = {"source", "dsl", "reviews", "capabilities"}
      BY <1>1, <1>5, <1>10, GatesInOrder
    <2> QED  BY <1>4, <2>1
  <1> QED
    BY <1>2, <1>6, <1>7, <1>8, <1>9, <1>10

\* The verdicts on the first few gates.
FirstGates(gates) ==
  \E k \in 0 .. 5 : gates \in [{Gates[j] : j \in 1 .. k} -> {"pass", "fail", "skipped"}]

\* The gates after one more verdict.
LEMMA OneMoreVerdict ==
  ASSUME Verifying, NEW gate, AtGate(gate), NEW word \in {"pass", "fail", "skipped"}
  PROVE  LET gates == With(run.gates, gate, word)
         IN  /\ FirstGates(gates)
             /\ DOMAIN gates = DOMAIN run.gates \cup {gate}
             /\ gates[gate] = word
             /\ \A g \in DOMAIN run.gates : gates[g] = run.gates[g]
  <1>0. PICK gates : gates = With(run.gates, gate, word)
    OBVIOUS
  <1>1. PICK k \in 0 .. 4 : {Gates[j] : j \in 1 .. k + 1} = DOMAIN run.gates \cup {gate}
    BY GateTaken
  <1>2. gate \notin DOMAIN run.gates
    BY GateTaken
  <1>3. run.gates \in [DOMAIN run.gates -> {"pass", "fail", "skipped"}]
    BY DEF Verifying
  <1>4. /\ DOMAIN gates = DOMAIN run.gates \cup {gate}
        /\ gates[gate] = word
        /\ \A g \in DOMAIN run.gates : gates[g] = run.gates[g]
        /\ gates = [g \in DOMAIN gates |-> gates[g]]
    BY <1>0, <1>2 DEF With
  <1>5. gates \in [DOMAIN run.gates \cup {gate} -> {"pass", "fail", "skipped"}]
    BY <1>3, <1>4
  <1>6. k + 1 \in 0 .. 5
    OBVIOUS
  <1>7. FirstGates(gates)
    BY <1>1, <1>5, <1>6 DEF FirstGates
  <1> QED
    BY <1>0, <1>4, <1>7

\* The files of a conversion are well formed.
LEMMA ConversionFiles ==
  ASSUME MigrationAssumption, NEW r \in DOMAIN Reports, Reports[r].scaffold # <<>>
  PROVE  /\ Conversion(r) = <<<<"report", r>>, <<"markdown", r>>,
              <<"capabilities", [c \in Reports[r].suggested |-> "unsettled"]>>,
              <<"approvals", [i \in Reports[r].items |-> Undecided]>>,
              <<"cases", <<>>>>, <<"module", <<r, "scaffold">>>>>>
         /\ \A k \in 1 .. 6 : FileOK(Conversion(r)[k][1], Conversion(r)[k][2])
  <1>1. FileOK("report", r) /\ FileOK("markdown", r)
    BY DEF FileOK
  <1>2. FileOK("capabilities", [c \in Reports[r].suggested |-> "unsettled"])
    BY DEF FileOK, Decisions, Range
  <1>3. FileOK("approvals", [i \in Reports[r].items |-> Undecided])
    BY DEF FileOK, Undecided
  <1>4. FileOK("cases", <<>>)
    BY DEF FileOK
  <1>5. FileOK("module", <<r, "scaffold">>)
    BY DEF FileOK, MigrationAssumption
  <1>6. Conversion(r) = <<<<"report", r>>, <<"markdown", r>>,
          <<"capabilities", [c \in Reports[r].suggested |-> "unsettled"]>>,
          <<"approvals", [i \in Reports[r].items |-> Undecided]>>,
          <<"cases", <<>>>>, <<"module", <<r, "scaffold">>>>>>
    BY DEF Conversion
  <1>7. ASSUME NEW k \in 1 .. 6
        PROVE  FileOK(Conversion(r)[k][1], Conversion(r)[k][2])
    <2>1. k \in {1, 2, 3, 4, 5, 6}
      OBVIOUS
    <2>2. \/ k = 1 /\ Conversion(r)[k] = <<"report", r>>
          \/ k = 2 /\ Conversion(r)[k] = <<"markdown", r>>
          \/ k = 3 /\ Conversion(r)[k] = <<"capabilities", [c \in Reports[r].suggested |-> "unsettled"]>>
          \/ k = 4 /\ Conversion(r)[k] = <<"approvals", [i \in Reports[r].items |-> Undecided]>>
          \/ k = 5 /\ Conversion(r)[k] = <<"cases", <<>>>>
          \/ k = 6 /\ Conversion(r)[k] = <<"module", <<r, "scaffold">>>>
      BY <1>6, <2>1
    <2> QED
      BY <2>2, <1>1, <1>2, <1>3, <1>4, <1>5
  <1> QED
    BY <1>6, <1>7

-----------------------------------------------------------------------------
(***************************************************************************)
(* The steps                                                               *)
(***************************************************************************)
LEMMA InitKeeps ==
  ASSUME MigrationAssumption, Init
  PROVE  MigrationInv
  <1>1. MigrationTypeOK
    <2>1. 0 \in 0 .. MaxEdits /\ 0 \in 0 .. MaxCuts
      BY DEF MigrationAssumption
    <2>2. DOMAIN out = {}
      BY DEF Init
    <2> QED
      BY <2>1, <2>2 DEF Init, MigrationTypeOK, MigrationAssumption, FilesOK
  <1>2. run.does = "nothing"
    BY DEF Init, Nothing
  <1> QED
    BY <1>1, <1>2 DEF Init, MigrationInv, GatesSeen, VerdictSeen, PlacedFirst, ApprovalsOfReport,
      Present

\* The kind of the command tells its shape.
LEMMA CommandShape ==
  ASSUME MigrationTypeOK
  PROVE  /\ run.does = "verify" => Verifying
         /\ run.does = "conclude" => Concluding
         /\ run.does = "convert" => Converting
         /\ run.does \in {"nothing", "convert", "verify", "conclude"}
  <1>1. run = Nothing => run.does = "nothing"
    BY DEF Nothing
  <1>2. Verifying => run.does = "verify"
    BY DEF Verifying
  <1>3. Concluding => run.does = "conclude"
    BY DEF Concluding
  <1>4. Converting => run.does = "convert"
    BY DEF Converting
  <1>5. run = Nothing \/ Converting \/ Verifying \/ Concluding
    BY DEF MigrationTypeOK
  <1> QED
    BY <1>1, <1>2, <1>3, <1>4, <1>5

\* What is on disk is as it was.
LEMMA FilesStay ==
  ASSUME MigrationInv, UNCHANGED <<legacy, out, torn>>
  PROVE  FilesOK' /\ ApprovalsOfReport' /\ (Present("report")' <=> Present("report"))
  BY DEF MigrationInv, MigrationTypeOK, FilesOK, FileOK, ApprovalsOfReport, Present

\* A command ends and leaves the files as they were.
LEMMA EndKeeps ==
  ASSUME MigrationAssumption, MigrationInv, CutOff \/ Collapse
  PROVE  MigrationInv'
  <1>1. /\ run' = Nothing /\ UNCHANGED <<legacy, out, torn>>
        /\ litter' \in BOOLEAN /\ edits' = edits /\ cuts' \in 0 .. MaxCuts
    <2>1. litter \in BOOLEAN /\ cuts \in 0 .. MaxCuts /\ MaxCuts \in Nat
      BY DEF MigrationInv, MigrationTypeOK, MigrationAssumption
    <2>2. CASE CutOff
      <3>1. litter' \in BOOLEAN
        <4>1. litter' = litter \/ litter' = (run.does \in {"convert", "conclude"})
          BY <2>2 DEF CutOff
        <4>2. (run.does \in {"convert", "conclude"}) \in BOOLEAN
          OBVIOUS
        <4> QED  BY <2>1, <4>1, <4>2, Zenon
      <3> QED  BY <2>1, <2>2, <3>1 DEF CutOff
    <2>3. CASE Collapse
      BY <2>1, <2>3 DEF Collapse, AtGate
    <2> QED
      BY <2>2, <2>3
  <1>2. run'.does = "nothing"
    BY <1>1 DEF Nothing
  <1>3. MigrationTypeOK'
    BY <1>1, FilesStay DEF MigrationInv, MigrationTypeOK, Nothing
  <1> QED
    BY <1>1, <1>2, <1>3, FilesStay DEF MigrationInv, GatesSeen, VerdictSeen, PlacedFirst

LEMMA ConvertKeeps ==
  ASSUME MigrationAssumption, MigrationInv, NEW s \in DOMAIN Selections, NEW force, Convert(s, force)
  PROVE  MigrationInv'
  <1>0. PICK r : r = Scans[<<legacy, s>>]
    OBVIOUS
  <1>1. /\ UNCHANGED <<legacy, out, torn, litter, edits, cuts>>
        /\ r # <<>> /\ Reports[r].scaffold # <<>>
        /\ run' = [does |-> "convert", todo |-> Conversion(r)]
    BY <1>0 DEF Convert
  <1>2. r \in DOMAIN Reports
    <2>1. <<legacy, s>> \in DOMAIN Scans
      BY DEF MigrationAssumption, MigrationInv, MigrationTypeOK
    <2> QED
      BY <1>0, <1>1, <2>1 DEF MigrationAssumption, Range
  <1>3. Conversion(r) = SubSeq(Conversion(r), 1, 6)
    BY <1>1, <1>2, ConversionFiles
  <1>4. /\ run'.does = "convert" /\ run' = [does |-> "convert", todo |-> run'.todo]
        /\ run'.todo = SubSeq(Conversion(r), 1, 6)
    BY <1>1, <1>3
  <1>5. Converting'
    BY <1>1, <1>2, <1>4, 1 \in 1 .. 6 DEF Converting
  <1>6. PlacedFirst'
    <2>1. /\ Reports[r].scaffold # <<>> /\ run'.todo = SubSeq(Conversion(r), 1, 6)
          /\ \A j \in 1 .. 1 - 1 : Present(Conversion(r)[j][1])' /\ out'[Conversion(r)[j][1]] = Conversion(r)[j][2]
          /\ ~(1 < 1)
      BY <1>1, <1>4
    <2> QED
      BY <1>2, <2>1, 1 \in 1 .. 6 DEF PlacedFirst
  <1> QED
    BY <1>1, <1>4, <1>5, <1>6, FilesStay DEF MigrationInv, MigrationTypeOK, GatesSeen, VerdictSeen

LEMMA VerifyKeeps ==
  ASSUME MigrationAssumption, MigrationInv, NEW strict \in BOOLEAN, Verify(strict)
  PROVE  MigrationInv'
  <1>1. /\ UNCHANGED <<legacy, out, torn, litter, edits, cuts>> /\ Present("report")
        /\ run' = [does |-> "verify", strict |-> strict, recorded |-> out["report"],
                   gates |-> [x \in {} |-> x], dsl |-> <<>>, touched |-> FALSE]
    BY DEF Verify
  <1>2. out["report"] \in DOMAIN Reports
    BY <1>1 DEF MigrationInv, MigrationTypeOK, FilesOK, FileOK, Present
  <1>3. run'.gates \in [{Gates[j] : j \in 1 .. 0} -> {"pass", "fail", "skipped"}]
    BY <1>1, GatesInOrder
  <1>4. Verifying'
    BY <1>1, <1>2, <1>3, FilesStay, 0 \in 0 .. 5 DEF Verifying
  <1>5. run'.does = "verify" /\ DOMAIN run'.gates = {} /\ run'.dsl = <<>>
    BY <1>1
  <1>6. GatesSeen'
    BY <1>1, <1>5 DEF GatesSeen, DslSeen
  <1> QED
    BY <1>1, <1>4, <1>5, <1>6, FilesStay
    DEF MigrationInv, MigrationTypeOK, VerdictSeen, PlacedFirst

LEMMA RemoveLitterKeeps ==
  ASSUME MigrationAssumption, MigrationInv, RemoveLitter
  PROVE  MigrationInv'
  <1>1. /\ UNCHANGED <<legacy, out, torn, edits, cuts, run>> /\ run = Nothing
        /\ litter' \in BOOLEAN
    BY DEF RemoveLitter
  <1>2. run'.does = "nothing"
    BY <1>1 DEF Nothing
  <1> QED
    BY <1>1, <1>2, FilesStay
    DEF MigrationInv, MigrationTypeOK, GatesSeen, VerdictSeen, PlacedFirst

\* A verdict, and the module that the gate for it has read.
GateTold(gate, word, dsl) == run' = [WithGate(gate, word) EXCEPT !.dsl = dsl]

\* One more gate: the type, and all that is not about the gates.
LEMMA GateKeeps ==
  ASSUME MigrationAssumption, MigrationInv,
         NEW gate, AtGate(gate), NEW word \in {"pass", "fail", "skipped"},
         NEW dsl, dsl = <<>> \/ \E m \in DOMAIN Modules : dsl = <<m>>,
         GateTold(gate, word, dsl)
  PROVE  /\ MigrationTypeOK' /\ VerdictSeen' /\ PlacedFirst' /\ ApprovalsOfReport'
         /\ run'.does = "verify" /\ run'.strict = run.strict /\ run'.touched = run.touched
         /\ run'.recorded = run.recorded /\ run'.dsl = dsl
         /\ DOMAIN run'.gates = DOMAIN run.gates \cup {gate}
         /\ run'.gates[gate] = word
         /\ \A g \in DOMAIN run.gates : run'.gates[g] = run.gates[g]
         /\ UNCHANGED <<legacy, out>>
  <1>1. run.does = "verify" /\ UNCHANGED <<legacy, out, litter, torn, edits, cuts>>
    BY DEF AtGate
  <1>2. Verifying
    BY <1>1, CommandShape DEF MigrationInv
  <1>3. run' = [does |-> "verify", strict |-> run.strict, recorded |-> run.recorded,
                gates |-> With(run.gates, gate, word), dsl |-> dsl, touched |-> run.touched]
    <2>1. WithGate(gate, word) =
            [does |-> "verify", strict |-> run.strict, recorded |-> run.recorded,
             gates |-> With(run.gates, gate, word), dsl |-> run.dsl, touched |-> run.touched]
      BY <1>2 DEF Verifying, WithGate
    <2> QED
      BY <2>1 DEF GateTold
  <1>4. /\ run'.does = "verify" /\ run'.strict = run.strict /\ run'.touched = run.touched
        /\ run'.recorded = run.recorded /\ run'.dsl = dsl
        /\ run'.gates = With(run.gates, gate, word)
    BY <1>3
  <1>5. /\ FirstGates(run'.gates)
        /\ DOMAIN run'.gates = DOMAIN run.gates \cup {gate}
        /\ run'.gates[gate] = word
        /\ \A g \in DOMAIN run.gates : run'.gates[g] = run.gates[g]
    <2>1. PICK gates : gates = With(run.gates, gate, word)
      OBVIOUS
    <2>2. /\ FirstGates(gates)
          /\ DOMAIN gates = DOMAIN run.gates \cup {gate}
          /\ gates[gate] = word
          /\ \A g \in DOMAIN run.gates : gates[g] = run.gates[g]
      <3>1. FirstGates(With(run.gates, gate, word))
        BY <1>2, OneMoreVerdict
      <3>2. DOMAIN With(run.gates, gate, word) = DOMAIN run.gates \cup {gate}
        BY <1>2, OneMoreVerdict
      <3>3. With(run.gates, gate, word)[gate] = word
        BY <1>2, OneMoreVerdict
      <3>4. \A g \in DOMAIN run.gates : With(run.gates, gate, word)[g] = run.gates[g]
        BY <1>2, OneMoreVerdict
      <3> QED
        BY <2>1, <3>1, <3>2, <3>3, <3>4
    <2>3. run'.gates = gates
      BY <1>4, <2>1
    <2> QED
      BY <2>2, <2>3
  <1>6. Verifying'
    BY <1>1, <1>2, <1>3, <1>4, <1>5, FilesStay DEF Verifying, FirstGates
  <1>7. MigrationTypeOK'
    BY <1>1, <1>6, FilesStay DEF MigrationInv, MigrationTypeOK
  <1>8. VerdictSeen' /\ PlacedFirst'
    BY <1>4 DEF VerdictSeen, PlacedFirst
  <1> QED
    BY <1>1, <1>4, <1>5, <1>7, <1>8, FilesStay

\* A verdict leaves what the gate for the module has read.
LEMMA VerdictKeeps ==
  ASSUME MigrationAssumption, MigrationInv, NEW gate, AtGate(gate), NEW word \in {"pass", "fail", "skipped"},
         run' = WithGate(gate, word)
  PROVE  /\ MigrationTypeOK' /\ VerdictSeen' /\ PlacedFirst' /\ ApprovalsOfReport'
         /\ run'.does = "verify" /\ run'.strict = run.strict /\ run'.touched = run.touched
         /\ run'.recorded = run.recorded /\ run'.dsl = run.dsl
         /\ DOMAIN run'.gates = DOMAIN run.gates \cup {gate}
         /\ run'.gates[gate] = word
         /\ \A g \in DOMAIN run.gates : run'.gates[g] = run.gates[g]
         /\ UNCHANGED <<legacy, out>>
  <1>1. Verifying
    BY CommandShape DEF MigrationInv, AtGate
  <1>0. PICK dsl : dsl = run.dsl
    OBVIOUS
  <1>2. GateTold(gate, word, dsl)
    <2>1. WithGate(gate, word) =
            [does |-> "verify", strict |-> run.strict, recorded |-> run.recorded,
             gates |-> With(run.gates, gate, word), dsl |-> run.dsl, touched |-> run.touched]
      BY <1>1 DEF Verifying, WithGate
    <2> QED
      BY <1>0, <2>1 DEF GateTold
  <1>3. dsl = <<>> \/ \E m \in DOMAIN Modules : dsl = <<m>>
    BY <1>0, <1>1 DEF Verifying
  <1>4. /\ MigrationTypeOK' /\ VerdictSeen' /\ PlacedFirst' /\ ApprovalsOfReport'
        /\ run'.does = "verify" /\ run'.strict = run.strict /\ run'.touched = run.touched
        /\ run'.recorded = run.recorded /\ run'.dsl = dsl
        /\ DOMAIN run'.gates = DOMAIN run.gates \cup {gate}
        /\ run'.gates[gate] = word
        /\ \A g \in DOMAIN run.gates : run'.gates[g] = run.gates[g]
        /\ UNCHANGED <<legacy, out>>
    BY <1>2, <1>3, GateKeeps
  <1> QED
    BY <1>0, <1>4

\* The verdict in so many words.
LEMMA VerdictWord ==
  ASSUME NEW gate, NEW holds \in BOOLEAN, Verdict(gate, holds)
  PROVE  \E word \in {"pass", "fail", "skipped"} :
           /\ word = "pass" <=> holds
           /\ word # "skipped"
           /\ run' = WithGate(gate, word)
  <1>1. CASE holds
    BY <1>1 DEF Verdict
  <1>2. CASE ~holds
    BY <1>2 DEF Verdict
  <1> QED
    BY <1>1, <1>2

\* What was known of the gates before is known when a later one was taken.
LEMMA EarlierGates ==
  ASSUME MigrationInv, NEW gate, AtGate(gate), run'.does = "verify", ~run'.touched,
         run'.strict = run.strict, run'.touched = run.touched, run'.recorded = run.recorded,
         DOMAIN run'.gates = DOMAIN run.gates \cup {gate},
         \A g \in DOMAIN run.gates : run'.gates[g] = run.gates[g],
         UNCHANGED <<legacy, out>>
  PROVE  /\ run'.recorded = out'["report"]
         /\ run.recorded = out["report"]
         /\ "source" \in DOMAIN run.gates => SourceSeen /\ SourceSeen'
         /\ DslSeen
         /\ run'.dsl = run.dsl => DslSeen'
         /\ "dsl" \in DOMAIN run.gates /\ run'.gates["dsl"] = "pass" => run.dsl # <<>>
         /\ run'.strict =>
              /\ \A g \in DOMAIN run.gates : run'.gates[g] # "skipped"
              /\ "reviews" \in DOMAIN run.gates => ReviewsSeen'
              /\ run'.dsl = run.dsl /\ "capabilities" \in DOMAIN run.gates => CapabilitiesSeen'
  <1>1. run.does = "verify" /\ ~run.touched
    BY DEF AtGate
  <1>2. GatesSeen
    BY DEF MigrationInv
  <1>3. /\ run.recorded = out["report"] /\ run'.recorded = out'["report"]
        /\ "source" \in DOMAIN run.gates => SourceSeen
        /\ DslSeen
        /\ "dsl" \in DOMAIN run.gates /\ run.gates["dsl"] = "pass" => run.dsl # <<>>
    BY <1>1, <1>2 DEF GatesSeen
  <1>4. "source" \in DOMAIN run.gates => SourceSeen'
    BY <1>3 DEF SourceSeen, SourceCurrent
  <1>5. run'.dsl = run.dsl => DslSeen'
    BY <1>3 DEF DslSeen, ModuleSound, Present
  <1>6. run.strict =>
          /\ \A g \in DOMAIN run.gates : run.gates[g] # "skipped"
          /\ "reviews" \in DOMAIN run.gates => ReviewsSeen
          /\ "capabilities" \in DOMAIN run.gates => CapabilitiesSeen
    BY <1>1, <1>2 DEF GatesSeen
  <1>7. run.strict /\ "reviews" \in DOMAIN run.gates => ReviewsSeen'
    BY <1>6 DEF ReviewsSeen, Reviewed, Present
  <1>8. run.strict /\ run'.dsl = run.dsl /\ "capabilities" \in DOMAIN run.gates => CapabilitiesSeen'
    BY <1>6 DEF CapabilitiesSeen, Decided, Present
  <1> QED
    BY <1>3, <1>4, <1>5, <1>6, <1>7, <1>8

LEMMA CheckSourceKeeps ==
  ASSUME MigrationAssumption, MigrationInv, CheckSource
  PROVE  MigrationInv'
  <1>1. SourceCurrent(run.recorded) \in BOOLEAN
    BY DEF SourceCurrent
  <1>2. PICK word \in {"pass", "fail", "skipped"} :
          /\ word = "pass" <=> SourceCurrent(run.recorded)
          /\ word # "skipped"
          /\ run' = WithGate("source", word)
    BY <1>1, VerdictWord DEF CheckSource
  <1>3. AtGate("source")
    BY DEF CheckSource
  <1>4. /\ MigrationTypeOK' /\ VerdictSeen' /\ PlacedFirst' /\ ApprovalsOfReport'
        /\ run'.does = "verify" /\ run'.strict = run.strict /\ run'.touched = run.touched
        /\ run'.recorded = run.recorded /\ run'.dsl = run.dsl
        /\ DOMAIN run'.gates = DOMAIN run.gates \cup {"source"}
        /\ run'.gates["source"] = word
        /\ \A g \in DOMAIN run.gates : run'.gates[g] = run.gates[g]
        /\ UNCHANGED <<legacy, out>>
    BY <1>2, <1>3, VerdictKeeps
  <1>5. DOMAIN run.gates = {}
    BY <1>3, GateTaken
  <1>6. ASSUME ~run'.touched
        PROVE  /\ run'.recorded = out'["report"] /\ run.recorded = out["report"] /\ DslSeen'
    BY <1>3, <1>4, <1>6, EarlierGates
  <1>7. ASSUME ~run'.touched
        PROVE  SourceSeen'
    BY <1>2, <1>4, <1>6, <1>7 DEF SourceSeen, SourceCurrent
  <1>8. GatesSeen'
    BY <1>2, <1>4, <1>5, <1>6, <1>7 DEF GatesSeen
  <1> QED
    BY <1>4, <1>8 DEF MigrationInv

LEMMA CheckDslKeeps ==
  ASSUME MigrationAssumption, MigrationInv, CheckDsl
  PROVE  MigrationInv'
  <1>1. PICK sound \in BOOLEAN : sound <=> Present("module") /\ ModuleSound
    BY DEF Present, ModuleSound
  <1>2. PICK word \in {"pass", "fail", "skipped"} : word = IF sound THEN "pass" ELSE "fail"
    OBVIOUS
  <1>3. PICK dsl : dsl = IF sound THEN <<out["module"]>> ELSE <<>>
    OBVIOUS
  <1>4. AtGate("dsl") /\ GateTold("dsl", word, dsl)
    BY <1>1, <1>2, <1>3 DEF CheckDsl, GateTold
  <1>5. dsl = <<>> \/ \E m \in DOMAIN Modules : dsl = <<m>>
    <2>1. CASE sound
      <3>1. out["module"] \in DOMAIN Modules
        BY <1>1, <2>1 DEF MigrationInv, MigrationTypeOK, FilesOK, FileOK, Present
      <3> QED  BY <1>3, <2>1, <3>1
    <2>2. CASE ~sound
      BY <1>3, <2>2
    <2> QED  BY <2>1, <2>2
  <1>6. /\ MigrationTypeOK' /\ VerdictSeen' /\ PlacedFirst' /\ ApprovalsOfReport'
        /\ run'.does = "verify" /\ run'.strict = run.strict /\ run'.touched = run.touched
        /\ run'.recorded = run.recorded /\ run'.dsl = dsl
        /\ DOMAIN run'.gates = DOMAIN run.gates \cup {"dsl"}
        /\ run'.gates["dsl"] = word
        /\ \A g \in DOMAIN run.gates : run'.gates[g] = run.gates[g]
        /\ UNCHANGED <<legacy, out>>
    BY <1>4, <1>5, GateKeeps
  <1>7. DOMAIN run.gates = {"source"}
    BY <1>4, GateTaken
  <1>8. ASSUME ~run'.touched
        PROVE  /\ run'.recorded = out'["report"] /\ SourceSeen'
               /\ run'.strict => \A g \in DOMAIN run.gates : run'.gates[g] # "skipped"
    BY <1>4, <1>6, <1>7, <1>8, EarlierGates
  <1>9. DslSeen' /\ (word = "pass" => dsl # <<>>)
    BY <1>1, <1>2, <1>3, <1>6 DEF DslSeen, Present, ModuleSound
  <1>10. word # "skipped"
    BY <1>2
  <1>11. GatesSeen'
    BY <1>6, <1>7, <1>8, <1>9, <1>10 DEF GatesSeen
  <1> QED
    BY <1>6, <1>11 DEF MigrationInv

\* A gate of the strict verification that is left out in the other one.
LEMMA SkipKeeps ==
  ASSUME MigrationAssumption, MigrationInv, NEW gate, AtGate(gate), ~run.strict, Skip(gate),
         gate \notin {"source", "dsl"}
  PROVE  MigrationInv'
  <1>1. run' = WithGate(gate, "skipped")
    BY DEF Skip
  <1>2. /\ MigrationTypeOK' /\ VerdictSeen' /\ PlacedFirst' /\ ApprovalsOfReport'
        /\ run'.does = "verify" /\ run'.strict = run.strict /\ run'.touched = run.touched
        /\ run'.recorded = run.recorded /\ run'.dsl = run.dsl
        /\ DOMAIN run'.gates = DOMAIN run.gates \cup {gate}
        /\ run'.gates[gate] = "skipped"
        /\ \A g \in DOMAIN run.gates : run'.gates[g] = run.gates[g]
        /\ UNCHANGED <<legacy, out>>
    BY <1>1, "skipped" \in {"pass", "fail", "skipped"}, VerdictKeeps
  <1>3. ASSUME ~run'.touched
        PROVE  /\ run'.recorded = out'["report"] /\ DslSeen'
               /\ "source" \in DOMAIN run.gates => SourceSeen'
               /\ "dsl" \in DOMAIN run.gates /\ run'.gates["dsl"] = "pass" => run.dsl # <<>>
    BY <1>2, <1>3, EarlierGates
  <1>4. GatesSeen'
    BY <1>2, <1>3 DEF GatesSeen
  <1> QED
    BY <1>2, <1>4 DEF MigrationInv

LEMMA CheckReviewsKeeps ==
  ASSUME MigrationAssumption, MigrationInv, CheckReviews
  PROVE  MigrationInv'
  <1>1. AtGate("reviews")
    BY DEF CheckReviews
  <1>2. CASE ~run.strict
    BY <1>1, <1>2, SkipKeeps DEF CheckReviews
  <1>3. CASE run.strict
    <2>1. PICK holds \in BOOLEAN :
            holds <=> /\ run.gates["source"] = "pass"
                      /\ Present("approvals")
                      /\ Reviewed(run.recorded, out["approvals"])
      OBVIOUS
    <2>2. Verdict("reviews", holds)
      BY <1>3, <2>1 DEF CheckReviews, Verdict
    <2>3. PICK word \in {"pass", "fail", "skipped"} :
            /\ word = "pass" <=> holds
            /\ word # "skipped"
            /\ run' = WithGate("reviews", word)
      BY <2>2, VerdictWord
    <2>4. /\ MigrationTypeOK' /\ VerdictSeen' /\ PlacedFirst' /\ ApprovalsOfReport'
          /\ run'.does = "verify" /\ run'.strict = run.strict /\ run'.touched = run.touched
          /\ run'.recorded = run.recorded /\ run'.dsl = run.dsl
          /\ DOMAIN run'.gates = DOMAIN run.gates \cup {"reviews"}
          /\ run'.gates["reviews"] = word
          /\ \A g \in DOMAIN run.gates : run'.gates[g] = run.gates[g]
          /\ UNCHANGED <<legacy, out>>
      BY <1>1, <2>3, VerdictKeeps
    <2>5. DOMAIN run.gates = {"source", "dsl"}
      BY <1>1, GateTaken
    <2>6. ASSUME ~run'.touched
          PROVE  /\ run'.recorded = out'["report"] /\ run.recorded = out["report"]
                 /\ DslSeen' /\ SourceSeen'
                 /\ run'.gates["dsl"] = "pass" => run.dsl # <<>>
                 /\ run'.strict => \A g \in DOMAIN run.gates : run'.gates[g] # "skipped"
      BY <1>1, <2>4, <2>5, <2>6, EarlierGates
    <2>7. ASSUME ~run'.touched
          PROVE  ReviewsSeen'
      BY <2>1, <2>3, <2>4, <2>6, <2>7 DEF ReviewsSeen, Reviewed, Present
    <2>8. GatesSeen'
      BY <2>3, <2>4, <2>5, <2>6, <2>7 DEF GatesSeen
    <2> QED
      BY <2>4, <2>8 DEF MigrationInv
  <1> QED
    BY <1>2, <1>3

LEMMA CheckCapabilitiesKeeps ==
  ASSUME MigrationAssumption, MigrationInv, CheckCapabilities
  PROVE  MigrationInv'
  <1>1. AtGate("capabilities")
    BY DEF CheckCapabilities
  <1>2. CASE ~run.strict
    BY <1>1, <1>2, SkipKeeps DEF CheckCapabilities
  <1>3. CASE run.strict
    <2>1. PICK holds \in BOOLEAN :
            holds <=> /\ Grounded /\ Present("capabilities")
                      /\ Decided(run.recorded, run.dsl[1], out["capabilities"])
      OBVIOUS
    <2>2. Verdict("capabilities", holds)
      BY <1>3, <2>1 DEF CheckCapabilities, Verdict
    <2>3. PICK word \in {"pass", "fail", "skipped"} :
            /\ word = "pass" <=> holds
            /\ word # "skipped"
            /\ run' = WithGate("capabilities", word)
      BY <2>2, VerdictWord
    <2>4. /\ MigrationTypeOK' /\ VerdictSeen' /\ PlacedFirst' /\ ApprovalsOfReport'
          /\ run'.does = "verify" /\ run'.strict = run.strict /\ run'.touched = run.touched
          /\ run'.recorded = run.recorded /\ run'.dsl = run.dsl
          /\ DOMAIN run'.gates = DOMAIN run.gates \cup {"capabilities"}
          /\ run'.gates["capabilities"] = word
          /\ \A g \in DOMAIN run.gates : run'.gates[g] = run.gates[g]
          /\ UNCHANGED <<legacy, out>>
      BY <1>1, <2>3, VerdictKeeps
    <2>5. DOMAIN run.gates = {"source", "dsl", "reviews"}
      BY <1>1, GateTaken
    <2>6. ASSUME ~run'.touched
          PROVE  /\ run'.recorded = out'["report"] /\ run.recorded = out["report"]
                 /\ DslSeen /\ DslSeen' /\ SourceSeen'
                 /\ run'.gates["dsl"] = "pass" => run.dsl # <<>>
                 /\ run'.strict => /\ \A g \in DOMAIN run.gates : run'.gates[g] # "skipped"
                                   /\ ReviewsSeen'
      BY <1>1, <2>4, <2>5, <2>6, EarlierGates
    <2>7. ASSUME ~run'.touched
          PROVE  CapabilitiesSeen'
      <3>1. word = "pass" =>
              /\ run.dsl # <<>> /\ Present("capabilities")
              /\ Decided(run.recorded, run.dsl[1], out["capabilities"])
        BY <2>1, <2>3 DEF Grounded
      <3>2. run.dsl # <<>> => run.dsl[1] = out["module"]
        BY <2>6, <2>7 DEF DslSeen
      <3> QED
        BY <2>4, <2>6, <2>7, <3>1, <3>2 DEF CapabilitiesSeen, Decided, Present
    <2>8. GatesSeen'
      BY <2>3, <2>4, <2>5, <2>6, <2>7 DEF GatesSeen
    <2> QED
      BY <2>4, <2>8 DEF MigrationInv
  <1> QED
    BY <1>2, <1>3

LEMMA CheckBehaviorKeeps ==
  ASSUME MigrationAssumption, MigrationInv, CheckBehavior
  PROVE  MigrationInv'
  <1>1. AtGate("behavior")
    BY DEF CheckBehavior
  <1>2. CASE ~run.strict
    BY <1>1, <1>2, SkipKeeps DEF CheckBehavior
  <1>3. CASE run.strict
    <2>1. PICK holds \in BOOLEAN :
            holds <=> /\ RunsCases /\ Present("module")
                      /\ Behaves(run.dsl[1], out["module"], out["cases"])
      OBVIOUS
    <2>2. Verdict("behavior", holds)
      BY <1>3, <2>1 DEF CheckBehavior, Verdict
    <2>3. PICK word \in {"pass", "fail", "skipped"} :
            /\ word = "pass" <=> holds
            /\ word # "skipped"
            /\ run' = WithGate("behavior", word)
      BY <2>2, VerdictWord
    <2>4. /\ MigrationTypeOK' /\ VerdictSeen' /\ PlacedFirst' /\ ApprovalsOfReport'
          /\ run'.does = "verify" /\ run'.strict = run.strict /\ run'.touched = run.touched
          /\ run'.recorded = run.recorded /\ run'.dsl = run.dsl
          /\ DOMAIN run'.gates = DOMAIN run.gates \cup {"behavior"}
          /\ run'.gates["behavior"] = word
          /\ \A g \in DOMAIN run.gates : run'.gates[g] = run.gates[g]
          /\ UNCHANGED <<legacy, out>>
      BY <1>1, <2>3, VerdictKeeps
    <2>5. DOMAIN run.gates = {"source", "dsl", "reviews", "capabilities"}
      BY <1>1, GateTaken
    <2>6. ASSUME ~run'.touched
          PROVE  /\ run'.recorded = out'["report"] /\ run.recorded = out["report"]
                 /\ DslSeen' /\ SourceSeen'
                 /\ run'.gates["dsl"] = "pass" => run.dsl # <<>>
                 /\ run'.strict => /\ \A g \in DOMAIN run.gates : run'.gates[g] # "skipped"
                                   /\ ReviewsSeen' /\ CapabilitiesSeen'
      BY <1>1, <2>4, <2>5, <2>6, EarlierGates
    <2>7. BehaviorSeen'
      <3>1. word = "pass" =>
              /\ run.dsl # <<>> /\ Present("cases")
              /\ CasesHold(out["cases"]) /\ CasesPass(out["module"], out["cases"])
        BY <2>1, <2>3 DEF Grounded, RunsCases, Behaves
      <3>2. /\ Present("cases") => Present("cases")'
            /\ CasesHold(out["cases"]) => CasesHold(out["cases"])'
            /\ CasesPass(out["module"], out["cases"]) => CasesPass(out["module"], out["cases"])'
        BY <2>4 DEF Present, CasesHold, CasesPass
      <3> QED
        BY <2>4, <3>1, <3>2 DEF BehaviorSeen
    <2>8. GatesSeen'
      BY <2>3, <2>4, <2>5, <2>6, <2>7 DEF GatesSeen
    <2> QED
      BY <2>4, <2>8 DEF MigrationInv
  <1> QED
    BY <1>2, <1>3

\* A strict verification without a failure has passed every gate.
LEMMA DecideKeeps ==
  ASSUME MigrationAssumption, MigrationInv, Decide
  PROVE  MigrationInv'
  <1>1. /\ run.does = "verify" /\ DOMAIN run.gates = ToSet(Gates)
        /\ run' = [does |-> "conclude", touched |-> run.touched, result |-> Result]
        /\ UNCHANGED <<legacy, out, litter, torn, edits, cuts>>
    BY DEF Decide
  <1>2. Verifying
    BY <1>1, CommandShape DEF MigrationInv
  <1>3. run'.does = "conclude" /\ run'.touched = run.touched /\ run'.result = Result
    BY <1>1
  <1>4. Result \in {"failed", "verified", "structurally_valid"}
    BY DEF Result
  <1>5. Concluding'
    BY <1>1, <1>2, <1>3, <1>4, FilesStay DEF Concluding, Verifying
  <1>6. ASSUME run'.result = "verified", ~run'.touched
        PROVE  AllSeen'
    <2>1. run.strict /\ \A g \in DOMAIN run.gates : run.gates[g] # "fail"
      BY <1>2, <1>3, <1>6 DEF Result, Range, Verifying
    <2>2. DOMAIN run.gates = {"source", "dsl", "reviews", "capabilities", "behavior"}
      BY <1>1 DEF ToSet, Gates
    <2>3. GatesSeen
      BY DEF MigrationInv
    <2>4. /\ SourceSeen /\ DslSeen
          /\ run.gates["dsl"] = "pass" => run.dsl # <<>>
          /\ \A g \in DOMAIN run.gates : run.gates[g] # "skipped"
          /\ ReviewsSeen /\ CapabilitiesSeen /\ BehaviorSeen
      BY <1>1, <1>3, <1>6, <2>1, <2>2, <2>3 DEF GatesSeen
    <2>5. \A g \in DOMAIN run.gates : run.gates[g] \in {"pass", "fail", "skipped"}
      BY <1>2 DEF Verifying
    <2>6. /\ run.gates["source"] = "pass" /\ run.gates["dsl"] = "pass" /\ run.gates["reviews"] = "pass"
          /\ run.gates["capabilities"] = "pass" /\ run.gates["behavior"] = "pass"
      BY <2>1, <2>2, <2>4, <2>5
    <2>7. AllSeen
      BY <2>4, <2>6 DEF SourceSeen, DslSeen, ReviewsSeen, CapabilitiesSeen, BehaviorSeen, AllSeen
    <2> QED
      BY <1>1, <2>7, SMTT(30)
      DEF AllSeen, SourceCurrent, ModuleSound, Reviewed, Decided, CasesHold, CasesPass, Present
  <1>7. VerdictSeen'
    BY <1>3, <1>6 DEF VerdictSeen
  <1>8. MigrationTypeOK'
    BY <1>1, <1>5, FilesStay DEF MigrationInv, MigrationTypeOK
  <1>9. GatesSeen' /\ PlacedFirst'
    BY <1>3 DEF GatesSeen, PlacedFirst
  <1> QED
    BY <1>1, <1>7, <1>8, <1>9, FilesStay DEF MigrationInv

\* Another file than these leaves the reviews and the report as they are.
LEMMA OtherFile ==
  ASSUME MigrationInv, NEW name, NEW content, Put(name, content), torn' = torn,
         name \notin {"report", "approvals"}
  PROVE  ApprovalsOfReport'
  <1>1. /\ Present("approvals")' <=> Present("approvals")
        /\ Present("approvals") => out'["approvals"] = out["approvals"]
        /\ Present("report") => out'["report"] = out["report"]
    BY PutFile DEF Present
  <1>2. Present("approvals") => Present("report")
    BY DEF MigrationInv, MigrationTypeOK, FilesOK, Present
  <1> QED
    BY <1>1, <1>2 DEF MigrationInv, ApprovalsOfReport

LEMMA ConcludeKeeps ==
  ASSUME MigrationAssumption, MigrationInv, Conclude
  PROVE  MigrationInv'
  <1>0. PICK result : result = run.result
    OBVIOUS
  <1>1. /\ run.does = "conclude" /\ Put("verification", result) /\ run' = Nothing
        /\ UNCHANGED <<legacy, litter, torn, edits, cuts>>
    BY <1>0 DEF Conclude
  <1>2. result \in {"failed", "verified", "structurally_valid"} /\ Present("report")
    BY <1>0, <1>1, CommandShape DEF MigrationInv, Concluding
  <1>3. FileOK("verification", result)
    BY <1>2 DEF FileOK
  <1>4. FilesOK'
    BY <1>1, <1>2, <1>3, PutKeepsFiles DEF MigrationInv, MigrationTypeOK
  <1>5. ApprovalsOfReport'
    BY <1>1, OtherFile
  <1>6. run'.does = "nothing"
    BY <1>1 DEF Nothing
  <1>7. MigrationTypeOK'
    BY <1>1, <1>4 DEF MigrationInv, MigrationTypeOK, Nothing
  <1> QED
    BY <1>5, <1>6, <1>7 DEF MigrationInv, GatesSeen, VerdictSeen, PlacedFirst

LEMMA PlaceKeeps ==
  ASSUME MigrationAssumption, MigrationInv, Place
  PROVE  MigrationInv'
  <1>1. run.does = "convert"
    BY DEF Place
  <1>2. Converting
    BY <1>1, CommandShape DEF MigrationInv
  <1>3. PICK r \in DOMAIN Reports, k \in 1 .. 6 :
          /\ Reports[r].scaffold # <<>>
          /\ run.todo = SubSeq(Conversion(r), k, 6)
          /\ \A j \in 1 .. k - 1 :
               Present(Conversion(r)[j][1]) /\ out[Conversion(r)[j][1]] = Conversion(r)[j][2]
          /\ 1 < k => torn
    BY <1>1 DEF MigrationInv, PlacedFirst
  <1>4. PICK files : files = Conversion(r)
    OBVIOUS
  <1>5. /\ files = <<<<"report", r>>, <<"markdown", r>>,
              <<"capabilities", [c \in Reports[r].suggested |-> "unsettled"]>>,
              <<"approvals", [i \in Reports[r].items |-> Undecided]>>,
              <<"cases", <<>>>>, <<"module", <<r, "scaffold">>>>>>
        /\ \A j \in 1 .. 6 : FileOK(files[j][1], files[j][2])
    BY <1>3, <1>4, ConversionFiles
  <1>6. /\ files \in Seq({files[j] : j \in 1 .. 6}) /\ Len(files) = 6
        /\ files[1] = <<"report", r>> /\ files[4] = <<"approvals", [i \in Reports[r].items |-> Undecided]>>
        /\ \A i, j \in 1 .. 6 : i # j => files[i][1] # files[j][1]
        /\ \A j \in 1 .. 6 : files[j][1] = "report" <=> j = 1
    BY <1>5
  <1>7. /\ run.todo[1] = files[k] /\ Len(run.todo) = 7 - k
        /\ Tail(run.todo) = SubSeq(files, k + 1, 6)
    <2>1. k \in 1 .. Len(files) /\ 6 \in k .. Len(files)
      BY <1>6
    <2>2. \A i \in k .. 6 : files[i] \in {files[j] : j \in 1 .. 6}
      OBVIOUS
    <2>3. /\ Len(SubSeq(files, k, 6)) = IF k <= 6 THEN 6 - k + 1 ELSE 0
          /\ \A i \in 1 .. 6 - k + 1 : SubSeq(files, k, 6)[i] = files[k + i - 1]
      BY <2>2, SubSeqProperties
    <2>4. Tail(SubSeq(files, k, 6)) = SubSeq(files, k + 1, 6)
      BY <1>6, <2>1, HeadTailOfSubSeq
    <2>5. 1 \in 1 .. 6 - k + 1 /\ k + 1 - 1 = k
      OBVIOUS
    <2> QED
      BY <1>3, <1>4, <2>3, <2>4, <2>5
  <1>8. Put(files[k][1], files[k][2])
    <2>1. Put(run.todo[1][1], run.todo[1][2])
      BY DEF Place
    <2> QED
      BY <1>7, <2>1
  <1>9. /\ UNCHANGED <<legacy, litter, edits, cuts>>
        /\ k < 6 => torn' = TRUE /\ run' = [does |-> "convert", todo |-> SubSeq(files, k + 1, 6)]
        /\ k = 6 => torn' = FALSE /\ run' = Nothing
    <2>1. /\ torn' = (Len(run.todo) > 1) /\ UNCHANGED <<legacy, litter, edits, cuts>>
          /\ Len(run.todo) = 1 => run' = Nothing
          /\ Len(run.todo) # 1 => run' = [run EXCEPT !.todo = Tail(run.todo)]
      BY DEF Place
    <2>2. [run EXCEPT !.todo = Tail(run.todo)] = [does |-> "convert", todo |-> Tail(run.todo)]
      <3>1. PICK todo, rest : todo = run.todo /\ rest = Tail(run.todo)
        OBVIOUS
      <3>2. run = [does |-> "convert", todo |-> todo]
        BY <1>2, <3>1 DEF Converting
      <3>3. [run EXCEPT !.todo = rest] = [does |-> "convert", todo |-> rest]
        BY <3>2
      <3> QED  BY <3>1, <3>3
    <2>3. /\ k < 6 => Len(run.todo) > 1 /\ Len(run.todo) # 1
          /\ k = 6 => ~(Len(run.todo) > 1) /\ Len(run.todo) = 1
      BY <1>7
    <2>4. CASE k < 6
      <3>1. torn' = TRUE
        BY <2>1, <2>3, <2>4
      <3>2. run' = [does |-> "convert", todo |-> SubSeq(files, k + 1, 6)]
        BY <1>7, <2>1, <2>2, <2>3, <2>4
      <3> QED  BY <2>1, <2>4, <3>1, <3>2
    <2>5. CASE k = 6
      <3>1. torn' = FALSE
        <4>1. (Len(run.todo) > 1) = FALSE
          BY <2>3, <2>5
        <4> QED  BY <2>1, <4>1
      <3> QED  BY <2>1, <2>3, <2>5, <3>1
    <2>6. k < 6 \/ k = 6
      OBVIOUS
    <2> QED
      BY <2>1, <2>4, <2>5, <2>6
  <1>10. FileOK(files[k][1], files[k][2])
    BY <1>5
  <1>11. files[k][1] = "report" \/ Present("report")
    BY <1>3, <1>4, <1>6
  <1>12. FilesOK' /\ Present("report")'
    BY <1>8, <1>10, <1>11, PutKeepsFiles DEF MigrationInv, MigrationTypeOK
  <1>13. \A j \in 1 .. k : Present(files[j][1])' /\ out'[files[j][1]] = files[j][2]
    <2> TAKE j \in 1 .. k
    <2>1. CASE j = k
      <3>1. PICK name, content : name = files[k][1] /\ content = files[k][2]
        OBVIOUS
      <3>2. Put(name, content)
        BY <1>8, <3>1
      <3>3. name \in DOMAIN out' /\ out'[name] = content
        BY <3>2 DEF Put, With
      <3> QED
        BY <2>1, <3>1, <3>3 DEF Present
    <2>2. CASE j # k
      <3>1. j \in 1 .. k - 1 /\ files[j][1] # files[k][1]
        BY <1>6, <2>2
      <3>2. Present(files[j][1]) /\ out[files[j][1]] = files[j][2]
        BY <1>3, <1>4, <3>1
      <3> QED
        BY <1>8, <3>1, <3>2, PutFile, ZenonT(40) DEF Present
    <2> QED
      BY <2>1, <2>2
  <1>14. CASE k < 6
    <2>1. run' = [does |-> "convert", todo |-> SubSeq(files, k + 1, 6)]
      BY <1>9, <1>14
    <2>2. run'.does = "convert" /\ run'.todo = SubSeq(files, k + 1, 6) /\ torn'
      BY <1>9, <1>14, <2>1
    <2>3. k + 1 \in 1 .. 6 /\ (k + 1) - 1 = k
      BY <1>14
    <2>4. Converting'
      BY <1>3, <1>4, <2>1, <2>2, <2>3 DEF Converting
    <2>5. PlacedFirst'
      <3>1. /\ Reports[r].scaffold # <<>> /\ run'.todo = SubSeq(Conversion(r), k + 1, 6)
            /\ \A j \in 1 .. (k + 1) - 1 :
                 Present(Conversion(r)[j][1])' /\ out'[Conversion(r)[j][1]] = Conversion(r)[j][2]
            /\ 1 < k + 1 => torn'
        BY <1>3, <1>4, <1>13, <2>2, <2>3
      <3> QED
        BY <2>3, <3>1 DEF PlacedFirst
    <2>6. MigrationTypeOK'
      BY <1>9, <1>12, <2>2, <2>4 DEF MigrationInv, MigrationTypeOK
    <2> QED
      BY <2>2, <2>5, <2>6 DEF MigrationInv, GatesSeen, VerdictSeen, ApprovalsOfReport
  <1>15. CASE k = 6
    <2>1. run' = Nothing /\ torn' = FALSE
      BY <1>9, <1>15
    <2>2. run'.does = "nothing"
      BY <2>1 DEF Nothing
    <2>3. out'["approvals"] = [i \in Reports[r].items |-> Undecided]
      BY <1>6, <1>13, <1>15, 4 \in 1 .. 6
    <2>4. ApprovalsOfReport'
      BY <2>3 DEF ApprovalsOfReport, Undecided
    <2>5. MigrationTypeOK'
      BY <1>9, <1>12, <2>1 DEF MigrationInv, MigrationTypeOK, Nothing
    <2> QED
      BY <2>2, <2>4, <2>5 DEF MigrationInv, GatesSeen, VerdictSeen, PlacedFirst
  <1> QED
    BY <1>14, <1>15

\* A gate that was not taken leaves those after it.
LEMMA GatesAfter ==
  ASSUME Verifying
  PROVE  /\ "source" \notin DOMAIN run.gates => DOMAIN run.gates = {}
         /\ "dsl" \notin DOMAIN run.gates =>
              \A g \in {"reviews", "capabilities", "behavior"} : g \notin DOMAIN run.gates
         /\ "reviews" \notin DOMAIN run.gates => "capabilities" \notin DOMAIN run.gates
         /\ "capabilities" \notin DOMAIN run.gates => "behavior" \notin DOMAIN run.gates
  <1>1. PICK k \in 0 .. 5 : DOMAIN run.gates = {Gates[j] : j \in 1 .. k}
    BY DEF Verifying
  <1>2. \/ DOMAIN run.gates = {}
        \/ DOMAIN run.gates = {"source"}
        \/ DOMAIN run.gates = {"source", "dsl"}
        \/ DOMAIN run.gates = {"source", "dsl", "reviews"}
        \/ DOMAIN run.gates = {"source", "dsl", "reviews", "capabilities"}
        \/ DOMAIN run.gates = {"source", "dsl", "reviews", "capabilities", "behavior"}
    <2>1. k = 0 \/ k = 1 \/ k = 2 \/ k = 3 \/ k = 4 \/ k = 5
      OBVIOUS
    <2> QED
      BY <1>1, <2>1, GatesInOrder
  <1> QED
    BY <1>2

\* Someone changes something: behind the back of a verification that has read it, or
\* where it does not know of it yet.
LEMMA ChangeKeeps ==
  ASSUME MigrationAssumption, MigrationInv, NEW gate, Change(gate), legacy' \in Versions,
         FilesOK', Present("report") => Present("report")', ApprovalsOfReport',
         run.does = "convert" => out' = out,
         run.does = "verify" /\ gate \notin DOMAIN run.gates /\ run' = run => GatesSeen'
  PROVE  MigrationInv'
  <1>1. /\ UNCHANGED <<litter, torn, cuts>> /\ edits' \in 0 .. MaxEdits
        /\ run' = IF run.does = "conclude" \/ (run.does = "verify" /\ gate \in DOMAIN run.gates)
                  THEN [run EXCEPT !.touched = TRUE] ELSE run
    BY DEF Change, MigrationInv, MigrationTypeOK, MigrationAssumption
  <1>2. CASE run.does = "verify" /\ gate \in DOMAIN run.gates
    <2>1. Verifying
      BY <1>2, CommandShape DEF MigrationInv
    <2>2. run' = [does |-> "verify", strict |-> run.strict, recorded |-> run.recorded,
                  gates |-> run.gates, dsl |-> run.dsl, touched |-> TRUE]
      BY <1>1, <1>2, <2>1 DEF Verifying
    <2>3. run'.does = "verify" /\ run'.touched = TRUE
      BY <2>2
    <2>4. Verifying'
      BY <2>1, <2>2 DEF Verifying
    <2> QED
      BY <1>1, <2>3, <2>4
      DEF MigrationInv, MigrationTypeOK, GatesSeen, VerdictSeen, PlacedFirst
  <1>6. CASE run.does = "verify" /\ gate \notin DOMAIN run.gates
    <2>1. run' = run /\ Verifying
      BY <1>1, <1>6, CommandShape DEF MigrationInv
    <2>2. Verifying'
      BY <2>1 DEF Verifying
    <2> QED
      BY <1>1, <1>6, <2>1, <2>2
      DEF MigrationInv, MigrationTypeOK, VerdictSeen, PlacedFirst
  <1>3. CASE run.does = "conclude"
    <2>1. Concluding
      BY <1>3, CommandShape DEF MigrationInv
    <2>2. run' = [run EXCEPT !.touched = TRUE]
      BY <1>1, <1>3
    <2>3. run'.does = "conclude" /\ run'.touched = TRUE /\ Concluding'
      BY <2>1, <2>2 DEF Concluding
    <2> QED
      BY <1>1, <2>3
      DEF MigrationInv, MigrationTypeOK, GatesSeen, VerdictSeen, PlacedFirst
  <1>4. CASE run.does = "convert"
    <2>1. run' = run /\ Converting /\ out' = out
      BY <1>1, <1>4, CommandShape DEF MigrationInv
    <2>2. Converting' /\ PlacedFirst'
      BY <1>1, <2>1, ZenonT(40) DEF Converting, PlacedFirst, MigrationInv, Present, Conversion
    <2> QED
      BY <1>1, <1>4, <2>1, <2>2 DEF MigrationInv, MigrationTypeOK, GatesSeen, VerdictSeen
  <1>5. CASE run.does = "nothing"
    <2>1. run' = run /\ run = Nothing
      BY <1>1, <1>5 DEF MigrationInv, MigrationTypeOK, Converting, Verifying, Concluding
    <2> QED
      BY <1>1, <1>5, <2>1
      DEF MigrationInv, MigrationTypeOK, GatesSeen, VerdictSeen, PlacedFirst
  <1> QED
    BY <1>2, <1>3, <1>4, <1>5, <1>6, CommandShape DEF MigrationInv

LEMMA ChangeSourceKeeps ==
  ASSUME MigrationAssumption, MigrationInv, ChangeSource
  PROVE  MigrationInv'
  <1>1. Change("source") /\ legacy' \in Versions /\ out' = out
    BY DEF ChangeSource
  <1>2. torn' = torn
    BY <1>1 DEF Change
  <1>3. FilesOK' /\ ApprovalsOfReport' /\ (Present("report") => Present("report")')
    BY <1>1, <1>2
    DEF MigrationInv, MigrationTypeOK, FilesOK, FileOK, ApprovalsOfReport, Present
  <1>4. ASSUME run.does = "verify", "source" \notin DOMAIN run.gates, run' = run
        PROVE  GatesSeen'
    <2>1. DOMAIN run.gates = {}
      BY <1>4, GatesAfter, CommandShape DEF MigrationInv
    <2> QED
      BY <1>1, <1>4, <2>1 DEF MigrationInv, GatesSeen, DslSeen
  <1> QED
    BY <1>1, <1>3, <1>4, ChangeKeeps

\* A file nobody has read yet is written: what was read of the others is still so.
LEMMA UnreadFile ==
  ASSUME MigrationInv, NEW name \in DOMAIN ReadBy, NEW content, Put(name, content),
         run.does = "verify", ReadBy[name] \notin DOMAIN run.gates, run' = run, legacy' = legacy,
         Present("report")
  PROVE  GatesSeen'
  <1>1. Verifying
    BY CommandShape DEF MigrationInv
  <1>2. ASSUME NEW n, n # name
        PROVE  /\ Present(n) => Present(n)'
               /\ Present(n) => out'[n] = out[n]
    <2>1. DOMAIN out' = DOMAIN out \cup {name} /\ \A m \in DOMAIN out : m # name => out'[m] = out[m]
      BY PutFile
    <2> QED
      BY <1>2, <2>1 DEF Present
  <1>3. out'["report"] = out["report"]
    <2>1. name # "report"
      BY DEF ReadBy
    <2> QED
      BY <1>2, <2>1
  <1>4. SUFFICES ASSUME ~run.touched
                 PROVE  GatesSeen'
    BY DEF GatesSeen
  <1>5. /\ run.recorded = out["report"]
        /\ "source" \in DOMAIN run.gates => SourceSeen
        /\ DslSeen
        /\ "dsl" \in DOMAIN run.gates /\ run.gates["dsl"] = "pass" => run.dsl # <<>>
        /\ run.strict =>
             /\ \A gate \in DOMAIN run.gates : run.gates[gate] # "skipped"
             /\ "reviews" \in DOMAIN run.gates => ReviewsSeen
             /\ "capabilities" \in DOMAIN run.gates => CapabilitiesSeen
             /\ "behavior" \in DOMAIN run.gates => BehaviorSeen
    BY <1>4 DEF MigrationInv, GatesSeen
  <1>6. "source" \in DOMAIN run.gates => SourceSeen'
    BY <1>3, <1>5 DEF SourceSeen, SourceCurrent
  <1>7. "dsl" \in DOMAIN run.gates => name # "module"
    BY DEF ReadBy
  <1>8. DslSeen'
    BY <1>2, <1>5, <1>7 DEF DslSeen, ModuleSound
  <1>9. run.strict /\ "reviews" \in DOMAIN run.gates => ReviewsSeen'
    <2>1. "reviews" \in DOMAIN run.gates => name # "approvals"
      BY DEF ReadBy
    <2> QED
      BY <1>2, <1>3, <1>5, <2>1 DEF ReviewsSeen, Reviewed
  <1>10. "capabilities" \in DOMAIN run.gates => "dsl" \in DOMAIN run.gates
    BY <1>1, GatesAfter
  <1>11. run.strict /\ "capabilities" \in DOMAIN run.gates => CapabilitiesSeen'
    <2>1. SUFFICES ASSUME run.strict, "capabilities" \in DOMAIN run.gates,
                          run.gates["capabilities"] = "pass"
                   PROVE  /\ run.dsl # <<>> /\ Present("capabilities")'
                          /\ Decided(out'["report"], out'["module"], out'["capabilities"])
      BY DEF CapabilitiesSeen, Decided
    <2>2. /\ run.dsl # <<>> /\ Present("capabilities") /\ Present("module")
          /\ Decided(out["report"], out["module"], out["capabilities"])
      BY <1>5, <2>1 DEF CapabilitiesSeen, DslSeen
    <2>3. name # "capabilities" /\ name # "module"
      BY <1>7, <1>10, <2>1 DEF ReadBy
    <2> QED
      BY <1>2, <1>3, <2>2, <2>3
  <1>12. run.strict /\ "behavior" \in DOMAIN run.gates => BehaviorSeen'
    <2>1. SUFFICES ASSUME run.strict, "behavior" \in DOMAIN run.gates,
                          run.gates["behavior"] = "pass"
                   PROVE  /\ run.dsl # <<>> /\ Present("cases")'
                          /\ CasesHold(out'["cases"]) /\ CasesPass(out'["module"], out'["cases"])
      BY DEF BehaviorSeen, CasesHold, CasesPass
    <2>2. /\ run.dsl # <<>> /\ Present("cases") /\ Present("module")
          /\ CasesHold(out["cases"]) /\ CasesPass(out["module"], out["cases"])
      BY <1>5, <2>1 DEF BehaviorSeen, DslSeen
    <2>3. name # "cases" /\ name # "module"
      BY <1>1, <1>7, <2>1, GatesAfter DEF ReadBy
    <2> QED
      BY <1>2, <2>2, <2>3
  <1> QED
    BY <1>3, <1>5, <1>6, <1>8, <1>9, <1>11, <1>12 DEF GatesSeen

\* A file is edited into one that is well formed; whoever settles an item has the report.
LEMMA EditKeeps ==
  ASSUME MigrationAssumption, MigrationInv, NEW name \in DOMAIN ReadBy, NEW content,
         Present(name), run.does # "convert", Change(ReadBy[name]), legacy' = legacy,
         Put(name, content), FileOK(name, content),
         name = "approvals" =>
           \A i \in DOMAIN content :
             content[i].status = "pending" \/ content[i].seen = <<out["report"]>>
  PROVE  MigrationInv'
  <1>1. Present("report") /\ name # "report"
    BY DEF MigrationInv, MigrationTypeOK, FilesOK, Present, ReadBy
  <1>2. FilesOK' /\ Present("report")'
    BY <1>1, PutKeepsFiles DEF MigrationInv, MigrationTypeOK
  <1>3. torn' = torn
    BY DEF Change
  <1>4. ApprovalsOfReport'
    <2>1. CASE name = "approvals"
      <3>1. out'["approvals"] = content /\ out'["report"] = out["report"]
        BY <1>1, <2>1 DEF Put, With, Present
      <3> QED
        BY <2>1, <3>1 DEF ApprovalsOfReport
    <2>2. CASE name # "approvals"
      BY <1>1, <1>3, <2>2, OtherFile
    <2> QED
      BY <2>1, <2>2
  <1>5. run.does = "verify" /\ ReadBy[name] \notin DOMAIN run.gates /\ run' = run => GatesSeen'
    BY <1>1, UnreadFile
  <1>6. PICK gate : gate = ReadBy[name]
    OBVIOUS
  <1> QED
    BY <1>2, <1>4, <1>5, <1>6, ChangeKeeps DEF MigrationInv, MigrationTypeOK

LEMMA EditModuleKeeps ==
  ASSUME MigrationAssumption, MigrationInv, EditModule
  PROVE  MigrationInv'
  <1>1. /\ Present("module") /\ run.does # "convert" /\ Change(ReadBy["module"])
        /\ legacy' = legacy /\ "module" \in DOMAIN ReadBy
        /\ \E c \in Changes : Put("module", <<out["module"][1], c>>)
    BY DEF EditModule, ChangeFile, ReadBy
  <1>2. PICK r, c : c \in Changes /\ r = out["module"][1] /\ Put("module", <<r, c>>)
    BY <1>1
  <1>3. out["module"] \in DOMAIN Modules
    BY <1>1 DEF MigrationInv, MigrationTypeOK, FilesOK, FileOK, Present
  <1>4. FileOK("module", <<r, c>>)
    BY <1>2, <1>3 DEF FileOK, MigrationAssumption
  <1> QED
    BY <1>1, <1>2, <1>4, EditKeeps

LEMMA ReviewAllKeeps ==
  ASSUME MigrationAssumption, MigrationInv, ReviewAll
  PROVE  MigrationInv'
  <1>1. PICK content \in Reviews(out["approvals"]) : Put("approvals", content)
    BY DEF ReviewAll, ChangeFile
  <1>2. /\ Present("approvals") /\ run.does # "convert" /\ Change(ReadBy["approvals"])
        /\ legacy' = legacy /\ "approvals" \in DOMAIN ReadBy
    BY DEF ReviewAll, ChangeFile, ReadBy
  <1>3. Present("report") /\ out["report"] \in DOMAIN Reports
    BY <1>2 DEF MigrationInv, MigrationTypeOK, FilesOK, FileOK, Present
  <1>4. ASSUME NEW i \in DOMAIN content
        PROVE  content[i] \in {Settled(TRUE), Settled(FALSE), Undecided}
    <2>1. PICK odd : \/ \E r \in {Settled(TRUE), Settled(FALSE), Undecided} :
                          content = [j \in DOMAIN out["approvals"] |->
                                       IF j \in odd THEN r ELSE Settled(TRUE)]
                     \/ content = [j \in DOMAIN out["approvals"] \ odd |-> Settled(TRUE)]
      BY <1>1 DEF Reviews
    <2> QED
      BY <1>4, <2>1
  <1>5. /\ Settled(TRUE).status = "accepted" /\ Settled(TRUE).note \in BOOLEAN
        /\ Settled(TRUE).seen = <<out["report"]>>
        /\ Settled(FALSE).status = "accepted" /\ Settled(FALSE).note \in BOOLEAN
        /\ Settled(FALSE).seen = <<out["report"]>>
        /\ Undecided.status = "pending" /\ Undecided.note \in BOOLEAN /\ Undecided.seen = <<>>
    BY DEF Settled, Undecided
  <1>6. ASSUME NEW i \in DOMAIN content
        PROVE  /\ content[i].status \in {"pending", "accepted"} /\ content[i].note \in BOOLEAN
               /\ content[i].seen = <<>> \/ \E r \in DOMAIN Reports : content[i].seen = <<r>>
               /\ content[i].status = "pending" \/ content[i].seen = <<out["report"]>>
    <2>1. content[i] \in {Settled(TRUE), Settled(FALSE), Undecided}
      BY <1>4, <1>6
    <2> QED
      BY <1>3, <1>5, <2>1
  <1>7. FileOK("approvals", content)
    BY <1>6 DEF FileOK
  <1> QED
    BY <1>1, <1>2, <1>6, <1>7, EditKeeps

LEMMA DecideCapabilitiesKeeps ==
  ASSUME MigrationAssumption, MigrationInv, DecideCapabilities
  PROVE  MigrationInv'
  <1>1. /\ Present("capabilities") /\ run.does # "convert" /\ Change(ReadBy["capabilities"])
        /\ legacy' = legacy /\ "capabilities" \in DOMAIN ReadBy
    BY DEF DecideCapabilities, ChangeFile, ReadBy
  <1>2. PICK d, ids : d \in Decisions /\ Put("capabilities", [c \in ids |-> d])
    <2>1. PICK added : \E content \in {[c \in DOMAIN out["capabilities"] \cup added |-> d] : d \in Decisions} :
                         Put("capabilities", content)
      BY ZenonT(40) DEF DecideCapabilities, ChangeFile
    <2>2. PICK ids : ids = DOMAIN out["capabilities"] \cup added
      OBVIOUS
    <2>3. PICK content : /\ content \in {[c \in DOMAIN out["capabilities"] \cup added |-> d] : d \in Decisions}
                         /\ Put("capabilities", content)
      BY <2>1
    <2>4. PICK d \in Decisions : content = [c \in DOMAIN out["capabilities"] \cup added |-> d]
      BY <2>3
    <2>5. content = [c \in ids |-> d]
      BY <2>2, <2>4
    <2>6. Put("capabilities", [c \in ids |-> d])
      BY <2>3, <2>5
    <2> QED
      BY <2>6
  <1>3. FileOK("capabilities", [c \in ids |-> d])
    BY <1>2 DEF FileOK, Range
  <1> QED
    BY <1>1, <1>2, <1>3, EditKeeps

LEMMA WriteCasesKeeps ==
  ASSUME MigrationAssumption, MigrationInv, WriteCases
  PROVE  MigrationInv'
  <1>1. PICK content \in CaseFiles : Put("cases", content)
    BY DEF WriteCases, ChangeFile
  <1>2. /\ Present("cases") /\ run.does # "convert" /\ Change(ReadBy["cases"])
        /\ legacy' = legacy /\ "cases" \in DOMAIN ReadBy
    BY DEF WriteCases, ChangeFile, ReadBy
  <1>3. FileOK("cases", content)
    BY DEF FileOK
  <1> QED
    BY <1>1, <1>2, <1>3, EditKeeps

\* Every step keeps the invariant.
LEMMA StepKeeps ==
  ASSUME MigrationAssumption, MigrationInv, [Next]_vars
  PROVE  MigrationInv'
  <1>1. CASE UNCHANGED vars
    <2>1. UNCHANGED <<legacy, out, torn, run, litter, edits, cuts>>
      BY <1>1 DEF vars
    <2>2. /\ Converting => Converting'
          /\ Verifying => Verifying'
          /\ Concluding => Concluding'
      BY <2>1 DEF Converting, Verifying, Concluding, Present, Conversion
    <2>3. MigrationTypeOK'
      BY <2>1, <2>2, FilesStay DEF MigrationInv, MigrationTypeOK
    <2>4. /\ SourceSeen => SourceSeen'
          /\ DslSeen => DslSeen'
          /\ ReviewsSeen => ReviewsSeen'
          /\ CapabilitiesSeen => CapabilitiesSeen'
      BY <2>1 DEF SourceSeen, DslSeen, ReviewsSeen, CapabilitiesSeen, SourceCurrent, ModuleSound,
        Reviewed, Decided, Present
    <2>5. /\ CasesHold(out["cases"]) => CasesHold(out["cases"])'
          /\ CasesPass(out["module"], out["cases"]) => CasesPass(out["module"], out["cases"])'
      BY <2>1 DEF CasesHold, CasesPass
    <2>6. BehaviorSeen => BehaviorSeen'
      BY <2>1, <2>5 DEF BehaviorSeen, Present
    <2>7. GatesSeen'
      BY <2>1, <2>4, <2>6 DEF MigrationInv, GatesSeen
    <2>8. AllSeen => AllSeen'
      BY <2>1, <2>5 DEF AllSeen, SourceCurrent, ModuleSound, Reviewed, Decided, Present
    <2>9. VerdictSeen'
      BY <2>1, <2>8 DEF MigrationInv, VerdictSeen
    <2>10. PlacedFirst'
      BY <2>1, SMTT(30) DEF MigrationInv, PlacedFirst, Present, Conversion
    <2> QED
      BY <2>1, <2>3, <2>7, <2>9, <2>10, FilesStay DEF MigrationInv
  <1>2. CASE \E s \in DOMAIN Selections, force \in BOOLEAN : Convert(s, force)
    BY <1>2, ConvertKeeps
  <1>3. CASE \E strict \in BOOLEAN : Verify(strict)
    BY <1>3, VerifyKeeps
  <1>4. CASE Place \/ CutOff \/ Collapse \/ Decide \/ Conclude \/ RemoveLitter
    BY <1>4, PlaceKeeps, EndKeeps, DecideKeeps, ConcludeKeeps, RemoveLitterKeeps
  <1>5. CASE CheckSource \/ CheckDsl \/ CheckReviews \/ CheckCapabilities \/ CheckBehavior
    BY <1>5, CheckSourceKeeps, CheckDslKeeps, CheckReviewsKeeps, CheckCapabilitiesKeeps,
       CheckBehaviorKeeps
  <1>6. CASE ChangeSource \/ EditModule \/ ReviewAll \/ DecideCapabilities \/ WriteCases
    BY <1>6, ChangeSourceKeeps, EditModuleKeeps, ReviewAllKeeps, DecideCapabilitiesKeeps,
       WriteCasesKeeps
  <1> QED
    BY <1>1, <1>2, <1>3, <1>4, <1>5, <1>6 DEF Next

\* The invariant holds in every behavior.
LEMMA AlwaysInv == Spec => []MigrationInv
  <1>1. Init => MigrationInv
    BY InitKeeps, MigrationAssumption
  <1>2. MigrationInv /\ [Next]_vars => MigrationInv'
    BY StepKeeps, MigrationAssumption
  <1> QED
    BY <1>1, <1>2, PTL DEF Spec

-----------------------------------------------------------------------------
(***************************************************************************)
(* The theorems                                                            *)
(***************************************************************************)
\* The files of the output directory and the command in progress keep their shape,
\* whatever is cut off, edited or converted anew.
THEOREM MigrationTypeCorrect == Spec => []MigrationTypeOK
  <1>1. MigrationInv => MigrationTypeOK
    BY DEF MigrationInv
  <1> QED
    BY <1>1, AlwaysInv, PTL

\* A verification says "verified" only if it is deserved, unless something changed after
\* the gate that read it: the sources are those of the report, every finding was settled
\* with a reason, the module calls what was approved and nothing else, and it does what
\* the cases ask of it.
THEOREM VerdictIsDeserved == Spec => []VerifiedIsDeserved
  <1>1. MigrationInv => VerifiedIsDeserved
    <2>1. SUFFICES ASSUME MigrationInv, run.does = "conclude", run.result = "verified", ~run.touched
                   PROVE  Deserved
      BY DEF VerifiedIsDeserved
    <2>2. AllSeen
      BY <2>1 DEF MigrationInv, VerdictSeen
    <2>3. Scans[<<legacy, Reports[out["report"]].selection>>] = out["report"]
      BY <2>2 DEF AllSeen, SourceCurrent
    <2>4. \A i \in Reports[out["report"]].items :
            i \in DOMAIN out["approvals"] /\ out["approvals"][i].status # "pending" /\ out["approvals"][i].note
      BY <2>2 DEF AllSeen, Reviewed
    <2>5. /\ \A c \in Modules[out["module"]].capabilities : out["capabilities"][c] = "approved"
          /\ \A c \in Reports[out["report"]].suggested \ Modules[out["module"]].capabilities :
               out["capabilities"][c] = "excluded"
      BY <2>2 DEF AllSeen, Decided
    <2>6. Modules[out["module"]].linted
      BY <2>2 DEF AllSeen, ModuleSound
    <2>7. out["cases"] # <<>> /\ CasesPass(out["module"], out["cases"])
      BY <2>2 DEF AllSeen, CasesHold
    <2> QED
      BY <2>3, <2>4, <2>5, <2>6, <2>7 DEF Deserved
  <1> QED
    BY <1>1, AlwaysInv, PTL

\* No decision is carried over to sources it was not made for: unless a conversion was
\* cut off and not repeated, whoever settled an item of a verified migration had the
\* report of the very sources that were verified.
THEOREM DecisionsAreForTheseSources == Spec => []ReviewsStand
  <1>1. MigrationInv => ReviewsStand
    <2>1. SUFFICES ASSUME MigrationInv, run.does = "conclude", run.result = "verified",
                          ~run.touched, ~torn, NEW i \in DOMAIN out["approvals"]
                   PROVE  out["approvals"][i].seen = <<out["report"]>>
      BY DEF ReviewsStand
    <2>2. AllSeen
      BY <2>1 DEF MigrationInv, VerdictSeen
    <2>3. Present("approvals") /\ out["approvals"][i].status # "pending"
      BY <2>1, <2>2 DEF AllSeen, Reviewed
    <2> QED
      BY <2>1, <2>3 DEF MigrationInv, ApprovalsOfReport
  <1> QED
    BY <1>1, AlwaysInv, PTL

-----------------------------------------------------------------------------
(***************************************************************************)
(* The scaffold.  Numbers are added to names until they are new, so that   *)
(* there is a page for each unit and a slot for each state, whatever was   *)
(* scanned and selected; the page of the unit shows the slot.              *)
(***************************************************************************)
\* Working a function out, or a sequence, changes nothing.
LEMMA TableSame ==
  ASSUME NEW f
  PROVE  TableOf(f) = f
BY DEF TableOf

LEMMA ListSame ==
  ASSUME NEW X, NEW s \in Seq(X)
  PROVE  ListOf(s) = s
BY ConcatEmptySeq DEF ListOf

\* A sequence without repetitions has as many elements as it is long.
LEMMA ElementsCounted ==
  ASSUME NEW X, NEW s \in Seq(X), IsInjective(s)
  PROVE  IsFiniteSet(ToSet(s)) /\ Cardinality(ToSet(s)) = Len(s)
<1>1. Len(s) \in Nat /\ DOMAIN s = 1 .. Len(s) /\ s = [k \in 1 .. Len(s) |-> s[k]]
  BY LenProperties
<1>2. s \in [1 .. Len(s) -> ToSet(s)]
  BY <1>1, ElementIsIn
<1>3. s \in Bijection(1 .. Len(s), ToSet(s))
  BY <1>1, <1>2 DEF Bijection, Injection, Surjection, ToSet
<1>4. ExistsBijection(1 .. Len(s), ToSet(s))
  BY <1>3 DEF ExistsBijection
<1> QED
  BY <1>1, <1>4, FS_NatBijection, FS_CountingElements

\* A name with the first number that makes it new is new, if numbers make
\* different names.
LEMMA FreshIsNew ==
  ASSUME NEW name, NEW used, IsFiniteSet(used), NEW n, n = Cardinality(used) + 1,
         \A j, k \in 1 .. n : Numbered(name, j) = Numbered(name, k) => j = k
  PROVE  /\ Fresh(name, used) \notin used
         /\ \E k \in 1 .. n : Fresh(name, used) = Numbered(name, k)
<1>1. Cardinality(used) \in Nat /\ n \in Nat
  BY FS_CardinalityType
<1> DEFINE f == [k \in 1 .. n |-> Numbered(name, k)]
           New == {k \in 1 .. n : Numbered(name, k) \notin used}
<1>2. New # {}
  <2> SUFFICES ASSUME \A k \in 1 .. n : Numbered(name, k) \in used PROVE FALSE
    OBVIOUS
  <2>1. f \in Injection(1 .. n, used)
    BY DEF Injection, IsInjective
  <2> HIDE DEF f
  <2>2. Cardinality(1 .. n) <= Cardinality(used)
    BY <2>1, FS_Injection
  <2>3. Cardinality(1 .. n) = n
    BY <1>1, FS_Interval
  <2> QED
    BY <1>1, <2>2, <2>3
<1>3. PICK k \in New : \A j \in New : k <= j
  <2>1. New \in SUBSET Nat
    BY <1>1
  <2> HIDE DEF New
  <2> QED
    BY <1>2, <2>1, LeastNumber
<1>4. k \in 1 .. n /\ Numbered(name, k) \notin used /\ \A j \in 1 .. k - 1 : Numbered(name, j) \in used
  <2>1. ASSUME NEW j \in 1 .. k - 1 PROVE Numbered(name, j) \in used
    <3>1. j \in 1 .. n /\ ~(k <= j)
      BY <1>1, <1>3
    <3> QED
      BY <1>3, <3>1
  <2> QED
    BY <2>1
<1> DEFINE Is(i) == Numbered(name, i) \notin used /\ \A j \in 1 .. i - 1 : Numbered(name, j) \in used
           first == CHOOSE i \in 1 .. n : Is(i)
<1>5. Fresh(name, used) = Numbered(name, first)
  BY DEF Fresh
<1>6. first \in 1 .. n /\ Is(first)
  BY <1>4
<1> HIDE DEF first
<1> QED
  BY <1>5, <1>6

-----------------------------------------------------------------------------
\* Lists of different names for the first of those that are wanted.
Wanted(wanted) == wanted \in Seq(ToSet(wanted)) /\ Numberable(wanted)

NumberedNames(wanted) ==
  {Numbered(x[1], x[2]) : x \in ToSet(wanted) \X (1 .. Len(wanted))}

UniqueNames(wanted) ==
  {t \in Seq(NumberedNames(wanted)) : IsInjective(t) /\ Len(t) <= Len(wanted)}

LEMMA WithFreshIsUnique ==
  ASSUME NEW wanted, Wanted(wanted), NEW t \in UniqueNames(wanted), Len(t) < Len(wanted),
         NEW i \in 1 .. Len(wanted)
  PROVE  /\ WithFresh(t, wanted[i]) \in UniqueNames(wanted)
         /\ Len(WithFresh(t, wanted[i])) = Len(t) + 1
<1> DEFINE S == NumberedNames(wanted)
           used == ToSet(t)
           new == Fresh(wanted[i], used)
           n == Len(t) + 1
<1>1. Len(wanted) \in Nat /\ DOMAIN wanted = 1 .. Len(wanted) /\ wanted[i] \in ToSet(wanted)
  BY LenProperties, ElementIsIn DEF Wanted
<1>2. t \in Seq(S) /\ IsInjective(t) /\ Len(t) \in Nat /\ DOMAIN t = 1 .. Len(t)
  BY LenProperties DEF UniqueNames
<1>3. IsFiniteSet(used) /\ Cardinality(used) = Len(t)
  BY <1>2, ElementsCounted
<1>4. n \in Nat /\ 1 .. n \subseteq 1 .. Len(wanted)
  BY <1>1, <1>2
<1>5. \A j, k \in 1 .. n : Numbered(wanted[i], j) = Numbered(wanted[i], k) => j = k
  BY <1>1, <1>4 DEF Wanted, Numberable
<1>6. new \notin used /\ \E k \in 1 .. n : new = Numbered(wanted[i], k)
  <2> HIDE DEF used
  <2>1. n = Cardinality(used) + 1
    BY <1>3
  <2> HIDE DEF n
  <2> QED
    BY <1>3, <1>5, <2>1, FreshIsNew
<1>7. new \in S
  <2>1. PICK k \in 1 .. n : new = Numbered(wanted[i], k)
    BY <1>6
  <2>2. <<wanted[i], k>> \in ToSet(wanted) \X (1 .. Len(wanted))
    BY <1>1, <1>4
  <2> QED
    BY <2>1, <2>2 DEF NumberedNames
<1>8. WithFresh(t, wanted[i]) = Append(t, new)
  BY DEF WithFresh
<1> HIDE DEF new, S
<1>9. /\ Append(t, new) \in Seq(S) /\ Len(Append(t, new)) = Len(t) + 1
      /\ DOMAIN Append(t, new) = 1 .. Len(t) + 1
      /\ \A k \in 1 .. Len(t) : Append(t, new)[k] = t[k]
      /\ Append(t, new)[Len(t) + 1] = new
  BY <1>2, <1>7
<1>10. \A k \in 1 .. Len(t) : t[k] # new
  BY <1>2, <1>6 DEF ToSet
<1>11. IsInjective(Append(t, new))
  <2>1. \A k \in 1 .. Len(t) + 1 : k \in 1 .. Len(t) \/ k = Len(t) + 1
    BY <1>2
  <2> HIDE DEF used
  <2> QED
    BY <1>2, <1>9, <1>10, <2>1 DEF IsInjective
<1>12. Len(t) + 1 <= Len(wanted)
  BY <1>1, <1>2
<1> QED
  BY <1>8, <1>9, <1>11, <1>12 DEF UniqueNames, S

LEMMA UniqueNamesMade ==
  ASSUME NEW wanted, Wanted(wanted)
  PROVE  /\ MadeUnique(wanted) \in UniqueNames(wanted)
         /\ Len(MadeUnique(wanted)) = Len(wanted)
<1> DEFINE S == UniqueNames(wanted)
           L == Len(wanted)
           Turn(t, k) == WithFresh(t, wanted[k])
           step == [x \in Nat \X S |->
                      IF x[1] < L /\ Len(x[2]) < L THEN Turn(x[2], x[1] + 1) ELSE x[2]]
           Body(f) == [k \in 0 .. L |-> IF k = 0 THEN <<>> ELSE Turn(f[k - 1], k)]
<1>1. L \in Nat
  BY LenProperties DEF Wanted
<1>2. <<>> \in S /\ Len(<<>>) = 0
  BY <1>1, EmptySeq DEF UniqueNames, IsInjective
<1>3. ASSUME NEW t \in S, Len(t) < L, NEW k \in 1 .. L
      PROVE  Turn(t, k) \in S /\ Len(Turn(t, k)) = Len(t) + 1
  BY <1>3, WithFreshIsUnique
<1>4. MadeUnique(wanted) = (CHOOSE f : f = Body(f))[L]
  BY DEF MadeUnique
<1>5. \A t \in S : Len(t) \in Nat
  BY LenProperties DEF UniqueNames
<1> HIDE DEF Turn, S, L
<1>6. step \in [Nat \X S -> S]
  <2>1. ASSUME NEW n \in Nat, NEW t \in S
        PROVE (IF n < L /\ Len(t) < L THEN Turn(t, n + 1) ELSE t) \in S
    <3>1. n < L => n + 1 \in 1 .. L
      BY <1>1
    <3> QED
      BY <1>3, <3>1
  <2> QED
    BY <2>1
<1>7. \A n \in Nat : \A t \in S : n < L /\ Len(t) < L => step[<<n, t>>] = Turn(t, n + 1)
  OBVIOUS
<1> HIDE DEF step
<1>8. PICK g \in [Nat -> S] : g[0] = <<>> /\ \A n \in Nat : g[n + 1] = step[<<n, g[n]>>]
  <2>1. \E g : Recurs(S, <<>>, step, g)
    BY <1>2, <1>6, Recursion
  <2> QED
    BY <2>1 DEF Recurs
<1> DEFINE Grown == {k \in Nat : k <= L => Len(g[k]) = k}
<1>9. 0 \in Grown
  BY <1>2, <1>8
<1>10. ASSUME NEW k \in Nat, k \in Grown
       PROVE  k + 1 \in Grown /\ (k < L => g[k + 1] = Turn(g[k], k + 1))
  <2>1. CASE k < L
    <3>1. Len(g[k]) = k /\ g[k] \in S /\ k + 1 \in 1 .. L /\ Len(g[k]) < L
      BY <1>1, <1>8, <1>10, <2>1
    <3>2. g[k + 1] = Turn(g[k], k + 1)
      BY <1>7, <1>8, <2>1, <3>1
    <3>3. Len(g[k + 1]) = k + 1
      BY <1>3, <3>1, <3>2
    <3> QED
      BY <2>1, <3>2, <3>3
  <2>2. CASE ~(k < L)
    <3>1. ~(k + 1 <= L)
      BY <1>1, <2>2
    <3> QED
      BY <2>2, <3>1
  <2> QED
    BY <2>1, <2>2
<1> HIDE DEF Grown
<1>11. Nat \subseteq Grown
  BY <1>9, <1>10, Induction
<1> DEFINE h == [k \in 0 .. L |-> g[k]]
<1>12. h = Body(h)
  <2>1. ASSUME NEW k \in 0 .. L PROVE h[k] = IF k = 0 THEN <<>> ELSE Turn(h[k - 1], k)
    <3>1. CASE k = 0
      BY <1>1, <1>8, <3>1
    <3>2. CASE k # 0
      <4>1. k - 1 \in Nat /\ k - 1 \in 0 .. L /\ (k - 1) + 1 = k /\ k - 1 < L
        BY <1>1, <3>2
      <4>2. g[(k - 1) + 1] = Turn(g[k - 1], (k - 1) + 1)
        BY <1>10, <1>11, <4>1
      <4> QED
        BY <3>2, <4>1, <4>2
    <3> QED
      BY <3>1, <3>2
  <2> QED
    BY <2>1
<1> HIDE DEF h
<1> DEFINE f == CHOOSE f : f = Body(f)
<1>13. f = Body(f)
  BY <1>12
<1>14. MadeUnique(wanted) = f[L]
  BY <1>4
<1> HIDE DEF f
<1>15. \A k \in 0 .. L : f[k] = IF k = 0 THEN <<>> ELSE Turn(f[k - 1], k)
  BY <1>13
<1> DEFINE Kept == {k \in Nat : k <= L => f[k] \in S /\ Len(f[k]) = k}
<1>16. 0 \in Kept
  BY <1>1, <1>2, <1>15
<1>17. ASSUME NEW k \in Nat, k \in Kept PROVE k + 1 \in Kept
  <2> SUFFICES ASSUME k + 1 <= L PROVE f[k + 1] \in S /\ Len(f[k + 1]) = k + 1
    OBVIOUS
  <2>1. /\ f[k] \in S /\ Len(f[k]) = k /\ k + 1 \in 0 .. L /\ k + 1 # 0 /\ (k + 1) - 1 = k
        /\ k + 1 \in 1 .. L /\ Len(f[k]) < L
    BY <1>1, <1>17
  <2>2. f[k + 1] = Turn(f[k], k + 1)
    BY <1>15, <2>1
  <2> QED
    BY <1>3, <2>1, <2>2
<1> HIDE DEF Kept
<1>18. Nat \subseteq Kept
  BY <1>16, <1>17, Induction
<1>19. f[L] \in S /\ Len(f[L]) = L
  BY <1>1, <1>18 DEF Kept
<1> QED
  BY <1>14, <1>19 DEF S, L

-----------------------------------------------------------------------------
\* Sequences without repetitions that share nothing are joined to one without.
LEMMA ConcatInjective ==
  ASSUME NEW X, NEW a \in Seq(X), NEW b \in Seq(X), IsInjective(a), IsInjective(b),
         ToSet(a) \cap ToSet(b) = {}
  PROVE  IsInjective(a \o b)
<1>1. Len(a) \in Nat /\ Len(b) \in Nat /\ DOMAIN a = 1 .. Len(a) /\ DOMAIN b = 1 .. Len(b)
  BY LenProperties
<1>2. /\ DOMAIN (a \o b) = 1 .. Len(a) + Len(b)
      /\ \A i \in 1 .. Len(a) + Len(b) :
           (a \o b)[i] = IF i <= Len(a) THEN a[i] ELSE b[i - Len(a)]
  BY ConcatProperties, LenProperties
<1> SUFFICES ASSUME NEW i \in 1 .. Len(a) + Len(b), NEW j \in 1 .. Len(a) + Len(b),
                    (a \o b)[i] = (a \o b)[j]
             PROVE  i = j
  BY <1>2 DEF IsInjective
<1>3. \A k \in 1 .. Len(a) + Len(b) :
        \/ k \in DOMAIN a /\ (a \o b)[k] = a[k]
        \/ k - Len(a) \in DOMAIN b /\ (a \o b)[k] = b[k - Len(a)]
  <2> SUFFICES ASSUME NEW k \in 1 .. Len(a) + Len(b)
               PROVE  \/ k \in DOMAIN a /\ (a \o b)[k] = a[k]
                      \/ k - Len(a) \in DOMAIN b /\ (a \o b)[k] = b[k - Len(a)]
    OBVIOUS
  <2>1. CASE k <= Len(a)
    <3>1. k \in DOMAIN a
      BY <1>1, <2>1
    <3> QED
      BY <1>2, <2>1, <3>1
  <2>2. CASE ~(k <= Len(a))
    <3>1. k - Len(a) \in DOMAIN b
      BY <1>1, <2>2
    <3> QED
      BY <1>2, <2>2, <3>1
  <2> QED
    BY <2>1, <2>2
<1>4. \A m \in DOMAIN a, n \in DOMAIN b : a[m] # b[n]
  BY ElementIsIn
<1>5. CASE i \in DOMAIN a /\ (a \o b)[i] = a[i] /\ j \in DOMAIN a /\ (a \o b)[j] = a[j]
  BY <1>5 DEF IsInjective
<1>6. CASE /\ i - Len(a) \in DOMAIN b /\ (a \o b)[i] = b[i - Len(a)]
           /\ j - Len(a) \in DOMAIN b /\ (a \o b)[j] = b[j - Len(a)]
  <2>1. i - Len(a) = j - Len(a)
    BY <1>6 DEF IsInjective
  <2> QED
    BY <1>1, <2>1
<1> QED
  BY <1>3, <1>4, <1>5, <1>6

LEMMA FlattenInjective ==
  ASSUME NEW X, NEW ss \in Seq(Seq(X)), \A k \in DOMAIN ss : IsInjective(ss[k]),
         \A j, k \in DOMAIN ss : j # k => ToSet(ss[j]) \cap ToSet(ss[k]) = {}
  PROVE  IsInjective(FlattenSeq(ss))
<1>1. PICK f : Joins(X, ss, f)
  BY FlattenFunction
<1>2. Len(ss) \in Nat /\ DOMAIN ss = 1 .. Len(ss) /\ \A k \in 1 .. Len(ss) : ss[k] \in Seq(X)
  BY LenProperties
<1> DEFINE Prefix(k) == UNION {ToSet(ss[i]) : i \in 1 .. k}
           Good == {k \in Nat : k <= Len(ss) => ToSet(f[k]) = Prefix(k) /\ IsInjective(f[k])}
<1>3. 0 \in Good
  BY <1>1 DEF Joins, ToSet, IsInjective
<1>4. ASSUME NEW k \in Nat, k \in Good PROVE k + 1 \in Good
  <2> SUFFICES ASSUME k + 1 <= Len(ss) PROVE ToSet(f[k + 1]) = Prefix(k + 1) /\ IsInjective(f[k + 1])
    OBVIOUS
  <2>1. k + 1 \in 1 .. Len(ss) /\ (k + 1) - 1 = k /\ k \in 0 .. Len(ss)
    BY <1>2
  <2>2. /\ f[k] \in Seq(X) /\ ss[k + 1] \in Seq(X)
        /\ f[k + 1] = f[k] \o ss[k + 1] /\ ToSet(f[k]) = Prefix(k) /\ IsInjective(f[k])
    <3>1. f[k] \in Seq(X) /\ ss[k + 1] \in Seq(X)
      BY <1>1, <1>2, <2>1 DEF Joins
    <3>2. f[k + 1] = f[(k + 1) - 1] \o ss[k + 1]
      BY <1>1, <2>1 DEF Joins
    <3>3. ToSet(f[k]) = Prefix(k) /\ IsInjective(f[k])
      BY <1>2, <1>4, <2>1
    <3> QED
      BY <2>1, <3>1, <3>2, <3>3
  <2>3. ToSet(f[k] \o ss[k + 1]) = ToSet(f[k]) \cup ToSet(ss[k + 1])
    BY <2>2, ConcatElements
  <2>4. Prefix(k + 1) = Prefix(k) \cup ToSet(ss[k + 1])
    <3>1. 1 .. k + 1 = (1 .. k) \cup {k + 1}
      OBVIOUS
    <3> QED
      BY <3>1
  <2>5. Prefix(k) \cap ToSet(ss[k + 1]) = {}
    <3>1. \A i \in 1 .. k : i \in DOMAIN ss /\ k + 1 \in DOMAIN ss /\ i # k + 1
      BY <1>2, <2>1
    <3>2. \A i \in 1 .. k : ToSet(ss[i]) \cap ToSet(ss[k + 1]) = {}
      BY <3>1
    <3> QED
      BY <3>2
  <2>6. IsInjective(ss[k + 1])
    BY <1>2, <2>1
  <2>7. IsInjective(f[k] \o ss[k + 1])
    <3> DEFINE a == f[k]
               b == ss[k + 1]
    <3>1. a \in Seq(X) /\ b \in Seq(X) /\ IsInjective(a) /\ IsInjective(b) /\ ToSet(a) \cap ToSet(b) = {}
      BY <2>2, <2>5, <2>6
    <3> HIDE DEF a, b
    <3> QED
      BY <3>1, ConcatInjective DEF a, b
  <2> QED
    BY <2>2, <2>3, <2>4, <2>7
<1> HIDE DEF Good
<1>5. Nat \subseteq Good
  BY <1>3, <1>4, Induction
<1>6. IsInjective(f[Len(ss)])
  <2>1. Len(ss) \in Good /\ Len(ss) <= Len(ss)
    BY <1>2, <1>5
  <2> QED
    BY <2>1 DEF Good
<1> QED
  BY <1>1, <1>6 DEF Joins

-----------------------------------------------------------------------------
IsReport(report) ==
  IsList(report.units) /\ \A u \in DOMAIN report.units : IsList(report.units[u].states)

\* Every state of every unit has a place of its own.
LEMMA PlacesOf ==
  ASSUME NEW report, IsReport(report)
  PROVE  /\ IsList(Places(report)) /\ IsInjective(Places(report))
         /\ ToSet(Places(report))
              = UNION {{<<u, s>> : s \in DOMAIN report.units[u].states} : u \in DOMAIN report.units}
<1> DEFINE units == report.units
           States(u) == units[u].states
           Own(u) == [s \in DOMAIN States(u) |-> <<u, s>>]
           X == (DOMAIN units) \X Nat
           ss == [u \in DOMAIN units |-> Own(u)]
<1>1. Len(units) \in Nat /\ DOMAIN units = 1 .. Len(units)
  BY LenProperties DEF IsReport, IsList
<1>2. ASSUME NEW u \in DOMAIN units
      PROVE  /\ Own(u) \in Seq(X) /\ IsInjective(Own(u))
             /\ ToSet(Own(u)) = {<<u, s>> : s \in DOMAIN States(u)}
             /\ \A p \in ToSet(Own(u)) : p[1] = u
  <2>1. States(u) \in Seq(ToSet(States(u)))
    BY DEF IsReport, IsList
  <2> HIDE DEF States
  <2>2. Len(States(u)) \in Nat /\ DOMAIN States(u) = 1 .. Len(States(u))
    BY <2>1, LenProperties
  <2>3. Own(u) \in [1 .. Len(States(u)) -> X]
    BY <2>2
  <2>4. Own(u) \in Seq(X)
    BY <2>2, <2>3, FunctionIsSeq
  <2>5. IsInjective(Own(u)) /\ ToSet(Own(u)) = {<<u, s>> : s \in DOMAIN States(u)}
    BY DEF IsInjective, ToSet
  <2> QED
    BY <2>4, <2>5
<1>3. Places(report) = FlattenSeq(ss)
  BY DEF Places
<1> HIDE DEF Own, X
<1>4. ss \in [1 .. Len(units) -> Seq(X)]
  BY <1>1, <1>2
<1>5. ss \in Seq(Seq(X)) /\ DOMAIN ss = DOMAIN units /\ \A u \in DOMAIN units : ss[u] = Own(u)
  <2> DEFINE SX == Seq(X)
  <2>1. ss \in [1 .. Len(units) -> SX]
    BY <1>4
  <2> HIDE DEF ss, SX
  <2>2. ss \in Seq(SX)
    BY <1>1, <2>1, FunctionIsSeq
  <2> QED
    BY <2>2 DEF ss, SX
<1> HIDE DEF ss
<1>6. IsInjective(FlattenSeq(ss))
  <2>1. \A k \in DOMAIN ss : IsInjective(ss[k])
    BY <1>2, <1>5
  <2>2. \A j, k \in DOMAIN ss : j # k => ToSet(ss[j]) \cap ToSet(ss[k]) = {}
    BY <1>2, <1>5
  <2> QED
    BY <1>5, <2>1, <2>2, FlattenInjective
<1>7. /\ FlattenSeq(ss) \in Seq(X)
      /\ ToSet(FlattenSeq(ss)) = UNION {ToSet(ss[k]) : k \in DOMAIN ss}
  BY <1>5, FlattenElements
<1>8. IsList(FlattenSeq(ss))
  <2> DEFINE t == FlattenSeq(ss)
  <2> HIDE DEF t
  <2>1. Len(t) \in Nat /\ t = [k \in 1 .. Len(t) |-> t[k]] /\ DOMAIN t = 1 .. Len(t)
    BY <1>7, LenProperties DEF t
  <2>2. t \in [1 .. Len(t) -> ToSet(t)]
    BY <2>1, ElementIsIn
  <2> QED
    BY <2>1, <2>2, FunctionIsSeq DEF IsList, t
<1>9. UNION {ToSet(ss[k]) : k \in DOMAIN ss}
        = UNION {{<<u, s>> : s \in DOMAIN States(u)} : u \in DOMAIN units}
  BY <1>2, <1>5
<1> QED
  BY <1>3, <1>6, <1>7, <1>8, <1>9

\* The names of pages and of states: as many as there are, and no two alike.
LEMMA NamesMade ==
  ASSUME NEW wanted, NEW n \in Nat, DOMAIN wanted = 1 .. n, Len(wanted) = n,
         wanted = [k \in 1 .. n |-> wanted[k]], Numberable(wanted),
         NEW names, names = MadeUnique(wanted)
  PROVE  IsList(names) /\ IsInjective(names) /\ DOMAIN names = 1 .. n /\ Len(names) = n
<1>1. wanted \in [1 .. n -> ToSet(wanted)]
  BY ElementIsIn
<1>2. Wanted(wanted)
  BY <1>1, FunctionIsSeq DEF Wanted
<1>3. names \in Seq(NumberedNames(wanted)) /\ IsInjective(names) /\ Len(names) = n
  BY <1>2, UniqueNamesMade DEF UniqueNames
<1>4. DOMAIN names = 1 .. n /\ names = [k \in 1 .. n |-> names[k]]
  BY <1>3, LenProperties
<1>5. names \in [1 .. n -> ToSet(names)]
  BY <1>4, ElementIsIn
<1> QED
  BY <1>3, <1>4, <1>5, FunctionIsSeq DEF IsList

LEMMA ScaffoldNames ==
  ASSUME NEW report, IsReport(report),
         Numberable(PagesWanted(report)), Numberable(StatesWanted(report)),
         NEW pages, pages = PageNamesOf(report), NEW names, names = StateNamesOf(report)
  PROVE  /\ IsList(pages) /\ IsInjective(pages)
         /\ DOMAIN pages = DOMAIN report.units /\ Len(pages) = Len(report.units)
         /\ IsList(names) /\ IsInjective(names)
         /\ DOMAIN names = DOMAIN Places(report) /\ Len(names) = Len(Places(report))
<1>1. Len(report.units) \in Nat /\ DOMAIN report.units = 1 .. Len(report.units)
  BY LenProperties DEF IsReport, IsList
<1>2. Len(Places(report)) \in Nat /\ DOMAIN Places(report) = 1 .. Len(Places(report))
  BY PlacesOf, LenProperties DEF IsList
<1>3. ASSUME NEW w, NEW n \in Nat, w = [k \in 1 .. n |-> w[k]]
      PROVE  DOMAIN w = 1 .. n /\ Len(w) = n
  <2>1. DOMAIN w = 1 .. n
    BY <1>3
  <2> QED
    BY <2>1, <1>3
<1> DEFINE pw == PagesWanted(report)
           sw == StatesWanted(report)
<1>4. pw = [k \in 1 .. Len(report.units) |-> pw[k]]
  BY <1>1 DEF PagesWanted
<1>5. sw = [k \in 1 .. Len(Places(report)) |-> sw[k]]
  BY <1>2 DEF StatesWanted
<1>6. pages = MadeUnique(pw) /\ names = MadeUnique(sw)
  BY DEF PageNamesOf, StateNamesOf
<1> HIDE DEF pw, sw
<1>7. DOMAIN pw = 1 .. Len(report.units) /\ Len(pw) = Len(report.units)
  BY <1>1, <1>3, <1>4
<1>8. DOMAIN sw = 1 .. Len(Places(report)) /\ Len(sw) = Len(Places(report))
  BY <1>2, <1>3, <1>5
<1>9. Numberable(pw) /\ Numberable(sw)
  BY DEF pw, sw
<1>10. IsList(pages) /\ IsInjective(pages) /\ DOMAIN pages = 1 .. Len(report.units) /\ Len(pages) = Len(report.units)
  BY <1>1, <1>4, <1>6, <1>7, <1>9, NamesMade
<1>11. IsList(names) /\ IsInjective(names) /\ DOMAIN names = 1 .. Len(Places(report)) /\ Len(names) = Len(Places(report))
  BY <1>2, <1>5, <1>6, <1>8, <1>9, NamesMade
<1> QED
  BY <1>1, <1>2, <1>10, <1>11

\* The node that shows a state refers to the state's new name.
LEMMA PageShowsState ==
  ASSUME NEW report, NEW names, NEW page, NEW u \in DOMAIN report.units,
         IsList(report.units[u].states), NEW s \in DOMAIN report.units[u].states
  PROVE  ScaffoldPage(report, names, page, u)[s + 2].props["text"][2].of
           = NameAt(report, names, <<u, s>>)
<1> DEFINE unit == report.units[u]
           states == unit.states
           Shown(k) == TextNode(page \o "_state_" \o ToString(k),
                         <<Literal(unit.states[k].name \o ": "),
                           Reference(NameAt(report, names, <<u, k>>))>>)
           shown == [k \in DOMAIN states |-> Shown(k)]
           root  == [id    |-> page \o "_root", type |-> "column", events |-> [x \in {} |-> x],
                     props |-> [accessibility_label |-> <<Literal("Migrated " \o unit.name)>>],
                     level |-> 1]
           title == TextNode(page \o "_title", <<Literal(unit.name)>>)
           Y == {Shown(k) : k \in DOMAIN states} \cup {root, title}
<1>1. ScaffoldPage(report, names, page, u) = <<root, title>> \o shown
  BY DEF ScaffoldPage
<1>2. Shown(s).props["text"][2].of = NameAt(report, names, <<u, s>>)
  BY DEF TextNode, Reference
<1>3. Len(states) \in Nat /\ DOMAIN states = 1 .. Len(states)
  BY LenProperties DEF IsList
<1> HIDE DEF Shown, root, title, states
<1>4. shown \in [1 .. Len(states) -> Y] /\ shown[s] = Shown(s) /\ root \in Y /\ title \in Y
  BY <1>3 DEF states
<1> HIDE DEF shown, Y
<1>5. shown \in Seq(Y) /\ Len(shown) = Len(states)
  BY <1>3, <1>4, FunctionIsSeq
<1>6. <<root, title>> \in Seq(Y) /\ Len(<<root, title>>) = 2
  BY <1>4
<1>7. (<<root, title>> \o shown)[s + 2] = shown[s]
  <2> DEFINE front == <<root, title>>
  <2>1. s + 2 \in 1 .. 2 + Len(shown) /\ ~(s + 2 <= 2) /\ (s + 2) - 2 = s
    BY <1>3, <1>5 DEF states
  <2>2. front \in Seq(Y) /\ Len(front) = 2
    BY <1>6
  <2> HIDE DEF front
  <2>3. \A i \in 1 .. Len(front) + Len(shown) :
          (front \o shown)[i] = IF i <= Len(front) THEN front[i] ELSE shown[i - Len(front)]
    <3>1. front \in Seq(Y) /\ shown \in Seq(Y)
      BY <1>5, <2>2
    <3> QED
      BY <3>1, ConcatProperties
  <2>4. (front \o shown)[s + 2] = shown[s]
    BY <2>1, <2>2, <2>3
  <2> QED
    BY <2>4 DEF front
<1> QED
  BY <1>1, <1>2, <1>4, <1>7

\* What a scaffold is made of.
LEMMA ScaffoldParts ==
  ASSUME NEW report, NEW pages, NEW names, NEW source, source = ScaffoldWith(report, pages, names)
  PROVE  /\ DOMAIN source.pages = ToSet(pages) /\ DOMAIN source.state = ToSet(names)
         /\ \A n \in ToSet(pages) :
              source.pages[n]
                = ScaffoldPage(report, names, n, CHOOSE k \in DOMAIN pages : pages[k] = n)
         /\ \A n \in ToSet(names) :
              source.state[n].initial = StateAt(report, PlaceOf(report, names, n)).initial
<1> DEFINE ps == [n \in ToSet(pages) |->
                    ScaffoldPage(report, names, n, CHOOSE k \in DOMAIN pages : pages[k] = n)]
           ns == [n \in ToSet(names) |-> ScaffoldState(report, pages, PlaceOf(report, names, n))]
<1>1. source.pages = ps /\ source.state = ns
  BY TableSame DEF ScaffoldWith
<1>2. \A n \in ToSet(names) : ns[n].initial = StateAt(report, PlaceOf(report, names, n)).initial
  BY DEF ScaffoldState
<1> QED
  BY <1>1, <1>2

KeepsAll(report, source) ==
  LET places == ToSet(Places(report))
      Name(p) == ShownName(source, report, p)
  IN  /\ Cardinality(DOMAIN source.pages) = Len(report.units)
      /\ DOMAIN source.state = {Name(p) : p \in places}
      /\ Cardinality(DOMAIN source.state) = Cardinality(places)
      /\ \A p \in places : source.state[Name(p)].initial = StateAt(report, p).initial

LEMMA ScaffoldKeeps ==
  ASSUME NEW report, IsReport(report),
         Numberable(PagesWanted(report)), Numberable(StatesWanted(report)),
         NEW source, source = ScaffoldWith(report, PageNamesOf(report), StateNamesOf(report))
  PROVE  KeepsAll(report, source)
<1> DEFINE pages  == PageNamesOf(report)
           names  == StateNamesOf(report)
           places == Places(report)
<1>1. /\ IsList(pages) /\ IsInjective(pages)
      /\ DOMAIN pages = DOMAIN report.units /\ Len(pages) = Len(report.units)
      /\ IsList(names) /\ IsInjective(names)
      /\ DOMAIN names = DOMAIN places /\ Len(names) = Len(places)
  BY ScaffoldNames
<1>2. /\ DOMAIN source.pages = ToSet(pages) /\ DOMAIN source.state = ToSet(names)
      /\ \A n \in ToSet(pages) :
           source.pages[n]
             = ScaffoldPage(report, names, n, CHOOSE k \in DOMAIN pages : pages[k] = n)
      /\ \A n \in ToSet(names) :
           source.state[n].initial = StateAt(report, PlaceOf(report, names, n)).initial
  BY ScaffoldParts
<1>3. /\ IsList(places) /\ IsInjective(places)
      /\ ToSet(places)
           = UNION {{<<u, s>> : s \in DOMAIN report.units[u].states} : u \in DOMAIN report.units}
  BY PlacesOf
<1>4. Cardinality(DOMAIN source.pages) = Len(report.units)
  BY <1>1, <1>2, ElementsCounted DEF IsList
<1>5. Cardinality(DOMAIN source.state) = Cardinality(ToSet(places))
  BY <1>1, <1>2, <1>3, ElementsCounted DEF IsList
<1> HIDE DEF names, places
<1>6. ASSUME NEW k \in DOMAIN places
      PROVE  NameAt(report, names, places[k]) = names[k] /\ PlaceOf(report, names, names[k]) = places[k]
  <2> DEFINE Here(j) == places[j] = places[k]
             Bears(j) == names[j] = names[k] /\ \A i \in j + 1 .. Len(names) : names[i] # names[k]
  <2>1. NameAt(report, names, places[k]) = names[CHOOSE j \in DOMAIN names : Here(j)]
    BY DEF NameAt, places
  <2>2. PlaceOf(report, names, names[k]) = places[CHOOSE j \in DOMAIN names : Bears(j)]
    BY DEF PlaceOf, places
  <2>3. k \in DOMAIN names /\ Here(k) /\ \A j \in DOMAIN names : Here(j) => j = k
    BY <1>1, <1>3 DEF IsInjective
  <2>4. Len(names) \in Nat /\ DOMAIN names = 1 .. Len(names)
    BY <1>1, LenProperties DEF IsList
  <2>5. \A i \in k + 1 .. Len(names) : i \in DOMAIN names /\ i # k
    BY <2>3, <2>4
  <2>6. Bears(k)
    BY <1>1, <2>3, <2>5 DEF IsInjective
  <2>7. \A j \in DOMAIN names : Bears(j) => j = k
    BY <1>1, <2>3 DEF IsInjective
  <2> HIDE DEF Here, Bears
  <2>8. (CHOOSE j \in DOMAIN names : Here(j)) = k
    BY <2>3
  <2>9. (CHOOSE j \in DOMAIN names : Bears(j)) = k
    BY <2>3, <2>6, <2>7
  <2> QED
    BY <2>1, <2>2, <2>8, <2>9
<1>7. ASSUME NEW k \in DOMAIN places
      PROVE  ShownName(source, report, places[k]) = names[k]
  <2>1. places[k] \in ToSet(places)
    BY ElementIsIn
  <2>2. PICK u \in DOMAIN report.units : places[k] \in {<<u, s>> : s \in DOMAIN report.units[u].states}
    BY <1>3, <2>1
  <2>3. PICK s \in DOMAIN report.units[u].states : places[k] = <<u, s>>
    BY <2>2
  <2>4. pages[u] \in ToSet(pages) /\ u \in DOMAIN pages
    BY <1>1, ElementIsIn
  <2>5. (CHOOSE j \in DOMAIN pages : pages[j] = pages[u]) = u
    BY <1>1, <2>4 DEF IsInjective
  <2>6. source.pages[pages[u]] = ScaffoldPage(report, names, pages[u], u)
    BY <1>2, <2>4, <2>5
  <2>7. ScaffoldPage(report, names, pages[u], u)[s + 2].props["text"][2].of
          = NameAt(report, names, <<u, s>>)
    BY PageShowsState DEF IsReport
  <2>8. ShownName(source, report, places[k]) = source.pages[pages[u]][s + 2].props["text"][2].of
    BY <2>3 DEF ShownName
  <2> QED
    BY <1>6, <2>3, <2>6, <2>7, <2>8
<1>8. ASSUME NEW k \in DOMAIN places
      PROVE  source.state[names[k]].initial = StateAt(report, places[k]).initial
  <2>1. names[k] \in ToSet(names)
    BY <1>1, ElementIsIn
  <2> QED
    BY <1>2, <1>6, <2>1
<1>9. \A p \in ToSet(places) : \E k \in DOMAIN places : p = places[k]
  BY DEF ToSet
<1>10. DOMAIN source.state = {ShownName(source, report, p) : p \in ToSet(places)}
  <2>1. ToSet(names) = {names[k] : k \in DOMAIN places}
    BY <1>1 DEF ToSet
  <2>2. {ShownName(source, report, p) : p \in ToSet(places)}
          = {ShownName(source, report, places[k]) : k \in DOMAIN places}
    BY <1>9, ElementIsIn
  <2>3. {ShownName(source, report, places[k]) : k \in DOMAIN places} = {names[k] : k \in DOMAIN places}
    BY <1>7
  <2> QED
    BY <1>2, <2>1, <2>2, <2>3
<1>11. \A p \in ToSet(places) :
         source.state[ShownName(source, report, p)].initial = StateAt(report, p).initial
  BY <1>7, <1>8, <1>9
<1> QED
  BY <1>4, <1>5, <1>10, <1>11 DEF KeepsAll, places

-----------------------------------------------------------------------------
\* What is made of each element of a list is a list again.
LEMMA ListMade ==
  ASSUME NEW X, NEW s \in Seq(X), NEW g, g = [k \in DOMAIN s |-> g[k]]
  PROVE  ListOf(g) = g /\ IsList(g)
<1>1. Len(s) \in Nat /\ DOMAIN s = 1 .. Len(s)
  BY LenProperties
<1>2. DOMAIN g = 1 .. Len(s) /\ g = [k \in 1 .. Len(s) |-> g[k]]
  BY <1>1
<1>3. g \in [1 .. Len(s) -> ToSet(g)]
  BY <1>2, ElementIsIn
<1>4. g \in Seq(ToSet(g))
  BY <1>1, <1>3, FunctionIsSeq
<1> QED
  BY <1>4, ListSame DEF IsList

LEMMA StatesOfText ==
  ASSUME NEW text, IsList(text.states)
  PROVE  IsList(StatesOf(text))
<1> DEFINE good  == {s \in ToSet(text.states) : s.name \notin Sensitive /\ Parsed(s) # <<>>}
           kept  == Among(text.states, good)
           first == {k \in DOMAIN kept : \A j \in 1 .. k - 1 : kept[j].name # kept[k].name}
           numbers == [k \in DOMAIN kept |-> k]
           order == Among(numbers, first)
           found == [k \in DOMAIN order |-> Parsed(kept[order[k]])[1] @@
                                     [name |-> kept[order[k]].name, line |-> kept[order[k]].line]]
<1>1. StatesOf(text) = ListOf(found)
  BY DEF StatesOf
<1> HIDE DEF good
<1>2. kept \in Seq(ToSet(text.states))
  BY AmongElements DEF IsList
<1> HIDE DEF kept
<1>3. Len(kept) \in Nat /\ DOMAIN kept = 1 .. Len(kept)
  BY <1>2, LenProperties
<1>4. numbers \in Seq(Nat)
  <2>1. numbers \in [1 .. Len(kept) -> Nat]
    BY <1>3
  <2> QED
    BY <1>3, <2>1, FunctionIsSeq
<1> HIDE DEF numbers, first
<1>5. order \in Seq(Nat)
  BY <1>4, AmongElements
<1> HIDE DEF order
<1>6. found = [k \in DOMAIN order |-> found[k]]
  OBVIOUS
<1> HIDE DEF found
<1>7. ListOf(found) = found /\ IsList(found)
  BY <1>5, <1>6, ListMade
<1> QED
  BY <1>1, <1>7

LEMMA ElementsFinite ==
  ASSUME NEW X, NEW s \in Seq(X)
  PROVE  IsFiniteSet(ToSet(s))
<1>1. Len(s) \in Nat /\ DOMAIN s = 1 .. Len(s) /\ s = [k \in 1 .. Len(s) |-> s[k]]
  BY LenProperties
<1>2. s \in [1 .. Len(s) -> ToSet(s)]
  BY <1>1, ElementIsIn
<1>3. s \in Surjection(1 .. Len(s), ToSet(s))
  BY <1>1, <1>2 DEF Surjection, ToSet
<1> QED
  BY <1>1, <1>3, FS_NatSurjection DEF ExistsSurjection

\* The units of a tree come with the lists of their states.
LEMMA UnitsOfTree ==
  ASSUME NEW tree, IsTree(tree)
  PROVE  /\ \A u \in ToSet(Units(tree)) : IsList(u.text.states)
         /\ IsFiniteSet(ToSet(Units(tree)))
<1> DEFINE sources  == {f \in ToSet(tree) : f.kind = "source"}
           readable == Among(tree, sources)
           X        == UNION {ToSet(UnitsOfFile(f)) : f \in ToSet(tree)}
           ss       == [k \in DOMAIN readable |-> UnitsOfFile(readable[k])]
<1>1. readable \in Seq(ToSet(tree))
  BY AmongElements DEF IsTree, IsList
<1>2. ASSUME NEW f \in ToSet(tree)
      PROVE  UnitsOfFile(f) \in Seq(X) /\ \A u \in ToSet(UnitsOfFile(f)) : IsList(u.text.states)
  <2>1. /\ IsList(f.whole.states) /\ f.declarations \in Seq(ToSet(f.declarations))
        /\ \A d \in ToSet(f.declarations) : IsList(d.states)
    BY DEF IsTree, IsList
  <2>2. ToSet(UnitsOfFile(f)) \subseteq X
    OBVIOUS
  <2> DEFINE n == IF f.declarations = <<>> THEN 1 ELSE Len(f.declarations)
             units == UnitsOfFile(f)
  <2> HIDE DEF X
  <2>3. n \in Nat /\ units = [k \in 1 .. n |-> units[k]] /\ \A k \in 1 .. n : IsList(units[k].text.states)
    <3>1. CASE f.declarations = <<>>
      <4>1. units = <<Unit(f, f.stem, 1, f.stem, f.whole)>>
        BY <3>1 DEF UnitsOfFile
      <4>2. units = [k \in 1 .. 1 |-> units[k]] /\ units[1].text = f.whole
        BY <4>1 DEF Unit
      <4> QED
        BY <2>1, <3>1, <4>2
    <3>2. CASE f.declarations # <<>>
      <4>1. Len(f.declarations) \in Nat /\ DOMAIN f.declarations = 1 .. Len(f.declarations)
        BY <2>1, LenProperties
      <4>2. units = [k \in DOMAIN f.declarations |->
                       Unit(f, f.declarations[k].name, f.declarations[k].line,
                            f.package \o f.declarations[k].name, f.declarations[k])]
        BY <3>2 DEF UnitsOfFile
      <4>3. \A k \in DOMAIN f.declarations : units[k].text = f.declarations[k]
        BY <4>2 DEF Unit
      <4>4. \A k \in DOMAIN f.declarations : IsList(f.declarations[k].states)
        BY <2>1, ElementIsIn
      <4> QED
        BY <3>2, <4>1, <4>2, <4>3, <4>4
    <3> QED
      BY <3>1, <3>2
  <2> HIDE DEF n, units
  <2>4. DOMAIN units = 1 .. n /\ ToSet(units) \subseteq X
    BY <2>2, <2>3 DEF units
  <2>5. units \in [1 .. n -> X]
    BY <2>3, <2>4, ElementIsIn
  <2>6. units \in Seq(X)
    BY <2>3, <2>5, FunctionIsSeq
  <2>7. \A u \in ToSet(units) : IsList(u.text.states)
    BY <2>3, <2>4 DEF ToSet
  <2> QED
    BY <2>6, <2>7 DEF units
<1> HIDE DEF readable, X
<1>3. Len(readable) \in Nat /\ DOMAIN readable = 1 .. Len(readable)
      /\ \A k \in 1 .. Len(readable) : readable[k] \in ToSet(tree)
  BY <1>1, LenProperties
<1>4. ss \in Seq(Seq(X)) /\ DOMAIN ss = DOMAIN readable
  <2> DEFINE SX == Seq(X)
  <2>1. ss \in [1 .. Len(readable) -> SX]
    BY <1>2, <1>3
  <2> HIDE DEF ss, SX
  <2>2. ss \in Seq(SX)
    BY <1>3, <2>1, FunctionIsSeq
  <2>3. DOMAIN ss = DOMAIN readable
    BY DEF ss
  <2> QED
    BY <2>2, <2>3 DEF SX
<1>5. Units(tree) = FlattenSeq(ss)
  BY DEF Units, readable
<1>6. \A k \in DOMAIN ss : ss[k] = UnitsOfFile(readable[k])
  OBVIOUS
<1> HIDE DEF ss
<1>7. FlattenSeq(ss) \in Seq(X) /\ ToSet(FlattenSeq(ss)) = UNION {ToSet(ss[k]) : k \in DOMAIN ss}
  BY <1>4, FlattenElements
<1>8. IsFiniteSet(ToSet(FlattenSeq(ss)))
  BY <1>7, ElementsFinite
<1> QED
  BY <1>2, <1>3, <1>4, <1>5, <1>6, <1>7, <1>8

\* What is selected was found.
LEMMA ClosedIsFound ==
  ASSUME NEW units, IsFiniteSet(units), NEW chosen \in SUBSET units
  PROVE  Closed(units, chosen) \subseteq units
<1> DEFINE S == SUBSET units
           Extended(before) ==
             before \cup {v \in units : \E u \in before : v.id \in DependenciesOf(units, u)}
           step == [x \in Nat \X S |-> Extended(x[2])]
           Body(f) == [n \in Nat |-> IF n = 0 THEN chosen
                                     ELSE UNION {Extended(before) : before \in {f[n - 1]}}]
<1>1. Closed(units, chosen) = (CHOOSE f : f = Body(f))[Cardinality(units)]
  BY DEF Closed
<1>2. Cardinality(units) \in Nat
  BY FS_CardinalityType
<1>3. \A before \in S : Extended(before) \in S
  OBVIOUS
<1>4. \A n \in Nat : \A before \in S : step[<<n, before>>] = Extended(before)
  OBVIOUS
<1> HIDE DEF Extended
<1>5. step \in [Nat \X S -> S] /\ chosen \in S
  BY <1>3
<1>6. \A x : UNION {Extended(before) : before \in {x}} = Extended(x)
  OBVIOUS
<1> HIDE DEF step, S
<1>7. PICK g : Recurs(S, chosen, step, g)
  BY <1>5, Recursion
<1>8. g \in [Nat -> S] /\ g[0] = chosen /\ \A n \in Nat : g[n + 1] = Extended(g[n])
  BY <1>4, <1>7 DEF Recurs
<1>9. g = Body(g)
  <2>1. ASSUME NEW n \in Nat
        PROVE  g[n] = IF n = 0 THEN chosen ELSE UNION {Extended(before) : before \in {g[n - 1]}}
    <3>1. CASE n = 0
      BY <1>8, <3>1
    <3>2. CASE n # 0
      <4>1. n - 1 \in Nat /\ (n - 1) + 1 = n
        BY <3>2
      <4>2. g[(n - 1) + 1] = Extended(g[n - 1])
        BY <1>8, <4>1
      <4> QED
        BY <1>6, <3>2, <4>1, <4>2
    <3> QED
      BY <3>1, <3>2
  <2> QED
    BY <1>8, <2>1
<1> DEFINE f == CHOOSE f : f = Body(f)
<1>10. f = Body(f)
  BY <1>9
<1>11. Closed(units, chosen) = f[Cardinality(units)]
  BY <1>1
<1> HIDE DEF f
<1>12. \A n \in Nat : f[n] = IF n = 0 THEN chosen ELSE UNION {Extended(before) : before \in {f[n - 1]}}
  BY <1>10
<1>13. f[0] = chosen
  BY <1>12
<1>14. \A n \in Nat : f[n + 1] = Extended(f[n])
  <2> SUFFICES ASSUME NEW n \in Nat PROVE f[n + 1] = Extended(f[n])
    OBVIOUS
  <2>1. n + 1 \in Nat /\ n + 1 # 0 /\ (n + 1) - 1 = n
    OBVIOUS
  <2> QED
    BY <1>6, <1>12, <2>1
<1> DEFINE Kept == {n \in Nat : f[n] \in S}
<1>15. 0 \in Kept
  BY <1>5, <1>13
<1>16. ASSUME NEW n \in Nat, n \in Kept PROVE n + 1 \in Kept
  BY <1>3, <1>14, <1>16
<1> HIDE DEF Kept
<1>17. Nat \subseteq Kept
  BY <1>15, <1>16, Induction
<1>18. f[Cardinality(units)] \in S
  BY <1>2, <1>17 DEF Kept
<1> QED
  BY <1>11, <1>18 DEF S

LEMMA SelectedIsFound ==
  ASSUME NEW units, IsFiniteSet(units), NEW selection
  PROVE  Selected(units, selection) \subseteq units
<1>1. Chosen(units, selection) \in SUBSET units
  <2>1. /\ \A s : ChosenByClass(units, s) \subseteq units
        /\ \A m : ChosenByModule(units, m) \subseteq units
    BY DEF ChosenByClass, ChosenByModule
  <2>2. /\ UNION {ChosenByClass(units, s) : s \in ToSet(selection.classes)} \subseteq units
        /\ UNION {ChosenByModule(units, m) : m \in ToSet(selection.modules)} \subseteq units
    BY <2>1
  <2> DEFINE a == UNION {ChosenByClass(units, s) : s \in ToSet(selection.classes)}
             b == UNION {ChosenByModule(units, m) : m \in ToSet(selection.modules)}
  <2>3. Chosen(units, selection) = units \/ Chosen(units, selection) = a \cup b
    BY DEF Chosen
  <2> HIDE DEF a, b
  <2>4. a \cup b \subseteq units
    BY <2>2 DEF a, b
  <2> QED
    BY <2>3, <2>4
<1> QED
  BY <1>1, ClosedIsFound DEF Selected

\* A scan that is not refused lists its units, and the states of each.
LEMMA ScanIsReport ==
  ASSUME NEW tree, IsTree(tree), NEW selection, Scan(tree, selection) # <<>>
  PROVE  IsReport(Scan(tree, selection)[1])
<1> DEFINE units  == ToSet(Units(tree))
           chosen == Selected(units, selection)
           order  == Among(IdOrder, {u.id : u \in chosen})
           Of(k)  == CHOOSE u \in chosen : u.id = order[k]
           list   == [k \in DOMAIN order |-> Analyzed(units, chosen, Of(k))]
<1>1. Scan(tree, selection)[1].units = ListOf(list)
  BY DEF Scan
<1>2. \A u \in units : IsList(u.text.states)
  BY UnitsOfTree
<1>3. IsFiniteSet(units)
  BY UnitsOfTree
<1> HIDE DEF units
<1>4. chosen \subseteq units
  BY <1>3, SelectedIsFound
<1> HIDE DEF chosen
<1>5. order \in Seq(ToSet(IdOrder)) /\ ToSet(order) \subseteq {u.id : u \in chosen}
  BY TreesAssumption, AmongElements DEF IsList
<1> HIDE DEF order
<1>6. ASSUME NEW k \in DOMAIN order PROVE IsList(StatesOf(Of(k).text))
  <2>1. order[k] \in {u.id : u \in chosen}
    BY <1>5, ElementIsIn
  <2>2. Of(k) \in chosen
    BY <2>1
  <2> HIDE DEF Of
  <2> QED
    BY <1>2, <1>4, <2>2, StatesOfText
<1> HIDE DEF Of
<1>7. \A k \in DOMAIN order : list[k].states = StatesOf(Of(k).text)
  BY DEF Analyzed
<1>8. list = [k \in DOMAIN order |-> list[k]]
  OBVIOUS
<1> HIDE DEF list
<1>9. ListOf(list) = list /\ IsList(list)
  BY <1>5, <1>8, ListMade
<1> QED
  BY <1>1, <1>6, <1>7, <1>8, <1>9 DEF IsReport

-----------------------------------------------------------------------------
\* What the constants of the migration are.
LEMMA ReportsOfScans ==
  ASSUME NEW r \in DOMAIN Reports
  PROVE  /\ IsReport(Reports[r].report)
         /\ Reports[r].scaffold = Scaffold(Reports[r].report)
<1> DEFINE found == [k \in (DOMAIN Trees) \X (DOMAIN Selections) |-> Scan(Trees[k[1]], Selections[k[2]])]
           first == [k \in DOMAIN found |->
                      IF found[k] = <<>> THEN <<>> ELSE CHOOSE j \in DOMAIN found : found[j] = found[k]]
           reports == [q \in Range(first) \ {<<>>} |-> ReportOf(found[q][1], q[2])]
<1>1. Found = found /\ FirstLike(found) = first
  BY TableSame DEF Found, FirstLike
<1>2. Reports = reports
  <2>1. Reports = ReportsOf(found)
    BY <1>1, ConversionAssumption DEF Converted
  <2> HIDE DEF found, first
  <2>2. ReportsOf(found) = TableOf(reports)
    BY <1>1 DEF ReportsOf
  <2> HIDE DEF reports
  <2> QED
    BY <2>1, <2>2, TableSame
<1>3. r \in Range(first) /\ r # <<>>
  BY <1>2
<1>4. PICK k \in DOMAIN found : r = first[k]
  BY <1>3 DEF Range
<1>5. \A j \in DOMAIN found :
        j[1] \in DOMAIN Trees /\ found[j] = Scan(Trees[j[1]], Selections[j[2]])
  OBVIOUS
<1> HIDE DEF found
<1>6. found[k] # <<>> /\ r = CHOOSE j \in DOMAIN found : found[j] = found[k]
  BY <1>3, <1>4
<1>7. r \in DOMAIN found /\ found[r] # <<>>
  BY <1>6
<1>8. IsReport(found[r][1])
  BY <1>5, <1>7, TreesAssumption, ScanIsReport
<1>9. Reports[r] = ReportOf(found[r][1], r[2])
  BY <1>2
<1> QED
  BY <1>8, <1>9 DEF ReportOf

\* The scaffold on disk keeps all.
LEMMA ScaffoldOnDisk ==
  ASSUME NEW r \in DOMAIN Reports, Reports[r].scaffold # <<>>
  PROVE  KeepsAll(Reports[r].report, Modules[<<r, "scaffold">>].source)
<1> DEFINE report == Reports[r].report
           scaffold == Reports[r].scaffold
           source == ScaffoldWith(report, PageNamesOf(report), StateNamesOf(report))
           modules == [m \in {q \in DOMAIN Reports : Reports[q].scaffold # <<>>} \X Changes |->
                         Judged(Changed(m[2], Reports[m[1]].scaffold[1]))]
<1>1. IsReport(report) /\ scaffold = Scaffold(report)
  BY ReportsOfScans
<1>2. scaffold[1] = source
  <2>1. \A x : Compiling(x) # <<>> => Compiling(x)[1] = x
    BY DEF Compiling
  <2>2. Scaffold(report) = Compiling(source)
    BY <1>1 DEF Scaffold
  <2> HIDE DEF source
  <2> QED
    BY <1>1, <2>1, <2>2
<1>3. Modules = modules
  BY ConversionAssumption, TableSame DEF Written, ModulesOf
<1>4. <<r, "scaffold">> \in {q \in DOMAIN Reports : Reports[q].scaffold # <<>>} \X Changes
  BY MigrationAssumption
<1>5. Modules[<<r, "scaffold">>] = Judged(Changed("scaffold", scaffold[1]))
  <2>1. <<r, "scaffold">>[1] = r /\ <<r, "scaffold">>[2] = "scaffold"
    OBVIOUS
  <2> QED
    BY <1>3, <1>4, <2>1
<1>6. Modules[<<r, "scaffold">>].source = Changed("scaffold", scaffold[1]).source
  BY <1>5 DEF Judged
<1>7. Changed("scaffold", scaffold[1]).source = scaffold[1]
  BY TreesAssumption
<1>8. Numberable(PagesWanted(report)) /\ Numberable(StatesWanted(report))
  BY NumberAssumption
<1> HIDE DEF report, scaffold
<1>9. KeepsAll(report, source)
  BY <1>1, <1>8, ScaffoldKeeps
<1> HIDE DEF source
<1> QED
  BY <1>2, <1>6, <1>7, <1>9 DEF report, scaffold

LEMMA LastOfConversion ==
  ASSUME NEW r, NEW k \in 1 .. 6
  PROVE  Last(SubSeq(Conversion(r), k, 6))[2] = <<r, "scaffold">>
<1> DEFINE c == Conversion(r)
           t == SubSeq(c, k, 6)
<1>1. Len(c) = 6 /\ c[6][2] = <<r, "scaffold">>
  BY DEF Conversion
<1>2. c \in Seq({c[i] : i \in 1 .. 6})
  <2>1. c \in [1 .. 6 -> {c[i] : i \in 1 .. 6}]
    BY DEF Conversion
  <2> HIDE DEF c
  <2> QED
    BY <2>1, FunctionIsSeq
<1> HIDE DEF c
<1>3. /\ 7 - k \in Nat /\ 7 - k \in 1 .. 6 - k + 1 /\ k + (7 - k) - 1 = 6 /\ 6 - k + 1 = 7 - k
      /\ k \in 1 .. 6 + 1 /\ 6 \in (k - 1) .. 6
  OBVIOUS
<1>4. Len(t) = 7 - k /\ t[7 - k] = c[6]
  <2> DEFINE X == {c[i] : i \in 1 .. 6}
  <2>1. c \in Seq(X) /\ k \in 1 .. Len(c) + 1 /\ 6 \in (k - 1) .. Len(c)
    BY <1>1, <1>2, <1>3
  <2> HIDE DEF X, t
  <2>2. /\ Len(SubSeq(c, k, 6)) = 6 - k + 1
        /\ \A i \in 1 .. 6 - k + 1 : SubSeq(c, k, 6)[i] = c[k + i - 1]
    BY <2>1, SubSeqProperties
  <2> QED
    BY <1>3, <2>2 DEF t
<1> QED
  BY <1>1, <1>4 DEF Last, c

\* A scaffold that is being written loses none of the states that were found and merges
\* no two: each has a slot of its own, with its initial value, that the page of its unit
\* shows, and each unit has a page of its own.
THEOREM ScaffoldKeepsEveryState == Spec => []ScaffoldKeepsAll
  <1>1. MigrationInv => ScaffoldKeepsAll
    <2>1. SUFFICES ASSUME MigrationInv, run.does = "convert"
                   PROVE  KeepsAll(Reports[Last(run.todo)[2][1]].report,
                                   Modules[Last(run.todo)[2]].source)
      BY DEF ScaffoldKeepsAll, KeepsAll
    <2>2. PICK r \in DOMAIN Reports, k \in 1 .. 6 :
            Reports[r].scaffold # <<>> /\ run.todo = SubSeq(Conversion(r), k, 6)
      BY <2>1 DEF MigrationInv, PlacedFirst
    <2>3. Last(run.todo)[2] = <<r, "scaffold">>
      BY <2>2, LastOfConversion
    <2>4. <<r, "scaffold">>[1] = r
      OBVIOUS
    <2> QED
      BY <2>2, <2>3, <2>4, ScaffoldOnDisk
  <1> QED
    BY <1>1, AlwaysInv, PTL
=============================================================================
