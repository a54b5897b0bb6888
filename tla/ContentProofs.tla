---------------------------- MODULE ContentProofs ----------------------------
(***************************************************************************)
(* The content of a world and what it leaves in the air: PackLifecycle for *)
(* every number of requests, versions and manifests, and, below,           *)
(* Consequences for any turns, passes, relationships, kinds and cap.  The  *)
(* two share no state.                                                     *)
(***************************************************************************)
EXTENDS PackLifecycle, Consequences, FiniteSetTheorems, TLAPS

\* What a request is about at its stage.
Shape(r) ==
    /\ stage[r] \in {"remove", "create", "copy"} => version[r] \in Versions \cap Fitting
    /\ stage[r] \notin {"run", "projected"} => seed[r] = NoSeed
    /\ stage[r] = "projected" => \A p \in PartsOf(version[r]) : seed[r][p] # "none"

\* The structure of a world is seeded as a whole.
BuiltShape == built = NoSeed \/ \A p \in Structure : built[p] # "none"

ShapeInv == TypeOK /\ BuiltShape /\ \A r \in Requests : Shape(r)

ShowFiles == active = Load(disk) /\ catalog = Load(disk)

\* A request that changes the files by itself has brought the registries so far.
FilesAlone(r) ==
    stage[r] \in FileStages /\ alone[r] =>
        /\ \A q \in Requests \ {r} : stage[q] \notin FileStages
        /\ stage[r] = "remove" /\ ~muddled => ShowFiles
        /\ stage[r] \in {"activate", "reactivate", "publish"} => version[r] = Load(disk)
        /\ stage[r] = "publish" => active = Load(disk)

FilesInv == RegistriesShowFiles /\ \A r \in Requests : FilesAlone(r)

\* A run that overlaps no other one is the latest, and the seed is what it has written.
RunAlone(r) ==
    stage[r] \in RunStages /\ alone[r] =>
        /\ \A q \in Requests \ {r} : stage[q] \notin RunStages
        /\ born[r] > latest.born

\* What a run has seeded is what it is for, as long as no other content becomes active.
RunSteady(r) ==
    stage[r] \in {"run", "projected"} /\ ~shaken[r] =>
        /\ stage[r] = "run" => active = version[r]
        /\ \A p \in Parts : seed[r][p] \in {"none", version[r]}

RunInv ==
    /\ latest.born <= births /\ \A r \in Requests : born[r] <= births
    /\ latest.ready /\ ~crossed => \A p \in PartsOf(latest.version) : built[p] = latest.version
    /\ \A r \in Requests : RunAlone(r) /\ RunSteady(r)

\* The rows as they will be when a patch that overlaps nothing is committed.
PatchedPack(r) == IF level[r] = "pack" THEN row[r] ELSE pack
PatchedTemplate(r) == IF level[r] = "pack" THEN template ELSE row[r]

\* Nothing has changed since its gate was asked.
Gated(r) ==
    stage[r] = "patch" /\ alone[r] =>
        /\ \A q \in Requests \ {r} : Idle(q)
        /\ copy[r] = IF level[r] = "pack" THEN pack ELSE template
        /\ Published(PatchedPack(r), PatchedTemplate(r)) => Published(pack, template) \/ Ready

GateInv == \A r \in Requests : Gated(r)

USE PackConstants
----------------------------------------------------------------------------
(* Types *)

LEMMA LoadType == \A d : Load(d) \in Loadable
BY DEF Load, Loadable

LEMMA OverrideType ==
    ASSUME NEW payload \in Overrides, NEW existing \in Overrides, NEW source
    PROVE  Override(payload, existing, source) \in Overrides
<1>. SUFFICES ASSUME NEW f \in Fields
              PROVE  (IF payload[f] = "unset" THEN existing[f]
                      ELSE IF payload[f] = source[f] THEN "unset" ELSE payload[f]) \in Values
    BY DEF Override, Overrides
<1>. QED
    BY DEF Overrides, Values

\* Who is alone from now on when a request begins.
LEMMA Joined ==
    ASSUME NEW r \in Requests, NEW kind, Join(r, kind)
    PROVE  /\ alone' \in [Requests -> BOOLEAN]
           /\ alone'[r] <=> \A q \in Requests \ {r} : stage[q] \notin kind \cup {"patch"}
           /\ \A q \in Requests \ {r} :
                 alone'[q] => alone[q] /\ stage[q] \notin kind \cup {"patch"}
           /\ \A q \in Requests \ {r} :
                 stage[q] \notin kind \cup {"patch"} => (alone'[q] <=> alone[q])
<1>. DEFINE others == {q \in Requests \ {r} : stage[q] \in kind}
            patches == {q \in Requests \ {r} : stage[q] = "patch"}
            A(q) == IF q = r THEN others \cup patches = {}
                             ELSE alone[q] /\ q \notin others \cup patches
<1>1. alone' = [q \in Requests |-> A(q)]
    BY DEF Join
<1>2. \A q \in Requests : A(q) \in BOOLEAN
    OBVIOUS
<1>3. A(r) <=> \A q \in Requests \ {r} : stage[q] \notin kind \cup {"patch"}
    OBVIOUS
<1>4. \A q \in Requests \ {r} : A(q) <=> alone[q] /\ stage[q] \notin kind \cup {"patch"}
    OBVIOUS
<1>5. \A q \in Requests : alone'[q] = A(q)
    BY <1>1
<1>. HIDE DEF A
<1>6. alone' \in [Requests -> BOOLEAN]
    BY <1>1, <1>2
<1>. QED
    BY <1>3, <1>4, <1>5, <1>6

AllStages == {"new", "patch", "done"} \cup FileStages \cup RunStages
Disks == Contents \cup {"gone", "partial"}

\* What a request does to its own rows, the files and the registries.
LEMMA FilesType ==
    ASSUME ShapeInv, NEW r \in Requests,
           NEW s \in AllStages, stage' = [stage EXCEPT ![r] = s],
           NEW v \in Loadable, version' = [version EXCEPT ![r] = v],
           s \in {"remove", "create", "copy"} => v \in Versions \cap Fitting,
           stage[r] \notin RunStages, s \notin RunStages,
           disk' \in Disks, active' \in Loadable, catalog' \in Loadable,
           alone' \in [Requests -> BOOLEAN], muddled' \in BOOLEAN,
           shaken' \in [Requests -> BOOLEAN],
           UNCHANGED <<tables, level, copy, row, born, seed, births, crossed>>
    PROVE  ShapeInv'
<1>1. TypeOK /\ BuiltShape /\ \A q \in Requests : Shape(q)
    BY DEF ShapeInv
<1>2. stage' \in [Requests -> AllStages] /\ version' \in [Requests -> Loadable]
    BY <1>1 DEF TypeOK, AllStages
<1>3. TypeOK'
    BY <1>1, <1>2 DEF TypeOK, tables, AllStages, Disks
<1>4. \A q \in Requests \ {r} : stage'[q] = stage[q] /\ version'[q] = version[q]
    BY <1>1 DEF TypeOK
<1>5. stage'[r] = s /\ version'[r] = v
    BY <1>1 DEF TypeOK
<1>6. \A q \in Requests : Shape(q)'
    BY <1>1, <1>4, <1>5 DEF Shape, RunStages
<1>. QED
    BY <1>1, <1>3, <1>6 DEF ShapeInv, BuiltShape, tables

LEMMA FilesKeepShape ==
    ASSUME ShapeInv, NEW r \in Requests, Files(r)
    PROVE  ShapeInv'
<1>1. TypeOK /\ Shape(r)
    BY DEF ShapeInv
<1>13. stage[r] \notin RunStages
    BY DEF Files, BeginImport, BeginCreate, Remove, MakeDirectory, Copy, Check, ReadFiles,
           Activate, HandOver, RunStages
<1>14. runs' = runs => shaken' \in [Requests -> BOOLEAN] /\ crossed' = crossed
    BY <1>1 DEF TypeOK, runs
<1>2. /\ disk \in Disks /\ active \in Loadable /\ catalog \in Loadable
      /\ alone \in [Requests -> BOOLEAN] /\ muddled \in BOOLEAN /\ version[r] \in Loadable
      /\ version' = [version EXCEPT ![r] = version[r]] <=> version' = version
    BY <1>1 DEF TypeOK, Disks
<1>3. /\ {"remove", "create", "copy", "check", "load", "activate", "reload", "reactivate",
          "publish", "done"} \subseteq AllStages
      /\ \A s \in {"remove", "create", "copy", "check", "load", "activate", "reload",
                   "reactivate", "publish", "done"} : s \notin RunStages
      /\ "none" \in Loadable /\ Fitting \subseteq Loadable
    BY DEF AllStages, FileStages, RunStages, Loadable
<1>4. ASSUME NEW v \in Versions, BeginImport(r, v)
      PROVE  ShapeInv'
  <2>1. alone' \in [Requests -> BOOLEAN]
      BY <1>4, Joined DEF BeginImport
  <2>. QED
      BY <1>2, <1>3, <1>4, <2>1, <1>13, <1>14, FilesType DEF BeginImport, Goto, files
<1>5. ASSUME NEW v \in Versions, BeginCreate(r, v)
      PROVE  ShapeInv'
  <2>1. alone' \in [Requests -> BOOLEAN]
      BY <1>5, Joined DEF BeginCreate
  <2>. QED
      BY <1>2, <1>3, <1>5, <2>1, <1>13, <1>14, FilesType DEF BeginCreate, Goto, files
<1>6. CASE Remove(r)
  <2>1. CASE Goto(r, "create") /\ disk' = "gone" /\ UNCHANGED <<version, muddled>>
    <3>1. version[r] \in Versions \cap Fitting /\ "gone" \in Disks
        BY <1>1, <1>6 DEF Remove, Shape, Disks
    <3>. QED
        BY <1>2, <1>3, <1>6, <2>1, <3>1, <1>13, <1>14, FilesType DEF Remove, Goto
  <2>2. CASE Goto(r, "done") /\ version' = [version EXCEPT ![r] = "none"]
             /\ muddled' = (muddled \/ ~alone[r]) /\ UNCHANGED disk
      BY <1>2, <1>3, <1>6, <2>2, <1>13, <1>14, FilesType DEF Remove, Goto
  <2>. QED
      BY <1>6, <2>1, <2>2 DEF Remove
<1>7. CASE MakeDirectory(r)
  <2>1. CASE disk' = "partial" /\ Goto(r, "copy") /\ UNCHANGED <<version, muddled>>
    <3>1. version[r] \in Versions \cap Fitting /\ "partial" \in Disks
        BY <1>1, <1>7 DEF MakeDirectory, Shape, Disks
    <3>. QED
        BY <1>2, <1>3, <1>7, <2>1, <3>1, <1>13, <1>14, FilesType DEF MakeDirectory, Goto
  <2>2. CASE EndInFailure(r) /\ UNCHANGED disk
      BY <1>2, <1>3, <1>7, <2>2, <1>13, <1>14, FilesType DEF MakeDirectory, EndInFailure
  <2>. QED
      BY <1>7, <2>1, <2>2 DEF MakeDirectory
<1>8. CASE Copy(r)
  <2>1. disk' \in Contents \cup {version[r], "partial", disk}
      BY <1>8 DEF Copy
  <2>2. disk' \in Disks
      BY <1>1, <1>2, <1>8, <2>1 DEF Copy, Shape, Disks
  <2>. QED
      BY <1>2, <1>3, <1>8, <2>2, <1>13, <1>14, FilesType DEF Copy, Goto, request
<1>9. CASE Check(r)
  <2>1. CASE (Goto(r, "load") \/ Goto(r, "reload")) /\ UNCHANGED <<version, muddled>>
      BY <1>2, <1>3, <1>9, <2>1, <1>13, <1>14, FilesType DEF Check, Goto, files
  <2>2. CASE EndInFailure(r)
      BY <1>2, <1>3, <1>9, <2>2, <1>13, <1>14, FilesType DEF Check, EndInFailure, files
  <2>. QED
      BY <1>9, <2>1, <2>2 DEF Check
<1>10. CASE ReadFiles(r)
  <2>1. Load(disk) \in Loadable
      BY LoadType
  <2>. QED
      BY <1>2, <1>3, <1>10, <2>1, <1>13, <1>14, FilesType DEF ReadFiles, Goto, files
<1>11. CASE Activate(r)
  <2>1. shaken' \in [Requests -> BOOLEAN]
      BY <1>1, <1>11 DEF Activate, TypeOK
  <2>. QED
      BY <1>2, <1>3, <1>11, <1>13, <2>1, FilesType DEF Activate, Goto, request
<1>12. CASE HandOver(r)
  <2>1. muddled' \in BOOLEAN
      BY <1>2, <1>12 DEF HandOver
  <2>. QED
      BY <1>2, <1>3, <1>12, <2>1, <1>13, <1>14, FilesType DEF HandOver, Goto, CatalogAfter
<1>. QED
    BY <1>4, <1>5, <1>6, <1>7, <1>8, <1>9, <1>10, <1>11, <1>12 DEF Files

\* What a run does to its own row, before it ends.
LEMMA RunType ==
    ASSUME ShapeInv, NEW r \in Requests,
           stage' \in [Requests -> AllStages], version' \in [Requests -> Loadable],
           born' \in [Requests -> Nat], births' \in Nat,
           seed' \in [Requests -> [Parts -> Loadable]],
           \A q \in Requests \ {r} :
               stage'[q] = stage[q] /\ version'[q] = version[q] /\ seed'[q] = seed[q],
           stage'[r] \in RunStages,
           stage'[r] = "projected" => \A p \in PartsOf(version'[r]) : seed'[r][p] # "none",
           stage'[r] = "failed" => seed'[r] = NoSeed,
           alone' \in [Requests -> BOOLEAN], shaken' \in [Requests -> BOOLEAN],
           UNCHANGED <<files, tables, level, copy, row, muddled, crossed>>
    PROVE  ShapeInv'
<1>1. TypeOK /\ BuiltShape /\ \A q \in Requests : Shape(q)
    BY DEF ShapeInv
<1>2. TypeOK'
    BY <1>1 DEF TypeOK, tables, files, AllStages
<1>3. Shape(r)'
    BY DEF Shape, RunStages
<1>4. \A q \in Requests \ {r} : Shape(q)'
    BY <1>1 DEF Shape
<1>. QED
    BY <1>1, <1>2, <1>3, <1>4 DEF ShapeInv, BuiltShape, tables

LEMMA RunKeepsShape ==
    ASSUME ShapeInv, NEW r \in Requests, Run(r)
    PROVE  ShapeInv'
<1>1. TypeOK /\ BuiltShape /\ \A q \in Requests : Shape(q)
    BY DEF ShapeInv
<1>2. /\ active \in Loadable /\ catalog \in Loadable /\ births \in Nat
      /\ alone \in [Requests -> BOOLEAN] /\ shaken \in [Requests -> BOOLEAN]
      /\ version \in [Requests -> Loadable] /\ born \in [Requests -> Nat]
      /\ seed \in [Requests -> [Parts -> Loadable]]
      /\ stage \in [Requests -> AllStages]
    BY <1>1 DEF TypeOK, AllStages
<1>3. {"run", "projected", "failed"} = RunStages /\ RunStages \subseteq AllStages
      /\ "none" \in Loadable /\ NoSeed \in [Parts -> Loadable]
    BY DEF RunStages, AllStages, Loadable, NoSeed
<1>9. runs' = runs => shaken' = shaken /\ crossed' = crossed
    BY DEF runs
<1>4. CASE BeginRun(r)
  <2>1. alone' \in [Requests -> BOOLEAN]
      BY <1>4, Joined DEF BeginRun
  <2>2. /\ stage' = [stage EXCEPT ![r] = "run"]
        /\ version' = [version EXCEPT ![r] = catalog]
        /\ born' = [born EXCEPT ![r] = births + 1] /\ births' = births + 1
        /\ shaken' = [shaken EXCEPT ![r] = active # catalog]
        /\ seed' = seed
        /\ UNCHANGED <<files, tables, level, copy, row, muddled, crossed>>
      BY <1>4 DEF BeginRun, Goto
  <2>. QED
      BY <1>2, <1>3, <2>1, <2>2, RunType
<1>5. ASSUME NEW part \in Parts, Seed(r, part)
      PROVE  ShapeInv'
  <2>1. /\ seed' = [seed EXCEPT ![r] = [seed[r] EXCEPT ![part] = active]]
        /\ stage' = stage /\ stage[r] = "run"
      BY <1>5 DEF Seed
  <2>2. UNCHANGED <<version, born, births, alone, shaken, files, tables, level, copy, row,
                    muddled, crossed>>
      BY <1>5, <1>9 DEF Seed
  <2>3. seed' \in [Requests -> [Parts -> Loadable]]
      BY <1>2, <2>1
  <2>4. \A q \in Requests \ {r} : seed'[q] = seed[q]
      BY <1>2, <2>1
  <2>. QED
      BY <1>2, <1>3, <2>1, <2>2, <2>3, <2>4, RunType
<1>6. CASE Project(r)
  <2>1. /\ stage' = [stage EXCEPT ![r] = "projected"]
        /\ \A p \in PartsOf(version[r]) : seed[r][p] # "none"
      BY <1>6 DEF Project, Goto
  <2>2. UNCHANGED <<version, born, seed, births, alone, shaken, files, tables, level, copy,
                    row, muddled, crossed>>
      BY <1>6, <1>9 DEF Project, request
  <2>. QED
      BY <1>2, <1>3, <2>1, <2>2, RunType
<1>7. CASE FailRun(r)
  <2>1. /\ stage' = [stage EXCEPT ![r] = "failed"]
        /\ seed' = [seed EXCEPT ![r] = NoSeed]
      BY <1>7 DEF FailRun, Goto, KeptSeed
  <2>2. UNCHANGED <<version, born, births, alone, shaken, files, tables, level, copy, row,
                    muddled, crossed>>
      BY <1>7, <1>9 DEF FailRun
  <2>. QED
      BY <1>2, <1>3, <2>1, <2>2, RunType
<1>8. CASE CommitRun(r)
  <2>1. /\ stage' \in [Requests -> AllStages] /\ version' \in [Requests -> Loadable]
        /\ born' \in [Requests -> Nat] /\ seed' \in [Requests -> [Parts -> Loadable]]
        /\ shaken' \in [Requests -> BOOLEAN]
      BY <1>1, <1>3, <1>8 DEF TypeOK, CommitRun, Goto, AllStages
  <2>2. latest' \in [born : Nat, version : Loadable, ready : BOOLEAN]
      BY <1>1, <1>2, <1>8 DEF TypeOK, CommitRun
  <2>3. PICK kept \in SUBSET MayKeep(r) : built' = Built(r, kept)
      BY <1>8 DEF CommitRun
  <2>4. built' \in [Parts -> Loadable]
      BY <1>1, <1>2, <2>3 DEF TypeOK, Built
  <2>5. stage[r] = "projected" => \A p \in Structure : built'[p] # "none"
    <3>. SUFFICES ASSUME stage[r] = "projected", NEW p \in Structure
                  PROVE  built'[p] # "none"
        OBVIOUS
    <3>1. seed[r][p] # "none" /\ p \in Parts
        BY <1>1 DEF Shape, PartsOf, Parts
    <3>2. p \in kept => built[p] # "none"
        BY <1>1, <2>3 DEF MayKeep, BuiltShape
    <3>. QED
        BY <2>3, <3>1, <3>2 DEF Built
  <2>6. stage[r] = "failed" => built' = built
    <3>. SUFFICES ASSUME stage[r] = "failed" PROVE built' = built
        OBVIOUS
    <3>1. \A p \in Parts : seed[r][p] = "none"
        BY <1>1 DEF Shape, NoSeed
    <3>2. built' = [p \in Parts |-> built[p]]
        BY <2>3, <3>1 DEF Built
    <3>. QED
        BY <1>1, <3>2 DEF TypeOK
  <2>7. stage[r] \in {"projected", "failed"}
      BY <1>8 DEF CommitRun
  <2>8. BuiltShape'
      BY <1>1, <2>5, <2>6, <2>7 DEF BuiltShape, NoSeed
  <2>9. latest'.ready => \A p \in Structure : built'[p] # "none"
    <3>1. stage[r] = "failed" => latest' = latest \/ ~latest'.ready
        BY <1>8 DEF CommitRun
    <3>. QED
        BY <1>1, <2>5, <2>6, <2>7, <3>1 DEF TypeOK
  <2>10. crossed' \in BOOLEAN
      BY <1>1, <1>8 DEF TypeOK, CommitRun
  <2>11. TypeOK'
      BY <1>1, <1>8, <2>1, <2>2, <2>4, <2>9, <2>10 DEF TypeOK, CommitRun, files, AllStages
  <2>12. \A q \in Requests : Shape(q)'
      BY <1>1, <1>8 DEF Shape, TypeOK, CommitRun, Goto
  <2>. QED
      BY <2>8, <2>11, <2>12 DEF ShapeInv
<1>. QED
    BY <1>4, <1>5, <1>6, <1>7, <1>8 DEF Run

LEMMA PatchKeepsShape ==
    ASSUME ShapeInv, NEW r \in Requests, Patch(r)
    PROVE  ShapeInv'
<1>1. TypeOK /\ BuiltShape /\ \A q \in Requests : Shape(q)
    BY DEF ShapeInv
<1>2. NoRow \in Overrides
    BY DEF NoRow, Overrides, Values
<1>3. ASSUME NEW l \in {"pack", "template"}, NEW payload \in Overrides, ReadPatch(r, l, payload)
      PROVE  ShapeInv'
  <2>. DEFINE existing == IF l = "pack" THEN pack ELSE template
              source == IF l = "pack" THEN Manifest ELSE Inherited(pack)
              new == Override(payload, existing, source)
  <2>1. existing \in Overrides
      BY <1>1 DEF TypeOK
  <2>2. new \in Overrides
      BY <2>1, OverrideType
  <2>3. /\ stage' = [stage EXCEPT ![r] = "patch"]
        /\ level' = [level EXCEPT ![r] = l]
        /\ copy' = [copy EXCEPT ![r] = existing]
        /\ row' = [row EXCEPT ![r] = new]
        /\ UNCHANGED <<files, tables, version, born, seed, births, muddled, shaken, crossed>>
        /\ stage[r] = "new"
      BY <1>3 DEF ReadPatch, Goto, runs
  <2>4. alone' \in [Requests -> BOOLEAN]
    <3>1. alone' = [q \in Requests |-> IF q = r THEN \A o \in Requests \ {r} : Idle(o)
                                                 ELSE alone[q] /\ stage[q] # "patch"]
        BY <1>3 DEF ReadPatch
    <3>. QED
        BY <3>1
  <2>. HIDE DEF existing, source, new
  <2>5. TypeOK'
      BY <1>1, <2>1, <2>2, <2>3, <2>4 DEF TypeOK, files, tables
  <2>6. \A q \in Requests : Shape(q)'
      BY <1>1, <2>3 DEF Shape, TypeOK
  <2>. QED
      BY <1>1, <2>3, <2>5, <2>6 DEF ShapeInv, BuiltShape, tables
<1>4. CASE CommitPatch(r)
  <2>1. ASSUME NEW c \in Overrides
        PROVE  After(r, c) \in Overrides
      BY <1>1, <1>2, <2>1 DEF After, Changed, TypeOK, Overrides
  <2>2. pack' \in Overrides /\ template' \in Overrides
      BY <1>1, <1>4, <2>1 DEF CommitPatch, TypeOK
  <2>3. /\ stage' = [stage EXCEPT ![r] = "done"]
        /\ level' = [level EXCEPT ![r] = "pack"]
        /\ copy' = [copy EXCEPT ![r] = NoRow]
        /\ row' = [row EXCEPT ![r] = NoRow]
        /\ UNCHANGED <<files, latest, built, version, born, seed, births, alone, muddled,
                       shaken, crossed>>
        /\ stage[r] = "patch"
      BY <1>4 DEF CommitPatch, Goto, runs
  <2>4. TypeOK'
      BY <1>1, <1>2, <2>2, <2>3 DEF TypeOK, files
  <2>5. \A q \in Requests : Shape(q)'
      BY <1>1, <2>3 DEF Shape, TypeOK
  <2>. QED
      BY <1>1, <2>3, <2>4, <2>5 DEF ShapeInv, BuiltShape
<1>. QED
    BY <1>3, <1>4 DEF Patch

LEMMA ShapeStep ==
    ASSUME ShapeInv, [Next]_vars
    PROVE  ShapeInv'
<1>1. TypeOK /\ BuiltShape /\ \A q \in Requests : Shape(q)
    BY DEF ShapeInv
<1>2. CASE Restart
  <2>1. Load(disk) \in Loadable /\ "none" \in Loadable /\ NoRow \in Overrides
      BY LoadType DEF Loadable, NoRow, Overrides, Values
  <2>2. /\ stage' \in [Requests -> {"new", "done"}]
        /\ version' \in [Requests -> Loadable] /\ level' \in [Requests -> {"pack", "template"}]
        /\ copy' \in [Requests -> Overrides] /\ row' \in [Requests -> Overrides]
        /\ born' \in [Requests -> Nat] /\ shaken' \in [Requests -> BOOLEAN]
        /\ seed' = [q \in Requests |-> NoSeed]
      BY <1>2, <2>1 DEF Restart
  <2>5. seed' \in [Requests -> [Parts -> Loadable]]
      BY <2>1, <2>2 DEF NoSeed
  <2>3. TypeOK'
      BY <1>1, <1>2, <2>1, <2>2, <2>5 DEF Restart, TypeOK, tables
  <2>4. \A q \in Requests : Shape(q)'
      BY <2>2 DEF Shape
  <2>. QED
      BY <1>1, <1>2, <2>3, <2>4 DEF ShapeInv, BuiltShape, Restart, tables
<1>3. CASE UNCHANGED vars
    BY <1>1, <1>3 DEF ShapeInv, BuiltShape, TypeOK, Shape, vars, files, tables, request, runs
<1>. QED
    BY <1>2, <1>3, FilesKeepShape, RunKeepsShape, PatchKeepsShape DEF Next

LEMMA ShapeInit == Init => ShapeInv
<1>. SUFFICES ASSUME Init PROVE ShapeInv
    OBVIOUS
<1>1. disk \in Disks /\ active \in Loadable /\ catalog \in Loadable
    BY DEF Init, Disks, Loadable
<1>2. NoRow \in Overrides /\ pack \in Overrides /\ template \in Overrides
    BY DEF Init, NoRow, Overrides, Values
<1>3. NoSeed \in [Parts -> Loadable]
    BY DEF NoSeed, Loadable
<1>4. TypeOK
    BY <1>1, <1>2, <1>3 DEF Init, TypeOK, Disks, Loadable
<1>. QED
    BY <1>4 DEF ShapeInv, BuiltShape, Shape, Init

\* Every variable keeps its type.
THEOREM PackTypeOK == Spec => []TypeOK
<1>1. ShapeInv => TypeOK
    BY DEF ShapeInv
<1>. QED
    BY <1>1, ShapeInit, ShapeStep, PTL DEF Spec
----------------------------------------------------------------------------
(* The registries show the files *)

\* A step of one request leaves the rows of the others.
LEMMA OthersKept ==
    ASSUME ShapeInv, NEW r \in Requests, Files(r) \/ Run(r) \/ Patch(r),
           NEW q \in Requests \ {r}
    PROVE  /\ stage'[q] = stage[q] /\ version'[q] = version[q] /\ level'[q] = level[q]
           /\ copy'[q] = copy[q] /\ row'[q] = row[q] /\ born'[q] = born[q]
           /\ seed'[q] = seed[q] /\ (alone'[q] => alone[q])
           /\ shaken[q] => shaken'[q]
<1>1. TypeOK
    BY DEF ShapeInv
<1>2. CASE Files(r)
  <2>1. ASSUME NEW v \in Versions, BeginImport(r, v) \/ BeginCreate(r, v)
        PROVE  alone'[q] => alone[q]
      BY <2>1, Joined DEF BeginImport, BeginCreate
  <2>2. (\E v \in Versions : BeginImport(r, v) \/ BeginCreate(r, v)) \/ UNCHANGED alone
      BY <1>2 DEF Files, Remove, MakeDirectory, Copy, Check, ReadFiles, Activate, HandOver
  <2>3. /\ \E s : Goto(r, s)
        /\ version' = version \/ \E v : version' = [version EXCEPT ![r] = v]
        /\ UNCHANGED <<level, copy, row, born, seed>>
      BY <1>2 DEF Files, BeginImport, BeginCreate, Remove, MakeDirectory, Copy, Check,
                  ReadFiles, Activate, HandOver, EndInFailure, Goto, request
  <2>4. shaken[q] => shaken'[q]
      BY <1>2 DEF Files, BeginImport, BeginCreate, Remove, MakeDirectory, Copy, Check,
                  ReadFiles, Activate, HandOver, runs
  <2>. QED
      BY <1>1, <2>1, <2>2, <2>3, <2>4 DEF TypeOK, Goto
<1>3. CASE Run(r)
  <2>1. BeginRun(r) => (alone'[q] => alone[q])
      BY Joined DEF BeginRun
  <2>2. BeginRun(r) \/ UNCHANGED alone
      BY <1>3 DEF Run, Seed, Project, FailRun, CommitRun
  <2>4. shaken'[q] = shaken[q]
      BY <1>1, <1>3 DEF Run, BeginRun, Seed, Project, FailRun, CommitRun, runs, TypeOK
  <2>5. (\E s : Goto(r, s)) \/ stage' = stage
      BY <1>3 DEF Run, BeginRun, Seed, Project, FailRun, CommitRun
  <2>6. (\E v : seed' = [seed EXCEPT ![r] = v]) \/ seed' = seed
    <3>1. ASSUME NEW part \in Parts, Seed(r, part)
          PROVE  \E v : seed' = [seed EXCEPT ![r] = v]
      <4>1. seed' = [seed EXCEPT ![r] = [seed[r] EXCEPT ![part] = active]]
          BY <1>1, <3>1 DEF Seed, TypeOK
      <4>. QED
          BY <4>1
    <3>. QED
        BY <1>3, <3>1 DEF Run, BeginRun, Project, FailRun, CommitRun, request
  <2>3. /\ version' = version \/ \E v : version' = [version EXCEPT ![r] = v]
        /\ born' = born \/ \E v : born' = [born EXCEPT ![r] = v]
        /\ UNCHANGED <<level, copy, row>>
      BY <1>3 DEF Run, BeginRun, Seed, Project, FailRun, CommitRun, request
  <2>. QED
      BY <1>1, <2>1, <2>2, <2>3, <2>4, <2>5, <2>6 DEF TypeOK, Goto
<1>4. CASE Patch(r)
  <2>1. (alone' = [o \in Requests |-> IF o = r THEN \A p \in Requests \ {r} : Idle(p)
                                                ELSE alone[o] /\ stage[o] # "patch"])
          \/ UNCHANGED alone
      BY <1>4 DEF Patch, ReadPatch, CommitPatch
  <2>2. alone'[q] => alone[q]
      BY <2>1
  <2>3. /\ \E s : Goto(r, s)
        /\ \E v : level' = [level EXCEPT ![r] = v]
        /\ \E v : copy' = [copy EXCEPT ![r] = v]
        /\ \E v : row' = [row EXCEPT ![r] = v]
        /\ UNCHANGED <<version, born, seed, shaken>>
      BY <1>4 DEF Patch, ReadPatch, CommitPatch, runs
  <2>. QED
      BY <1>1, <2>2, <2>3 DEF TypeOK, Goto
<1>. QED
    BY <1>2, <1>3, <1>4

\* A step of a request that is not about the files leaves files and registries.
LEMMA FilesLeft ==
    ASSUME ShapeInv, FilesInv, NEW r \in Requests, Run(r) \/ Patch(r)
    PROVE  FilesInv'
<1>1. TypeOK
    BY DEF ShapeInv
<1>2. stage[r] \notin FileStages /\ stage'[r] \notin FileStages
    BY <1>1, ZenonT(30) DEF Run, Patch, BeginRun, Seed, Project, FailRun, CommitRun, ReadPatch,
                CommitPatch, Goto, TypeOK, FileStages
<1>3. UNCHANGED <<disk, active, catalog, muddled>>
    BY DEF Run, Patch, BeginRun, Seed, Project, FailRun, CommitRun, ReadPatch,
           CommitPatch, files
<1>4. \A q \in Requests \ {r} : /\ stage'[q] = stage[q] /\ version'[q] = version[q]
                                /\ alone'[q] => alone[q]
    BY OthersKept
<1>5. RegistriesShowFiles'
  <2>1. \A q \in Requests : stage[q] \in FileStages <=> stage'[q] \in FileStages
      BY <1>2, <1>4
  <2>2. ~muddled /\ (\A q \in Requests : stage'[q] \notin FileStages) => ShowFiles
      BY <2>1 DEF FilesInv, RegistriesShowFiles, ShowFiles
  <2>. QED
      BY <1>3, <2>2 DEF RegistriesShowFiles, ShowFiles, Load
<1>6. ASSUME NEW q \in Requests
      PROVE  FilesAlone(q)'
  <2>1. CASE q = r
      BY <1>2, <2>1 DEF FilesAlone
  <2>2. CASE q # r
    <3>1. FilesAlone(q)
        BY DEF FilesInv
    <3>2. \A o \in Requests \ {q} : stage[o] \notin FileStages => stage'[o] \notin FileStages
        BY <1>2, <1>4
    <3>. QED
        BY <1>3, <1>4, <2>2, <3>1, <3>2 DEF FilesAlone, ShowFiles, Load
  <2>. QED
      BY <2>1, <2>2
<1>. QED
    BY <1>5, <1>6 DEF FilesInv

\* Nor does anyone else change them while a request does so by itself.
LEMMA FilesStep ==
    ASSUME ShapeInv, FilesInv, NEW r \in Requests, Files(r)
    PROVE  FilesInv'
<1>1. TypeOK /\ Shape(r) /\ RegistriesShowFiles /\ \A q \in Requests : FilesAlone(q)
    BY DEF ShapeInv, FilesInv
<1>2. \A q \in Requests \ {r} : /\ stage'[q] = stage[q] /\ version'[q] = version[q]
                                /\ alone'[q] => alone[q]
    BY OthersKept
<1>3. ASSUME stage[r] \in FileStages \/ \E v \in Versions : BeginImport(r, v) \/ BeginCreate(r, v)
      PROVE  \A q \in Requests \ {r} : alone'[q] => stage'[q] \notin FileStages
  <2>1. CASE stage[r] \in FileStages
      BY <1>1, <1>2, <2>1 DEF FilesAlone
  <2>2. ASSUME NEW v \in Versions, BeginImport(r, v) \/ BeginCreate(r, v)
        PROVE  \A q \in Requests \ {r} : alone'[q] => stage'[q] \notin FileStages
      BY <1>2, <2>2, Joined DEF BeginImport, BeginCreate
  <2>. QED
      BY <1>3, <2>1, <2>2
<1>4. stage[r] \in FileStages \/ \E v \in Versions : BeginImport(r, v) \/ BeginCreate(r, v)
    BY DEF Files, Remove, MakeDirectory, Copy, Check, ReadFiles, Activate, HandOver, FileStages
<1>5. \A q \in Requests \ {r} : FilesAlone(q)'
    BY <1>3, <1>4 DEF FilesAlone
\* The others are in no file stage when r does it alone.
<1>6. stage[r] \in FileStages /\ alone[r] =>
          \A q \in Requests \ {r} : stage'[q] \notin FileStages
    BY <1>1, <1>2 DEF FilesAlone
<1>7. stage \in [Requests -> AllStages] /\ version \in [Requests -> Loadable]
    BY <1>1 DEF TypeOK, AllStages
<1>8. ASSUME EndInFailure(r)
      PROVE  FilesAlone(r)' /\ RegistriesShowFiles'
    BY <1>7, <1>8 DEF EndInFailure, FilesAlone, RegistriesShowFiles, FileStages
<1>9. FilesAlone(r)' /\ RegistriesShowFiles'
  <2>1. ASSUME NEW v \in Versions, BeginImport(r, v) \/ BeginCreate(r, v)
        PROVE  FilesAlone(r)' /\ RegistriesShowFiles'
    <3>1. stage'[r] \in {"remove", "create"} /\ stage[r] = "new"
          /\ UNCHANGED <<disk, active, catalog, muddled>>
        BY <1>7, <2>1 DEF BeginImport, BeginCreate, Goto, files
    <3>2. alone'[r] => \A q \in Requests \ {r} : stage[q] \notin FileStages
        BY <2>1, Joined DEF BeginImport, BeginCreate
    <3>3. stage'[r] \in FileStages /\ stage[r] \notin FileStages
        BY <3>1 DEF FileStages
    <3>4. alone'[r] /\ ~muddled => ShowFiles
        BY <1>1, <3>2, <3>3 DEF RegistriesShowFiles, ShowFiles
    <3>. QED
        BY <1>2, <3>1, <3>2, <3>3, <3>4
        DEF FilesAlone, ShowFiles, RegistriesShowFiles, Load
  <2>2. CASE Remove(r)
    <3>1. CASE stage' = [stage EXCEPT ![r] = "create"]
        BY <1>6, <1>7, <2>2, <3>1 DEF Remove, FilesAlone, RegistriesShowFiles, FileStages
    <3>2. CASE Goto(r, "done") /\ muddled' = (muddled \/ ~alone[r]) /\ UNCHANGED disk
      <4>1. stage[r] = "remove" /\ stage'[r] = "done" /\ UNCHANGED <<active, catalog>>
          BY <1>7, <2>2, <3>2 DEF Remove, Goto
      <4>2. "remove" \in FileStages /\ "done" \notin FileStages
          BY DEF FileStages
      <4>3. ~muddled' => ShowFiles
          BY <1>1, <3>2, <4>1, <4>2 DEF FilesAlone, TypeOK
      <4>. QED
          BY <3>2, <4>1, <4>2, <4>3 DEF FilesAlone, RegistriesShowFiles, ShowFiles, Load
    <3>. QED
        BY <2>2, <3>1, <3>2 DEF Remove, Goto
  <2>3. CASE MakeDirectory(r)
    <3>1. CASE stage' = [stage EXCEPT ![r] = "copy"]
        BY <1>6, <1>7, <2>3, <3>1 DEF MakeDirectory, FilesAlone, RegistriesShowFiles, FileStages
    <3>. QED
        BY <1>8, <2>3, <3>1 DEF MakeDirectory, Goto
  <2>4. CASE Copy(r)
      BY <1>6, <1>7, <2>4 DEF Copy, Goto, FilesAlone, RegistriesShowFiles, FileStages
  <2>5. CASE Check(r)
    <3>1. CASE Goto(r, "load") \/ Goto(r, "reload")
        BY <1>6, <1>7, <2>5, <3>1 DEF Check, Goto, FilesAlone, RegistriesShowFiles, FileStages
    <3>. QED
        BY <1>8, <2>5, <3>1 DEF Check
  <2>6. CASE ReadFiles(r)
    <3>1. stage'[r] \in {"activate", "reactivate"} /\ version'[r] = Load(disk)
          /\ UNCHANGED <<disk, active, alone>> /\ stage[r] \in FileStages
        BY <1>7, <2>6 DEF ReadFiles, Goto, files, FileStages
    <3>. QED
        BY <1>6, <3>1 DEF FilesAlone, RegistriesShowFiles, FileStages, Load
  <2>7. CASE Activate(r)
    <3>1. /\ stage'[r] \in {"reload", "publish"} /\ stage[r] \in {"activate", "reactivate"}
          /\ active' = version[r] /\ version' = version
          /\ UNCHANGED <<disk, alone>>
        BY <1>7, <2>7 DEF Activate, Goto, request
    <3>2. stage[r] \in FileStages /\ stage'[r] \in FileStages
        BY <3>1 DEF FileStages
    <3>3. alone[r] => version[r] = Load(disk)
        BY <1>1, <3>1, <3>2 DEF FilesAlone
    <3>. QED
        BY <1>6, <3>1, <3>2, <3>3 DEF FilesAlone, RegistriesShowFiles, Load
  <2>8. CASE HandOver(r)
    <3>1. /\ stage'[r] = "done" /\ stage[r] = "publish"
          /\ catalog' = version[r] /\ muddled' = ~alone[r]
          /\ UNCHANGED <<disk, active>>
        BY <1>7, <2>8 DEF HandOver, Goto, CatalogAfter
    <3>2. "publish" \in FileStages /\ "done" \notin FileStages
        BY DEF FileStages
    <3>3. alone[r] => version[r] = Load(disk) /\ active = Load(disk)
        BY <1>1, <3>1, <3>2 DEF FilesAlone
    <3>. QED
        BY <1>1, <3>1, <3>2, <3>3 DEF FilesAlone, RegistriesShowFiles, Load, TypeOK
  <2>. QED
      BY <2>1, <2>2, <2>3, <2>4, <2>5, <2>6, <2>7, <2>8 DEF Files
<1>. QED
    BY <1>5, <1>9 DEF FilesInv

\* When no files are being changed, both registries show them, unless the last change
\* overlapped another one or failed.
THEOREM PackRegistriesShowFiles == Spec => []RegistriesShowFiles
<1>1. Init => FilesInv
    BY DEF Init, FilesInv, RegistriesShowFiles, FilesAlone, FileStages, Load
<1>2. ASSUME ShapeInv, FilesInv, [Next]_vars
      PROVE  FilesInv'
  <2>1. CASE Restart
    <3>1. \A q \in Requests : stage'[q] \notin FileStages
        BY <2>1 DEF Restart, FileStages
    <3>. QED
        BY <2>1, <3>1 DEF Restart, FilesInv, FilesAlone, RegistriesShowFiles, Load
  <2>2. CASE UNCHANGED vars
      BY <1>2, <2>2 DEF vars, files, request, FilesInv, FilesAlone, RegistriesShowFiles,
                        ShowFiles, Load
  <2>. QED
      BY <1>2, <2>1, <2>2, FilesLeft, FilesStep DEF Next
<1>3. FilesInv => RegistriesShowFiles
    BY DEF FilesInv
<1>. QED
    BY <1>1, <1>2, <1>3, ShapeInit, ShapeStep, PTL DEF Spec
----------------------------------------------------------------------------
(* What is listed is built *)

\* A step of a request that is not about runs leaves the runs and what they have built.
LEMMA RunsLeft ==
    ASSUME ShapeInv, RunInv, NEW r \in Requests, Files(r) \/ Patch(r)
    PROVE  RunInv'
<1>1. TypeOK
    BY DEF ShapeInv
<1>2. stage[r] \notin RunStages /\ stage'[r] \notin RunStages
  <2>1. stage \in [Requests -> AllStages]
      BY <1>1 DEF TypeOK, AllStages
  <2>. QED
      BY <2>1 DEF Files, Patch, BeginImport, BeginCreate, Remove, MakeDirectory, Copy, Check,
                  ReadFiles, Activate, HandOver, EndInFailure, ReadPatch, CommitPatch, Goto,
                  RunStages
<1>3. UNCHANGED <<latest, built, born, births, crossed>>
    BY DEF Files, Patch, BeginImport, BeginCreate, Remove, MakeDirectory, Copy, Check,
           ReadFiles, Activate, HandOver, ReadPatch, CommitPatch, tables, request, runs
<1>4. \A q \in Requests \ {r} : /\ stage'[q] = stage[q] /\ version'[q] = version[q]
                                /\ seed'[q] = seed[q] /\ (shaken[q] => shaken'[q])
                                /\ alone'[q] => alone[q]
    BY OthersKept
<1>6. ASSUME NEW q \in Requests
      PROVE  RunSteady(q)'
  <2>1. CASE q = r
      BY <1>2, <2>1 DEF RunSteady, RunStages
  <2>2. CASE q # r
    <3>1. RunSteady(q)
        BY DEF RunInv
    <3>2. active' = active \/ (Activate(r) /\ (stage[q] = "run" /\ ~shaken'[q] => active' = version[q]))
      <4>1. Activate(r) => (stage[q] = "run" /\ ~shaken'[q] => active' = version[q])
          BY DEF Activate
      <4>2. Activate(r) \/ active' = active
          BY DEF Files, Patch, BeginImport, BeginCreate, Remove, MakeDirectory, Copy, Check,
                 ReadFiles, HandOver, ReadPatch, CommitPatch, files
      <4>. QED
          BY <4>1, <4>2
    <3>. QED
        BY <1>4, <2>2, <3>1, <3>2 DEF RunSteady
  <2>. QED
      BY <2>1, <2>2
<1>5. ASSUME NEW q \in Requests
      PROVE  RunAlone(q)'
  <2>1. CASE q = r
      BY <1>2, <2>1 DEF RunAlone
  <2>2. CASE q # r
    <3>1. RunAlone(q)
        BY DEF RunInv
    <3>2. \A o \in Requests \ {q} : stage[o] \notin RunStages => stage'[o] \notin RunStages
        BY <1>2, <1>4
    <3>. QED
        BY <1>3, <1>4, <2>2, <3>1, <3>2 DEF RunAlone
  <2>. QED
      BY <2>1, <2>2
<1>. QED
    BY <1>3, <1>5, <1>6 DEF RunInv

\* A run that ends is the latest one when it was alone, and its seed is what is built.
LEMMA RunStep ==
    ASSUME ShapeInv, RunInv, NEW r \in Requests, Run(r)
    PROVE  RunInv'
<1>1. TypeOK /\ Shape(r) /\ \A q \in Requests : RunAlone(q) /\ RunSteady(q)
    BY DEF ShapeInv, RunInv
<1>2. /\ births \in Nat /\ latest.born \in Nat /\ latest.born <= births
      /\ born \in [Requests -> Nat] /\ \A q \in Requests : born[q] <= births
      /\ latest.ready /\ ~crossed =>
            \A p \in PartsOf(latest.version) : built[p] = latest.version
      /\ stage \in [Requests -> AllStages] /\ seed \in [Requests -> [Parts -> Loadable]]
      /\ version \in [Requests -> Loadable]
    BY <1>1 DEF TypeOK, RunInv, AllStages
<1>3. \A q \in Requests \ {r} : /\ stage'[q] = stage[q] /\ born'[q] = born[q]
                                /\ version'[q] = version[q] /\ seed'[q] = seed[q]
                                /\ (shaken[q] => shaken'[q]) /\ (alone'[q] => alone[q])
    BY OthersKept
<1>7. active' = active
    BY DEF Run, BeginRun, Seed, Project, FailRun, CommitRun, files
<1>8. \A q \in Requests \ {r} : RunSteady(q)'
    BY <1>1, <1>3, <1>7 DEF RunSteady
<1>4. CASE BeginRun(r)
  <2>1. /\ UNCHANGED <<latest, built, crossed>>
        /\ births' = births + 1 /\ born'[r] = births + 1
      BY <1>2, <1>4 DEF BeginRun, tables
  <2>2. \A q \in Requests : alone'[q] =>
            \A o \in Requests \ {q} : stage'[o] \notin RunStages \/ stage'[q] \notin RunStages
    <3>1. alone'[r] => \A o \in Requests \ {r} : stage'[o] \notin RunStages
        BY <1>3, <1>4, Joined DEF BeginRun
    <3>2. \A q \in Requests \ {r} : alone'[q] => stage'[q] \notin RunStages
        BY <1>3, <1>4, Joined DEF BeginRun
    <3>. QED
        BY <3>1, <3>2
  <2>3. \A q \in Requests : alone'[q] /\ stage'[q] \in RunStages => born'[q] > latest'.born
      BY <1>1, <1>2, <1>3, <2>1 DEF RunAlone
  <2>4. latest'.born <= births' /\ \A q \in Requests : born'[q] <= births'
      BY <1>2, <1>3, <2>1
  <2>5. RunSteady(r)'
    <3>1. /\ version'[r] = catalog /\ shaken'[r] = (active # catalog) /\ stage[r] = "new"
          /\ seed' = seed
        BY <1>1, <1>4 DEF BeginRun, TypeOK
    <3>2. seed[r] = NoSeed
        BY <1>1, <3>1 DEF Shape
    <3>. QED
        BY <1>7, <3>1, <3>2 DEF RunSteady, NoSeed
  <2>. QED
      BY <1>2, <1>8, <2>1, <2>2, <2>3, <2>4, <2>5 DEF RunInv, RunAlone
<1>5. CASE (\E part \in Parts : Seed(r, part)) \/ Project(r) \/ FailRun(r)
  <2>1. UNCHANGED <<latest, built, crossed, births, born, alone, shaken, version>>
      BY <1>5 DEF Seed, Project, FailRun, tables, request, runs
  <2>2. stage[r] \in RunStages /\ stage'[r] \in RunStages
      BY <1>2, <1>5 DEF Seed, Project, FailRun, Goto, RunStages
  <2>3. \A q \in Requests : stage'[q] \in RunStages <=> stage[q] \in RunStages
      BY <1>3, <2>2
  <2>4. ASSUME NEW part \in Parts, Seed(r, part)
        PROVE  RunSteady(r)'
    <3>1. stage[r] = "run" /\ stage' = stage
        BY <2>4 DEF Seed
    <3>2. \A p \in Parts : seed'[r][p] = IF p = part THEN active ELSE seed[r][p]
        BY <1>2, <2>4 DEF Seed
    <3>. QED
        BY <1>1, <1>7, <2>1, <3>1, <3>2 DEF RunSteady
  <2>5. ASSUME Project(r)
        PROVE  RunSteady(r)'
    <3>1. stage[r] = "run" /\ stage'[r] = "projected" /\ seed' = seed
        BY <1>2, <2>5 DEF Project, Goto, request
    <3>. QED
        BY <1>1, <1>7, <2>1, <3>1 DEF RunSteady
  <2>6. ASSUME FailRun(r)
        PROVE  RunSteady(r)'
    <3>1. stage'[r] = "failed"
        BY <1>2, <2>6 DEF FailRun, Goto
    <3>. QED
        BY <3>1 DEF RunSteady
  <2>7. RunSteady(r)'
      BY <1>5, <2>4, <2>5, <2>6
  <2>. QED
      BY <1>1, <1>2, <1>8, <2>1, <2>3, <2>7 DEF RunInv, RunAlone
<1>6. CASE CommitRun(r)
  <2>1. /\ UNCHANGED <<births, alone>> /\ born'[r] = 0
        /\ stage[r] \in {"projected", "failed"} /\ stage'[r] = "done"
      BY <1>2, <1>6 DEF CommitRun, Goto
  <2>2. stage[r] \in RunStages /\ stage'[r] \notin RunStages
      BY <2>1 DEF RunStages
  <2>3. \A q \in Requests : stage'[q] \in RunStages => ~alone'[q]
      BY <1>1, <1>3, <2>1, <2>2 DEF RunAlone
  <2>4. latest'.born <= births' /\ \A q \in Requests : born'[q] <= births'
      BY <1>2, <1>3, <1>6, <2>1 DEF CommitRun
  <2>6. PICK kept \in SUBSET MayKeep(r) : built' = Built(r, kept)
      BY <1>6 DEF CommitRun
  <2>5. latest'.ready /\ ~crossed' =>
            \A p \in PartsOf(latest'.version) : built'[p] = latest'.version
    <3>1. CASE stage[r] = "projected"
      <4>. SUFFICES ASSUME ~crossed', NEW p \in PartsOf(latest'.version)
                    PROVE  built'[p] = latest'.version
          OBVIOUS
      <4>1. alone[r] /\ ~shaken[r]
          BY <1>6, <3>1 DEF CommitRun
      <4>2. IsLatest(r)
          BY <1>1, <2>2, <4>1 DEF RunAlone, IsLatest
      <4>3. latest'.version = version[r]
          BY <1>6, <4>2 DEF CommitRun
      <4>4. /\ \A q \in PartsOf(version[r]) : seed[r][q] # "none"
            /\ \A q \in Parts : seed[r][q] \in {"none", version[r]}
          BY <1>1, <3>1, <4>1 DEF Shape, RunSteady
      <4>5. kept = {}
          BY <2>6, <4>1 DEF MayKeep
      <4>6. p \in Parts
        <5>1. \A c \in Contents : Text[c].quests \subseteq QuestKinds
            BY ContentConstants DEF IsTemplate, QuestKinds
        <5>2. version[r] \in Loadable /\ version[r] # "none"
            BY <1>2, <4>4 DEF PartsOf, Parts, Structure
        <5>3. version[r] \in Contents
            BY <5>2 DEF Loadable, Fitting
        <5>. QED
            BY <4>3, <5>1, <5>3 DEF PartsOf, Parts
      <4>. QED
          BY <2>6, <4>3, <4>5, <4>6, <4>4 DEF Built
    <3>2. CASE stage[r] = "failed"
      <4>1. \A p \in Parts : seed[r][p] = "none"
          BY <1>1, <3>2 DEF Shape, NoSeed
      <4>2. built' = [p \in Parts |-> built[p]]
          BY <2>6, <4>1 DEF Built
      <4>3. built' = built /\ crossed' = crossed
          BY <1>1, <1>6, <3>2, <4>2 DEF CommitRun, TypeOK
      <4>4. latest' = latest \/ ~latest'.ready
          BY <1>6, <3>2 DEF CommitRun
      <4>. QED
          BY <1>2, <4>3, <4>4
    <3>. QED
        BY <2>1, <3>1, <3>2
  <2>7. RunSteady(r)'
      BY <2>1 DEF RunSteady
  <2>. QED
      BY <1>8, <2>3, <2>4, <2>5, <2>7 DEF RunInv, RunAlone
<1>. QED
    BY <1>4, <1>5, <1>6 DEF Run

\* Whatever the loader lets through, the seeds make the rows that its rules change.
LEMMA FittingResolved ==
    ASSUME NEW c \in Fitting, NEW s, \A p \in Structure : s[p] = c
    PROVE  Resolved(c, s)
<1>. SUFFICES ASSUME NEW i \in DOMAIN Text[c].rules
     PROVE  LET rule == Text[c].rules[i] IN
            /\ \A ref \in rule.refs : ref[1] \in {"place", "axis", "faction"} => ref \in Rows(c, s)
            /\ \A n \in rule.npcs \ DOMAIN Text[c].archetypes["npc"] : <<"npc", n>> \in Rows(c, s)
    BY DEF Resolved
<1>. DEFINE t == Text[c]
            rule == t.rules[i]
<1>4. s["places"] = c /\ s["people"] = c /\ s["shared"] = c
    BY DEF Structure
<1>1. RulesHold(t) /\ PeopleHold(c) /\ rule \in ConsequenceRules
    BY ContentConstants DEF Fitting, Fits, Sound, IsTemplate, IsTable
<1>2. ASSUME NEW ref \in rule.refs, ref[1] \in {"place", "axis", "faction"}
      PROVE  ref \in Rows(c, s)
  <2>1. ref[2] \in Known(t)[ref[1]] /\ ref = <<ref[1], ref[2]>>
      BY <1>1, <1>2 DEF RulesHold, Hold, ConsequenceRules, Of
  <2>2. CASE ref[1] = "place"
      BY <1>2, <1>4, <2>1, <2>2 DEF Known, Rows, PlaceRows
  <2>3. CASE ref[1] = "axis"
      BY <1>2, <1>4, <2>1, <2>3 DEF Known, Rows, SharedRows, Shared
  <2>4. CASE ref[1] = "faction"
      BY <1>2, <1>4, <2>1, <2>4 DEF Known, Rows, SharedRows, Shared
  <2>. QED
      BY <1>2, <2>1, <2>2, <2>3, <2>4
<1>3. ASSUME NEW n \in rule.npcs \ DOMAIN t.archetypes["npc"]
      PROVE  <<"npc", n>> \in Rows(c, s)
  <2>1. n \in DOMAIN People[c]
      BY <1>1 DEF PeopleHold, Named
  <2>. QED
      BY <1>4, <2>1 DEF Rows, PeopleRows
<1>. QED
    BY <1>2, <1>3

\* Every part of a world that players can enter is seeded from the content its pack has now,
\* with every row that its rules change, unless its last ready run overlapped another one or
\* another content was active while it seeded.
THEOREM PackListedIsBuilt == Spec => []ListedIsBuilt
<1>1. Init => RunInv
    BY DEF Init, RunInv, RunAlone, RunSteady, RunStages
<1>2. ASSUME ShapeInv, RunInv, [Next]_vars
      PROVE  RunInv'
  <2>1. CASE Restart
    <3>1. \A q \in Requests : stage'[q] \notin RunStages /\ born'[q] = 0
        BY <2>1 DEF Restart, RunStages
    <3>2. births \in Nat
        BY <1>2 DEF ShapeInv, TypeOK
    <3>. QED
        BY <1>2, <2>1, <3>1, <3>2 DEF Restart, RunInv, RunAlone, RunSteady, RunStages, tables
  <2>2. CASE UNCHANGED vars
      BY <1>2, <2>2 DEF vars, files, tables, request, runs, RunInv, RunAlone, RunSteady
  <2>. QED
      BY <1>2, <2>1, <2>2, RunsLeft, RunStep DEF Next
<1>3. ShapeInv /\ RunInv => ListedIsBuilt
  <2>. SUFFICES ASSUME TypeOK, RunInv, Offered, Ready, ~crossed
       PROVE  (\A p \in PartsOf(catalog) : built[p] = catalog) /\ Resolved(catalog, built)
      BY DEF ListedIsBuilt, Listed, Enterable, ShapeInv
  <2>1. catalog \in Fitting
      BY DEF Ready, TypeOK, Loadable
  <2>2. \A p \in PartsOf(catalog) : built[p] = catalog
      BY DEF RunInv, Ready
  <2>3. Structure \subseteq PartsOf(catalog)
      BY DEF PartsOf
  <2>. QED
      BY <2>1, <2>2, <2>3, FittingResolved
<1>. QED
    BY <1>1, <1>2, <1>3, ShapeInit, ShapeStep, PTL DEF Spec
----------------------------------------------------------------------------
(* The gate of publication *)

LEMMA EffectiveValue ==
    ASSUME NEW p, NEW t, NEW f \in Fields
    PROVE  /\ PackSays(p)[f] = Or(p[f], Manifest[f])
           /\ Inherited(p)[f] = Or(TemplateManifest[f], PackSays(p)[f])
           /\ Effective(p, t)[f] = Or(t[f], Inherited(p)[f])
BY DEF Effective, Inherited, PackSays

\* A request that asks for no more than "no" publishes nothing: a field that is "yes"
\* afterwards has been so before.
LEMMA NothingAsked ==
    ASSUME NEW l \in {"pack", "template"}, NEW payload \in Overrides,
           NEW p \in Overrides, NEW t \in Overrides, NEW f \in Fields, payload[f] # "yes",
           NEW new, new = Override(payload, IF l = "pack" THEN p ELSE t,
                                   IF l = "pack" THEN Manifest ELSE Inherited(p)),
           Effective(IF l = "pack" THEN new ELSE p, IF l = "pack" THEN t ELSE new)[f] = "yes"
    PROVE  Effective(p, t)[f] = "yes"
<1>1. payload[f] \in {"unset", "no"}
    BY DEF Overrides, Values
<1>2. CASE payload[f] = "unset"
  <2>1. new[f] = (IF l = "pack" THEN p ELSE t)[f]
      BY <1>2 DEF Override
  <2>. QED
      BY <2>1, EffectiveValue
<1>3. CASE payload[f] = "no" /\ l = "template"
  <2>1. new[f] = IF Inherited(p)[f] = "no" THEN "unset" ELSE "no"
      BY <1>3 DEF Override
  <2>. QED
      BY <1>3, <2>1, EffectiveValue DEF Or
<1>4. CASE payload[f] = "no" /\ l = "pack"
  <2>1. new[f] = IF Manifest[f] = "no" THEN "unset" ELSE "no"
      BY <1>4 DEF Override
  <2>2. PackSays(new)[f] = "no"
      BY <2>1, EffectiveValue DEF Or
  <2>3. Effective(new, t)[f] = "yes"
      BY <1>4
  <2>4. t[f] = "yes" \/ (t[f] = "unset" /\ TemplateManifest[f] = "yes")
      BY <2>2, <2>3, EffectiveValue DEF Or
  <2>. QED
      BY <2>4, EffectiveValue DEF Or
<1>. QED
    BY <1>1, <1>3, <1>2, <1>4

\* Only a patch that has just been read enters with its gate asked; whatever another
\* request begins meanwhile overlaps it.
LEMMA GateStep ==
    ASSUME ShapeInv, GateInv, [Next]_vars
    PROVE  GateInv'
<1>1. TypeOK /\ \A r \in Requests : Gated(r)
    BY DEF ShapeInv, GateInv
<1>2. stage \in [Requests -> AllStages]
    BY <1>1 DEF TypeOK, AllStages
<1>3. ASSUME NEW r \in Requests, Files(r) \/ Run(r) \/ Patch(r),
             NEW q \in Requests \ {r}, stage'[q] = "patch", alone'[q]
      PROVE  FALSE
  <2>1. stage[q] = "patch" /\ alone[q]
      BY <1>3, OthersKept
  <2>2. Idle(r)
      BY <1>1, <2>1 DEF Gated
  <2>3. \/ \E v \in Versions : BeginImport(r, v) \/ BeginCreate(r, v)
        \/ BeginRun(r)
        \/ \E l \in {"pack", "template"}, payload \in Overrides : ReadPatch(r, l, payload)
      BY <1>3, <2>2 DEF Files, Run, Patch, Remove, MakeDirectory, Copy, Check, ReadFiles,
                        Activate, HandOver, Seed, Project, FailRun, CommitRun, CommitPatch, Idle
  <2>4. CASE \E v \in Versions : BeginImport(r, v) \/ BeginCreate(r, v)
      BY <1>3, <2>1, <2>4, Joined DEF BeginImport, BeginCreate
  <2>5. CASE BeginRun(r)
      BY <1>3, <2>1, <2>5, Joined DEF BeginRun
  <2>6. CASE \E l \in {"pack", "template"}, payload \in Overrides : ReadPatch(r, l, payload)
      BY <1>3, <2>1, <2>6 DEF ReadPatch
  <2>. QED
      BY <2>3, <2>4, <2>5, <2>6
<1>4. ASSUME NEW r \in Requests, NEW l \in {"pack", "template"}, NEW payload \in Overrides,
             ReadPatch(r, l, payload)
      PROVE  Gated(r)'
  <2>. DEFINE existing == IF l = "pack" THEN pack ELSE template
              source == IF l = "pack" THEN Manifest ELSE Inherited(pack)
              new == Override(payload, existing, source)
              p == IF l = "pack" THEN new ELSE pack
              t == IF l = "pack" THEN template ELSE new
  <2>1. /\ level'[r] = l /\ copy'[r] = existing /\ row'[r] = new
        /\ UNCHANGED <<catalog, pack, template, latest>>
        /\ Admitted(payload, p, t)
      BY <1>1, <1>4 DEF ReadPatch, TypeOK, files, tables
  <2>2. alone'[r] => \A q \in Requests \ {r} : Idle(q)'
    <3>1. alone'[r] => \A q \in Requests \ {r} : Idle(q)
        BY <1>4 DEF ReadPatch
    <3>2. \A q \in Requests \ {r} : stage'[q] = stage[q]
        BY <1>2, <1>4 DEF ReadPatch, Goto
    <3>. QED
        BY <3>1, <3>2 DEF Idle
  <2>3. Published(p, t) => Published(pack, template) \/ Ready
    <3>1. CASE \E f \in Fields : payload[f] = "yes"
        BY <2>1, <3>1 DEF Admitted, GateOpen
    <3>2. CASE \A f \in Fields : payload[f] # "yes"
      <4>1. pack \in Overrides /\ template \in Overrides
          BY <1>1 DEF TypeOK
      <4>2. \A f \in Fields : Effective(p, t)[f] = "yes" => Effective(pack, template)[f] = "yes"
          BY <3>2, <4>1, NothingAsked
      <4>. QED
          BY <4>2 DEF Published
    <3>. QED
        BY <3>1, <3>2
  <2>4. PatchedPack(r)' = p /\ PatchedTemplate(r)' = t
      BY <2>1 DEF PatchedPack, PatchedTemplate
  <2>5. copy'[r] = IF level'[r] = "pack" THEN pack' ELSE template'
      BY <2>1
  <2>6. Published(p, t) => Published(pack, template)' \/ Ready'
      BY <2>1, <2>3 DEF Published, Effective, Inherited, PackSays, Ready
  <2>7. Published(PatchedPack(r), PatchedTemplate(r))' => Published(pack, template)' \/ Ready'
      BY <2>4, <2>6 DEF Published, Effective, Inherited, PackSays
  <2>. QED
      BY <2>2, <2>5, <2>7 DEF Gated
<1>5. ASSUME NEW r \in Requests, Files(r) \/ Run(r) \/ Patch(r)
      PROVE  GateInv'
  <2>1. \A q \in Requests \ {r} : Gated(q)'
      BY <1>3, <1>5 DEF Gated
  <2>2. Gated(r)'
    <3>1. CASE \E l \in {"pack", "template"}, payload \in Overrides : ReadPatch(r, l, payload)
        BY <1>4, <3>1
    <3>2. CASE ~\E l \in {"pack", "template"}, payload \in Overrides : ReadPatch(r, l, payload)
      <4>1. (\E s : Goto(r, s) /\ s # "patch") \/ \E part \in Parts : Seed(r, part)
          BY <1>5, <3>2 DEF Files, Run, Patch, BeginImport, BeginCreate, Remove, MakeDirectory,
                    Copy, Check, ReadFiles, Activate, HandOver, EndInFailure, BeginRun,
                    Project, FailRun, CommitRun, CommitPatch, Goto
      <4>2. stage'[r] # "patch"
          BY <1>2, <4>1 DEF Goto, Seed
      <4>. QED
          BY <4>2 DEF Gated
    <3>. QED
        BY <3>1, <3>2
  <2>. QED
      BY <2>1, <2>2 DEF GateInv
<1>6. CASE Restart
  <2>1. \A q \in Requests : stage'[q] # "patch"
      BY <1>6 DEF Restart
  <2>. QED
      BY <2>1 DEF GateInv, Gated
<1>7. CASE UNCHANGED vars
  <2>1. UNCHANGED <<catalog, pack, template, latest, stage, level, copy, row, alone>>
      BY <1>7 DEF vars, files, tables, request
  <2>. QED
      BY <1>1, <2>1 DEF GateInv, Gated, Idle, PatchedPack, PatchedTemplate, Published,
                        Effective, Inherited, PackSays, Ready
<1>. QED
    BY <1>5, <1>6, <1>7 DEF Next

\* The template becomes public and playable only when its run is ready, unless something
\* else was changed between the gate and the commit.
THEOREM PackPublishedWhenReady == Spec => PublishedWhenReady
<1>1. Init => GateInv
    BY DEF Init, GateInv, Gated
<1>2. ASSUME ShapeInv, GateInv, NEW r \in Requests, CommitPatch(r), alone[r],
             Published(pack', template')
      PROVE  Published(pack, template) \/ Ready
  <2>1. TypeOK /\ Gated(r) /\ stage[r] = "patch"
      BY <1>2 DEF ShapeInv, GateInv, CommitPatch
  <2>2. copy[r] = IF level[r] = "pack" THEN pack ELSE template
      BY <1>2, <2>1 DEF Gated
  <2>3. copy[r] \in Overrides /\ row[r] \in Overrides /\ level[r] \in {"pack", "template"}
      BY <2>1 DEF TypeOK
  <2>4. After(r, copy[r]) = row[r]
    <3>1. Changed(r, copy[r]) = [f \in Fields |-> row[r][f]]
        BY <2>3 DEF Changed, Overrides
    <3>. QED
        BY <2>3, <3>1 DEF After, Overrides
  <2>5. Writable(r, copy[r])
      BY DEF Writable
  <2>6. pack' = PatchedPack(r) /\ template' = PatchedTemplate(r)
      BY <1>2, <2>2, <2>3, <2>4, <2>5 DEF CommitPatch, PatchedPack, PatchedTemplate
  <2>. QED
      BY <1>2, <2>1, <2>6 DEF Gated
<1>3. ShapeInv /\ GateInv =>
          \A r \in Requests : CommitPatch(r) /\ alone[r] /\ Published(pack', template')
              => Published(pack, template) \/ Ready
    BY <1>2
<1>4. Spec => [](ShapeInv /\ GateInv)
    BY <1>1, ShapeInit, ShapeStep, GateStep, PTL DEF Spec
<1>. QED
    BY <1>3, <1>4, PTL DEF Spec, PublishedWhenReady
----------------------------------------------------------------------------
(* Consequences: a job that nobody overtakes between its look at the threads and *)
(* its commit sees all there are, writes one of its own and counts.               *)

Untouched == [r \in Threads |-> "none"]

\* A job changes one thread, and writes nothing before it.
OneThread(j) ==
    /\ ~spent[j].thread => draft[j] = Untouched /\ told[j] = "none"
    /\ phase[j] \in {"idle", "writing"} => ~spent[j].thread
    /\ phase[j] \in {"counting", "cooling"} => spent[j].thread
    /\ phase[j] = "writing" => task[j].kind \in Kinds
    /\ task[j].kind # "none" => ~spent[j].thread
    /\ phase[j] \in {"idle", "passing", "ruled", "ruling", "written"} => task[j].kind = "none"
    /\ phase[j] # "cooling" => victims[j] = {}
    /\ phase[j] \in {"bonding", "ruling"} => task[j].with \in Npcs

\* A job writes rows that are committed, and those it inserts.
OwnRows(j) ==
    /\ \A i \in Jobs \ {j}, k \in Kinds : draft[j][<<k, i>>] # "none" => status[<<k, i>>] # "none"
    /\ phase[j] = "writing" => \A r \in target[j] : status[r] # "none"
    /\ \A r \in victims[j] : Seen(j, r) # "none"

\* Who inserts a thread, and has not been overtaken, has seen no other of its kind.
Unrivalled(j) == ~late[j] =>
    /\ phase[j] = "writing" /\ target[j] = {} =>
          \A i \in Jobs : status[<<task[j].kind, i>>] = "none"
    /\ \A k \in Kinds : draft[j][<<k, j>>] # "none" /\ status[<<k, j>>] = "none" =>
          \A i \in Jobs : status[<<k, i>>] = "none"

\* Who raises a thread has counted, or is about to.
Counted(j) == told[j] = "active" /\ ~late[j] /\ phase[j] # "counting" =>
    Cardinality(Active(j) \ victims[j]) <= Cap

ThreadInv == ThreadTypeOK /\ \A j \in Jobs : OneThread(j) /\ OwnRows(j) /\ Unrivalled(j) /\ Counted(j)

HIDE PackConstants
USE ConsequenceConstants

LEMMA ThreadInitInv == ThreadInit => ThreadInv
<1>. SUFFICES ASSUME ThreadInit
              PROVE  ThreadInv
    OBVIOUS
<1>1. NoTask \in Tasks /\ Fresh \in [bond : BOOLEAN, thread : BOOLEAN, seen : 0 .. 2]
    BY DEF NoTask, Tasks, Status, Fresh
<1>2. ThreadTypeOK
    BY <1>1 DEF ThreadInit, ThreadTypeOK, Status
<1>3. ASSUME NEW j \in Jobs
      PROVE  OneThread(j) /\ OwnRows(j) /\ Unrivalled(j) /\ Counted(j)
    BY <1>3 DEF ThreadInit, OneThread, OwnRows, Unrivalled, Counted, Untouched, NoTask, Fresh, Threads
<1>. QED
    BY <1>2, <1>3 DEF ThreadInv

\* What the others see and have written stays when only j moves and nothing is committed.
Alone(j) ==
    /\ UNCHANGED status
    /\ \A i \in Jobs \ {j} :
         /\ phase'[i] = phase[i] /\ task'[i] = task[i] /\ target'[i] = target[i]
         /\ victims'[i] = victims[i] /\ told'[i] = told[i] /\ spent'[i] = spent[i]
         /\ draft'[i] = draft[i] /\ late'[i] = late[i]

LEMMA OthersKeep ==
    ASSUME ThreadInv, NEW j \in Jobs, Alone(j), NEW i \in Jobs, i # j
    PROVE  (OneThread(i) /\ OwnRows(i) /\ Unrivalled(i) /\ Counted(i))'
<1>1. /\ status' = status /\ phase'[i] = phase[i] /\ task'[i] = task[i] /\ target'[i] = target[i]
      /\ victims'[i] = victims[i] /\ told'[i] = told[i] /\ spent'[i] = spent[i]
      /\ draft'[i] = draft[i] /\ late'[i] = late[i]
    BY DEF Alone
<1>2. \A r \in Threads : Seen(i, r)' = Seen(i, r)
    BY <1>1 DEF Seen
<1>3. Active(i)' = Active(i)
    BY <1>2 DEF Active
<1>4. OneThread(i)' /\ Unrivalled(i)'
    BY <1>1 DEF ThreadInv, OneThread, Unrivalled
<1>5. OwnRows(i)'
  <2>1. victims[i] \subseteq Threads
      BY DEF ThreadInv, ThreadTypeOK
  <2>. QED
      BY <1>1, <1>2, <2>1 DEF ThreadInv, OwnRows
<1>6. Counted(i)'
    BY <1>1, <1>3 DEF ThreadInv, Counted
<1>. QED
    BY <1>4, <1>5, <1>6

\* The same for j itself when it moves on without writing or counting.
LEMMA SameKeeps ==
    ASSUME ThreadInv, NEW j \in Jobs, UNCHANGED <<status, draft, told, late>>,
           victims'[j] = victims[j], spent'[j].thread = spent[j].thread,
           phase'[j] \notin {"idle", "writing", "counting", "cooling"},
           phase[j] \notin {"counting", "cooling"},
           task'[j].kind # "none" => ~spent[j].thread /\ phase'[j] \in {"bonding", "matching"},
           phase'[j] \in {"bonding", "ruling"} => task'[j].with \in Npcs
    PROVE  (OneThread(j) /\ OwnRows(j) /\ Unrivalled(j) /\ Counted(j))'
<1>1. OneThread(j)'
    BY DEF ThreadInv, OneThread, Untouched
<1>2. \A r \in Threads : Seen(j, r)' = Seen(j, r)
    BY DEF Seen
<1>3. OwnRows(j)'
  <2>1. victims[j] \subseteq Threads
      BY DEF ThreadInv, ThreadTypeOK
  <2>. QED
      BY <1>2, <2>1 DEF ThreadInv, OwnRows
<1>4. Unrivalled(j)'
    BY DEF ThreadInv, Unrivalled
<1>5. Counted(j)'
  <2>1. Active(j)' = Active(j)
      BY <1>2 DEF Active
  <2>. QED
      BY <2>1 DEF ThreadInv, Counted
<1>. QED
    BY <1>1, <1>3, <1>4, <1>5

LEMMA OutcomesType ==
    ASSUME NEW K
    PROVE  Outcomes(K) \subseteq [kind : AllKinds \cup {"none"}, to : Status, bond : BOOLEAN]
<1>. DEFINE T == [kind : AllKinds \cup {"none"}, to : Status, bond : BOOLEAN]
            thread(kind, to) == [kind |-> kind, to |-> to, bond |-> TRUE]
            none == [kind |-> "none", to |-> "none", bond |-> FALSE]
<1>1. \A kind \in AllKinds \cup {"none"}, to \in Status : thread(kind, to) \in T
    OBVIOUS
<1>2. none \in T
    BY DEF Status
<1>. HIDE DEF T
<1>3. /\ thread("promise", "resolved") \in T /\ thread("scrutiny", "cooling") \in T
      /\ thread("scrutiny", "active") \in T /\ thread("promise", "active") \in T
      /\ thread("rumor", "active") \in T /\ thread("rumor", "cooling") \in T
      /\ thread("none", "none") \in T
    BY <1>1 DEF AllKinds, Status
<1>. DEFINE kept == IF "promise" \in K THEN thread("promise", "resolved") ELSE thread("none", "none")
            watched == IF "scrutiny" \in K THEN thread("scrutiny", "cooling") ELSE thread("none", "none")
            earned == IF "promise" \notin K /\ "rumor" \in K THEN thread("rumor", "cooling")
                      ELSE IF "promise" \notin K THEN watched ELSE kept
<1>4. Outcomes(K) = {thread("scrutiny", "active"), thread("promise", "active"), thread("rumor", "active"),
                     earned, kept, thread("none", "none"), watched, none}
    BY DEF Outcomes
<1>. HIDE DEF thread, none
<1>5. kept \in T /\ watched \in T /\ earned \in T
    BY <1>3
<1>. HIDE DEF kept, watched, earned
<1>6. Outcomes(K) \subseteq T
    BY <1>2, <1>3, <1>4, <1>5
<1>. QED
    BY <1>6 DEF T

LEMMA BeatTasksType ==
    ASSUME NEW K, NEW n, NEW kind \in {"murmur", "question", "reassure"}, NEW t \in BeatTasks(K, n)[kind]
    PROVE  t.to \in Status /\ t.with = n
BY DEF BeatTasks, Status

\* The steps of j that neither write a row nor count.
Walks(j) ==
    \/ Evaluate(j) \/ LookAtState(j) \/ Beat(j) \/ EndPass(j) \/ WriteBond(j) \/ NoThread(j)
    \/ ChooseRule(j) \/ NoRule(j) \/ RuleBond(j)

Writes(j) == Match(j) \/ Insert(j) \/ Update(j) \/ Count(j) \/ Cool(j) \/ Cooled(j)

LEMMA MovesAlone ==
    ASSUME ThreadTypeOK, NEW j \in Jobs, Walks(j) \/ Writes(j) \/ RollBack(j)
    PROVE  Alone(j)
<1>. USE DEF ThreadTypeOK, Move, txn
<1>1. CASE Evaluate(j) \/ LookAtState(j) \/ EndPass(j) \/ WriteBond(j) \/ NoThread(j)
    BY <1>1 DEF Evaluate, LookAtState, EndPass, WriteBond, NoThread, Alone
<1>2. CASE Beat(j)
    BY <1>2 DEF Beat, Alone
<1>3. CASE ChooseRule(j) \/ NoRule(j) \/ RuleBond(j)
    BY <1>3 DEF ChooseRule, NoRule, RuleBond, Alone
<1>4. CASE Match(j)
    BY <1>4 DEF Match, Alone
<1>5. CASE Insert(j)
    BY <1>5 DEF Insert, Alone
<1>6. CASE Update(j)
    BY <1>6 DEF Update, Alone
<1>7. CASE Count(j) \/ Cool(j) \/ Cooled(j)
    BY <1>7 DEF Count, Cool, Cooled, Alone
<1>8. CASE RollBack(j)
    BY <1>8 DEF RollBack, Forget, Alone
<1>. QED
    BY <1>1, <1>2, <1>3, <1>4, <1>7, <1>8, <1>5, <1>6 DEF Walks, Writes

LEMMA BeatFits ==
    ASSUME ThreadTypeOK, NEW j \in Jobs, Beat(j)
    PROVE  /\ phase[j] = "passing"
           /\ phase' \in {[phase EXCEPT ![j] = "bonding"], [phase EXCEPT ![j] = "matching"]}
           /\ \E a \in Tasks : /\ task' = [task EXCEPT ![j] = a]
                               /\ a.kind # "none" => ~spent[j].thread
                               /\ phase'[j] = "bonding" => a.with \in Npcs
           /\ spent' \in [Jobs -> [bond : BOOLEAN, thread : BOOLEAN, seen : 0 .. 2]]
           /\ spent'[j].thread = spent[j].thread
<1>1. PICK n \in Npcs, kind \in {"murmur", "question", "reassure"} : \E t \in BeatTasks(known[j], n)[kind] :
           /\ t.kind \in Kinds \cup {"none"}
           /\ LET a == Allowed(j, t, kind)
              IN  /\ Move(j, "passing", IF a.with # Nobody THEN "bonding" ELSE "matching")
                  /\ task' = [task EXCEPT ![j] = a]
                  /\ spent' = [spent EXCEPT ![j].seen = @ + 1,
                                            ![j].bond = @ \/ a.with # Nobody]
    BY DEF Beat
<1>2. PICK t \in BeatTasks(known[j], n)[kind] :
           /\ t.kind \in Kinds \cup {"none"}
           /\ LET a == Allowed(j, t, kind)
              IN  /\ Move(j, "passing", IF a.with # Nobody THEN "bonding" ELSE "matching")
                  /\ task' = [task EXCEPT ![j] = a]
                  /\ spent' = [spent EXCEPT ![j].seen = @ + 1,
                                            ![j].bond = @ \/ a.with # Nobody]
    BY <1>1
<1>. DEFINE a == Allowed(j, t, kind)
<1>3. t.to \in Status /\ t.with = n
    BY BeatTasksType
<1>4. spent[j] \in [bond : BOOLEAN, thread : BOOLEAN, seen : 0 .. 2] /\ spent[j].seen < 2
    BY DEF ThreadTypeOK, Beat
<1>5. a \in Tasks /\ (a.kind # "none" => ~spent[j].thread)
    BY <1>2, <1>3 DEF Allowed, Tasks, Status
<1>. HIDE DEF a
<1>6. /\ Move(j, "passing", IF a.with # Nobody THEN "bonding" ELSE "matching")
      /\ task' = [task EXCEPT ![j] = a]
      /\ spent' = [spent EXCEPT ![j].seen = @ + 1, ![j].bond = @ \/ a.with # Nobody]
    BY <1>2 DEF a
<1>7. spent' = [spent EXCEPT ![j] = [spent[j] EXCEPT !.seen = @ + 1, !.bond = @ \/ a.with # Nobody]]
    BY <1>6
<1>. DEFINE means == [spent[j] EXCEPT !.seen = @ + 1, !.bond = @ \/ a.with # Nobody]
<1>8. means \in [bond : BOOLEAN, thread : BOOLEAN, seen : 0 .. 2] /\ means.thread = spent[j].thread
  <2>. DEFINE counted == [spent[j] EXCEPT !.seen = @ + 1]
  <2>1. counted \in [bond : BOOLEAN, thread : BOOLEAN, seen : 0 .. 2] /\ counted.thread = spent[j].thread
        /\ counted.bond = spent[j].bond
      BY <1>4
  <2>2. means = [counted EXCEPT !.bond = spent[j].bond \/ a.with # Nobody]
      BY <1>4
  <2>3. (spent[j].bond \/ a.with # Nobody) \in BOOLEAN
      OBVIOUS
  <2>. HIDE DEF counted, means
  <2>. QED
      BY <2>1, <2>2, <2>3
<1>. HIDE DEF means
<1>9. spent' \in [Jobs -> [bond : BOOLEAN, thread : BOOLEAN, seen : 0 .. 2]] /\ spent'[j] = means
    BY <1>7, <1>8 DEF ThreadTypeOK, means
<1>10. phase'[j] = "bonding" => a.with \in Npcs
  <2>1. a.with \in Npcs \cup {Nobody}
      BY <1>5 DEF Tasks
  <2>2. phase'[j] = "bonding" => a.with # Nobody
      BY <1>6 DEF Move, ThreadTypeOK
  <2>. QED
      BY <2>1, <2>2
<1>11. phase' \in {[phase EXCEPT ![j] = "bonding"], [phase EXCEPT ![j] = "matching"]}
    BY <1>6 DEF Move
<1>. QED
    BY <1>4, <1>5, <1>6, <1>8, <1>9, <1>10, <1>11 DEF Beat

LEMMA EvaluateFits ==
    ASSUME ThreadTypeOK, NEW j \in Jobs, Evaluate(j)
    PROVE  /\ phase[j] = "idle"
           /\ phase' \in {[phase EXCEPT ![j] = "bonding"], [phase EXCEPT ![j] = "matching"]}
           /\ \E a \in Tasks : /\ task' = [task EXCEPT ![j] = a]
                               /\ phase'[j] = "bonding" => a.with \in Npcs
<1>1. PICK guide \in Npcs, o \in Outcomes(InTheAir(j)) :
         /\ o.kind \in Kinds \cup {"none"}
         /\ Move(j, "idle", IF o.bond THEN "bonding" ELSE "matching")
         /\ task' = [task EXCEPT ![j] = [kind |-> o.kind, to |-> o.to,
                                         with |-> IF o.bond THEN guide ELSE Nobody]]
    BY DEF Evaluate
<1>2. o.to \in Status
    BY OutcomesType
<1>. DEFINE a == [kind |-> o.kind, to |-> o.to, with |-> IF o.bond THEN guide ELSE Nobody]
<1>3. a \in Tasks
    BY <1>1, <1>2 DEF Tasks
<1>4. phase'[j] = "bonding" => a.with \in Npcs
  <2>1. phase'[j] = "bonding" => o.bond
      BY <1>1 DEF Move, ThreadTypeOK
  <2>. QED
      BY <2>1
<1>5. task' = [task EXCEPT ![j] = a]
    BY <1>1
<1>. HIDE DEF a
<1>. QED
    BY <1>1, <1>3, <1>4, <1>5 DEF Move

LEMMA WalksKeep ==
    ASSUME ThreadInv, NEW j \in Jobs, Walks(j)
    PROVE  (OneThread(j) /\ OwnRows(j) /\ Unrivalled(j) /\ Counted(j))'
<1>. USE DEF Move, txn
<1>1. /\ phase \in [Jobs -> {"idle", "passing", "bonding", "matching", "writing", "counting", "cooling",
                             "ruled", "ruling", "written"}]
      /\ task \in [Jobs -> Tasks] /\ victims \in [Jobs -> SUBSET Threads] /\ ThreadTypeOK
    BY DEF ThreadInv, ThreadTypeOK
<1>2. OneThread(j)
    BY DEF ThreadInv
<1>3. CASE Evaluate(j)
  <2>1. UNCHANGED <<status, draft, told, late, victims, spent>>
      BY <1>3 DEF Evaluate
  <2>2. phase[j] = "idle" /\ phase'[j] \in {"bonding", "matching"}
      BY <1>1, <1>3, EvaluateFits
  <2>3. ~spent[j].thread
      BY <1>2, <2>2 DEF OneThread
  <2>4. phase'[j] = "bonding" => task'[j].with \in Npcs
    <3>1. PICK a \in Tasks : task' = [task EXCEPT ![j] = a] /\ (phase'[j] = "bonding" => a.with \in Npcs)
        BY <1>1, <1>3, EvaluateFits
    <3>. QED
        BY <1>1, <3>1
  <2>. QED
      BY <2>1, <2>2, <2>3, <2>4, SameKeeps
<1>4. CASE LookAtState(j)
  <2>1. UNCHANGED <<status, draft, told, late, victims, spent, task>>
      BY <1>4 DEF LookAtState
  <2>2. phase[j] = "idle" /\ phase'[j] = "passing"
      BY <1>1, <1>4 DEF LookAtState
  <2>3. task[j].kind = "none"
      BY <1>2, <2>2 DEF OneThread
  <2>. QED
      BY <2>1, <2>2, <2>3, SameKeeps
<1>5. CASE Beat(j)
  <2>1. UNCHANGED <<status, draft, told, late, victims>>
      BY <1>5 DEF Beat
  <2>2. phase[j] = "passing" /\ phase'[j] \in {"bonding", "matching"} /\ spent'[j].thread = spent[j].thread
      BY <1>1, <1>5, BeatFits
  <2>3. /\ task'[j].kind # "none" => ~spent[j].thread
        /\ phase'[j] = "bonding" => task'[j].with \in Npcs
    <3>1. PICK a \in Tasks : /\ task' = [task EXCEPT ![j] = a]
                             /\ a.kind # "none" => ~spent[j].thread
                             /\ phase'[j] = "bonding" => a.with \in Npcs
        BY <1>1, <1>5, BeatFits
    <3>. QED
        BY <1>1, <3>1
  <2>. QED
      BY <2>1, <2>2, <2>3, SameKeeps
<1>6. CASE EndPass(j)
  <2>1. UNCHANGED <<status, draft, told, late, victims, spent, task>>
      BY <1>6 DEF EndPass
  <2>2. phase[j] = "passing" /\ phase'[j] = "written"
      BY <1>1, <1>6 DEF EndPass
  <2>3. task[j].kind = "none"
      BY <1>2, <2>2 DEF OneThread
  <2>. QED
      BY <2>1, <2>2, <2>3, SameKeeps
<1>7. CASE WriteBond(j)
  <2>1. UNCHANGED <<status, draft, told, late, victims, spent>>
      BY <1>7 DEF WriteBond
  <2>2. phase[j] = "bonding" /\ phase'[j] = "matching"
      BY <1>1, <1>7 DEF WriteBond
  <2>3. task'[j].kind = task[j].kind
      BY <1>1, <1>7 DEF WriteBond, Tasks
  <2>4. task[j].kind # "none" => ~spent[j].thread
      BY <1>2 DEF OneThread
  <2>. QED
      BY <2>1, <2>2, <2>3, <2>4, SameKeeps
<1>8. CASE NoThread(j)
  <2>1. UNCHANGED <<status, draft, told, late, victims, spent, task>> /\ task[j].kind = "none"
      BY <1>8 DEF NoThread
  <2>2. phase[j] = "matching" /\ phase'[j] \in {"ruled", "passing"}
      BY <1>1, <1>8 DEF NoThread, Onward
  <2>. QED
      BY <2>1, <2>2, SameKeeps
<1>9. CASE ChooseRule(j)
  <2>1. UNCHANGED <<status, draft, told, late, victims, spent>>
      BY <1>9 DEF ChooseRule
  <2>2. phase[j] = "ruled" /\ phase'[j] = "ruling"
      BY <1>1, <1>9 DEF ChooseRule
  <2>3. task'[j].kind = task[j].kind /\ task'[j].with \in Npcs
      BY <1>1, <1>9 DEF ChooseRule, Tasks
  <2>4. task[j].kind = "none"
      BY <1>2, <2>2 DEF OneThread
  <2>. QED
      BY <2>1, <2>2, <2>3, <2>4, SameKeeps
<1>10. CASE NoRule(j)
  <2>1. UNCHANGED <<status, draft, told, late, victims, spent, task>>
      BY <1>10 DEF NoRule
  <2>2. phase[j] = "ruled" /\ phase'[j] = "written"
      BY <1>1, <1>10 DEF NoRule
  <2>3. task[j].kind = "none"
      BY <1>2, <2>2 DEF OneThread
  <2>. QED
      BY <2>1, <2>2, <2>3, SameKeeps
<1>11. CASE RuleBond(j)
  <2>1. UNCHANGED <<status, draft, told, late, victims, spent>>
      BY <1>11 DEF RuleBond
  <2>2. phase[j] = "ruling" /\ phase'[j] = "written"
      BY <1>1, <1>11 DEF RuleBond
  <2>3. task'[j].kind = "none"
      BY <1>1, <1>11 DEF RuleBond, NoTask
  <2>. QED
      BY <2>1, <2>2, <2>3, SameKeeps
<1>. QED
    BY <1>3, <1>4, <1>5, <1>6, <1>7, <1>8, <1>9, <1>10, <1>11 DEF Walks

LEMMA WritesKeep ==
    ASSUME ThreadInv, NEW j \in Jobs, Writes(j)
    PROVE  (OneThread(j) /\ OwnRows(j) /\ Unrivalled(j) /\ Counted(j))'
<1>. USE DEF Move, txn
<1>1. /\ phase \in [Jobs -> {"idle", "passing", "bonding", "matching", "writing", "counting", "cooling",
                             "ruled", "ruling", "written"}]
      /\ task \in [Jobs -> Tasks] /\ victims \in [Jobs -> SUBSET Threads] /\ ThreadTypeOK
      /\ target \in [Jobs -> SUBSET Threads] /\ late \in [Jobs -> BOOLEAN]
      /\ draft \in [Jobs -> [Threads -> Status \cup {"same"}]] /\ told \in [Jobs -> Status]
      /\ spent \in [Jobs -> [bond : BOOLEAN, thread : BOOLEAN, seen : 0 .. 2]]
    BY DEF ThreadInv, ThreadTypeOK
<1>2. OneThread(j) /\ OwnRows(j) /\ Unrivalled(j) /\ Counted(j)
    BY DEF ThreadInv
<1>3. CASE Match(j)
  <2>1. PICK found \in Found(j) :
           /\ phase[j] = "matching" /\ phase' = [phase EXCEPT ![j] = "writing"]
           /\ target' = [target EXCEPT ![j] = found]
      BY <1>3 DEF Match
  <2>2. /\ task[j].kind # "none" /\ late' = [late EXCEPT ![j] = FALSE]
        /\ UNCHANGED <<status, task, victims, told, spent, draft>>
      BY <1>3 DEF Match
  <2>3. ~spent[j].thread /\ draft[j] = Untouched /\ told[j] = "none" /\ victims[j] = {}
      BY <1>2, <2>1, <2>2 DEF OneThread
  <2>4. \A r \in Threads : Seen(j, r) = status[r] /\ draft[j][r] = "none"
      BY <2>3 DEF Seen, Untouched, Status
  <2>5. phase'[j] = "writing" /\ target'[j] = found
      BY <1>1, <2>1
  <2>6. task[j].kind \in Kinds
      BY <1>1, <2>2 DEF Tasks
  <2>7. OneThread(j)'
      BY <2>2, <2>3, <2>5, <2>6 DEF OneThread, Untouched
  <2>8. \A r \in found : r \in Threads /\ status[r] # "none"
    <3>1. \A r \in OfKind(j, task[j].kind) : r \in Threads /\ status[r] # "none"
        BY <2>4 DEF OfKind
    <3>2. \A r \in found : r \in OfKind(j, task[j].kind)
        BY <2>1 DEF Found
    <3>. QED
        BY <3>1, <3>2
  <2>9. OwnRows(j)'
    <3>1. \A i \in Jobs, k \in Kinds : draft'[j][<<k, i>>] = "none"
        BY <2>2, <2>4 DEF Threads
    <3>. QED
        BY <2>2, <2>3, <2>5, <2>8, <3>1 DEF OwnRows
  <2>10. Unrivalled(j)'
    <3>1. \A k \in Kinds : draft'[j][<<k, j>>] = "none"
        BY <2>2, <2>4 DEF Threads
    <3>2. found = {} => \A i \in Jobs : status[<<task[j].kind, i>>] = "none"
      <4>. SUFFICES ASSUME found = {}, NEW i \in Jobs
                    PROVE  status[<<task[j].kind, i>>] = "none"
          OBVIOUS
      <4>1. OfKind(j, task[j].kind) = {}
          BY <2>1 DEF Found
      <4>2. <<task[j].kind, i>> \in Threads
          BY <2>6 DEF Threads
      <4>. QED
          BY <2>4, <4>1, <4>2 DEF OfKind
    <3>. QED
        BY <2>2, <2>5, <3>1, <3>2 DEF Unrivalled
  <2>11. Counted(j)'
      BY <2>2, <2>3 DEF Counted
  <2>. QED
      BY <2>7, <2>9, <2>10, <2>11
<1>4. CASE Insert(j)
  <2>. DEFINE r == <<task[j].kind, j>>
  <2>1. /\ phase[j] = "writing" /\ target[j] = {}
        /\ phase' = [phase EXCEPT ![j] = "counting"]
        /\ draft' = [draft EXCEPT ![j][r] = "active"]
        /\ told' = [told EXCEPT ![j] = "active"]
        /\ task' = [task EXCEPT ![j] = NoTask]
        /\ spent' = [spent EXCEPT ![j].thread = TRUE]
        /\ UNCHANGED <<status, victims, late>>
      BY <1>4 DEF Insert
  <2>2. task[j].kind \in Kinds /\ r \in Threads /\ draft[j] = Untouched /\ victims[j] = {}
      BY <1>2, <2>1 DEF OneThread, Threads
  <2>3. /\ phase'[j] = "counting" /\ task'[j].kind = "none" /\ spent'[j].thread = TRUE
        /\ draft'[j] = [draft[j] EXCEPT ![r] = "active"]
      BY <1>1, <2>1 DEF NoTask
  <2>4. \A q \in Threads : draft'[j][q] # "none" => q = r
      BY <1>1, <2>2, <2>3 DEF Untouched
  <2>5. OneThread(j)'
      BY <2>1, <2>2, <2>3 DEF OneThread
  <2>6. OwnRows(j)'
    <3>1. \A i \in Jobs \ {j}, k \in Kinds : draft'[j][<<k, i>>] = "none"
        BY <2>4 DEF Threads
    <3>. QED
        BY <2>1, <2>2, <2>3, <3>1 DEF OwnRows
  <2>7. Unrivalled(j)'
    <3>. SUFFICES ASSUME ~late[j], NEW k \in Kinds, draft'[j][<<k, j>>] # "none", NEW i \in Jobs
                  PROVE  status[<<k, i>>] = "none"
        BY <2>1, <2>3 DEF Unrivalled
    <3>1. k = task[j].kind
      <4>1. <<k, j>> \in Threads
          BY DEF Threads
      <4>. QED
          BY <2>4, <4>1
    <3>. QED
        BY <1>2, <2>1, <3>1 DEF Unrivalled
  <2>8. Counted(j)'
      BY <2>3 DEF Counted
  <2>. QED
      BY <2>5, <2>6, <2>7, <2>8
<1>5. CASE Update(j)
  <2>1. PICK r \in target[j] :
        /\ phase[j] = "writing"
        /\ phase' = [phase EXCEPT ![j] = IF j \in Passes \/ task[j].to = "active" THEN "counting" ELSE Onward(j)]
        /\ draft' = [draft EXCEPT ![j][r] = IF task[j].to # read[j] THEN task[j].to ELSE "same"]
        /\ told' = [told EXCEPT ![j] = task[j].to]
        /\ task' = [task EXCEPT ![j] = NoTask]
        /\ spent' = [spent EXCEPT ![j].thread = TRUE]
        /\ UNCHANGED <<status, victims, late>>
      BY <1>5 DEF Update
  <2>2. r \in Threads /\ draft[j] = Untouched /\ victims[j] = {} /\ status[r] # "none"
      BY <1>1, <1>2, <2>1 DEF OneThread, OwnRows
  <2>3. /\ phase'[j] \in {"counting", "ruled", "passing"} /\ task'[j].kind = "none" /\ spent'[j].thread = TRUE
        /\ told'[j] = task[j].to /\ (task[j].to = "active" => phase'[j] = "counting")
      BY <1>1, <2>1 DEF NoTask, Onward
  <2>4. \A q \in Threads : draft'[j][q] # "none" => q = r
      BY <1>1, <2>1, <2>2 DEF Untouched
  <2>5. OneThread(j)'
      BY <2>1, <2>2, <2>3 DEF OneThread
  <2>6. OwnRows(j)'
    <3>1. \A i \in Jobs, k \in Kinds : draft'[j][<<k, i>>] # "none" => status[<<k, i>>] # "none"
        BY <2>2, <2>4 DEF Threads
    <3>. QED
        BY <2>1, <2>2, <2>3, <3>1 DEF OwnRows
  <2>7. Unrivalled(j)'
    <3>1. \A k \in Kinds : draft'[j][<<k, j>>] # "none" => status[<<k, j>>] # "none"
        BY <2>2, <2>4 DEF Threads
    <3>. QED
        BY <2>1, <2>3, <3>1 DEF Unrivalled
  <2>8. Counted(j)'
      BY <2>3 DEF Counted
  <2>. QED
      BY <2>5, <2>6, <2>7, <2>8
<1>6. CASE Count(j)
  <2>1. PICK V \in Excess(j) : victims' = [victims EXCEPT ![j] = V]
      BY <1>6 DEF Count
  <2>2. /\ phase[j] = "counting" /\ phase' = [phase EXCEPT ![j] = "cooling"]
        /\ UNCHANGED <<status, task, told, spent, draft, late>>
      BY <1>6 DEF Count
  <2>3. phase'[j] = "cooling" /\ victims'[j] = V
      BY <1>1, <2>1, <2>2
  <2>4. V \subseteq Active(j) /\ Cardinality(Active(j) \ V) <= Cap
    <3>1. CASE Cardinality(Active(j)) <= Cap
      <4>1. V = {}
          BY <2>1, <3>1 DEF Excess
      <4>2. Active(j) \ V = Active(j)
          BY <4>1
      <4>. QED
          BY <3>1, <4>1, <4>2
    <3>2. CASE ~(Cardinality(Active(j)) <= Cap)
      <4>1. V \subseteq Active(j) /\ Cardinality(Active(j) \ V) = Cap
          BY <2>1, <3>2 DEF Excess
      <4>. QED
          BY <4>1
    <3>. QED
        BY <3>1, <3>2
  <2>5. \A r \in Threads : Seen(j, r)' = Seen(j, r)
      BY <2>2 DEF Seen
  <2>6. Active(j)' = Active(j)
      BY <2>5 DEF Active
  <2>7. OneThread(j)'
      BY <1>2, <2>2, <2>3 DEF OneThread, Untouched
  <2>8. OwnRows(j)'
    <3>1. \A r \in V : r \in Threads /\ Seen(j, r) # "none"
        BY <2>4 DEF Active
    <3>. QED
        BY <1>2, <2>2, <2>3, <2>5, <3>1 DEF OwnRows
  <2>9. Unrivalled(j)'
      BY <1>2, <2>2, <2>3 DEF Unrivalled
  <2>10. Counted(j)'
      BY <2>3, <2>4, <2>6 DEF Counted
  <2>. QED
      BY <2>7, <2>8, <2>9, <2>10
<1>7. CASE Cool(j)
  <2>1. PICK r \in victims[j] : /\ draft' = [draft EXCEPT ![j][r] = "cooling"]
                                /\ victims' = [victims EXCEPT ![j] = @ \ {r}]
      BY <1>7 DEF Cool
  <2>2. phase[j] = "cooling" /\ UNCHANGED <<status, phase, task, target, told, spent, late>>
      BY <1>7 DEF Cool
  <2>3. r \in Threads /\ Seen(j, r) # "none" /\ victims[j] \subseteq Threads
      BY <1>1, <1>2, <2>1 DEF OwnRows
  <2>4. /\ victims'[j] = victims[j] \ {r} /\ draft'[j][r] = "cooling"
        /\ \A q \in Threads \ {r} : draft'[j][q] = draft[j][q]
      BY <1>1, <2>1, <2>3
  <2>5. Seen(j, r)' = "cooling" /\ \A q \in Threads \ {r} : Seen(j, q)' = Seen(j, q)
      BY <2>2, <2>4 DEF Seen, Status
  <2>6. draft[j][r] # "none" \/ status[r] # "none"
      BY <2>3 DEF Seen
  <2>7. OneThread(j)'
    <3>1. spent[j].thread
        BY <1>2, <2>2 DEF OneThread
    <3>. QED
        BY <1>2, <2>2, <3>1 DEF OneThread
  <2>8. OwnRows(j)'
    <3>1. ASSUME NEW i \in Jobs \ {j}, NEW k \in Kinds, draft'[j][<<k, i>>] # "none"
          PROVE  status[<<k, i>>] # "none"
      <4>1. <<k, i>> \in Threads
          BY DEF Threads
      <4>. QED
          BY <1>2, <2>4, <2>6, <3>1, <4>1 DEF OwnRows
    <3>2. \A q \in victims'[j] : Seen(j, q)' # "none"
        BY <1>2, <2>3, <2>4, <2>5 DEF OwnRows
    <3>. QED
        BY <2>2, <3>1, <3>2 DEF OwnRows
  <2>9. Unrivalled(j)'
    <3>1. \A k \in Kinds : draft'[j][<<k, j>>] # "none" /\ status[<<k, j>>] = "none" => draft[j][<<k, j>>] # "none"
        BY <2>4, <2>6 DEF Threads
    <3>. QED
        BY <1>2, <2>2, <3>1 DEF Unrivalled
  <2>10. Counted(j)'
    <3>1. Active(j)' = Active(j) \ {r}
        BY <2>3, <2>5 DEF Active
    <3>2. Active(j)' \ victims'[j] = Active(j) \ victims[j]
        BY <2>1, <2>4, <3>1
    <3>. QED
        BY <1>2, <2>2, <3>2 DEF Counted
  <2>. QED
      BY <2>7, <2>8, <2>9, <2>10
<1>8. CASE Cooled(j)
  <2>1. /\ victims[j] = {} /\ phase[j] = "cooling" /\ phase' = [phase EXCEPT ![j] = Onward(j)]
        /\ UNCHANGED <<status, task, target, victims, told, spent, draft, late>>
      BY <1>8 DEF Cooled
  <2>2. phase'[j] \in {"ruled", "passing"}
      BY <1>1, <2>1 DEF Onward
  <2>3. \A r \in Threads : Seen(j, r)' = Seen(j, r)
      BY <2>1 DEF Seen
  <2>4. OneThread(j)'
      BY <1>2, <2>1, <2>2 DEF OneThread, Untouched
  <2>5. OwnRows(j)'
      BY <1>1, <1>2, <2>1, <2>2, <2>3 DEF OwnRows
  <2>6. Unrivalled(j)'
      BY <1>2, <2>1, <2>2 DEF Unrivalled
  <2>7. Counted(j)'
    <3>1. Active(j)' = Active(j)
        BY <2>3 DEF Active
    <3>. QED
        BY <1>2, <2>1, <2>2, <3>1 DEF Counted
  <2>. QED
      BY <2>4, <2>5, <2>6, <2>7
<1>. QED
    BY <1>3, <1>4, <1>5, <1>6, <1>7, <1>8 DEF Writes

LEMMA ForgetKeeps ==
    ASSUME ThreadInv, NEW j \in Jobs, Forget(j)
    PROVE  (OneThread(j) /\ OwnRows(j) /\ Unrivalled(j) /\ Counted(j))'
<1>1. /\ phase'[j] = "idle" /\ task'[j] = NoTask /\ draft'[j] = Untouched /\ victims'[j] = {}
      /\ told'[j] = "none" /\ spent'[j] = Fresh
    BY DEF Forget, ThreadInv, ThreadTypeOK, Untouched
<1>2. \A i \in Jobs, k \in Kinds : draft'[j][<<k, i>>] = "none"
    BY <1>1 DEF Untouched, Threads
<1>3. OneThread(j)'
    BY <1>1 DEF OneThread, NoTask, Fresh, Untouched
<1>4. OwnRows(j)'
    BY <1>1, <1>2 DEF OwnRows
<1>5. Unrivalled(j)'
    BY <1>1, <1>2 DEF Unrivalled
<1>6. Counted(j)'
    BY <1>1 DEF Counted
<1>. QED
    BY <1>3, <1>4, <1>5, <1>6

\* A commit shows rows and hides none; the other jobs are late, or have read nothing yet.
LEMMA CommitKeeps ==
    ASSUME ThreadInv, NEW j \in Jobs, Commit(j), NEW i \in Jobs, i # j
    PROVE  (OneThread(i) /\ OwnRows(i) /\ Unrivalled(i) /\ Counted(i))'
<1>1. /\ phase'[i] = phase[i] /\ task'[i] = task[i] /\ target'[i] = target[i]
      /\ victims'[i] = victims[i] /\ told'[i] = told[i] /\ spent'[i] = spent[i]
      /\ draft'[i] = draft[i]
    BY DEF Commit, Forget, ThreadInv, ThreadTypeOK
<1>2. late'[i] = (late[i] \/ phase[i] # "idle")
    BY DEF Commit
<1>3. \A r \in Threads : status[r] # "none" => status'[r] # "none"
    BY DEF Commit, Seen
<1>4. OneThread(i) /\ OwnRows(i)
    BY DEF ThreadInv
<1>5. OneThread(i)'
    BY <1>1, <1>4 DEF OneThread, Untouched
<1>6. OwnRows(i)'
  <2>1. \A l \in Jobs \ {i}, k \in Kinds : draft[i][<<k, l>>] # "none" => status'[<<k, l>>] # "none"
      BY <1>3, <1>4 DEF OwnRows, Threads
  <2>2. target[i] \subseteq Threads /\ victims[i] \subseteq Threads
      BY DEF ThreadInv, ThreadTypeOK
  <2>3. \A r \in Threads : Seen(i, r) # "none" => Seen(i, r)' # "none"
      BY <1>1, <1>3 DEF Seen
  <2>. QED
      BY <1>1, <1>3, <1>4, <2>1, <2>2, <2>3 DEF OwnRows
<1>7. CASE late'[i]
    BY <1>5, <1>6, <1>7 DEF Unrivalled, Counted
<1>8. CASE ~late'[i]
  <2>1. phase[i] = "idle" /\ draft[i] = Untouched /\ told[i] = "none"
      BY <1>2, <1>4, <1>8 DEF OneThread
  <2>2. \A k \in Kinds : draft'[i][<<k, i>>] = "none"
      BY <1>1, <2>1 DEF Untouched, Threads
  <2>. QED
      BY <1>1, <1>5, <1>6, <2>1, <2>2 DEF Unrivalled, Counted
<1>. QED
    BY <1>7, <1>8

LEMMA ThreadTypeStep == ThreadInv /\ [ThreadNext]_threadVars => ThreadTypeOK'
<1>. SUFFICES ASSUME ThreadInv, [ThreadNext]_threadVars
              PROVE  ThreadTypeOK'
    OBVIOUS
<1>. USE DEF Move, txn
<1>1. ThreadTypeOK
    BY DEF ThreadInv
<1>2. NoTask \in Tasks /\ Fresh \in [bond : BOOLEAN, thread : BOOLEAN, seen : 0 .. 2]
    BY DEF NoTask, Tasks, Status, Fresh
<1>3. /\ task \in [Jobs -> Tasks]
       /\ phase \in [Jobs -> {"idle", "passing", "bonding", "matching", "writing", "counting", "cooling",
                              "ruled", "ruling", "written"}]
    BY <1>1 DEF ThreadTypeOK
<1>4. ASSUME NEW j \in Jobs, NEW n \in Npcs \cup {Nobody}, task' = [task EXCEPT ![j].with = n]
       PROVE  task' \in [Jobs -> Tasks]
  <2>1. task[j] \in Tasks
      BY <1>1 DEF ThreadTypeOK
  <2>2. [task[j] EXCEPT !.with = n] \in Tasks
      BY <2>1 DEF Tasks
  <2>3. task' = [task EXCEPT ![j] = [task[j] EXCEPT !.with = n]]
      BY <1>4
  <2>. QED
      BY <1>1, <2>2, <2>3 DEF ThreadTypeOK
<1>5. ASSUME NEW j \in Jobs, Evaluate(j)
      PROVE  ThreadTypeOK'
  <2>1. UNCHANGED <<status, known, target, read, victims, told, spent, draft, bonds, late>>
      BY <1>5 DEF Evaluate
  <2>2. task' \in [Jobs -> Tasks]
    <3>1. PICK a \in Tasks : task' = [task EXCEPT ![j] = a]
        BY <1>1, <1>5, EvaluateFits
    <3>. QED
        BY <1>3, <3>1
  <2>3. phase' \in {[phase EXCEPT ![j] = "bonding"], [phase EXCEPT ![j] = "matching"]}
      BY <1>1, <1>5, EvaluateFits
  <2>5. phase' \in [Jobs -> {"idle", "passing", "bonding", "matching", "writing", "counting", "cooling",
                             "ruled", "ruling", "written"}]
      BY <1>3, <2>3
  <2>. QED
      BY <1>1, <2>1, <2>2, <2>5 DEF ThreadTypeOK
<1>6. ASSUME NEW j \in Jobs, LookAtState(j)
      PROVE  ThreadTypeOK'
    BY <1>1, <1>6 DEF LookAtState, InTheAir, ThreadTypeOK
<1>7. ASSUME NEW j \in Jobs, Beat(j)
      PROVE  ThreadTypeOK'
  <2>1. UNCHANGED <<status, known, target, read, victims, told, draft, bonds, late>>
      BY <1>7 DEF Beat
  <2>2. task' \in [Jobs -> Tasks]
    <3>1. PICK a \in Tasks : task' = [task EXCEPT ![j] = a]
        BY <1>1, <1>7, BeatFits
    <3>. QED
        BY <1>3, <3>1
  <2>3. phase' \in {[phase EXCEPT ![j] = "bonding"], [phase EXCEPT ![j] = "matching"]}
      BY <1>1, <1>7, BeatFits
  <2>5. phase' \in [Jobs -> {"idle", "passing", "bonding", "matching", "writing", "counting", "cooling",
                             "ruled", "ruling", "written"}]
      BY <1>3, <2>3
  <2>4. spent' \in [Jobs -> [bond : BOOLEAN, thread : BOOLEAN, seen : 0 .. 2]]
      BY <1>1, <1>7, BeatFits
  <2>. QED
      BY <1>1, <2>1, <2>2, <2>4, <2>5 DEF ThreadTypeOK
<1>8. ASSUME NEW j \in Jobs, EndPass(j) \/ NoThread(j) \/ NoRule(j) \/ Cooled(j)
      PROVE  ThreadTypeOK'
    BY <1>1, <1>8 DEF EndPass, NoThread, NoRule, Cooled, Onward, ThreadTypeOK
<1>9. ASSUME NEW j \in Jobs, WriteBond(j)
      PROVE  ThreadTypeOK'
  <2>1. /\ phase' = [phase EXCEPT ![j] = "matching"]
        /\ bonds' = [bonds EXCEPT ![j] = @ \cup {task[j].with}]
        /\ task' = [task EXCEPT ![j].with = Nobody] /\ phase[j] = "bonding"
        /\ UNCHANGED <<status, known, target, read, victims, told, spent, draft, late>>
      BY <1>9 DEF WriteBond
  <2>2. task' \in [Jobs -> Tasks]
      BY <1>4, <2>1
  <2>3. task[j].with \in Npcs
      BY <2>1 DEF ThreadInv, OneThread
  <2>4. bonds' \in [Jobs -> SUBSET Npcs]
      BY <1>1, <2>1, <2>3 DEF ThreadTypeOK
  <2>. QED
      BY <1>1, <2>1, <2>2, <2>4 DEF ThreadTypeOK
<1>10. ASSUME NEW j \in Jobs, ChooseRule(j)
      PROVE  ThreadTypeOK'
  <2>1. task' \in [Jobs -> Tasks]
      BY <1>10, <1>4 DEF ChooseRule
  <2>. QED
      BY <1>1, <1>10, <2>1 DEF ChooseRule, ThreadTypeOK
<1>11. ASSUME NEW j \in Jobs, RuleBond(j)
      PROVE  ThreadTypeOK'
  <2>1. task[j].with \in Npcs
      BY <1>11 DEF RuleBond, ThreadInv, OneThread
  <2>2. bonds' \in [Jobs -> SUBSET Npcs]
      BY <1>1, <1>11, <2>1 DEF RuleBond, ThreadTypeOK
  <2>. QED
      BY <1>1, <1>2, <1>11, <2>2 DEF RuleBond, ThreadTypeOK
<1>12. ASSUME NEW j \in Jobs, Match(j)
       PROVE  ThreadTypeOK'
  <2>1. PICK found \in Found(j) :
           /\ phase[j] = "matching" /\ phase' = [phase EXCEPT ![j] = "writing"]
           /\ target' = [target EXCEPT ![j] = found]
           /\ read' = [read EXCEPT ![j] = IF found = {} THEN "none"
                                           ELSE Seen(j, CHOOSE r \in found : TRUE)]
      BY <1>12 DEF Match
  <2>2. found \subseteq Threads
      BY <2>1 DEF Found, OfKind
  <2>3. \A r \in Threads : Seen(j, r) \in Status
      BY <1>1 DEF Seen, ThreadTypeOK
  <2>4. read' \in [Jobs -> Status]
    <3>1. found # {} => (CHOOSE r \in found : TRUE) \in found
        OBVIOUS
    <3>2. (IF found = {} THEN "none" ELSE Seen(j, CHOOSE r \in found : TRUE)) \in Status
        BY <2>2, <2>3, <3>1 DEF Status
    <3>. QED
        BY <1>1, <2>1, <3>2 DEF ThreadTypeOK
  <2>5. /\ late' = [late EXCEPT ![j] = FALSE]
        /\ UNCHANGED <<status, known, task, victims, told, spent, draft, bonds>>
      BY <1>12 DEF Match
  <2>. QED
      BY <1>1, <2>1, <2>2, <2>4, <2>5 DEF ThreadTypeOK
<1>13. ASSUME NEW j \in Jobs, NEW r \in Threads, NEW new \in Status \cup {"same"},
              draft' = [draft EXCEPT ![j][r] = new]
       PROVE  draft' \in [Jobs -> [Threads -> Status \cup {"same"}]]
    BY <1>1, <1>13 DEF ThreadTypeOK
<1>14. ASSUME NEW j \in Jobs, spent' = [spent EXCEPT ![j].thread = TRUE]
       PROVE  spent' \in [Jobs -> [bond : BOOLEAN, thread : BOOLEAN, seen : 0 .. 2]]
    BY <1>1, <1>14 DEF ThreadTypeOK
<1>15. ASSUME NEW j \in Jobs, Insert(j)
       PROVE  ThreadTypeOK'
  <2>1. phase[j] = "writing"
      BY <1>15 DEF Insert
  <2>2. <<task[j].kind, j>> \in Threads
      BY <1>15, <2>1 DEF Threads, ThreadInv, OneThread
  <2>3. draft' \in [Jobs -> [Threads -> Status \cup {"same"}]]
      BY <1>13, <1>15, <2>2 DEF Insert, Status
  <2>4. spent' \in [Jobs -> [bond : BOOLEAN, thread : BOOLEAN, seen : 0 .. 2]]
      BY <1>14, <1>15 DEF Insert
  <2>5. /\ target' = [target EXCEPT ![j] = {<<task[j].kind, j>>}]
        /\ told' = [told EXCEPT ![j] = "active"] /\ task' = [task EXCEPT ![j] = NoTask]
        /\ phase' = [phase EXCEPT ![j] = "counting"]
        /\ UNCHANGED <<status, known, read, victims, bonds, late>>
      BY <1>15 DEF Insert
  <2>6. told' \in [Jobs -> Status] /\ target' \in [Jobs -> SUBSET Threads]
      BY <1>1, <2>2, <2>5 DEF ThreadTypeOK, Status
  <2>. QED
      BY <1>1, <1>2, <2>3, <2>4, <2>5, <2>6 DEF ThreadTypeOK
<1>16. ASSUME NEW j \in Jobs, Update(j)
       PROVE  ThreadTypeOK'
  <2>1. PICK r \in target[j] :
        /\ phase' = [phase EXCEPT ![j] = IF j \in Passes \/ task[j].to = "active" THEN "counting" ELSE Onward(j)]
        /\ draft' = [draft EXCEPT ![j][r] = IF task[j].to # read[j] THEN task[j].to ELSE "same"]
        /\ told' = [told EXCEPT ![j] = task[j].to]
        /\ task' = [task EXCEPT ![j] = NoTask]
        /\ read' = [read EXCEPT ![j] = "none"]
        /\ spent' = [spent EXCEPT ![j].thread = TRUE]
        /\ UNCHANGED <<status, known, target, victims, bonds, late>>
      BY <1>16 DEF Update
  <2>2. r \in Threads /\ task[j].to \in Status
      BY <1>1 DEF ThreadTypeOK, Tasks
  <2>3. draft' \in [Jobs -> [Threads -> Status \cup {"same"}]]
    <3>1. (IF task[j].to # read[j] THEN task[j].to ELSE "same") \in Status \cup {"same"}
        BY <2>2
    <3>. QED
        BY <1>13, <2>1, <2>2, <3>1
  <2>4. spent' \in [Jobs -> [bond : BOOLEAN, thread : BOOLEAN, seen : 0 .. 2]]
      BY <1>14, <2>1
  <2>5. /\ told' \in [Jobs -> Status] /\ read' \in [Jobs -> Status] /\ task' \in [Jobs -> Tasks]
      BY <1>1, <1>2, <2>1, <2>2 DEF ThreadTypeOK, Status
  <2>6. phase' \in [Jobs -> {"idle", "passing", "bonding", "matching", "writing", "counting", "cooling",
                             "ruled", "ruling", "written"}]
      BY <1>1, <2>1 DEF ThreadTypeOK, Onward
  <2>. QED
      BY <1>1, <2>1, <2>3, <2>4, <2>5, <2>6 DEF ThreadTypeOK
<1>17. ASSUME NEW j \in Jobs, Count(j)
       PROVE  ThreadTypeOK'
  <2>1. PICK V \in Excess(j) : victims' = [victims EXCEPT ![j] = V]
      BY <1>17 DEF Count
  <2>2. V \subseteq Threads
      BY <2>1 DEF Excess, Active
  <2>3. victims' \in [Jobs -> SUBSET Threads]
      BY <1>1, <2>1, <2>2 DEF ThreadTypeOK
  <2>. QED
      BY <1>1, <1>17, <2>3 DEF Count, ThreadTypeOK
<1>18. ASSUME NEW j \in Jobs, Cool(j)
       PROVE  ThreadTypeOK'
  <2>1. PICK r \in victims[j] : /\ draft' = [draft EXCEPT ![j][r] = "cooling"]
                                /\ victims' = [victims EXCEPT ![j] = @ \ {r}]
      BY <1>18 DEF Cool
  <2>2. r \in Threads
      BY <1>1 DEF ThreadTypeOK
  <2>3. draft' \in [Jobs -> [Threads -> Status \cup {"same"}]]
      BY <1>13, <2>1, <2>2 DEF Status
  <2>4. victims' \in [Jobs -> SUBSET Threads]
      BY <1>1, <2>1 DEF ThreadTypeOK
  <2>. QED
      BY <1>1, <1>18, <2>3, <2>4 DEF Cool, ThreadTypeOK
<1>19. ASSUME NEW j \in Jobs, Forget(j), status' \in [Threads -> Status], late' \in [Jobs -> BOOLEAN]
       PROVE  ThreadTypeOK'
  <2>1. /\ known' \in [Jobs -> SUBSET Kinds] /\ task' \in [Jobs -> Tasks]
        /\ target' \in [Jobs -> SUBSET Threads] /\ read' \in [Jobs -> Status]
        /\ bonds' \in [Jobs -> SUBSET Npcs] /\ victims' \in [Jobs -> SUBSET Threads]
      BY <1>1, <1>2, <1>19 DEF Forget, ThreadTypeOK, Status
  <2>2. draft' \in [Jobs -> [Threads -> Status \cup {"same"}]]
    <3>1. Untouched \in [Threads -> Status \cup {"same"}]
        BY DEF Untouched, Status
    <3>2. draft' = [draft EXCEPT ![j] = Untouched]
        BY <1>19 DEF Forget, Untouched
    <3>. QED
        BY <1>1, <3>1, <3>2 DEF ThreadTypeOK
  <2>3. /\ told' \in [Jobs -> Status]
        /\ spent' \in [Jobs -> [bond : BOOLEAN, thread : BOOLEAN, seen : 0 .. 2]]
      BY <1>1, <1>2, <1>19 DEF Forget, ThreadTypeOK, Status
  <2>4. phase' \in [Jobs -> {"idle", "passing", "bonding", "matching", "writing", "counting", "cooling",
                             "ruled", "ruling", "written"}]
      BY <1>1, <1>19 DEF Forget, ThreadTypeOK
  <2>. QED
      BY <1>19, <2>1, <2>2, <2>3, <2>4 DEF ThreadTypeOK
<1>20. ASSUME NEW j \in Jobs, Commit(j)
       PROVE  ThreadTypeOK'
  <2>1. status' \in [Threads -> Status]
      BY <1>1, <1>20 DEF Commit, Seen, ThreadTypeOK
  <2>2. late' \in [Jobs -> BOOLEAN]
    <3>1. \A i \in Jobs : late[i] \in BOOLEAN
        BY <1>1 DEF ThreadTypeOK
    <3>2. \A i \in Jobs : (IF i = j THEN FALSE ELSE late[i] \/ phase[i] # "idle") \in BOOLEAN
        BY <3>1
    <3>. QED
        BY <1>20, <3>2 DEF Commit
  <2>. QED
      BY <1>19, <1>20, <2>1, <2>2 DEF Commit
<1>21. ASSUME NEW j \in Jobs, RollBack(j)
       PROVE  ThreadTypeOK'
    BY <1>1, <1>19, <1>21 DEF RollBack, ThreadTypeOK
<1>22. CASE UNCHANGED threadVars
    BY <1>1, <1>22 DEF threadVars, ThreadTypeOK
<1>. QED
    BY <1>5, <1>6, <1>7, <1>8, <1>9, <1>10, <1>11, <1>12, <1>15, <1>16, <1>17, <1>18, <1>20, <1>21, <1>22
       DEF ThreadNext, Step, Fail, EndDeadlock

LEMMA ThreadInvStep == ThreadInv /\ [ThreadNext]_threadVars => ThreadInv'
<1>. SUFFICES ASSUME ThreadInv, [ThreadNext]_threadVars
              PROVE  ThreadInv'
    OBVIOUS
<1>1. ThreadTypeOK'
    BY ThreadTypeStep
<1>2. ASSUME NEW j \in Jobs, Walks(j) \/ Writes(j) \/ RollBack(j)
      PROVE  ThreadInv'
  <2>1. Alone(j)
      BY <1>2, MovesAlone DEF ThreadInv
  <2>2. (OneThread(j) /\ OwnRows(j) /\ Unrivalled(j) /\ Counted(j))'
      BY <1>2, WalksKeep, WritesKeep, ForgetKeeps DEF RollBack
  <2>3. \A i \in Jobs : (OneThread(i) /\ OwnRows(i) /\ Unrivalled(i) /\ Counted(i))'
      BY <2>1, <2>2, OthersKeep
  <2>. QED
      BY <1>1, <2>3 DEF ThreadInv
<1>3. ASSUME NEW j \in Jobs, Commit(j)
      PROVE  ThreadInv'
  <2>1. (OneThread(j) /\ OwnRows(j) /\ Unrivalled(j) /\ Counted(j))'
      BY <1>3, ForgetKeeps DEF Commit
  <2>2. \A i \in Jobs : (OneThread(i) /\ OwnRows(i) /\ Unrivalled(i) /\ Counted(i))'
      BY <1>3, <2>1, CommitKeeps
  <2>. QED
      BY <1>1, <2>2 DEF ThreadInv
<1>4. CASE UNCHANGED threadVars
  <2>1. /\ status' = status /\ phase' = phase /\ task' = task /\ target' = target /\ victims' = victims
        /\ told' = told /\ spent' = spent /\ draft' = draft /\ late' = late
      BY <1>4 DEF threadVars, txn
  <2>2. \A j \in Jobs : Active(j)' = Active(j) /\ \A r \in Threads : Seen(j, r)' = Seen(j, r)
      BY <2>1 DEF Active, Seen
  <2>3. \A j \in Jobs : OneThread(j)' /\ Unrivalled(j)'
      BY <2>1 DEF ThreadInv, OneThread, Unrivalled, Untouched
  <2>4. \A j \in Jobs : OwnRows(j)'
    <3>1. \A j \in Jobs : victims[j] \subseteq Threads
        BY DEF ThreadInv, ThreadTypeOK
    <3>. QED
        BY <2>1, <2>2, <3>1 DEF ThreadInv, OwnRows
  <2>5. \A j \in Jobs : Counted(j)'
      BY <2>1, <2>2 DEF ThreadInv, Counted
  <2>. QED
      BY <1>1, <2>3, <2>4, <2>5 DEF ThreadInv
<1>. QED
    BY <1>2, <1>3, <1>4 DEF ThreadNext, Step, Fail, EndDeadlock, Walks, Writes

\* Type correctness for any turns, passes, relationships, kinds and cap.
THEOREM ThreadTypeCorrect == ThreadSpec => []ThreadTypeOK
<1>1. ThreadInv => ThreadTypeOK
    BY DEF ThreadInv
<1>. QED
    BY <1>1, ThreadInitInv, ThreadInvStep, PTL DEF ThreadSpec

\* A job that nobody has overtaken since it looked does not double a kind of thread.
THEOREM ThreadDoubledLate == ThreadSpec => DoubledLate
<1>1. ASSUME ThreadInv, NEW j \in Jobs, NEW k \in Kinds, Commits(j),
             ~late[j], status'[<<k, j>>] # "none", status[<<k, j>>] = "none"
      PROVE  ~(Cardinality({i \in Jobs : status'[<<k, i>>] # "none"}) > 1)
  <2>1. \A i \in Jobs : <<k, i>> \in Threads /\ status'[<<k, i>>] = Seen(j, <<k, i>>)
      BY <1>1 DEF Commits, Threads
  <2>2. draft[j][<<k, j>>] # "none"
      BY <1>1, <2>1 DEF Seen
  <2>3. \A i \in Jobs : status[<<k, i>>] = "none"
      BY <1>1, <2>2 DEF ThreadInv, Unrivalled
  <2>4. \A i \in Jobs \ {j} : draft[j][<<k, i>>] = "none"
      BY <1>1, <2>3 DEF ThreadInv, OwnRows
  <2>5. \A i \in Jobs \ {j} : status'[<<k, i>>] = "none"
      BY <2>1, <2>3, <2>4 DEF Seen
  <2>. DEFINE doubles == {i \in Jobs : status'[<<k, i>>] # "none"}
  <2>6. doubles = {j}
      BY <1>1, <2>5
  <2>7. Cardinality({j}) = 1
      BY FS_Singleton
  <2>. HIDE DEF doubles
  <2>8. ~(Cardinality(doubles) > 1)
      BY <2>6, <2>7
  <2>. QED
      BY <2>8 DEF doubles
<1>2. ASSUME ThreadInv
      PROVE  [\A j \in Jobs, k \in Kinds :
                 /\ Commits(j)
                 /\ Cardinality({i \in Jobs : status'[<<k, i>>] # "none"}) > 1
                 => late[j] \/ status'[<<k, j>>] = "none" \/ status[<<k, j>>] # "none"]_threadVars
    BY <1>1, <1>2
<1>. QED
    BY <1>2, ThreadInitInv, ThreadInvStep, PTL DEF ThreadSpec, DoubledLate

\* Who raises a thread leaves Cap active ones, unless he was overtaken since he looked.
THEOREM ThreadAtMostCap == ThreadSpec => AtMostCap
<1>1. ASSUME ThreadInv, NEW j \in Jobs, Commits(j), ~late[j], told[j] = "active"
      PROVE  Cardinality({r \in Threads : status'[r] = "active"}) <= Cap
  <2>1. victims[j] = {} /\ phase[j] = "written"
      BY <1>1 DEF Commits, ThreadInv, OneThread
  <2>2. Cardinality(Active(j) \ victims[j]) <= Cap
      BY <1>1, <2>1 DEF ThreadInv, Counted
  <2>3. {r \in Threads : status'[r] = "active"} = Active(j) \ victims[j]
      BY <1>1, <2>1 DEF Commits, Active
  <2>. QED
      BY <2>2, <2>3
<1>2. ASSUME ThreadInv
      PROVE  [\A j \in Jobs :
                 Commits(j) /\ ~late[j] /\ told[j] = "active"
                 => Cardinality({r \in Threads : status'[r] = "active"}) <= Cap]_threadVars
    BY <1>1, <1>2
<1>. QED
    BY <1>2, ThreadInitInv, ThreadInvStep, PTL DEF ThreadSpec, AtMostCap
=============================================================================
