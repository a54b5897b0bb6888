---------------------------- MODULE PackLifecycle ----------------------------
(***************************************************************************)
(* How a world pack comes to be played.  Its files are created or imported *)
(* in several steps and loaded into two registries of the server process:  *)
(* the one of the container, which routes read, and the active one of the  *)
(* module, by which worlds are seeded.  A preprocess run seeds the world,  *)
(* part by part, and embeds and projects its knowledge, in one             *)
(* transaction; it is for the container's pack, but each part looks the    *)
(* active one up again.  (Single words that a part looks up again, a role  *)
(* or a default, are taken with it, and the places and routes that         *)
(* ensure_world seeds are those that the run seeds once more.)  Overrides, *)
(* a row for the pack and one for its template, say whether the template   *)
(* is public and playable; a gate lets it become so only when its latest   *)
(* run is ready for the content at hand.  Requests run in threads of one   *)
(* process and share files, registries and rows.                           *)
(*                                                                         *)
(* The content of a pack is its version, or the mixture that two copies    *)
(* into one directory leave; PackContent says which contents load and      *)
(* which rows they make.  One pack with one template.                      *)
(***************************************************************************)
EXTENDS PackContent, FiniteSets

CONSTANTS
    Requests,           \* admin requests
    Versions,           \* the contents that are no mixtures
    Manifest,           \* visibility and publish_status of the pack's manifest,
    TemplateManifest    \* and of the template in it

Fields == {"public", "playable"}
Values == {"unset", "yes", "no"}
Overrides == [Fields -> Values]

ASSUME PackConstants ==
    /\ Manifest \in [Fields -> {"yes", "no"}]
    /\ TemplateManifest \in Overrides
    /\ Versions \subseteq Contents
    /\ \A c \in {"none", "gone", "partial"} : c \notin Contents

Fitting == {c \in Contents : Fits(c)}
Loadable == Fitting \cup {"none"}
NoRow == [f \in Fields |-> "unset"]

VARIABLES
    disk,       \* the pack's directory: its content, "partial" or "gone"
    active,     \* the pack in _ACTIVE_REGISTRY, "none" when it did not load
    catalog,    \* the pack in container.pack_registry
    pack,       \* committed: AdminPackPublicationOverride
    template,   \* committed: AdminWorldTemplatePublicationOverride
    latest,     \* committed: the PackPreprocessRun with the highest created_at
    built,      \* committed: the content each part of the world is seeded from
    stage,      \* where each request is
    version,    \* the content it imports, registers or preprocesses
    level,      \* the row it patches
    copy,       \* that row as it read it
    row,        \* and as it should become
    born,       \* created_at of its run
    seed,       \* the content each part is from that its run has seeded
    births,
    alone,      \* history: no other request of its kind has run together with it
    muddled,    \* history: registries or files were left to an overlap or a failure
    shaken,     \* history: while its run seeded, another content has been active
    crossed     \* history: the last ready run was not alone, or was shaken

files == <<disk, active, catalog>>
tables == <<pack, template, latest, built>>
request == <<version, level, copy, row, born, seed>>
runs == <<shaken, crossed>>
vars == <<files, tables, stage, request, births, alone, muddled, runs>>

FileStages == {"remove", "create", "copy", "check", "load", "activate", "reload",
               "reactivate", "publish"}
RunStages == {"run", "projected", "failed"}

NoSeed == [p \in Parts |-> "none"]

Init ==
    /\ disk \in {"gone"} \cup Versions
    /\ active = IF disk \in Fitting THEN disk ELSE "none"
    /\ catalog = active
    /\ pack \in {NoRow, [f \in Fields |-> "yes"]}
    /\ template = NoRow
    /\ latest = [born |-> 0, version |-> "none", ready |-> FALSE]
    /\ built = NoSeed
    /\ stage = [r \in Requests |-> "new"]
    /\ version = [r \in Requests |-> "none"]
    /\ level = [r \in Requests |-> "pack"]
    /\ copy = [r \in Requests |-> NoRow]
    /\ row = [r \in Requests |-> NoRow]
    /\ born = [r \in Requests |-> 0]
    /\ seed = [r \in Requests |-> NoSeed]
    /\ births = 0
    /\ alone = [r \in Requests |-> TRUE]
    /\ muddled = FALSE
    /\ shaken = [r \in Requests |-> FALSE]
    /\ crossed = FALSE

\* What a registry has of a directory.
Load(d) == IF d \in Fitting THEN d ELSE "none"

Idle(r) == stage[r] \in {"new", "done"}
Goto(r, s) == stage' = [stage EXCEPT ![r] = s]

\* A request begins: those in the stages of its kind overlap it and are overlapped, and
\* every request overlaps the patches under way.
Join(r, kind) ==
    LET others == {q \in Requests \ {r} : stage[q] \in kind}
        patches == {q \in Requests \ {r} : stage[q] = "patch"} IN
    alone' = [q \in Requests |-> IF q = r THEN others \cup patches = {}
                                        ELSE alone[q] /\ q \notin others \cup patches]
----------------------------------------------------------------------------
(* Files: POST /packs and POST /packs/import *)

\* import_pack_archive unpacks and validates the archive elsewhere.
BeginImport(r, v) ==
    /\ stage[r] = "new"
    /\ v \in Fitting
    /\ Goto(r, "remove")
    /\ version' = [version EXCEPT ![r] = v]
    /\ Join(r, FileStages)
    /\ UNCHANGED <<files, tables, level, copy, row, born, seed, births, muddled, runs>>

\* A request that fails leaves the files and registries as they are.
EndInFailure(r) ==
    /\ stage' = [stage EXCEPT ![r] = "done"]
    /\ version' = [version EXCEPT ![r] = "none"]
    /\ muddled' = TRUE

\* Without replace, a directory that exists ends the request; with it, it is removed.
Remove(r) ==
    /\ stage[r] = "remove"
    /\ \/ Goto(r, "create") /\ disk' = "gone" /\ UNCHANGED <<version, muddled>>
       \/ /\ disk # "gone"
          /\ Goto(r, "done")
          /\ version' = [version EXCEPT ![r] = "none"]
          /\ muddled' = (muddled \/ ~alone[r])
          /\ UNCHANGED disk
    /\ UNCHANGED <<active, catalog, tables, level, copy, row, born, seed, births, alone,
                   runs>>

\* POST /packs begins with a new directory.
BeginCreate(r, v) ==
    /\ stage[r] = "new"
    /\ v \in Fitting
    /\ disk = "gone"
    /\ Goto(r, "create")
    /\ version' = [version EXCEPT ![r] = v]
    /\ Join(r, FileStages)
    /\ UNCHANGED <<files, tables, level, copy, row, born, seed, births, muddled, runs>>

\* Making a directory that another request has made meanwhile fails.
MakeDirectory(r) ==
    /\ stage[r] = "create"
    /\ \/ disk = "gone" /\ disk' = "partial" /\ Goto(r, "copy") /\ UNCHANGED <<version, muddled>>
       \/ disk # "gone" /\ EndInFailure(r) /\ UNCHANGED disk
    /\ UNCHANGED <<active, catalog, tables, level, copy, row, born, seed, births, alone,
                   runs>>

\* Copying goes on after another request has removed the directory, or made it anew.
Copy(r) ==
    /\ stage[r] = "copy"
    /\ Goto(r, "check")
    /\ disk' \in IF alone[r] THEN {version[r]}
                 ELSE (Contents \ Versions) \cup {version[r], "partial", disk}
    /\ UNCHANGED <<active, catalog, tables, request, births, alone, muddled, runs>>

\* The pack that does not load stays where it is; the request fails.  An import loads the
\* registry twice from here, POST /packs once.  The import of the command line, a process
\* of its own, ends here too and leaves the registries of the server behind.
Check(r) ==
    /\ stage[r] = "check"
    /\ \/ /\ Load(disk) # "none"
          /\ Goto(r, "load") \/ Goto(r, "reload")
          /\ UNCHANGED <<version, muddled>>
       \/ EndInFailure(r)
    /\ UNCHANGED <<files, tables, level, copy, row, born, seed, births, alone, runs>>

\* configure_pack_registry: the directory is read, then the registry is replaced; the last
\* time in _refresh_pack_registry, which hands the registry to the container.
ReadFiles(r) ==
    /\ stage[r] \in {"load", "reload"}
    /\ Goto(r, IF stage[r] = "load" THEN "activate" ELSE "reactivate")
    /\ version' = [version EXCEPT ![r] = Load(disk)]
    /\ UNCHANGED <<files, tables, level, copy, row, born, seed, births, alone, muddled,
                   runs>>

Activate(r) ==
    /\ stage[r] \in {"activate", "reactivate"}
    /\ Goto(r, IF stage[r] = "activate" THEN "reload" ELSE "publish")
    /\ active' = version[r]
    /\ shaken' = [q \in Requests |->
                     shaken[q] \/ (stage[q] = "run" /\ active' # version[q])]
    /\ UNCHANGED <<disk, catalog, tables, request, births, alone, muddled, crossed>>

\* Fault: the container keeps its registry.
CatalogAfterKept(r) == catalog

CatalogAfter(r) == version[r]

HandOver(r) ==
    /\ stage[r] = "publish"
    /\ Goto(r, "done")
    /\ catalog' = CatalogAfter(r)
    /\ version' = [version EXCEPT ![r] = "none"]
    /\ muddled' = ~alone[r]
    /\ UNCHANGED <<disk, active, tables, level, copy, row, born, seed, births, alone, runs>>
----------------------------------------------------------------------------
(* run_pack_preprocess *)

BeginRun(r) ==
    /\ stage[r] = "new"
    /\ catalog # "none"
    /\ Goto(r, "run")
    /\ version' = [version EXCEPT ![r] = catalog]
    /\ born' = [born EXCEPT ![r] = births + 1]
    /\ births' = births + 1
    /\ shaken' = [shaken EXCEPT ![r] = active # catalog]
    /\ Join(r, RunStages)
    /\ UNCHANGED <<files, tables, level, copy, row, seed, muddled, crossed>>

Seeding(r) == seed[r] # NoSeed

\* A part is seeded by the registry that is active then; the world's row is locked by the
\* first write.
Seed(r, part) ==
    /\ stage[r] = "run"
    /\ part \in PartsOf(version[r])
    /\ seed[r][part] = "none"
    /\ \A p \in Earlier[part] \cap PartsOf(version[r]) : seed[r][p] # "none"
    /\ active # "none"
    /\ \A q \in Requests \ {r} : ~Seeding(q)
    /\ seed' = [seed EXCEPT ![r][part] = active]
    /\ UNCHANGED <<files, tables, stage, version, level, copy, row, born, births, alone,
                   muddled, runs>>

\* Every memory is embedded, every event projected,
Project(r) ==
    /\ stage[r] = "run"
    /\ \A p \in PartsOf(version[r]) : seed[r][p] # "none"
    /\ Goto(r, "projected")
    /\ UNCHANGED <<files, tables, request, births, alone, muddled, runs>>

\* A rollback to the savepoint takes back what the run has seeded.
KeptSeed(r) == NoSeed

\* or the run fails, at any point.
FailRun(r) ==
    /\ stage[r] = "run"
    /\ Goto(r, "failed")
    /\ seed' = [seed EXCEPT ![r] = KeptSeed(r)]
    /\ UNCHANGED <<files, tables, version, level, copy, row, born, births, alone, muddled,
                   runs>>

\* The latest run is the one that began last.
IsLatest(r) == born[r] > latest.born

\* Places and routes that the run read before another one's commit, and that need no
\* change then, stay as they are: ensure_world loads both before it waits for the world.
MayKeep(r) == IF alone[r] \/ built = NoSeed THEN {} ELSE {"places", "routes"}

\* The world with what the run has seeded, but for the parts it keeps.
Built(r, kept) ==
    [p \in Parts |-> IF p \in kept \/ seed[r][p] = "none" THEN built[p] ELSE seed[r][p]]

CommitRun(r) ==
    /\ stage[r] \in {"projected", "failed"}
    /\ Goto(r, "done")
    /\ latest' = IF IsLatest(r)
                 THEN [born |-> born[r], version |-> version[r],
                       ready |-> stage[r] = "projected"]
                 ELSE latest
    /\ \E kept \in SUBSET MayKeep(r) : built' = Built(r, kept)
    /\ crossed' = IF stage[r] = "projected" THEN ~alone[r] \/ shaken[r] ELSE crossed
    /\ shaken' = [shaken EXCEPT ![r] = FALSE]
    /\ version' = [version EXCEPT ![r] = "none"]
    /\ born' = [born EXCEPT ![r] = 0]
    /\ seed' = [seed EXCEPT ![r] = NoSeed]
    /\ UNCHANGED <<files, pack, template, level, copy, row, births, alone, muddled>>

\* pack_preprocess_status: otherwise it is required, stale or failed.
Ready == catalog # "none" /\ latest.version = catalog /\ latest.ready
----------------------------------------------------------------------------
(* Publication: PATCH /packs/{pack} and PATCH /world-templates/{pack}/{template} *)

Or(value, default) == IF value = "unset" THEN default ELSE value

PackSays(p) == [f \in Fields |-> Or(p[f], Manifest[f])]
Inherited(p) == [f \in Fields |-> Or(TemplateManifest[f], PackSays(p)[f])]
Effective(p, t) == [f \in Fields |-> Or(t[f], Inherited(p)[f])]
Published(p, t) == \A f \in Fields : Effective(p, t)[f] = "yes"

\* A value that the row would have without an override takes the override away.
Override(payload, existing, source) ==
    [f \in Fields |->
        IF payload[f] = "unset" THEN existing[f]
        ELSE IF payload[f] = source[f] THEN "unset" ELSE payload[f]]

\* Fault: the gate looks at the row that is patched, not at what the template inherits.
GateOpenOwn(p, t) == (\A f \in Fields : t[f] = "yes") => Ready

GateOpen(p, t) == Published(p, t) => Ready

\* The gate is asked only when the request asks for "public" or "playable".
Admitted(payload, p, t) == (\E f \in Fields : payload[f] = "yes") => GateOpen(p, t)

ReadPatch(r, l, payload) ==
    LET existing == IF l = "pack" THEN pack ELSE template
        source == IF l = "pack" THEN Manifest ELSE Inherited(pack)
        new == Override(payload, existing, source) IN
    /\ stage[r] = "new"
    /\ catalog # "none"
    /\ payload # NoRow
    /\ IF l = "pack" THEN Admitted(payload, new, template) ELSE Admitted(payload, pack, new)
    /\ Goto(r, "patch")
    /\ level' = [level EXCEPT ![r] = l]
    /\ copy' = [copy EXCEPT ![r] = existing]
    /\ row' = [row EXCEPT ![r] = new]
    /\ alone' = [q \in Requests |-> IF q = r THEN \A o \in Requests \ {r} : Idle(o)
                                             ELSE alone[q] /\ stage[q] # "patch"]
    /\ UNCHANGED <<files, tables, version, born, seed, births, muddled, runs>>

\* The columns that differ from the copy.
Changed(r, committed) ==
    [f \in Fields |-> IF row[r][f] # copy[r][f] THEN row[r][f] ELSE committed[f]]

\* A row that another request has inserted or deleted meanwhile makes this one fail.
Writable(r, committed) ==
    row[r] = NoRow \/ row[r] = copy[r] \/ (copy[r] = NoRow <=> committed = NoRow)

After(r, committed) == IF row[r] = NoRow THEN NoRow ELSE Changed(r, committed)

CommitPatch(r) ==
    LET committed == IF level[r] = "pack" THEN pack ELSE template IN
    /\ stage[r] = "patch"
    /\ IF ~Writable(r, committed) THEN UNCHANGED <<pack, template>>
       ELSE IF level[r] = "pack" THEN pack' = After(r, pack) /\ UNCHANGED template
            ELSE template' = After(r, template) /\ UNCHANGED pack
    /\ Goto(r, "done")
    /\ level' = [level EXCEPT ![r] = "pack"]
    /\ copy' = [copy EXCEPT ![r] = NoRow]
    /\ row' = [row EXCEPT ![r] = NoRow]
    /\ UNCHANGED <<files, latest, built, version, born, seed, births, alone, muddled, runs>>
----------------------------------------------------------------------------
\* The process is restarted: what was under way is lost, the registries are loaded.
Restart ==
    /\ \E r \in Requests : ~Idle(r)
    /\ stage' = [r \in Requests |-> IF stage[r] = "new" THEN "new" ELSE "done"]
    /\ active' = Load(disk)
    /\ catalog' = Load(disk)
    /\ muddled' = FALSE
    /\ version' = [r \in Requests |-> "none"]
    /\ level' = [r \in Requests |-> "pack"]
    /\ copy' = [r \in Requests |-> NoRow]
    /\ row' = [r \in Requests |-> NoRow]
    /\ born' = [r \in Requests |-> 0]
    /\ seed' = [r \in Requests |-> NoSeed]
    /\ shaken' = [r \in Requests |-> FALSE]
    /\ UNCHANGED <<disk, tables, births, alone, crossed>>

Files(r) ==
    \/ \E v \in Versions : BeginImport(r, v) \/ BeginCreate(r, v)
    \/ Remove(r) \/ MakeDirectory(r) \/ Copy(r) \/ Check(r)
    \/ ReadFiles(r) \/ Activate(r) \/ HandOver(r)

Run(r) ==
    \/ BeginRun(r)
    \/ \E part \in Parts : Seed(r, part)
    \/ Project(r) \/ FailRun(r) \/ CommitRun(r)

Patch(r) ==
    \/ \E l \in {"pack", "template"}, payload \in Overrides : ReadPatch(r, l, payload)
    \/ CommitPatch(r)

Next == (\E r \in Requests : Files(r) \/ Run(r) \/ Patch(r)) \/ Restart

Spec == Init /\ [][Next]_vars
----------------------------------------------------------------------------
TypeOK ==
    /\ disk \in Contents \cup {"gone", "partial"}
    /\ active \in Loadable /\ catalog \in Loadable
    /\ pack \in Overrides /\ template \in Overrides
    /\ latest \in [born : Nat, version : Loadable, ready : BOOLEAN]
    /\ built \in [Parts -> Loadable]
    /\ stage \in [Requests -> {"new", "patch", "done"} \cup FileStages \cup RunStages]
    /\ version \in [Requests -> Loadable]
    /\ level \in [Requests -> {"pack", "template"}]
    /\ copy \in [Requests -> Overrides]
    /\ row \in [Requests -> Overrides]
    /\ born \in [Requests -> Nat]
    /\ seed \in [Requests -> [Parts -> Loadable]]
    /\ births \in Nat
    /\ alone \in [Requests -> BOOLEAN]
    /\ muddled \in BOOLEAN
    /\ shaken \in [Requests -> BOOLEAN]
    /\ crossed \in BOOLEAN
    /\ latest.ready => \A p \in Structure : built[p] # "none"

\* When no files are being changed, both registries show them, unless the last change
\* overlapped another one or failed.
RegistriesShowFiles ==
    ~muddled /\ (\A r \in Requests : stage[r] \notin FileStages)
        => active = Load(disk) /\ catalog = Load(disk)

Offered == catalog # "none" /\ Published(pack, template)

\* The catalogs of worlds and packs list it,
Listed == Offered /\ Ready

\* and POST /sessions admits players to it.
Enterable == Offered /\ Ready

\* Every part of a world that players are shown or can enter is seeded from the content its
\* pack has now, and the world has every row that the rules of that content change, however
\* imports, runs and failures follow each other, unless its last ready run overlapped
\* another one or another content was active while it seeded.
ListedIsBuilt ==
    (Listed \/ Enterable) /\ ~crossed =>
        (\A p \in PartsOf(catalog) : built[p] = catalog) /\ Resolved(catalog, built)

\* The template becomes public and playable only when its run is ready, unless something
\* else was changed between the gate and the commit.
PublishedWhenReady ==
    [][\A r \in Requests :
          CommitPatch(r) /\ alone[r] /\ Published(pack', template') => Published(pack, template) \/ Ready]_vars
=============================================================================
