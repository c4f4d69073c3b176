-------------------------- MODULE DocServeProofs --------------------------
(***************************************************************************)
(* What make doc-serve guarantees for any sources, directories and         *)
(* starter files, and any number of edits.                                 *)
(***************************************************************************)
EXTENDS DocServe, SequenceTheorems, FiniteSetTheorems, WellFoundedInduction, TLAPS

Merges == [base : Bases, custom : Customs]

\* What the steps of a run have done by the time the next one begins.
PastDocs == {"assets", "seeds", "gitignore", "listing", "links"}
PastAssets == PastDocs \ {"assets"}
PastSeeds == PastAssets \ {"seeds"}
PastGitignore == PastSeeds \ {"gitignore"}

Installs ==
    /\ pc \in PastDocs \union {"copy"} => docs
    /\ pc \in PastAssets => assets = "template"
    /\ pc \in PastSeeds => \A f \in Seeds : seeds[f] # "none"
    /\ pc \in PastGitignore => gitignore \in {"entry", "indented"}
    /\ pc = "links" => \A d \in (dirs \ Skipped) \ todo : links[d] # "none"

\* As long as no copy was torn, none is cut short, and a docs/ that is not being filled
\* has all its pages.
Untorn ==
    ~torn =>
        /\ \A p \in Pages : pages[p] # "cut"
        /\ \A f \in Seeds : seeds[f] # "cut"
        /\ docs /\ pc # "copy" => \A p \in Pages : pages[p] # "none"

InstallInv == TypeOK /\ Installs /\ Untorn

-----------------------------------------------------------------------------

LEMMA Merging ==
    ASSUME NEW b \in Bases, NEW c \in Customs
    PROVE  /\ Merge(b, c) \in Merges
           /\ Merge(b, c) \notin {NoFile, Empty, HandEdited}
  BY SentinelAssumption DEF Merge, Merges

LEMMA QueueType ==
    ASSUME queue \in 0..MaxQueue, NEW file, NEW kind, Delivers(file, kind)
    PROVE  queue' \in 0..MaxQueue
  BY BoundAssumption DEF Delivers, Upto

LEMMA InitInstall == Init => InstallInv
  <1> SUFFICES ASSUME Init PROVE InstallInv
    OBVIOUS
  <1>1. /\ yml \in Ymls /\ index \in Ymls \ {Empty} /\ commit \in Ymls \ {Empty}
        /\ custom \in Customs \union {NoFile}
    <2>1. CASE NewProject
      BY <2>1, SentinelAssumption DEF NewProject, Ymls, Init
    <2>2. CASE KnownProject
      <3>1. custom \in Customs \ Broken /\ base \in Bases
        BY <2>2 DEF KnownProject, Loads, Init
      <3>2. Sources \in [base : Bases, custom : Customs \ Broken] /\ Sources # Empty
        BY <3>1, SentinelAssumption DEF Sources, Merge
      <3> QED
        BY <2>2, <3>1, <3>2 DEF KnownProject, Ymls
    <2> QED
      BY <2>1, <2>2 DEF Init
  <1>2. /\ docs \in BOOLEAN /\ pages \in [Pages -> Copies]
        /\ assets \in Copies /\ seeds \in [Seeds -> Copies]
        /\ gitignore \in Gitignores
    BY DEF Init, NewProject, KnownProject, Copies, LastLines, Gitignores
  <1>3. /\ mode \in {"dev", "ci"} /\ phase \in {"down", "setup"} /\ pc \in {"idle", "custom"}
        /\ phase = "down" => pc = "idle"
    BY DEF Init
  <1>4. /\ queue \in 0..MaxQueue /\ edits \in 0..MaxEdits
        /\ recent \in BOOLEAN /\ changed \in BOOLEAN /\ missed \in BOOLEAN
        /\ torn \in BOOLEAN
    <2>1. queue \in 0..MaxQueue /\ edits \in 0..MaxEdits
      BY BoundAssumption DEF Init
    <2>2. /\ recent \in BOOLEAN /\ changed \in BOOLEAN /\ missed \in BOOLEAN
          /\ torn \in BOOLEAN
      BY Zenon DEF Init
    <2> QED
      BY <2>1, <2>2
  <1>5. /\ dirs \subseteq Dirs /\ todo \subseteq Dirs
        /\ links \in [Dirs -> {"none", "link", "real"}]
        /\ base \in Bases /\ merged = NoFile /\ exit = "none"
    BY DEF Init
  <1>6. TypeOK
    BY <1>1, <1>2, <1>3, <1>4, <1>5 DEF TypeOK
  <1>7. Untorn
    BY DEF Init, NewProject, KnownProject, Untorn
  <1> QED
    BY <1>3, <1>6, <1>7
    DEF InstallInv, Installs, PastDocs, PastAssets, PastSeeds, PastGitignore

Booleans ==
    /\ docs \in BOOLEAN /\ torn \in BOOLEAN
    /\ recent \in BOOLEAN /\ changed \in BOOLEAN /\ missed \in BOOLEAN

Stages == {"idle", "custom", "merge", "check", "truncate", "write", "docs", "copy", "assets",
           "seeds", "gitignore", "listing", "links"}

SourcesType ==
    /\ base \in Bases /\ custom \in Customs \union {NoFile}
    /\ yml \in Ymls /\ index \in Ymls \ {Empty} /\ commit \in Ymls \ {Empty}
    /\ merged \in {NoFile} \union [base : Bases, custom : Customs \ Broken]
    /\ pc \in {"check", "truncate", "write"} => merged # NoFile

InstalledType ==
    /\ pages \in [Pages -> Copies] /\ assets \in Copies /\ seeds \in [Seeds -> Copies]
    /\ gitignore \in Gitignores
    /\ dirs \subseteq Dirs /\ todo \subseteq Dirs
    /\ links \in [Dirs -> {"none", "link", "real"}]
    /\ pc \in Stages /\ exit \in {"none", "ok", "failed"}

\* A run of setup_documentation.py keeps the types of what it works on.
LEMMA SetupStepTypes ==
    ASSUME SourcesType, InstalledType, docs \in BOOLEAN, SetupStep
    PROVE  SourcesType' /\ InstalledType' /\ docs' \in BOOLEAN
  <1> USE DEF sources, git, installed, local, Advances, Ends
  <1>1. CASE ensure_mkdocs_custom
    BY <1>1, ContentAssumption DEF ensure_mkdocs_custom, SourcesType, InstalledType, Stages
  <1>2. CASE ReadSources
    <2>1. CASE Loads(custom)
      <3>1. base \in Bases /\ custom \in Customs \ Broken
        BY <2>1 DEF Loads, SourcesType
      <3>2. Sources \in [base : Bases, custom : Customs \ Broken] /\ Sources # NoFile
        BY <3>1, Merging DEF Sources, Merge
      <3> QED
        BY <1>2, <2>1, <3>2 DEF ReadSources, SourcesType, InstalledType, Stages
    <2>2. CASE ~Loads(custom)
      BY <1>2, <2>2 DEF ReadSources, SourcesType, InstalledType, Stages
    <2> QED
      BY <2>1, <2>2
  <1>3. CASE CheckDirty
    BY <1>3 DEF CheckDirty, SourcesType, InstalledType, Stages
  <1>4. CASE Truncate
    BY <1>4 DEF Truncate, Ymls, SourcesType, InstalledType, Stages
  <1>5. CASE Write
    BY <1>5 DEF Write, Ymls, SourcesType, InstalledType, Stages
  <1>6. CASE ensure_docs_dir
    BY <1>6 DEF ensure_docs_dir, SourcesType, InstalledType, Stages, Copies
  <1>7. CASE sync_managed_docs_assets
    BY <1>7 DEF sync_managed_docs_assets, Synced, SourcesType, InstalledType, Stages, Copies
  <1>8. CASE seed_files
    BY <1>8 DEF seed_files, SourcesType, InstalledType, Stages, Copies
  <1>9. CASE ensure_gitignore_entries
    BY <1>9 DEF ensure_gitignore_entries, Appended, SourcesType, InstalledType, Stages,
       LastLines, Gitignores
  <1>10. CASE ListDirectories
    BY <1>10 DEF ListDirectories, SourcesType, InstalledType, Stages
  <1>11. CASE CreateSymlink
    BY <1>11 DEF CreateSymlink, Linked, SourcesType, InstalledType, Stages
  <1>12. CASE Finishes
    BY <1>12 DEF Finishes, SourcesType, InstalledType, Stages
  <1>13. CASE copytree
    BY <1>13 DEF copytree, Filled, SourcesType, InstalledType, Stages, Copies
  <1> QED
    BY <1>1, <1>2, <1>3, <1>4, <1>5, <1>6, <1>7, <1>8, <1>9, <1>10, <1>11, <1>12, <1>13
    DEF SetupStep

PhaseType ==
    /\ mode \in {"dev", "ci"}
    /\ phase \in {"down", "setup", "starting", "watching", "joining", "build"}
    /\ phase \in {"down", "starting", "build"} => pc = "idle"
    /\ mode = "ci" => phase \in {"down", "setup", "build"}

CountersType == queue \in 0..MaxQueue /\ edits \in 0..MaxEdits

LEMMA TypeParts ==
    TypeOK <=> SourcesType /\ InstalledType /\ PhaseType /\ CountersType /\ Booleans
  BY DEF TypeOK, SourcesType, InstalledType, Stages, PhaseType, CountersType, Booleans

LEMMA SetupTypes ==
    ASSUME TypeOK, Next
    PROVE  SourcesType' /\ InstalledType'
  <1> USE DEF sources, git, installed, local, setupVars
  <1>a. SourcesType /\ InstalledType /\ docs \in BOOLEAN
    BY TypeParts DEF Booleans
  <1>1. CASE UNCHANGED setupVars
    BY <1>a, <1>1 DEF SourcesType, InstalledType, Stages, Copies
  <1>2. CASE SetupStep
    BY <1>a, <1>2, SetupStepTypes
  <1>3. CASE Begins
    BY <1>a, <1>3 DEF Begins, SourcesType, InstalledType, Stages
  <1>4. CASE Interrupted
    BY <1>a, <1>4 DEF Interrupted, CopyCutShort, Shortened, Ends, SourcesType, InstalledType,
       Stages, Copies
  <1>5. CASE SaveBase \/ SaveCustom \/ DeleteCustom
    BY <1>a, <1>5 DEF SaveBase, SaveCustom, DeleteCustom, SourcesType, InstalledType, Stages
  <1>6. CASE EditYml \/ Stage \/ Commit
    BY <1>a, <1>6, SentinelAssumption
    DEF EditYml, Stage, Commit, SourcesType, InstalledType, Stages, Ymls
  <1>7. CASE EditProject
    BY <1>a, <1>7
    DEF EditProject, SourcesType, InstalledType, Stages, Copies, LastLines, Gitignores
  <1> QED
    BY <1>1, <1>2, <1>3, <1>4, <1>5, <1>6, <1>7
    DEF Next, SetupRuns, MakeDocServe, SetupEnds, Watch, Fire, WindowCloses, Stop, ServeEnds,
        ObserverJoined, InterruptSetup, Stopped, Build, EditResult, UseGit, EditRest

LEMMA PhaseTypes ==
    ASSUME TypeOK, Next
    PROVE  PhaseType'
  <1> USE DEF PhaseType
  <1>a. PhaseType
    BY TypeParts
  <1>1. CASE SetupRuns
    <2>1. pc # "idle" /\ UNCHANGED <<mode, phase>>
      BY <1>1 DEF SetupRuns, SetupStep, Advances, Ends, ensure_mkdocs_custom, ReadSources,
         CheckDirty, Truncate, Write, ensure_docs_dir, copytree, sync_managed_docs_assets, seed_files,
         ensure_gitignore_entries, ListDirectories, CreateSymlink, Finishes
    <2> QED
      BY <1>a, <2>1
  <1>2. CASE MakeDocServe \/ SetupEnds \/ Watch
    BY <1>a, <1>2 DEF MakeDocServe, SetupEnds, Watch, setupVars
  <1>3. CASE Fire \/ WindowCloses \/ ServeEnds \/ ObserverJoined
    BY <1>a, <1>3 DEF Fire, WindowCloses, ServeEnds, ObserverJoined, setupVars
  <1>4. CASE Stop \/ InterruptSetup
    BY <1>a, <1>4 DEF Stop, InterruptSetup, Stopped, Interrupted, Ends, setupVars
  <1>5. CASE Build
    BY <1>a, <1>5 DEF Build, setupVars
  <1>6. CASE SaveBase \/ SaveCustom \/ DeleteCustom \/ EditResult \/ UseGit \/ EditRest
    BY <1>a, <1>6 DEF SaveBase, SaveCustom, DeleteCustom, EditResult, UseGit, EditRest, Edits,
       EditYml, Stage, Commit, EditProject
  <1> QED
    BY <1>1, <1>2, <1>3, <1>4, <1>5, <1>6 DEF Next

LEMMA CounterTypes ==
    ASSUME TypeOK, Next
    PROVE  CountersType'
  <1> USE DEF CountersType
  <1>a. CountersType
    BY TypeParts
  <1>1. CASE SetupRuns
    BY <1>a, <1>1, QueueType DEF SetupRuns
  <1>2. CASE MakeDocServe \/ SetupEnds \/ Watch
    BY <1>a, <1>2, BoundAssumption DEF MakeDocServe, SetupEnds, Watch
  <1>3. CASE Fire \/ WindowCloses \/ ServeEnds \/ ObserverJoined
    BY <1>a, <1>3, BoundAssumption
    DEF Fire, Remaining, WindowCloses, ServeEnds, ObserverJoined
  <1>4. CASE Stop \/ InterruptSetup \/ Build
    BY <1>a, <1>4, BoundAssumption DEF Stop, InterruptSetup, Stopped, Build
  <1>5. CASE SaveBase \/ SaveCustom \/ DeleteCustom \/ EditResult \/ UseGit \/ EditRest
    <2>1. edits' \in 0..MaxEdits
      BY <1>a, <1>5, BoundAssumption
      DEF SaveBase, SaveCustom, DeleteCustom, EditResult, UseGit, EditRest, Edits
    <2>2. queue' \in 0..MaxQueue
      BY <1>a, <1>5, QueueType
      DEF SaveBase, SaveCustom, DeleteCustom, EditResult, UseGit, EditRest
    <2> QED
      BY <2>1, <2>2
  <1> QED
    BY <1>1, <1>2, <1>3, <1>4, <1>5 DEF Next

LEMMA BooleanTypes ==
    ASSUME TypeOK, Next
    PROVE  Booleans'
  <1>a. Booleans /\ SourcesType /\ InstalledType
    BY TypeParts
  <1>1. docs' \in BOOLEAN
    <2>1. SetupStep \/ docs' = docs
      BY DEF Next, SetupRuns, MakeDocServe, SetupEnds, Watch, Fire, WindowCloses, Stop,
         ServeEnds, ObserverJoined, InterruptSetup, Stopped, Build, SaveBase, SaveCustom, DeleteCustom,
         EditResult, UseGit, EditRest, Begins, Interrupted, EditYml, Stage, Commit,
         EditProject, setupVars, installed
    <2> QED
      BY <1>a, <2>1, SetupStepTypes DEF Booleans
  <1>2. recent' \in BOOLEAN
    <2>1. recent' = recent \/ recent' = FALSE \/ recent' = TRUE
      BY DEF Next, SetupRuns, MakeDocServe, SetupEnds, Watch, Fire, WindowCloses, Stop,
         ServeEnds, ObserverJoined, InterruptSetup, Stopped, Build, SaveBase, SaveCustom, DeleteCustom,
         EditResult, UseGit, EditRest, Edits
    <2> QED
      BY <1>a, <2>1, Zenon DEF Booleans
  <1>3. changed' \in BOOLEAN
    <2>1. \/ changed' = changed \/ changed' = FALSE \/ changed' = TRUE
          \/ changed' = (changed \/ <<yml, installed>>' # <<yml, installed>>)
      BY DEF Next, SetupRuns, MakeDocServe, SetupEnds, Watch, Fire, WindowCloses, Stop,
         ServeEnds, ObserverJoined, InterruptSetup, Stopped, Build, SaveBase, SaveCustom, DeleteCustom,
         EditResult, UseGit, EditRest
    <2> QED
      BY <1>a, <2>1, Zenon DEF Booleans
  <1>4. missed' \in BOOLEAN
    <2>1. \/ missed' = missed \/ missed' = (missed /\ pc # "merge")
          \/ missed' = (missed \/ merged # Sources) \/ missed' = (missed \/ Unheard)
      BY DEF Next, SetupRuns, MakeDocServe, SetupEnds, Watch, Fire, WindowCloses, Stop,
         ServeEnds, ObserverJoined, InterruptSetup, Stopped, Build, SaveBase, SaveCustom, DeleteCustom,
         EditResult, UseGit, EditRest
    <2> QED
      BY <1>a, <2>1, Zenon DEF Booleans
  <1>5. torn' \in BOOLEAN
    <2>1. torn' = torn \/ torn' = (torn \/ pc = "copy" \/ seeds' # seeds)
      <3> USE DEF local
      <3>1. SetupStep => torn' = torn
        BY DEF SetupStep, ensure_mkdocs_custom, ReadSources, CheckDirty, Truncate, Write,
           ensure_docs_dir, copytree, sync_managed_docs_assets, seed_files,
           ensure_gitignore_entries, ListDirectories, CreateSymlink, Finishes
      <3> QED
        BY <3>1 DEF Next, SetupRuns, MakeDocServe, SetupEnds, Watch, Fire, WindowCloses, Stop,
           ServeEnds, ObserverJoined, InterruptSetup, Stopped, Build, SaveBase, SaveCustom,
           DeleteCustom, EditResult, UseGit, EditRest, Begins, Interrupted, EditYml, Stage,
           Commit, EditProject, setupVars
    <2> QED
      BY <1>a, <2>1, Zenon DEF Booleans
  <1> QED
    BY <1>1, <1>2, <1>3, <1>4, <1>5 DEF Booleans

LEMMA NextTypes == TypeOK /\ [Next]_vars => TypeOK'
  <1>1. ASSUME TypeOK, Next PROVE TypeOK'
    <2>1. SourcesType' /\ InstalledType' /\ PhaseType' /\ CountersType' /\ Booleans'
      BY <1>1, SetupTypes, PhaseTypes, CounterTypes, BooleanTypes
    <2> QED
      BY <2>1 DEF TypeOK, SourcesType, InstalledType, Stages, PhaseType, CountersType, Booleans
  <1>2. ASSUME TypeOK, UNCHANGED vars PROVE TypeOK'
    BY <1>2 DEF vars, setupVars, serveVars, TypeOK
  <1> QED
    BY <1>1, <1>2

-----------------------------------------------------------------------------

\* What a run has installed stays, step by step.
LEMMA SetupStepInstalls ==
    ASSUME TypeOK, Installs, SetupStep
    PROVE  Installs'
  <1> USE DEF sources, git, installed, local, Advances, Ends, Installs, PastDocs, PastAssets,
              PastSeeds, PastGitignore
  <1>1. CASE ensure_mkdocs_custom \/ ReadSources \/ CheckDirty \/ Truncate \/ Write
    BY <1>1 DEF ensure_mkdocs_custom, ReadSources, CheckDirty, Truncate, Write
  <1>2. CASE ensure_docs_dir
    BY <1>2 DEF ensure_docs_dir
  <1>3. CASE sync_managed_docs_assets
    BY <1>3 DEF sync_managed_docs_assets, Synced
  <1>4. CASE seed_files
    BY <1>4 DEF seed_files, Unseeded
  <1>5. CASE ensure_gitignore_entries
    BY <1>5 DEF ensure_gitignore_entries, Appended
  <1>6. CASE ListDirectories
    BY <1>6 DEF ListDirectories
  <1>7. CASE CreateSymlink
    <2>1. PICK d \in todo : links' = [links EXCEPT ![d] = Linked(@)] /\ todo' = todo \ {d}
      BY <1>7 DEF CreateSymlink
    <2>2. links \in [Dirs -> {"none", "link", "real"}] /\ d \in Dirs /\ dirs \subseteq Dirs
      BY <2>1 DEF TypeOK
    <2>3. links'[d] # "none" /\ \A e \in Dirs \ {d} : links'[e] = links[e]
      BY <2>1, <2>2 DEF Linked
    <2> QED
      BY <1>7, <2>1, <2>2, <2>3 DEF CreateSymlink
  <1>8. CASE Finishes
    BY <1>8 DEF Finishes
  <1>9. CASE copytree
    BY <1>9 DEF copytree
  <1> QED
    BY <1>1, <1>2, <1>3, <1>4, <1>5, <1>6, <1>7, <1>8, <1>9 DEF SetupStep

\* No step of a run cuts a copy short, and it leaves a docs/ it made once that is full.
LEMMA SetupStepUntorn ==
    ASSUME TypeOK, Untorn, SetupStep
    PROVE  Untorn'
  <1> USE DEF sources, git, installed, local, Advances, Ends, Untorn
  <1>1. CASE ensure_mkdocs_custom \/ ReadSources \/ CheckDirty \/ Truncate \/ Write
    BY <1>1 DEF ensure_mkdocs_custom, ReadSources, CheckDirty, Truncate, Write
  <1>2. CASE ensure_docs_dir
    BY <1>2 DEF ensure_docs_dir
  <1>3. CASE copytree
    BY <1>3 DEF copytree, Filled, TypeOK
  <1>4. CASE sync_managed_docs_assets \/ ensure_gitignore_entries
    BY <1>4 DEF sync_managed_docs_assets, ensure_gitignore_entries
  <1>5. CASE seed_files
    BY <1>5 DEF seed_files, TypeOK
  <1>6. CASE ListDirectories \/ CreateSymlink \/ Finishes
    BY <1>6 DEF ListDirectories, CreateSymlink, Finishes
  <1> QED
    BY <1>1, <1>2, <1>3, <1>4, <1>5, <1>6 DEF SetupStep

\* A run that is stopped where it copies leaves the mark.
LEMMA InterruptedUntorn ==
    ASSUME TypeOK, Untorn, Interrupted
    PROVE  Untorn'
  <1> SUFFICES ASSUME ~torn' PROVE Untorn'
    BY DEF Untorn
  <1>1. ~torn /\ pc # "copy" /\ seeds' = seeds /\ docs' = docs
    BY DEF Interrupted
  <1>2. pages' = pages
    BY <1>1 DEF Interrupted, CopyCutShort
  <1> QED
    BY <1>1, <1>2 DEF Untorn

LEMMA NextInstalls == InstallInv /\ [Next]_vars => InstallInv'
  <1> SUFFICES ASSUME InstallInv, [Next]_vars PROVE InstallInv'
    OBVIOUS
  <1> USE DEF Installs, PastDocs, PastAssets, PastSeeds, PastGitignore
  <1>1. TypeOK'
    BY NextTypes DEF InstallInv
  <1>2. CASE SetupStep
    BY <1>1, <1>2, SetupStepInstalls, SetupStepUntorn DEF InstallInv
  <1>3. CASE UNCHANGED <<pc, installed, dirs, todo, torn>>
    BY <1>1, <1>3 DEF InstallInv, installed, Untorn
  <1>4. CASE Begins
    BY <1>1, <1>4 DEF InstallInv, Begins, installed, local, Untorn
  <1>5. CASE Interrupted
    <2>1. Installs'
      BY <1>5 DEF Interrupted, Ends
    <2> QED
      BY <1>1, <1>5, <2>1, InterruptedUntorn DEF InstallInv
  <1>6. CASE EditProject
    <2>1. pc = "idle" /\ UNCHANGED <<docs, pc, torn>>
      BY <1>6 DEF EditProject, local
    <2>2. Untorn'
      BY <1>6, <2>1 DEF InstallInv, TypeOK, Untorn, EditProject
    <2> QED
      BY <1>1, <2>1, <2>2 DEF InstallInv
  <1> HIDE DEF Installs, PastDocs, PastAssets, PastSeeds, PastGitignore
  <1>7. CASE SetupRuns \/ MakeDocServe \/ SetupEnds \/ Watch \/ Fire \/ WindowCloses
    BY <1>2, <1>3, <1>4, <1>7
    DEF SetupRuns, MakeDocServe, SetupEnds, Watch, Fire, WindowCloses, setupVars, installed,
        local
  <1>8. CASE Stop \/ ServeEnds \/ ObserverJoined \/ InterruptSetup \/ Build
    BY <1>3, <1>5, <1>8
    DEF Stop, ServeEnds, ObserverJoined, InterruptSetup, Stopped, Build, setupVars, installed,
        local
  <1>9. CASE SaveBase \/ SaveCustom \/ DeleteCustom
    BY <1>3, <1>9 DEF SaveBase, SaveCustom, DeleteCustom, local
  <1>10. CASE EditResult \/ UseGit \/ EditRest
    BY <1>3, <1>6, <1>10 DEF EditResult, UseGit, EditRest, EditYml, Stage, Commit, local
  <1>11. CASE UNCHANGED vars
    BY <1>3, <1>11 DEF vars, setupVars, installed
  <1> QED
    BY <1>7, <1>8, <1>9, <1>10, <1>11 DEF Next

-----------------------------------------------------------------------------

THEOREM TypeCorrectness == Spec => []TypeOK
  <1>1. Init => TypeOK
    BY InitInstall DEF InstallInv
  <1> QED
    BY <1>1, NextTypes, PTL DEF Spec

\* A run that gets to its end has installed everything, whatever was interrupted before;
\* the pages of docs_template, and no copy cut short, unless a copy was torn.
THEOREM InstallTheorem == Spec => []CompletedRunInstalls
  <1>1. InstallInv => CompletedRunInstalls
    BY DEF InstallInv, Installs, PastDocs, PastAssets, PastSeeds, PastGitignore,
       Untorn, CompletedRunInstalls, Finished, TypeOK, Copies, Whole
  <1> QED
    BY <1>1, InitInstall, NextInstalls, PTL DEF Spec

\* No step of a run touches what is the project's own.
THEOREM OwnFilesTheorem == Spec => ProjectFilesKept
  <1> DEFINE Kept ==
        SetupRuns =>
            /\ custom # NoFile => custom' = custom
            /\ \A p \in Pages : pages[p] = "project" => pages'[p] = "project"
            /\ \A f \in Seeds : seeds[f] = "project" => seeds'[f] = "project"
            /\ \A d \in Dirs : links[d] = "real" => links'[d] = "real"
            /\ <<base, git>>' = <<base, git>>
  <1>1. TypeOK => Kept
    <2> SUFFICES ASSUME TypeOK, SetupStep PROVE Kept
      BY DEF SetupRuns
    <2> USE DEF sources, git, installed, local
    <2>1. CASE ensure_mkdocs_custom \/ ReadSources \/ CheckDirty \/ Truncate \/ Write
      BY <2>1 DEF ensure_mkdocs_custom, ReadSources, CheckDirty, Truncate, Write
    <2>2. CASE ensure_docs_dir
      BY <2>2 DEF ensure_docs_dir
    <2>3. CASE sync_managed_docs_assets
      BY <2>3 DEF sync_managed_docs_assets
    <2>4. CASE seed_files
      BY <2>4 DEF seed_files, Unseeded, TypeOK
    <2>5. CASE ensure_gitignore_entries \/ ListDirectories \/ Finishes
      BY <2>5 DEF ensure_gitignore_entries, ListDirectories, Finishes
    <2>6. CASE CreateSymlink
      BY <2>6 DEF CreateSymlink, Linked, TypeOK
    <2>7. CASE copytree
      BY <2>7 DEF copytree, Filled, TypeOK
    <2> QED
      BY <2>1, <2>2, <2>3, <2>4, <2>5, <2>6, <2>7 DEF SetupStep
  <1>2. ProjectFilesKept <=> [][Kept]_vars
    BY DEF ProjectFilesKept
  <1>3. TypeOK /\ [Next]_vars => [Kept]_vars
    BY <1>1
  <1> QED
    BY <1>2, <1>3, TypeCorrectness, PTL DEF Spec

-----------------------------------------------------------------------------
(* What doc-serve shows once it is quiet *)

PastWrite == PastDocs \union {"docs", "copy"}
PastRead == PastWrite \union {"check", "truncate", "write"}

\* The phases of doc-serve whose last good run still counts.
Counts == phase \in {"setup", "starting", "watching"}
RunIs(steps) == pc \in steps \/ (pc = "idle" /\ exit = "ok")

\* The sources are the ones last read, unless an event says otherwise or none came.
Heard ==
    Counts /\ RunIs(PastRead) =>
        merged = Sources \/ (phase = "watching" /\ queue > 0) \/ missed \/ custom = NoFile

\* What a run wrote is there until a hand edits it.
Written ==
    Counts /\ RunIs(PastWrite) => merged # NoFile /\ yml \in {merged, HandEdited}

\* A change that mkdocs serve has not seen is the only reason for an old page.
Shown ==
    phase = "watching" /\ ~changed =>
        ~Readable(yml) \/ Raises(yml, tree) \/ site.from = yml

CurrentInv == TypeOK /\ Heard /\ Written /\ Shown

\* A change of a source that the watcher is told of leaves an event.
LEMMA Told ==
    ASSUME TypeOK, phase = "watching", NEW file \in SOURCES, NEW kind \in Handled,
           Delivers(file, kind)
    PROVE  queue' > 0
  BY BoundAssumption DEF Delivers, Upto, TypeOK

\* A step of a run.
LEMMA SetupRunsCurrent ==
    ASSUME CurrentInv, SetupRuns
    PROVE  Heard' /\ Written' /\ Shown'
  <1> USE DEF Counts, RunIs, PastDocs, PastWrite, PastRead
  <1>1. /\ SetupStep /\ UNCHANGED <<phase, site, tree>>
        /\ changed' = (changed \/ <<yml, installed>>' # <<yml, installed>>)
        /\ missed' = (missed /\ pc # "merge")
    BY DEF SetupRuns
  <1>2. Shown'
    BY <1>1 DEF CurrentInv, Shown, installed
  <1>3. queue' = queue \/ queue' > 0
    BY <1>1, BoundAssumption DEF SetupRuns, Delivers, Upto, CurrentInv, TypeOK
  <1> USE DEF sources, git, installed, local, Advances, Ends
  <1>4. Heard'
    <2>1. CASE pc \in {"custom", "merge"}
      BY <1>1, <2>1 DEF SetupStep, ensure_mkdocs_custom, ReadSources, CheckDirty, Truncate,
         Write, ensure_docs_dir, copytree, sync_managed_docs_assets, seed_files,
         ensure_gitignore_entries, ListDirectories, CreateSymlink, Finishes, Heard, Sources
    <2>2. CASE pc \notin {"custom", "merge"}
      <3>1. /\ UNCHANGED <<sources, merged>> /\ pc \in PastRead
        BY <1>1, <2>2 DEF SetupStep, ensure_mkdocs_custom, ReadSources, CheckDirty, Truncate,
           Write, ensure_docs_dir, copytree, sync_managed_docs_assets, seed_files,
           ensure_gitignore_entries, ListDirectories, CreateSymlink, Finishes
      <3> QED
        BY <1>1, <1>3, <2>2, <3>1 DEF CurrentInv, Heard, Sources
    <2> QED
      BY <2>1, <2>2
  <1>5. Written'
    <2>1. CASE pc \in {"custom", "merge", "check", "truncate"}
      BY <1>1, <2>1 DEF SetupStep, ensure_mkdocs_custom, ReadSources, CheckDirty, Truncate,
         Write, ensure_docs_dir, copytree, sync_managed_docs_assets, seed_files,
         ensure_gitignore_entries, ListDirectories, CreateSymlink, Finishes, Written
    <2>2. CASE pc = "write"
      BY <1>1, <2>2 DEF SetupStep, ensure_mkdocs_custom, ReadSources, CheckDirty, Truncate,
         Write, ensure_docs_dir, copytree, sync_managed_docs_assets, seed_files,
         ensure_gitignore_entries, ListDirectories, CreateSymlink, Finishes, Written,
         CurrentInv, TypeOK
    <2>3. CASE pc \notin {"custom", "merge", "check", "truncate", "write"}
      <3>1. UNCHANGED <<yml, merged>> /\ pc \in PastWrite
        BY <1>1, <2>3 DEF SetupStep, ensure_mkdocs_custom, ReadSources, CheckDirty, Truncate,
           Write, ensure_docs_dir, copytree, sync_managed_docs_assets, seed_files,
           ensure_gitignore_entries, ListDirectories, CreateSymlink, Finishes
      <3> QED
        BY <1>1, <2>3, <3>1 DEF CurrentInv, Written
    <2> QED
      BY <2>1, <2>2, <2>3
  <1> QED
    BY <1>2, <1>4, <1>5

LEMMA NextCurrent == CurrentInv /\ [Next]_vars => CurrentInv'
  <1> SUFFICES ASSUME CurrentInv, [Next]_vars PROVE CurrentInv'
    OBVIOUS
  <1> USE DEF Counts, RunIs, PastDocs, PastWrite, PastRead, setupVars
  <1>1. TypeOK'
    BY NextTypes DEF CurrentInv
  <1>2. CASE SetupRuns
    BY <1>1, <1>2, SetupRunsCurrent DEF CurrentInv
  <1>3. CASE MakeDocServe \/ SetupEnds \/ Watch \/ ServeEnds \/ ObserverJoined \/ WindowCloses
    BY <1>1, <1>3 DEF MakeDocServe, SetupEnds, Watch, ServeEnds, ObserverJoined, WindowCloses,
       Begins, sources, git, installed, local, Sources, CurrentInv, Heard, Written, Shown,
       TypeOK
  <1>4. CASE Fire
    <2>1. UNCHANGED <<base, custom, yml, merged, exit, phase, changed, site, tree>>
      BY <1>4 DEF Fire, Begins, sources, local
    <2>2. \/ pc' = "custom"
          \/ pc' = pc /\ missed' = (missed \/ merged # Sources)
      BY <1>4 DEF Fire, Begins
    <2> QED
      BY <1>1, <2>1, <2>2 DEF CurrentInv, Heard, Written, Shown, Sources
  <1>5. CASE Stop \/ InterruptSetup
    <2>1. ~Counts'
      BY <1>5 DEF Stop, InterruptSetup, Stopped
    <2> QED
      BY <1>1, <2>1 DEF CurrentInv, Heard, Written, Shown
  <1>6. CASE Build
    <2>1. UNCHANGED <<base, custom, yml, merged, pc, exit, queue, tree, missed>>
      BY <1>6 DEF Build
    <2>2. phase' = "down" \/ phase' = phase
      BY <1>6 DEF Build
    <2>3. \/ site' = SiteOf(yml, tree)
          \/ Readable(yml) => Raises(yml, tree)
      BY <1>6 DEF Build
    <2>4. SiteOf(yml, tree).from = yml
      BY DEF SiteOf
    <2>5. Shown'
      BY <2>1, <2>3, <2>4 DEF Shown
    <2> QED
      BY <1>1, <2>1, <2>2, <2>5 DEF CurrentInv, Heard, Written, Sources
  <1>7. CASE SaveBase \/ SaveCustom
    <2>1. UNCHANGED <<yml, merged, pc, exit, phase, changed, site, tree>>
      BY <1>7 DEF SaveBase, SaveCustom, Edits, local
    <2>2. missed' = (missed \/ Unheard)
      BY <1>7 DEF SaveBase, SaveCustom
    <2>3. phase = "watching" => queue' > 0
      BY <1>7, Told DEF SaveBase, SaveCustom, SOURCES, Handled, CurrentInv
    <2> QED
      BY <1>1, <2>1, <2>2, <2>3 DEF Unheard, CurrentInv, Heard, Written, Shown
  <1>8. CASE DeleteCustom
    <2>1. UNCHANGED <<yml, merged, pc, exit, phase, changed, site, tree>> /\ custom' = NoFile
      BY <1>8 DEF DeleteCustom, Edits, local
    <2> QED
      BY <1>1, <2>1 DEF CurrentInv, Heard, Written, Shown
  <1>9. CASE EditResult
    <2>1. /\ UNCHANGED <<base, custom, merged, pc, exit, phase, site, tree, missed>>
          /\ yml' = HandEdited /\ changed' = TRUE
      BY <1>9 DEF EditResult, EditYml, Edits, sources, local
    <2>2. queue' = queue \/ queue' > 0
      BY <1>9, BoundAssumption DEF EditResult, Delivers, Upto, CurrentInv, TypeOK
    <2> QED
      BY <1>1, <2>1, <2>2 DEF CurrentInv, Heard, Written, Shown, Sources
  <1>10. CASE UseGit
    BY <1>1, <1>10 DEF UseGit, Stage, Commit, Edits, sources, local, CurrentInv, Heard, Written,
       Shown, Sources
  <1>11. CASE EditRest
    <2>1. /\ UNCHANGED <<base, custom, yml, merged, pc, exit, phase, queue, site, tree, missed>>
          /\ changed' = TRUE
      BY <1>11 DEF EditRest, EditProject, Edits, sources, local
    <2> QED
      BY <1>1, <2>1 DEF CurrentInv, Heard, Written, Shown, Sources
  <1>12. CASE UNCHANGED vars
    BY <1>1, <1>12 DEF vars, serveVars, CurrentInv, Heard, Written, Shown, Sources
  <1> QED
    BY <1>2, <1>3, <1>4, <1>5, <1>6, <1>7, <1>8, <1>9, <1>10, <1>11, <1>12 DEF Next

\* Once doc-serve is quiet, mkdocs.yml is the merge of the sources and the page shows it,
\* unless a save fell into one of the watcher's gaps.
THEOREM SettledTheorem == Spec => []SettledIsCurrent
  <1>1. Init => CurrentInv
    <2>1. Init => TypeOK
      BY InitInstall DEF InstallInv
    <2>2. Init => Heard /\ Written /\ Shown
      BY DEF Init, Heard, Written, Shown, Counts, RunIs, PastDocs, PastWrite, PastRead
    <2> QED
      BY <2>1, <2>2 DEF CurrentInv
  <1>2. CurrentInv => SettledIsCurrent
    <2> SUFFICES ASSUME CurrentInv, Settled, exit = "ok", custom # NoFile, yml # HandEdited,
                        ~missed
                 PROVE  yml = Sources /\ (Raises(yml, tree) \/ site.from = yml)
      BY DEF SettledIsCurrent
    <2>1. merged = Sources /\ yml = merged /\ merged # NoFile
      BY DEF CurrentInv, Settled, Resting, Heard, Written, Counts, RunIs
    <2>2. Readable(yml)
      BY <2>1, SentinelAssumption DEF Readable, CurrentInv, TypeOK
    <2> QED
      BY <2>1, <2>2 DEF CurrentInv, Settled, Shown
  <1> QED
    BY <1>1, <1>2, NextCurrent, PTL DEF Spec

-----------------------------------------------------------------------------
(* Sequences and folds, by induction on their length *)

LEMMA Least ==
    ASSUME NEW S \in SUBSET Nat, S # {}
    PROVE  \E m \in S : \A n \in S : m <= n
  <1> DEFINE R == {p \in Nat \X Nat : p[1] < p[2]}
  <1>0. R = OpToRel(<, Nat)
    BY DEF OpToRel
  <1>1. IsWellFoundedOn(R, Nat)
    BY <1>0, NatLessThanWellFounded
  <1>2. PICK m \in S : \A n \in S : ~(<<n, m>> \in R)
    BY <1>1, WFMin
  <1>3. \A n \in S : m <= n
    <2> TAKE n \in S
    <2>1. <<n, m>> \in Nat \X Nat /\ <<n, m>>[1] = n /\ <<n, m>>[2] = m
      OBVIOUS
    <2>2. ~(n < m)
      BY <1>2, <2>1
    <2> QED
      BY <2>2
  <1> QED
    BY <1>3

LEMMA UpTo ==
    ASSUME NEW m \in Nat, NEW S, 0 \in S, \A n \in 0..m : n \in S /\ n < m => n + 1 \in S
    PROVE  \A n \in 0..m : n \in S
  <1> DEFINE T == {n \in 0..m : n \notin S}
  <1>1. SUFFICES ASSUME T # {} PROVE FALSE
    OBVIOUS
  <1>2. PICK k \in T : \A n \in T : k <= n
    <2>1. T \in SUBSET Nat
      OBVIOUS
    <2> HIDE DEF T
    <2> QED
      BY <1>1, <2>1, Least
  <1>3. k # 0 /\ k - 1 \in 0..m /\ k - 1 < m
    OBVIOUS
  <1>4. k - 1 \in S
    BY <1>2, <1>3
  <1> QED
    BY <1>4, <1>3

LEMMA Largest ==
    ASSUME NEW n \in Nat, NEW s \in SUBSET (1..n), s # {}
    PROVE  \E m \in s : s \subseteq 1..m
  <1> DEFINE T == {j \in Nat : n - j \in s}
  <1>1. PICK k \in T : \A j \in T : k <= j
    <2>1. PICK i \in s : TRUE
      OBVIOUS
    <2>2. n - (n - i) = i /\ n - i \in Nat
      OBVIOUS
    <2>3. T \in SUBSET Nat /\ T # {}
      BY <2>2
    <2> HIDE DEF T
    <2> QED
      BY <2>3, Least
  <1>2. \A i \in s : n - i \in T
    <2> TAKE i \in s
    <2>1. n - (n - i) = i /\ n - i \in Nat
      OBVIOUS
    <2> QED
      BY <2>1
  <1>3. n - k \in s /\ k \in Nat /\ \A i \in s : k <= n - i
    BY <1>1, <1>2
  <1>4. \A i \in s : i \in 1..(n - k)
    BY <1>3
  <1> QED
    BY <1>3, <1>4

LEMMA MaxIs ==
    ASSUME NEW n \in Nat, NEW s \in SUBSET (1..n), n \in s
    PROVE  Max(s) = n
  <1>1. n \in s /\ \A y \in s : n >= y
    OBVIOUS
  <1>2. \A x \in s : (\A y \in s : x >= y) => x = n
    OBVIOUS
  <1>3. Max(s) \in s /\ \A y \in s : Max(s) >= y
    BY <1>1, Zenon DEF Max
  <1> QED
    BY <1>2, <1>3

\* f folds every set of positions of seq with the step g, the last position last.
IsFold(f, A, g, start, seq) ==
    /\ f \in [SUBSET DOMAIN seq -> A]
    /\ f[{}] = start
    /\ \A s \in SUBSET DOMAIN seq :
          s # {} => Max(s) \in s /\ f[s] = g[<<f[s \ {Max(s)}], seq[Max(s)]>>]

LEMMA FoldExists ==
    ASSUME NEW A, NEW B, NEW g \in [A \X B -> A], NEW start \in A, NEW seq \in Seq(B)
    PROVE  \E f : IsFold(f, A, g, start, seq)
  <1> DEFINE Folds(k) ==
          \E f \in [SUBSET (1..k) -> A] :
              /\ f[{}] = start
              /\ \A s \in SUBSET (1..k) :
                    s # {} => f[s] = g[<<f[s \ {Max(s)}], seq[Max(s)]>>]
             D == {k \in 0..Len(seq) : Folds(k)}
  <1>1. Folds(0)
    <2>1. [s \in SUBSET (1..0) |-> start] \in [SUBSET (1..0) -> A]
      OBVIOUS
    <2>2. {} \in SUBSET (1..0) /\ 1..0 = {}
      OBVIOUS
    <2> QED
      BY <2>1, <2>2
  <1>2. ASSUME NEW k \in 0..Len(seq), Folds(k), k < Len(seq) PROVE Folds(k + 1)
    <2>1. PICK f \in [SUBSET (1..k) -> A] :
              /\ f[{}] = start
              /\ \A s \in SUBSET (1..k) :
                    s # {} => f[s] = g[<<f[s \ {Max(s)}], seq[Max(s)]>>]
      BY <1>2
    <2> DEFINE h == [s \in SUBSET (1..(k + 1)) |->
                       IF k + 1 \in s THEN g[<<f[s \ {k + 1}], seq[k + 1]>>] ELSE f[s]]
    <2>2. \A s \in SUBSET (1..(k + 1)) : s \ {k + 1} \in SUBSET (1..k)
      OBVIOUS
    <2>3. \A s \in SUBSET (1..(k + 1)) : k + 1 \notin s => s \in SUBSET (1..k)
      OBVIOUS
    <2>4. seq[k + 1] \in B
      BY <1>2
    <2>5. h \in [SUBSET (1..(k + 1)) -> A]
      <3> SUFFICES ASSUME NEW s \in SUBSET (1..(k + 1))
                   PROVE  (IF k + 1 \in s THEN g[<<f[s \ {k + 1}], seq[k + 1]>>] ELSE f[s]) \in A
        OBVIOUS
      <3>1. CASE k + 1 \in s
        <4>1. f[s \ {k + 1}] \in A
          BY <2>2
        <4>2. <<f[s \ {k + 1}], seq[k + 1]>> \in A \X B
          BY <4>1, <2>4
        <4> QED
          BY <4>2, <3>1
      <3>2. CASE k + 1 \notin s
        BY <3>2, <2>3
      <3> QED
        BY <3>1, <3>2
    <2>6. h[{}] = start
      BY <2>1
    <2>7. ASSUME NEW s \in SUBSET (1..(k + 1)), s # {}
          PROVE  h[s] = g[<<h[s \ {Max(s)}], seq[Max(s)]>>]
      <3>1. s \ {Max(s)} \in SUBSET (1..(k + 1))
        OBVIOUS
      <3>2. CASE k + 1 \in s
        <4>1. Max(s) = k + 1
          BY <3>2, <1>2, MaxIs
        <4> QED
          BY <3>1, <3>2, <4>1, <2>2
      <3>3. CASE k + 1 \notin s
        <4>1. f[s] = g[<<f[s \ {Max(s)}], seq[Max(s)]>>]
          BY <3>3, <2>1, <2>3, <2>7
        <4>2. h[s] = f[s] /\ h[s \ {Max(s)}] = f[s \ {Max(s)}]
          BY <3>1, <3>3
        <4> QED
          BY <4>1, <4>2
      <3> QED
        BY <3>2, <3>3
    <2> HIDE DEF h
    <2> QED
      BY <2>5, <2>6, <2>7
  <1>3. Folds(Len(seq))
    <2> HIDE DEF Folds
    <2>1. 0 \in D /\ \A k \in 0..Len(seq) : k \in D /\ k < Len(seq) => k + 1 \in D
      BY <1>1, <1>2
    <2>2. Len(seq) \in Nat
      OBVIOUS
    <2>3. \A k \in 0..Len(seq) : k \in D
      <3> HIDE DEF D
      <3> QED
        BY <2>1, <2>2, UpTo
    <2> QED
      BY <2>2, <2>3
  <1>4. ASSUME NEW s \in SUBSET DOMAIN seq, s # {} PROVE Max(s) \in s
    <2>1. Len(seq) \in Nat /\ DOMAIN seq = 1..Len(seq)
      OBVIOUS
    <2>2. PICK m \in s : s \subseteq 1..m
      BY <2>1, <1>4, Largest
    <2>3. Max(s) = m
      BY <2>1, <2>2, MaxIs
    <2> QED
      BY <2>3
  <1>5. DOMAIN seq = 1..Len(seq)
    OBVIOUS
  <1>6. PICK f \in [SUBSET (1..Len(seq)) -> A] :
              /\ f[{}] = start
              /\ \A s \in SUBSET (1..Len(seq)) :
                    s # {} => f[s] = g[<<f[s \ {Max(s)}], seq[Max(s)]>>]
    BY <1>3
  <1>7. IsFold(f, A, g, start, seq)
    BY <1>4, <1>5, <1>6 DEF IsFold
  <1> QED
    BY <1>7

\* w are the results of the steps g, one after the other.
IsChain(w, it, A, g, start, seq) ==
    /\ w \in [0..Len(seq) -> A]
    /\ w[0] = start
    /\ \A i \in 1..Len(seq) : w[i] = g[<<w[i - 1], seq[i]>>]
    /\ w[Len(seq)] = it[DOMAIN seq]

\* From a result in A, it steps as g does.
Steps(it, A, g, start, seq) ==
    /\ it[{}] = start
    /\ \A s \in SUBSET DOMAIN seq :
          s # {} /\ it[s \ {Max(s)}] \in A => it[s] = g[<<it[s \ {Max(s)}], seq[Max(s)]>>]

\* What steps like g does so along the sequence.
LEMMA FoldChain ==
    ASSUME NEW A, NEW B, NEW g \in [A \X B -> A], NEW start \in A, NEW seq \in Seq(B), NEW it,
           Steps(it, A, g, start, seq)
    PROVE  \E w : IsChain(w, it, A, g, start, seq)
  <1> DEFINE w == [i \in 0..Len(seq) |-> it[1..i]]
             D == {i \in 0..Len(seq) :
                     w[i] \in A /\ (i > 0 => w[i] = g[<<w[i - 1], seq[i]>>])}
  <1>1. DOMAIN seq = 1..Len(seq) /\ Len(seq) \in Nat
    OBVIOUS
  <1>2. w[0] = start
    <2>1. 1..0 = {} /\ 0 \in 0..Len(seq)
      BY <1>1
    <2> QED
      BY <2>1 DEF Steps
  <1>3. 0 \in D
    <2> HIDE DEF w
    <2> QED
      BY <1>1, <1>2
  <1>4. \A n \in 0..Len(seq) : n \in D /\ n < Len(seq) => n + 1 \in D
    <2> SUFFICES ASSUME NEW n \in 0..Len(seq), n \in D, n < Len(seq) PROVE n + 1 \in D
      OBVIOUS
    <2> DEFINE i == n + 1
    <2>1. i \in 1..Len(seq) /\ i - 1 = n /\ i > 0 /\ i \in 0..Len(seq)
      BY <1>1
    <2>2. Max(1..i) = i
      BY <2>1, MaxIs
    <2>3. (1..i) \ {i} = 1..n /\ i \in 1..i
      BY <2>1
    <2>4. 1..i \in SUBSET DOMAIN seq
      BY <1>1, <2>1
    <2>5. it[1..n] = w[n] /\ it[1..i] = w[i] /\ w[n] \in A /\ seq[i] \in B
      BY <2>1
    <2> HIDE DEF w, i
    <2>6. w[i] = g[<<w[n], seq[i]>>]
      BY <2>2, <2>3, <2>4, <2>5 DEF Steps
    <2>7. w[i] \in A
      BY <2>5, <2>6
    <2>8. i \in D
      BY <2>1, <2>6, <2>7
    <2> QED
      BY <2>8 DEF i
  <1>5. \A n \in 0..Len(seq) : n \in D
    <2> HIDE DEF D
    <2> QED
      BY <1>1, <1>3, <1>4, UpTo
  <1>6. \A i \in 0..Len(seq) : w[i] \in A /\ (i > 0 => w[i] = g[<<w[i - 1], seq[i]>>])
    <2> HIDE DEF w
    <2> QED
      BY <1>5
  <1>7. w \in [0..Len(seq) -> A]
    BY <1>6
  <1>8. \A i \in 1..Len(seq) : w[i] = g[<<w[i - 1], seq[i]>>]
    <2> HIDE DEF w
    <2> QED
      BY <1>1, <1>6
  <1>9. w[Len(seq)] = it[DOMAIN seq]
    BY <1>1
  <1> HIDE DEF w
  <1>10. IsChain(w, it, A, g, start, seq)
    BY <1>2, <1>7, <1>8, <1>9 DEF IsChain
  <1> QED
    BY <1>10

LEMMA Flattens ==
    ASSUME NEW T, NEW seqs \in Seq(Seq(T))
    PROVE  \E w \in [0..Len(seqs) -> Seq(T)] :
              /\ w[0] = <<>>
              /\ \A i \in 1..Len(seqs) : w[i] = w[i - 1] \o seqs[i]
              /\ FlattenSeq(seqs) = w[Len(seqs)]
  <1> DEFINE Flat(k) == \E f \in [1..k -> Seq(T)] :
                 \A i \in 1..k : f[i] = IF i = 1 THEN seqs[i] ELSE f[i - 1] \o seqs[i]
             D == {k \in 0..Len(seqs) : Flat(k)}
  <1>1. Len(seqs) \in Nat /\ \A i \in 1..Len(seqs) : seqs[i] \in Seq(T)
    OBVIOUS
  <1>2. Flat(0)
    <2>1. [i \in 1..0 |-> <<>>] \in [1..0 -> Seq(T)] /\ \A i \in 1..0 : FALSE
      OBVIOUS
    <2> QED
      BY <2>1
  <1>3. ASSUME NEW k \in 0..Len(seqs), Flat(k), k < Len(seqs) PROVE Flat(k + 1)
    <2>1. PICK f \in [1..k -> Seq(T)] :
             \A i \in 1..k : f[i] = IF i = 1 THEN seqs[i] ELSE f[i - 1] \o seqs[i]
      BY <1>3
    <2> DEFINE e == IF k = 0 THEN seqs[k + 1] ELSE f[k] \o seqs[k + 1]
               h == [i \in 1..(k + 1) |-> IF i = k + 1 THEN e ELSE f[i]]
    <2>2. seqs[k + 1] \in Seq(T)
      BY <1>1, <1>3
    <2>3. e \in Seq(T)
      <3>1. CASE k = 0
        BY <3>1, <2>2
      <3>2. CASE k # 0
        <4>1. f[k] \in Seq(T)
          BY <3>2
        <4> QED
          BY <4>1, <2>2, <3>2
      <3> QED
        BY <3>1, <3>2
    <2>4. h \in [1..(k + 1) -> Seq(T)]
      <3> HIDE DEF e
      <3> QED
        BY <2>3
    <2>5. ASSUME NEW i \in 1..(k + 1)
          PROVE  h[i] = IF i = 1 THEN seqs[i] ELSE h[i - 1] \o seqs[i]
      <3>1. CASE i = k + 1
        BY <3>1
      <3>2. CASE i # k + 1
        <4>1. i \in 1..k /\ (i # 1 => i - 1 \in 1..(k + 1) /\ i - 1 # k + 1)
          BY <3>2
        <4>2. h[i] = f[i] /\ (i # 1 => h[i - 1] = f[i - 1])
          <5> HIDE DEF e
          <5> QED
            BY <3>2, <4>1
        <4> QED
          BY <4>1, <4>2, <2>1
      <3> QED
        BY <3>1, <3>2
    <2> HIDE DEF h
    <2> QED
      BY <2>4, <2>5
  <1>4. Flat(Len(seqs))
    <2> HIDE DEF Flat
    <2>1. 0 \in D /\ \A k \in 0..Len(seqs) : k \in D /\ k < Len(seqs) => k + 1 \in D
      BY <1>1, <1>2, <1>3
    <2>2. \A k \in 0..Len(seqs) : k \in D
      <3> HIDE DEF D
      <3> QED
        BY <1>1, <2>1, UpTo
    <2> QED
      BY <1>1, <2>2
  <1> DEFINE Step(f) == [i \in 1..Len(seqs) |-> IF i = 1 THEN seqs[i] ELSE f[i - 1] \o seqs[i]]
             it == CHOOSE f : f = Step(f)
  <1>5. PICK f \in [1..Len(seqs) -> Seq(T)] :
           \A i \in 1..Len(seqs) : f[i] = IF i = 1 THEN seqs[i] ELSE f[i - 1] \o seqs[i]
    BY <1>4
  <1>6. it = Step(it)
    <2>1. f = Step(f)
      BY <1>5
    <2> QED
      BY <2>1
  <1> HIDE DEF it
  <1> DEFINE w == [i \in 0..Len(seqs) |-> IF i = 0 THEN <<>> ELSE it[i]]
  <1>7. ASSUME NEW i \in 1..Len(seqs) PROVE it[i] = IF i = 1 THEN seqs[i] ELSE it[i - 1] \o seqs[i]
    BY <1>6
  <1>8. \A i \in 1..Len(seqs) : w[i] = w[i - 1] \o seqs[i]
    <2> TAKE i \in 1..Len(seqs)
    <2>1. CASE i = 1
      BY <2>1, <1>1, <1>7, ConcatEmptySeq
    <2>2. CASE i # 1
      <3>1. i - 1 \in 1..Len(seqs) /\ i - 1 \in 0..Len(seqs) /\ i \in 0..Len(seqs)
        BY <1>1, <2>2
      <3>2. w[i] = it[i] /\ w[i - 1] = it[i - 1]
        BY <3>1
      <3>3. it[i] = it[i - 1] \o seqs[i]
        BY <1>7, <2>2
      <3> QED
        BY <3>2, <3>3
    <2> QED
      BY <2>1, <2>2
  <1>9. w[0] = <<>>
    BY <1>1
  <1>10. w \in [0..Len(seqs) -> Seq(T)]
    <2> DEFINE E == {i \in 0..Len(seqs) : w[i] \in Seq(T)}
    <2>1. 0 \in E
      BY <1>1, <1>9
    <2>2. \A n \in 0..Len(seqs) : n \in E /\ n < Len(seqs) => n + 1 \in E
      <3> SUFFICES ASSUME NEW n \in 0..Len(seqs), n \in E, n < Len(seqs) PROVE n + 1 \in E
        OBVIOUS
      <3>1. n + 1 \in 1..Len(seqs) /\ (n + 1) - 1 = n
        <4>1. Len(seqs) \in Nat
          OBVIOUS
        <4> HIDE DEF w, E, D
        <4> QED
          BY <4>1
      <3>2. w[n + 1] = w[n] \o seqs[n + 1] /\ w[n] \in Seq(T)
        BY <3>1, <1>8
      <3> HIDE DEF w
      <3>3. w[n + 1] \in Seq(T)
        BY <1>1, <3>1, <3>2
      <3> QED
        BY <3>1, <3>3
    <2>3. \A n \in 0..Len(seqs) : n \in E
      <3> HIDE DEF E
      <3> QED
        BY <1>1, <2>1, <2>2, UpTo
    <2> QED
      BY <2>3
  <1>11. FlattenSeq(seqs) = w[Len(seqs)]
    <2>1. CASE Len(seqs) = 0
      BY <2>1, <1>9 DEF FlattenSeq
    <2>2. CASE Len(seqs) # 0
      <3>1. FlattenSeq(seqs) = it[Len(seqs)]
        BY <2>2 DEF FlattenSeq, it
      <3> QED
        BY <2>2, <3>1, <1>1
    <2> QED
      BY <2>1, <2>2
  <1> HIDE DEF w
  <1> QED
    BY <1>8, <1>9, <1>10, <1>11

\* Where the elements of the sequences lie in the flattened one.
LEMMA FlattenPlaces ==
    ASSUME NEW T, NEW seqs \in Seq(Seq(T))
    PROVE  \E off \in [0..Len(seqs) -> Nat] :
              /\ off[0] = 0 /\ off[Len(seqs)] = Len(FlattenSeq(seqs))
              /\ \A i \in 1..Len(seqs) : off[i] = off[i - 1] + Len(seqs[i])
              /\ \A i \in 1..Len(seqs) : \A j \in 1..Len(seqs[i]) :
                    /\ off[i - 1] + j \in 1..Len(FlattenSeq(seqs))
                    /\ FlattenSeq(seqs)[off[i - 1] + j] = seqs[i][j]
  <1>1. PICK w \in [0..Len(seqs) -> Seq(T)] :
            /\ w[0] = <<>>
            /\ \A k \in 1..Len(seqs) : w[k] = w[k - 1] \o seqs[k]
            /\ FlattenSeq(seqs) = w[Len(seqs)]
    BY Flattens
  <1> DEFINE off == [i \in 0..Len(seqs) |-> Len(w[i])]
             n == Len(seqs)
             Placed(m) == \A i \in 1..m : \A j \in 1..Len(seqs[i]) :
                             /\ off[i - 1] + j \in 1..off[m]
                             /\ w[m][off[i - 1] + j] = seqs[i][j]
             D == {m \in 0..n : Placed(m)}
  <1>2. n \in Nat /\ \A k \in 1..n : seqs[k] \in Seq(T) /\ Len(seqs[k]) \in Nat
    OBVIOUS
  <1>2a. n \in Nat
    OBVIOUS
  <1>3. off \in [0..n -> Nat] /\ \A i \in 0..n : off[i] = Len(w[i]) /\ w[i] \in Seq(T)
    BY <1>1, LenProperties
  <1>4. off[0] = 0
    BY <1>1, <1>2
  <1>4a. \A i \in 1..n : w[i] = w[i - 1] \o seqs[i]
    BY <1>1
  <1>4b. off[n] = Len(FlattenSeq(seqs)) /\ w[n] = FlattenSeq(seqs)
    BY <1>1, <1>2
  <1> HIDE DEF off, n
  <1>5. ASSUME NEW i \in 1..n
        PROVE  /\ off[i] = off[i - 1] + Len(seqs[i]) /\ i - 1 \in 0..n /\ i \in 0..n
               /\ \A k \in 1..off[i] :
                     w[i][k] = IF k <= off[i - 1] THEN w[i - 1][k] ELSE seqs[i][k - off[i - 1]]
    <2>1. i - 1 \in 0..n /\ i \in 0..n
      BY <1>2
    <2> DEFINE a == w[i - 1]
               b == seqs[i]
    <2>2. w[i] = a \o b /\ a \in Seq(T) /\ b \in Seq(T)
      BY <1>2, <1>3, <1>4a, <2>1
    <2>3. off[i] = Len(w[i]) /\ off[i - 1] = Len(a)
      BY <1>3, <2>1
    <2> HIDE DEF a, b
    <2>4. /\ Len(a \o b) = Len(a) + Len(b)
          /\ \A k \in 1..(Len(a) + Len(b)) :
                (a \o b)[k] = IF k <= Len(a) THEN a[k] ELSE b[k - Len(a)]
      BY <2>2, ConcatProperties
    <2>5. /\ off[i] = off[i - 1] + Len(b)
          /\ \A k \in 1..off[i] :
                w[i][k] = IF k <= off[i - 1] THEN a[k] ELSE b[k - off[i - 1]]
      BY <2>2, <2>3, <2>4
    <2> QED
      BY <2>1, <2>5 DEF a, b
  <1>6. 0 \in D
    BY <1>2
  <1>7. \A m \in 0..n : m \in D /\ m < n => m + 1 \in D
    <2> SUFFICES ASSUME NEW m \in 0..n, m \in D, m < n PROVE m + 1 \in D
      OBVIOUS
    <2>1. m + 1 \in 1..n /\ (m + 1) - 1 = m /\ m + 1 \in 0..n
      <3> HIDE DEF D
      <3> QED
        BY <1>2a
    <2>0. Placed(m) /\ m + 1 \in 1..n /\ (m + 1) - 1 = m /\ m + 1 \in 0..n
      <3>1. Placed(m)
        <4> HIDE DEF Placed
        <4> QED
          OBVIOUS
      <3> QED
        BY <2>1, <3>1
    <2>2. off[m] \in Nat /\ off[m + 1] \in Nat /\ Len(seqs[m + 1]) \in Nat
      BY <1>2, <1>3, <2>0
    <2>3. /\ off[m + 1] = off[m] + Len(seqs[m + 1])
          /\ \A k \in 1..off[m + 1] :
                w[m + 1][k] = IF k <= off[m] THEN w[m][k] ELSE seqs[m + 1][k - off[m]]
      BY <1>5, <2>0
    <2>4. ASSUME NEW i \in 1..(m + 1), NEW j \in 1..Len(seqs[i])
          PROVE  /\ off[i - 1] + j \in 1..off[m + 1]
                 /\ w[m + 1][off[i - 1] + j] = seqs[i][j]
      <3>1. CASE i \in 1..m
        <4>1. off[i - 1] + j \in 1..off[m] /\ w[m][off[i - 1] + j] = seqs[i][j]
          BY <2>0, <3>1
        <4> DEFINE p == off[i - 1] + j
        <4> HIDE DEF Placed, D, p
        <4>2. p \in 1..off[m] /\ w[m][p] = seqs[i][j]
          BY <4>1 DEF p
        <4>3. p \in 1..off[m + 1] /\ p <= off[m]
          BY <2>2, <2>3, <4>2
        <4>4. w[m + 1][p] = seqs[i][j]
          BY <2>3, <4>2, <4>3
        <4> QED
          BY <4>3, <4>4 DEF p
      <3>2. CASE i = m + 1
        <4> HIDE DEF Placed, D
        <4>1. j \in 1..Len(seqs[m + 1]) /\ off[i - 1] = off[m] /\ seqs[i] = seqs[m + 1]
          BY <2>0, <3>2
        <4> DEFINE a == off[m]
                   b == Len(seqs[m + 1])
        <4>0. a \in Nat /\ b \in Nat /\ off[m + 1] = a + b /\ j \in 1..b
          BY <2>2, <2>3, <4>1
        <4> HIDE DEF a, b
        <4>5. a + j \in 1..(a + b) /\ ~(a + j <= a) /\ (a + j) - a = j
          BY <4>0
        <4>2. off[m] + j \in 1..off[m + 1] /\ ~(off[m] + j <= off[m]) /\ (off[m] + j) - off[m] = j
          BY <4>0, <4>5 DEF a
        <4> QED
          BY <2>3, <4>1, <4>2
      <3>3. i \in 1..m \/ i = m + 1
        BY <1>2
      <3> QED
        BY <3>1, <3>2, <3>3
    <2>5. Placed(m + 1)
      BY <2>4
    <2> HIDE DEF Placed
    <2> QED
      BY <2>0, <2>5
  <1>8. Placed(n)
    <2> HIDE DEF Placed
    <2>1. \A m \in 0..n : m \in D
      <3> HIDE DEF D
      <3> QED
        BY <1>2, <1>6, <1>7, UpTo
    <2> QED
      BY <1>2, <2>1
  <1>9. \A i \in 1..n : \A j \in 1..Len(seqs[i]) :
                    /\ off[i - 1] + j \in 1..Len(FlattenSeq(seqs))
                    /\ FlattenSeq(seqs)[off[i - 1] + j] = seqs[i][j]
    BY <1>8, <1>4b
  <1>10. \A i \in 1..n : off[i] = off[i - 1] + Len(seqs[i])
    BY <1>5
  <1> HIDE DEF Placed, D
  <1> QED
    BY <1>3, <1>4, <1>4b, <1>9, <1>10 DEF n

\* A sequence's elements are those of the flattened one.
LEMMA FlattenHas ==
    ASSUME NEW T, NEW seqs \in Seq(Seq(T)),
           NEW i \in DOMAIN seqs, NEW j \in DOMAIN seqs[i]
    PROVE  seqs[i][j] \in ToSet(FlattenSeq(seqs))
  <1>1. PICK w \in [0..Len(seqs) -> Seq(T)] :
            /\ w[0] = <<>>
            /\ \A k \in 1..Len(seqs) : w[k] = w[k - 1] \o seqs[k]
            /\ FlattenSeq(seqs) = w[Len(seqs)]
    BY Flattens
  <1> DEFINE x == seqs[i][j]
             D == {n \in 0..Len(seqs) : n >= i => x \in ToSet(w[n])}
  <1>2. Len(seqs) \in Nat /\ DOMAIN seqs = 1..Len(seqs)
    OBVIOUS
  <1>3. \A k \in 1..Len(seqs) : seqs[k] \in Seq(T)
    OBVIOUS
  <1>4. 0 \in D
    BY <1>2
  <1>5. \A n \in 0..Len(seqs) : n \in D /\ n < Len(seqs) => n + 1 \in D
    <2> SUFFICES ASSUME NEW n \in 0..Len(seqs), n \in D, n < Len(seqs), n + 1 >= i
                 PROVE  x \in ToSet(w[n + 1])
      BY <1>2
    <2> DEFINE a == w[n]
               b == seqs[n + 1]
    <2>1. n + 1 \in 1..Len(seqs) /\ (n + 1) - 1 = n
      BY <1>2
    <2>2. w[n + 1] = a \o b /\ a \in Seq(T) /\ b \in Seq(T)
      BY <1>1, <1>3, <2>1
    <2>3. Len(a) \in Nat /\ Len(b) \in Nat /\ DOMAIN a = 1..Len(a) /\ DOMAIN b = 1..Len(b)
      BY <2>2
    <2>4. /\ DOMAIN (a \o b) = 1..(Len(a) + Len(b))
          /\ \A k \in 1..(Len(a) + Len(b)) :
                (a \o b)[k] = IF k <= Len(a) THEN a[k] ELSE b[k - Len(a)]
      <3> HIDE DEF a, b
      <3> QED
        BY <2>2, <2>3, ConcatProperties, LenProperties
    <2>5. CASE n >= i
      <3>1. PICK k \in DOMAIN a : a[k] = x
        BY <2>5 DEF ToSet
      <3>2. k \in DOMAIN (a \o b) /\ (a \o b)[k] = x
        <4> HIDE DEF a, b, x
        <4> QED
          BY <2>3, <2>4, <3>1
      <3> QED
        BY <2>2, <3>2 DEF ToSet
    <2>6. CASE ~(n >= i)
      <3>1. i = n + 1
        BY <1>2, <2>6
      <3>2. j \in 1..Len(b) /\ x = b[j]
        BY <2>3, <3>1
      <3>3. Len(a) + j \in DOMAIN (a \o b) /\ (a \o b)[Len(a) + j] = x
        <4> HIDE DEF a, b, x
        <4> QED
          BY <2>3, <2>4, <3>2
      <3> QED
        BY <2>2, <3>3 DEF ToSet
    <2> QED
      BY <2>5, <2>6
  <1>6. \A n \in 0..Len(seqs) : n \in D
    <2> HIDE DEF D
    <2> QED
      BY <1>2, <1>4, <1>5, UpTo
  <1> QED
    BY <1>1, <1>2, <1>6

-----------------------------------------------------------------------------
(* Paths, and the nav the hook hands on *)

LEMMA WalkType ==
    ASSUME NEW C, NEW at \in Seq(C), NEW c \in C
    PROVE  Walk(at, c) \in Seq(C)
  BY DEF Walk, Front

\* Where a path leads, component by component.
LEMMA Walks ==
    ASSUME NEW C, NEW dir \in Seq(C), NEW path \in Seq(C)
    PROVE  \E w \in [0..Len(path) -> Seq(C)] :
              /\ w[0] = dir
              /\ \A i \in 1..Len(path) : w[i] = Walk(w[i - 1], path[i])
              /\ Resolved(dir, path) = w[Len(path)]
  <1> DEFINE A == Seq(C)
             g == [x \in A \X C |-> Walk(x[1], x[2])]
             Step(f) == [s \in SUBSET DOMAIN path |->
                           IF s = {} THEN dir ELSE Walk(f[s \ {Max(s)}], path[Max(s)])]
             it == CHOOSE f : f = Step(f)
  <1>1. g \in [A \X C -> A] /\ dir \in A
    BY WalkType
  <1>2. PICK f : IsFold(f, A, g, dir, path)
    <2> HIDE DEF g, A
    <2> QED
      BY <1>1, FoldExists
  <1>3. f = Step(f)
    <2>1. ASSUME NEW s \in SUBSET DOMAIN path, s # {}
          PROVE  f[s] = Walk(f[s \ {Max(s)}], path[Max(s)])
      <3>1. Max(s) \in s /\ s \ {Max(s)} \in SUBSET DOMAIN path
        BY <1>2, <2>1 DEF IsFold
      <3>2. f[s \ {Max(s)}] \in A
        BY <1>2, <3>1 DEF IsFold
      <3>3. path[Max(s)] \in C
        BY <3>1
      <3>4. f[s] = g[<<f[s \ {Max(s)}], path[Max(s)]>>]
        BY <1>2, <2>1 DEF IsFold
      <3> QED
        BY <3>2, <3>3, <3>4
    <2>2. f = [s \in SUBSET DOMAIN path |-> f[s]] /\ f[{}] = dir
      BY <1>2 DEF IsFold
    <2> HIDE DEF A, g
    <2> QED
      BY <2>1, <2>2
  <1>4. it = Step(it)
    BY <1>3
  <1>5. Resolved(dir, path) = it[DOMAIN path]
    BY DEF Resolved, FoldLeft, MapThenFoldSet
  <1> HIDE DEF it
  <1>6. it[{}] = dir
    BY <1>4
  <1>7. ASSUME NEW s \in SUBSET DOMAIN path, s # {}, it[s \ {Max(s)}] \in A
        PROVE  it[s] = g[<<it[s \ {Max(s)}], path[Max(s)]>>]
    <2>1. Max(s) \in s
      BY <1>2, <1>7 DEF IsFold
    <2>2. path[Max(s)] \in C
      BY <2>1
    <2> HIDE DEF A
    <2>3. it[s] = Walk(it[s \ {Max(s)}], path[Max(s)])
      BY <1>4, <1>7
    <2> QED
      BY <1>7, <2>2, <2>3
  <1>7a. Steps(it, A, g, dir, path)
    <2> HIDE DEF A, g
    <2> QED
      BY <1>6, <1>7 DEF Steps
  <1>8. PICK w : IsChain(w, it, A, g, dir, path)
    <2> HIDE DEF A, g, Step
    <2>1. g \in [A \X C -> A]
      BY <1>1
    <2>2. dir \in A
      BY <1>1
    <2>3. path \in Seq(C)
      OBVIOUS
    <2> QED
      BY <2>1, <2>2, <2>3, <1>7a, FoldChain
  <1>9. ASSUME NEW i \in 1..Len(path) PROVE w[i] = Walk(w[i - 1], path[i])
    <2>1. i - 1 \in 0..Len(path)
      OBVIOUS
    <2>2. w[i - 1] \in A /\ path[i] \in C
      BY <1>8, <2>1 DEF IsChain
    <2>3. w[i] = g[<<w[i - 1], path[i]>>]
      BY <1>8 DEF IsChain
    <2> HIDE DEF A
    <2> QED
      BY <2>2, <2>3
  <1>10. w \in [0..Len(path) -> A] /\ w[0] = dir /\ w[Len(path)] = it[DOMAIN path]
    BY <1>8 DEF IsChain
  <1> QED
    BY <1>5, <1>9, <1>10

\* The names the hooks know are not said to be strings for the provers.
Names == STRING \union {"/", "docs", "!include"}
Paths == Seq(Names)

Plain(path) == \A i \in DOMAIN path : path[i] \notin {"/", ".."}

LEMMA ResolvedPlain ==
    ASSUME NEW dir \in Paths, NEW path \in Paths, Plain(dir)
    PROVE  Resolved(dir, path) \in Paths /\ Plain(Resolved(dir, path))
  <1>1. PICK w \in [0..Len(path) -> Paths] :
            /\ w[0] = dir
            /\ \A i \in 1..Len(path) : w[i] = Walk(w[i - 1], path[i])
            /\ Resolved(dir, path) = w[Len(path)]
    BY Walks DEF Paths
  <1>2. ASSUME NEW at \in Paths, Plain(at), NEW c \in Names PROVE Plain(Walk(at, c))
    BY <1>2 DEF Paths, Plain, Walk, Front
  <1> DEFINE D == {i \in 0..Len(path) : Plain(w[i])}
  <1>3. Len(path) \in Nat
    BY DEF Paths
  <1>4. 0 \in D
    BY <1>1, <1>3
  <1>5. \A n \in 0..Len(path) : n \in D /\ n < Len(path) => n + 1 \in D
    <2> SUFFICES ASSUME NEW n \in 0..Len(path), n \in D, n < Len(path) PROVE n + 1 \in D
      OBVIOUS
    <2>1. n + 1 \in 1..Len(path) /\ (n + 1) - 1 = n
      BY <1>3
    <2>2. w[n + 1] = Walk(w[n], path[n + 1])
      BY <1>1, <2>1
    <2>3. path[n + 1] \in Names /\ w[n] \in Paths
      BY <1>1, <2>1 DEF Paths
    <2> QED
      BY <1>2, <2>1, <2>2, <2>3
  <1>6. \A n \in 0..Len(path) : n \in D
    <2> HIDE DEF D
    <2> QED
      BY <1>3, <1>4, <1>5, UpTo
  <1> QED
    BY <1>1, <1>3, <1>6

\* Without "/" and ".." a path is walked down.
LEMMA ResolvedDown ==
    ASSUME NEW dir \in Paths, NEW path \in Paths, Plain(path)
    PROVE  Resolved(dir, path) = dir \o path
  <1>1. PICK w \in [0..Len(path) -> Paths] :
            /\ w[0] = dir
            /\ \A i \in 1..Len(path) : w[i] = Walk(w[i - 1], path[i])
            /\ Resolved(dir, path) = w[Len(path)]
    BY Walks DEF Paths
  <1> DEFINE D == {i \in 0..Len(path) : w[i] = dir \o SubSeq(path, 1, i)}
  <1>2. Len(path) \in Nat
    BY DEF Paths
  <1>3. 0 \in D
    BY <1>1, <1>2 DEF Paths
  <1>4. \A n \in 0..Len(path) : n \in D /\ n < Len(path) => n + 1 \in D
    <2> SUFFICES ASSUME NEW n \in 0..Len(path), n \in D, n < Len(path) PROVE n + 1 \in D
      OBVIOUS
    <2>1. n + 1 \in 1..Len(path) /\ (n + 1) - 1 = n
      BY <1>2
    <2>2. w[n + 1] = Walk(w[n], path[n + 1])
      BY <1>1, <2>1
    <2>3. path[n + 1] \notin {"/", ".."}
      BY <2>1 DEF Plain, Paths
    <2>4. w[n + 1] = Append(dir \o SubSeq(path, 1, n), path[n + 1])
      BY <2>2, <2>3 DEF Walk
    <2>5. SubSeq(path, 1, n + 1) = Append(SubSeq(path, 1, n), path[n + 1])
      BY <2>1 DEF Paths
    <2>6. SubSeq(path, 1, n) \in Paths /\ path[n + 1] \in Names
      BY <2>1 DEF Paths
    <2>7. Append(dir \o SubSeq(path, 1, n), path[n + 1])
            = dir \o Append(SubSeq(path, 1, n), path[n + 1])
      <3> DEFINE s == SubSeq(path, 1, n)
                 e == path[n + 1]
      <3>1. dir \in Seq(Names) /\ s \in Seq(Names) /\ e \in Names /\ <<e>> \in Seq(Names)
        BY <2>6 DEF Paths
      <3> HIDE DEF s, e
      <3>2. dir \o s \in Seq(Names)
        BY <3>1, ConcatProperties
      <3>3. Append(dir \o s, e) = (dir \o s) \o <<e>> /\ Append(s, e) = s \o <<e>>
        BY <3>1, <3>2, AppendIsConcat
      <3>4. (dir \o s) \o <<e>> = dir \o (s \o <<e>>)
        BY <3>1, ConcatAssociative
      <3>5. Append(dir \o s, e) = dir \o Append(s, e)
        BY <3>3, <3>4
      <3> QED
        BY <3>5 DEF s, e
    <2>8. n + 1 \in 0..Len(path)
      BY <1>2
    <2> QED
      BY <2>4, <2>5, <2>7, <2>8
  <1>5. \A n \in 0..Len(path) : n \in D
    <2> HIDE DEF D
    <2> QED
      BY <1>2, <1>3, <1>4, UpTo
  <1>6. w[Len(path)] = dir \o SubSeq(path, 1, Len(path))
    BY <1>2, <1>5
  <1> QED
    BY <1>1, <1>6 DEF Paths

\* From the root.
LEMMA ResolvedRoot ==
    ASSUME NEW dir \in Paths, NEW path \in Paths, Plain(path)
    PROVE  Resolved(dir, <<"/">> \o path) = path
  <1> DEFINE p == <<"/">> \o path
  <1>0. p \in Paths /\ Len(p) = Len(path) + 1 /\ Len(path) \in Nat /\ p[1] = "/"
        /\ \A i \in 1..Len(path) : p[i + 1] = path[i]
    <2>1. "/" \in Names
      BY DEF Names
    <2>2. <<"/">> \in Seq(Names) /\ Len(<<"/">>) = 1 /\ <<"/">>[1] = "/"
      BY <2>1
    <2>3. path \in Seq(Names) /\ Len(path) \in Nat
      BY DEF Paths
    <2>4. /\ p \in Seq(Names) /\ Len(p) = 1 + Len(path)
          /\ \A i \in 1..(1 + Len(path)) : p[i] = IF i <= 1 THEN <<"/">>[i] ELSE path[i - 1]
      BY <2>2, <2>3, ConcatProperties
    <2>5. ASSUME NEW i \in 1..Len(path) PROVE p[i + 1] = path[i]
      <3>1. i + 1 \in 1..(1 + Len(path)) /\ ~(i + 1 <= 1) /\ (i + 1) - 1 = i
        BY <2>3
      <3> HIDE DEF p
      <3> QED
        BY <2>4, <3>1
    <2> HIDE DEF p
    <2>6. p[1] = "/"
      BY <2>2, <2>3, <2>4
    <2> QED
      BY <2>3, <2>4, <2>5, <2>6 DEF Paths
  <1>1. PICK w \in [0..Len(p) -> Paths] :
            /\ w[0] = dir
            /\ \A i \in 1..Len(p) : w[i] = Walk(w[i - 1], p[i])
            /\ Resolved(dir, p) = w[Len(p)]
    <2> HIDE DEF p
    <2>1. dir \in Seq(Names) /\ p \in Seq(Names)
      BY <1>0 DEF Paths
    <2> QED
      BY <2>1, Walks DEF Paths
  <1> DEFINE D == {i \in 0..Len(path) : w[i + 1] = SubSeq(path, 1, i)}
  <1> HIDE DEF p
  <1>3. 0 \in D
    BY <1>0, <1>1 DEF Paths, Walk
  <1>4. \A n \in 0..Len(path) : n \in D /\ n < Len(path) => n + 1 \in D
    <2> SUFFICES ASSUME NEW n \in 0..Len(path), n \in D, n < Len(path) PROVE n + 1 \in D
      OBVIOUS
    <2>1. n + 1 \in 1..Len(path) /\ n + 2 \in 1..Len(p) /\ (n + 2) - 1 = n + 1 /\ (n + 1) + 1 = n + 2
      BY <1>0
    <2>2. w[n + 2] = Walk(w[n + 1], p[n + 2]) /\ p[n + 2] = path[n + 1]
      BY <1>0, <1>1, <2>1
    <2>3. path[n + 1] \notin {"/", ".."}
      BY <2>1 DEF Plain, Paths
    <2>4. w[n + 2] = Append(SubSeq(path, 1, n), path[n + 1])
      BY <2>2, <2>3 DEF Walk
    <2>5. SubSeq(path, 1, n + 1) = Append(SubSeq(path, 1, n), path[n + 1])
      BY <2>1 DEF Paths
    <2>6. w[(n + 1) + 1] = SubSeq(path, 1, n + 1)
      BY <2>1, <2>4, <2>5
    <2>7. n + 1 \in 0..Len(path)
      BY <1>0
    <2> QED
      BY <2>6, <2>7
  <1>5. \A n \in 0..Len(path) : n \in D
    <2> HIDE DEF D
    <2> QED
      BY <1>0, <1>3, <1>4, UpTo
  <1>6. w[Len(p)] = SubSeq(path, 1, Len(path))
    BY <1>0, <1>5
  <1> QED
    BY <1>1, <1>6 DEF Paths, p

\* A nav entry rewritten for docs reads as the file it stood for.
LEMMA ReadBack ==
    ASSUME NEW path \in Paths, Plain(path)
    PROVE  Resolved(DocsDir, RelativeTo(path, DocsDir)) = path
  <1>1. DocsDir \in Paths /\ Len(DocsDir) = 1 /\ DocsDir[1] = "docs"
    <2>1. "docs" \in Names
      BY DEF Names
    <2> QED
      BY <2>1 DEF DocsDir, Paths
  <1>2. CASE IsPrefix(DocsDir, path)
    <2> DEFINE rest == SubSeq(path, 2, Len(path))
    <2>1. rest \in Paths /\ Plain(rest)
      BY DEF Paths, Plain
    <2>2. RelativeTo(path, DocsDir) = rest
      BY <1>1, <1>2 DEF RelativeTo
    <2>3. Len(path) >= 1 /\ path[1] = "docs"
      <3>1. SubSeq(path, 1, 1) = SubSeq(DocsDir, 1, 1) /\ Len(path) >= 1
        BY <1>1, <1>2 DEF IsPrefix, Paths
      <3>2. SubSeq(path, 1, 1)[1] = path[1] /\ SubSeq(DocsDir, 1, 1)[1] = "docs"
        BY <1>1, <3>1 DEF Paths
      <3> QED
        BY <3>1, <3>2
    <2>4. DocsDir \o rest = path
      <3>1. path = SubSeq(path, 1, Len(path)) /\ 1 \in 1..Len(path) /\ Len(path) \in 1..Len(path)
        BY <2>3, SubSeqFull DEF Paths
      <3>2. SubSeq(path, 1, Len(path)) = <<path[1]>> \o SubSeq(path, 1 + 1, Len(path))
        BY <3>1, SubSeqRecursiveFirst DEF Paths
      <3> QED
        BY <2>3, <3>1, <3>2 DEF DocsDir
    <2> HIDE DEF rest
    <2> QED
      BY <1>1, <2>1, <2>2, <2>4, ResolvedDown
  <1>3. CASE ~IsPrefix(DocsDir, path)
    BY <1>1, <1>3, ResolvedRoot DEF RelativeTo
  <1> QED
    BY <1>2, <1>3

LEMMA PathIsPaths == Path \subseteq Paths
  <1>1. STRING \subseteq Names
    BY DEF Names
  <1> QED
    BY <1>1, SeqMonotonic DEF Path, Paths

Val == [kind : {"page", "include", "external"}, path : Path, anchor : STRING]
Leaf == [at : Seq(STRING), val : Val]

LEMMA IncludedDocs ==
    ASSUME NEW val \in Val, NEW configs,
           \A p \in DOMAIN configs : configs[p] \in Config, Includes(val, configs)
    PROVE  IncludeDocs(val, configs) \in Paths /\ Plain(IncludeDocs(val, configs))
  <1> DEFINE p == IncludePath(val)
  <1>1. <<>> \in Paths /\ Plain(<<>>)
    BY DEF Paths, Plain
  <1>2. val.path \in Paths
    BY PathIsPaths DEF Val
  <1>3. p \in Paths /\ Plain(p)
    BY <1>1, <1>2, ResolvedPlain DEF IncludePath
  <1>4. Front(p) \in Paths /\ Plain(Front(p))
    <2> HIDE DEF p
    <2> QED
      BY <1>3 DEF Front, Paths, Plain
  <1>5. configs[p].docs_dir \in Paths
    BY PathIsPaths DEF Includes, Config
  <1> HIDE DEF p
  <1>6. Resolved(Front(p), configs[p].docs_dir) \in Paths
        /\ Plain(Resolved(Front(p), configs[p].docs_dir))
    BY <1>4, <1>5, ResolvedPlain
  <1> QED
    BY <1>6 DEF IncludeDocs, p

LEMMA Rewritten ==
    ASSUME NEW val \in Val, val.kind = "page", NEW dir \in Paths, Plain(dir)
    PROVE  /\ Denotes(DocsDir, _rewrite_path(val, dir)) = Denotes(dir, val)
           /\ _rewrite_path(val, dir).anchor = val.anchor
  <1> DEFINE file == Resolved(dir, val.path)
  <1>1. val.path \in Paths
    BY PathIsPaths DEF Val
  <1>2. file \in Paths /\ Plain(file)
    BY <1>1, ResolvedPlain
  <1>3. Resolved(DocsDir, RelativeTo(file, DocsDir)) = file
    <2> HIDE DEF file
    <2> QED
      BY <1>2, ReadBack
  <1>4. _rewrite_path(val, dir).path = RelativeTo(file, DocsDir)
        /\ _rewrite_path(val, dir).anchor = val.anchor
    BY DEF _rewrite_path, AsPath, Val
  <1> QED
    BY <1>3, <1>4 DEF Denotes

\* Every page of a nav, included or not, is in the nav the hook hands on.
LEMMA NavPages ==
    ASSUME NEW nav \in Nav, NEW configs, \A p \in DOMAIN configs : configs[p] \in Config
    PROVE  Expected(nav, configs)
               \subseteq {[at |-> leaf.at, file |-> Denotes(DocsDir, leaf.val),
                           anchor |-> leaf.val.anchor] :
                             leaf \in ToSet(_replace_includes(nav, configs))}
  <1> DEFINE parts == [i \in DOMAIN nav |->
                         IF Includes(nav[i].val, configs) THEN _load_include_nav(nav[i], configs)
                                                          ELSE <<nav[i]>>]
             T == UNION {ToSet(parts[i]) : i \in DOMAIN nav}
             As(leaf) == [at |-> leaf.at, file |-> Denotes(DocsDir, leaf.val),
                          anchor |-> leaf.val.anchor]
  <1>1. nav \in Seq(Leaf) /\ DOMAIN nav = 1..Len(nav) /\ Len(nav) \in Nat
    BY DEF Nav, Leaf, Val
  <1>2. ASSUME NEW i \in DOMAIN nav PROVE nav[i].val \in Val /\ nav[i].at \in Seq(STRING)
    <2>1. nav[i] \in Leaf
      BY <1>1
    <2> QED
      BY <2>1 DEF Leaf
  <1>3. ASSUME NEW i \in DOMAIN nav, Includes(nav[i].val, configs)
        PROVE  /\ configs[IncludePath(nav[i].val)].nav \in Seq(Leaf)
               /\ parts[i] = [j \in DOMAIN configs[IncludePath(nav[i].val)].nav |->
                     [at  |-> nav[i].at \o configs[IncludePath(nav[i].val)].nav[j].at,
                      val |-> _rewrite_path(configs[IncludePath(nav[i].val)].nav[j].val,
                                            IncludeDocs(nav[i].val, configs))]]
    BY <1>3 DEF _load_include_nav, Includes, Config, Nav, Leaf, Val
  <1>4. ASSUME NEW i \in DOMAIN nav
        PROVE  \E n \in Nat : DOMAIN parts[i] = 1..n
    <2>1. CASE Includes(nav[i].val, configs)
      <3>1. /\ DOMAIN parts[i] = DOMAIN configs[IncludePath(nav[i].val)].nav
            /\ configs[IncludePath(nav[i].val)].nav \in Seq(Leaf)
        BY <1>3, <2>1
      <3> QED
        BY <3>1, LenProperties
    <2>2. CASE ~Includes(nav[i].val, configs)
      BY <2>2
    <2> QED
      BY <2>1, <2>2
  <1>5. parts \in Seq(Seq(T)) /\ DOMAIN parts = DOMAIN nav
    <2>1. ASSUME NEW i \in DOMAIN nav PROVE parts[i] \in Seq(T)
      <3>1. PICK n \in Nat : DOMAIN parts[i] = 1..n
        BY <1>4
      <3>2. \A j \in DOMAIN parts[i] : parts[i][j] \in T
        <4> HIDE DEF parts
        <4> QED
          BY DEF ToSet
      <3>3. parts[i] = [j \in DOMAIN parts[i] |-> parts[i][j]]
        <4>1. CASE Includes(nav[i].val, configs)
          <5>1. parts[i] = [j \in DOMAIN configs[IncludePath(nav[i].val)].nav |->
                     [at  |-> nav[i].at \o configs[IncludePath(nav[i].val)].nav[j].at,
                      val |-> _rewrite_path(configs[IncludePath(nav[i].val)].nav[j].val,
                                            IncludeDocs(nav[i].val, configs))]]
            BY <1>3, <4>1
          <5> HIDE DEF parts
          <5> QED
            BY <5>1
        <4>2. CASE ~Includes(nav[i].val, configs)
          BY <4>2
        <4> QED
          BY <4>1, <4>2
      <3>4. parts[i] \in [1..n -> T]
        <4> HIDE DEF parts, T
        <4> QED
          BY <3>1, <3>2, <3>3
      <3> HIDE DEF parts, T
      <3> QED
        BY <3>4, SeqDef
    <2>2. DOMAIN parts = DOMAIN nav
      OBVIOUS
    <2>3. parts = [i \in DOMAIN nav |-> parts[i]]
      OBVIOUS
    <2>4. parts \in [1..Len(nav) -> Seq(T)]
      <3> HIDE DEF parts, T
      <3> QED
        BY <1>1, <2>1, <2>2, <2>3
    <2> HIDE DEF parts, T
    <2> QED
      BY <1>1, <2>2, <2>4, SeqDef
  <1>6. _replace_includes(nav, configs) = FlattenSeq(parts)
    BY DEF _replace_includes
  <1>7. ASSUME NEW i \in DOMAIN nav, NEW j \in DOMAIN parts[i]
        PROVE  parts[i][j] \in ToSet(_replace_includes(nav, configs))
    <2> HIDE DEF parts, T
    <2> QED
      BY <1>5, <1>6, <1>7, FlattenHas
  <1> SUFFICES ASSUME NEW x \in Expected(nav, configs)
               PROVE  \E leaf \in ToSet(_replace_includes(nav, configs)) : x = As(leaf)
    OBVIOUS
  <1>8. PICK i \in DOMAIN nav :
           x \in IF Includes(nav[i].val, configs)
           THEN {[at   |-> nav[i].at \o leaf.at,
                  file |-> Denotes(IncludeDocs(nav[i].val, configs), leaf.val),
                  anchor |-> leaf.val.anchor] :
                    leaf \in {l \in ToSet(configs[IncludePath(nav[i].val)].nav) :
                                 l.val.kind = "page"}}
           ELSE IF nav[i].val.kind = "page"
           THEN {[at |-> nav[i].at, file |-> Denotes(DocsDir, nav[i].val),
                  anchor |-> nav[i].val.anchor]}
           ELSE {}
    BY DEF Expected
  <1>9. CASE Includes(nav[i].val, configs)
    <2> DEFINE sub == configs[IncludePath(nav[i].val)].nav
               dir == IncludeDocs(nav[i].val, configs)
    <2>1. PICK l \in ToSet(sub) :
             /\ l.val.kind = "page"
             /\ x = [at |-> nav[i].at \o l.at, file |-> Denotes(dir, l.val),
                     anchor |-> l.val.anchor]
      BY <1>8, <1>9
    <2>2. PICK j \in DOMAIN sub : l = sub[j]
      BY <2>1 DEF ToSet
    <2>3. l.val \in Val
      <3>1. sub \in Seq(Leaf)
        BY <1>3, <1>9
      <3>2. l \in Leaf
        <4> HIDE DEF sub
        <4> QED
          BY <3>1, <2>2
      <3> QED
        BY <3>2 DEF Leaf
    <2>4. dir \in Paths /\ Plain(dir)
      BY <1>2, <1>9, IncludedDocs
    <2> DEFINE leaf == [at |-> nav[i].at \o l.at, val |-> _rewrite_path(l.val, dir)]
    <2>5. leaf = parts[i][j] /\ j \in DOMAIN parts[i]
      <3>1. parts[i] = [k \in DOMAIN sub |->
                          [at |-> nav[i].at \o sub[k].at, val |-> _rewrite_path(sub[k].val, dir)]]
        BY <1>3, <1>9
      <3> HIDE DEF parts, sub, dir
      <3> QED
        BY <2>2, <3>1
    <2>6. x = As(leaf)
      <3> HIDE DEF dir
      <3> QED
        BY <2>1, <2>3, <2>4, Rewritten
    <2>7. leaf \in ToSet(_replace_includes(nav, configs))
      BY <1>7, <2>5
    <2> HIDE DEF leaf
    <2> QED
      BY <2>6, <2>7
  <1>10. CASE ~Includes(nav[i].val, configs)
    <2>1. x = As(nav[i])
      BY <1>8, <1>10
    <2>2. 1 \in DOMAIN parts[i] /\ parts[i][1] = nav[i]
      BY <1>10
    <2> QED
      BY <1>7, <2>1, <2>2
  <1> QED
    BY <1>9, <1>10

-----------------------------------------------------------------------------
(* The search paths of the snippets *)

LEMMA AddType ==
    ASSUME NEW b \in Seq(Paths), NEW p \in Paths
    PROVE  _add_to_snippets_config(b, p) \in Seq(Paths)
  BY DEF _add_to_snippets_config, WithPath

LEMMA TargetType ==
    ASSUME NEW b \in Seq(Paths), NEW f \in File
    PROVE  AddTarget(b, f) \in Seq(Paths)
  BY AddType, PathIsPaths DEF AddTarget, File

\* The search paths, file by file.
LEMMA Targets ==
    ASSUME NEW base_path \in Seq(Paths), NEW files \in Seq(File)
    PROVE  \E w \in [0..Len(files) -> Seq(Paths)] :
              /\ w[0] = base_path
              /\ \A i \in 1..Len(files) : w[i] = AddTarget(w[i - 1], files[i])
              /\ FoldLeft(AddTarget, base_path, files) = w[Len(files)]
  <1> DEFINE A == Seq(Paths)
             g == [x \in A \X File |-> AddTarget(x[1], x[2])]
             Step(f) == [s \in SUBSET DOMAIN files |->
                           IF s = {} THEN base_path ELSE AddTarget(f[s \ {Max(s)}], files[Max(s)])]
             it == CHOOSE f : f = Step(f)
  <1>1. g \in [A \X File -> A] /\ base_path \in A
    BY TargetType
  <1>2. PICK f : IsFold(f, A, g, base_path, files)
    <2> HIDE DEF g, A
    <2> QED
      BY <1>1, FoldExists
  <1>3. f = Step(f)
    <2>1. ASSUME NEW s \in SUBSET DOMAIN files, s # {}
          PROVE  f[s] = AddTarget(f[s \ {Max(s)}], files[Max(s)])
      <3>1. Max(s) \in s /\ s \ {Max(s)} \in SUBSET DOMAIN files
        BY <1>2, <2>1 DEF IsFold
      <3>2. f[s \ {Max(s)}] \in A
        BY <1>2, <3>1 DEF IsFold
      <3>3. files[Max(s)] \in File
        BY <3>1
      <3>4. f[s] = g[<<f[s \ {Max(s)}], files[Max(s)]>>]
        BY <1>2, <2>1 DEF IsFold
      <3> QED
        BY <3>2, <3>3, <3>4
    <2>2. f = [s \in SUBSET DOMAIN files |-> f[s]] /\ f[{}] = base_path
      BY <1>2 DEF IsFold
    <2> HIDE DEF A, g
    <2> QED
      BY <2>1, <2>2
  <1>4. it = Step(it)
    BY <1>3
  <1>5. FoldLeft(AddTarget, base_path, files) = it[DOMAIN files]
    BY DEF FoldLeft, MapThenFoldSet
  <1> HIDE DEF it
  <1>6. it[{}] = base_path
    BY <1>4
  <1>7. ASSUME NEW s \in SUBSET DOMAIN files, s # {}, it[s \ {Max(s)}] \in A
        PROVE  it[s] = g[<<it[s \ {Max(s)}], files[Max(s)]>>]
    <2>1. Max(s) \in s
      BY <1>2, <1>7 DEF IsFold
    <2>2. files[Max(s)] \in File
      BY <2>1
    <2> HIDE DEF A
    <2>3. it[s] = AddTarget(it[s \ {Max(s)}], files[Max(s)])
      BY <1>4, <1>7
    <2> QED
      BY <1>7, <2>2, <2>3
  <1>7a. Steps(it, A, g, base_path, files)
    <2> HIDE DEF A, g
    <2> QED
      BY <1>6, <1>7 DEF Steps
  <1>8. PICK w : IsChain(w, it, A, g, base_path, files)
    <2> HIDE DEF A, g, Step
    <2>1. g \in [A \X File -> A]
      BY <1>1
    <2>2. base_path \in A
      BY <1>1
    <2>3. files \in Seq(File)
      OBVIOUS
    <2> QED
      BY <2>1, <2>2, <2>3, <1>7a, FoldChain
  <1>9. ASSUME NEW i \in 1..Len(files) PROVE w[i] = AddTarget(w[i - 1], files[i])
    <2>1. i - 1 \in 0..Len(files)
      OBVIOUS
    <2>2. w[i - 1] \in A /\ files[i] \in File
      BY <1>8, <2>1 DEF IsChain
    <2>3. w[i] = g[<<w[i - 1], files[i]>>]
      BY <1>8 DEF IsChain
    <2> HIDE DEF A
    <2> QED
      BY <2>2, <2>3
  <1>10. w \in [0..Len(files) -> A] /\ w[0] = base_path /\ w[Len(files)] = it[DOMAIN files]
    BY <1>8 DEF IsChain
  <1> QED
    BY <1>5, <1>9, <1>10

Once(s) == \A i, j \in DOMAIN s : s[i] = s[j] => i = j

Continues(s, t) == Len(s) <= Len(t) /\ \A i \in 1..Len(s) : t[i] = s[i]

\* A path is added at the end, unless it is there.
LEMMA Adding ==
    ASSUME NEW b \in Seq(Paths), NEW p \in Paths, Once(b)
    PROVE  LET c == _add_to_snippets_config(b, p)
           IN  c \in Seq(Paths) /\ Once(c) /\ Continues(b, c) /\ ToSet(c) = ToSet(b) \union {p}
  <1>1. Len(b) \in Nat /\ DOMAIN b = 1..Len(b)
    OBVIOUS
  <1>2. CASE Contains(b, p)
    BY <1>1, <1>2 DEF Contains, _add_to_snippets_config, WithPath, Continues, ToSet
  <1>3. CASE ~Contains(b, p)
    <2> DEFINE c == Append(b, p)
    <2>1. /\ c \in Seq(Paths) /\ DOMAIN c = 1..(Len(b) + 1) /\ Len(c) = Len(b) + 1
          /\ \A i \in 1..Len(b) : c[i] = b[i]
          /\ c[Len(b) + 1] = p
      BY <1>1
    <2>2. \A i \in 1..Len(b) : b[i] # p
      BY <1>3 DEF Contains
    <2> HIDE DEF c
    <2>3. Continues(b, c)
      BY <1>1, <2>1 DEF Continues
    <2>4. Once(c)
      BY <1>1, <2>1, <2>2 DEF Once
    <2>5. ToSet(c) = ToSet(b) \union {p}
      <3>1. \A x \in ToSet(c) : x \in ToSet(b) \union {p}
        BY <1>1, <2>1 DEF ToSet
      <3>2. \A x \in ToSet(b) : x \in ToSet(c)
        BY <1>1, <2>1 DEF ToSet
      <3>3. p \in ToSet(c)
        BY <1>1, <2>1 DEF ToSet
      <3> QED
        BY <3>1, <3>2, <3>3
    <2>6. c = _add_to_snippets_config(b, p)
      BY <1>3 DEF c, _add_to_snippets_config, WithPath
    <2> QED
      BY <2>1, <2>3, <2>4, <2>5, <2>6
  <1> QED
    BY <1>2, <1>3

LEMMA OnceCounts ==
    ASSUME NEW T, NEW s \in Seq(T)
    PROVE  Once(s) <=> Cardinality(ToSet(s)) = Len(s)
  <1>1. s \in [1..Len(s) -> ToSet(s)] /\ DOMAIN s = 1..Len(s) /\ Len(s) \in Nat
    BY DEF ToSet
  <1>2. s \in Surjection(1..Len(s), ToSet(s))
    BY <1>1 DEF Surjection, ToSet
  <1>3. IsFiniteSet(1..Len(s)) /\ Cardinality(1..Len(s)) = Len(s)
    <2>1. 1 \in Int /\ Len(s) \in Int
      BY <1>1
    <2>2. IsFiniteSet(1..Len(s)) /\ Cardinality(1..Len(s)) = IF 1 > Len(s) THEN 0 ELSE Len(s) - 1 + 1
      BY <2>1, FS_Interval
    <2> QED
      BY <1>1, <2>2
  <1>4. Cardinality(ToSet(s)) = Len(s) <=> s \in Injection(1..Len(s), ToSet(s))
    BY <1>2, <1>3, FS_Surjection
  <1> QED
    BY <1>1, <1>4 DEF Injection, IsInjective, Once

\* The directories that are linked to.
LinkedTo(files) == {f.real : f \in {g \in files : g.link = "dir"}}

LEMMA SnippetsOnce ==
    ASSUME NEW base_path \in Seq(Paths), Once(base_path), NEW files \in Seq(File)
    PROVE  LET b == SnippetPaths(base_path, files)
           IN  /\ b \in Seq(Paths) /\ Once(b) /\ Continues(base_path, b)
               /\ ToSet(b) = ToSet(base_path) \union {<<>>, DocsDir} \union LinkedTo(ToSet(files))
  <1> DEFINE b1 == _add_to_snippets_config(base_path, <<>>)
             b2 == _add_to_snippets_config(b1, DocsDir)
  <1>1. <<>> \in Paths /\ DocsDir \in Paths
    BY DEF Paths, Names, DocsDir
  <1>2. b1 \in Seq(Paths) /\ Once(b1) /\ Continues(base_path, b1) /\ ToSet(b1) = ToSet(base_path) \union {<<>>}
    BY <1>1, Adding
  <1> HIDE DEF b1
  <1>3. b2 \in Seq(Paths) /\ Once(b2) /\ Continues(b1, b2) /\ ToSet(b2) = ToSet(b1) \union {DocsDir}
    BY <1>1, <1>2, Adding
  <1> HIDE DEF b2
  <1>4. PICK w \in [0..Len(files) -> Seq(Paths)] :
              /\ w[0] = b2
              /\ \A i \in 1..Len(files) : w[i] = AddTarget(w[i - 1], files[i])
              /\ FoldLeft(AddTarget, b2, files) = w[Len(files)]
    BY <1>3, Targets
  <1> DEFINE First(n) == {files[i] : i \in 1..n}
             D == {n \in 0..Len(files) :
                     /\ Once(w[n]) /\ Continues(b2, w[n])
                     /\ ToSet(w[n]) = ToSet(b2) \union LinkedTo(First(n))}
  <1>5. Len(files) \in Nat
    OBVIOUS
  <1>6. 0 \in D
    <2>1. First(0) = {}
      OBVIOUS
    <2>2. Continues(b2, b2)
      BY <1>3 DEF Continues
    <2> QED
      BY <1>3, <1>4, <1>5, <2>1, <2>2 DEF LinkedTo
  <1>7. \A n \in 0..Len(files) : n \in D /\ n < Len(files) => n + 1 \in D
    <2> SUFFICES ASSUME NEW n \in 0..Len(files), n \in D, n < Len(files) PROVE n + 1 \in D
      OBVIOUS
    <2> HIDE DEF D, First
    <2>1. n + 1 \in 1..Len(files) /\ (n + 1) - 1 = n /\ n + 1 \in 0..Len(files)
      BY <1>5
    <2> DEFINE f == files[n + 1]
    <2>2. f \in File /\ f.real \in Paths
      <3>1. f \in File
        BY <2>1
      <3> HIDE DEF f
      <3> QED
        BY <3>1, PathIsPaths DEF File
    <2> USE DEF D
    <2>3. w[n + 1] = AddTarget(w[n], f) /\ w[n] \in Seq(Paths) /\ w[n + 1] \in Seq(Paths)
      BY <1>4, <2>1
    <2>4. First(n + 1) = First(n) \union {f}
      <3>1. 1..(n + 1) = 1..n \union {n + 1}
        BY <1>5
      <3> HIDE DEF D
      <3> QED
        BY <3>1 DEF First
    <2> HIDE DEF f, First
    <2>5. CASE f.link = "dir"
      <3>1. w[n + 1] = _add_to_snippets_config(w[n], f.real)
        BY <2>3, <2>5 DEF AddTarget
      <3>2. Once(w[n + 1]) /\ Continues(w[n], w[n + 1]) /\ ToSet(w[n + 1]) = ToSet(w[n]) \union {f.real}
        BY <2>2, <2>3, <3>1, Adding
      <3>3. LinkedTo(First(n + 1)) = LinkedTo(First(n)) \union {f.real}
        BY <2>4, <2>5 DEF LinkedTo
      <3>4. Continues(b2, w[n + 1])
        BY <1>3, <2>3, <3>2 DEF Continues
      <3> QED
        BY <2>1, <3>2, <3>3, <3>4
    <2>6. CASE f.link # "dir"
      <3>1. w[n + 1] = w[n]
        BY <2>3, <2>6 DEF AddTarget
      <3>2. LinkedTo(First(n + 1)) = LinkedTo(First(n))
        BY <2>4, <2>6 DEF LinkedTo
      <3> QED
        BY <2>1, <3>1, <3>2
    <2> QED
      BY <2>5, <2>6
  <1>8. Len(files) \in D
    <2> HIDE DEF D
    <2>1. \A n \in 0..Len(files) : n \in D
      BY <1>5, <1>6, <1>7, UpTo
    <2> QED
      BY <1>5, <2>1
  <1>9. First(Len(files)) = ToSet(files)
    BY DEF ToSet
  <1>10. SnippetPaths(base_path, files) = w[Len(files)]
    BY <1>4 DEF SnippetPaths, b1, b2
  <1>11. Continues(base_path, w[Len(files)])
    <2>1. Continues(b2, w[Len(files)]) /\ w[Len(files)] \in Seq(Paths)
      BY <1>5, <1>8
    <2> QED
      BY <1>2, <1>3, <2>1 DEF Continues
  <1> HIDE DEF First
  <1> QED
    BY <1>2, <1>3, <1>4, <1>5, <1>8, <1>9, <1>10, <1>11

-----------------------------------------------------------------------------
(* The dates of the pages of a submodule *)

Entry == [created : Nat, updated : Nat, authors : Seq(Author)]
Metas == UNION {[S -> Entry] : S \in SUBSET Path}
Acc == [current : {<<>>} \union (Author \X Nat), meta : Metas, raised : BOOLEAN]
Line == [header : {TRUE}, author : Author, time : Nat] \union [header : {FALSE}, path : Path]

LEMMA MetaIs ==
    ASSUME NEW meta \in Metas
    PROVE  /\ DOMAIN meta \subseteq Path /\ meta = [p \in DOMAIN meta |-> meta[p]]
           /\ \A p \in DOMAIN meta : meta[p] \in Entry
  BY DEF Metas

LEMMA RecordedType ==
    ASSUME NEW meta \in Metas, NEW path \in Path, NEW author \in Author, NEW time \in Nat
    PROVE  Recorded(meta, path, author, time) \in Metas
  <1> DEFINE new == Recorded(meta, path, author, time)
             S == DOMAIN meta \union {path}
  <1>1. S \in SUBSET Path
    BY MetaIs
  <1>2. FirstDated(author, time) \in Entry
    BY DEF FirstDated, Entry
  <1>3. ASSUME NEW entry \in Entry PROVE Dated(entry, author, time) \in Entry
    <2>1. entry.created \in Nat /\ entry.updated \in Nat /\ entry.authors \in Seq(Author)
      BY <1>3 DEF Entry
    <2> DEFINE authors == IF Contains(entry.authors, author) THEN entry.authors
                                                             ELSE Append(entry.authors, author)
    <2>2. authors \in Seq(Author)
      BY <2>1, AppendProperties
    <2>3. Dated(entry, author, time) = [entry EXCEPT !.updated = time, !.authors = authors]
      BY DEF Dated
    <2> HIDE DEF authors
    <2>4. entry = [created |-> entry.created, updated |-> entry.updated, authors |-> entry.authors]
      BY <1>3 DEF Entry
    <2>5. Dated(entry, author, time)
            = [created |-> entry.created, updated |-> time, authors |-> authors]
      BY <2>3, <2>4
    <2> QED
      BY <2>1, <2>2, <2>5 DEF Entry
  <1>4. new \in [S -> Entry]
    <2> SUFFICES ASSUME NEW p \in S PROVE new[p] \in Entry
      BY DEF Recorded
    <2>1. CASE p # path
      BY <2>1, MetaIs DEF Recorded
    <2>2. CASE p = path /\ p \in DOMAIN meta
      BY <2>2, <1>3, MetaIs DEF Recorded
    <2>3. CASE p = path /\ p \notin DOMAIN meta
      BY <2>3, <1>2 DEF Recorded
    <2> QED
      BY <2>1, <2>2, <2>3
  <1> HIDE DEF new, S
  <1>5. new \in Metas
    BY <1>1, <1>4 DEF Metas
  <1> QED
    BY <1>5 DEF new

LEMMA ReadType ==
    ASSUME NEW acc \in Acc, NEW line \in Line
    PROVE  ReadLine(acc, line) \in Acc
  <1>1. CASE line \in [header : {TRUE}, author : Author, time : Nat]
    BY <1>1 DEF ReadLine, Acc
  <1>2. CASE line \in [header : {FALSE}, path : Path]
    <2>1. CASE acc.current = <<>>
      BY <1>2, <2>1 DEF ReadLine
    <2>2. CASE acc.current # <<>>
      <3>1. acc.current \in Author \X Nat /\ acc.meta \in Metas /\ acc.raised \in BOOLEAN
        BY <2>2 DEF Acc
      <3>2. acc.current[1] \in Author /\ acc.current[2] \in Nat
        BY <3>1
      <3>3. Recorded(acc.meta, line.path, acc.current[1], acc.current[2]) \in Metas
        BY <1>2, <3>1, <3>2, RecordedType
      <3> QED
        BY <1>2, <2>2, <3>3 DEF ReadLine, Acc
    <2> QED
      BY <2>1, <2>2
  <1> QED
    BY <1>1, <1>2 DEF Line

Unread == [current |-> <<>>, meta |-> << >>, raised |-> FALSE]

LEMMA UnreadType == Unread \in Acc
  <1>1. << >> \in [{} -> Entry]
    OBVIOUS
  <1>2. << >> \in Metas
    BY <1>1 DEF Metas
  <1> QED
    BY <1>2 DEF Unread, Acc

\* The state of the reader, line by line.
LEMMA Reads ==
    ASSUME NEW lines \in Seq(Line)
    PROVE  \E w \in [0..Len(lines) -> Acc] :
              /\ w[0] = Unread
              /\ \A i \in 1..Len(lines) : w[i] = ReadLine(w[i - 1], lines[i])
              /\ FoldLeft(ReadLine, Unread, lines) = w[Len(lines)]
  <1> DEFINE A == Acc
             g == [x \in A \X Line |-> ReadLine(x[1], x[2])]
             Step(f) == [s \in SUBSET DOMAIN lines |->
                           IF s = {} THEN Unread ELSE ReadLine(f[s \ {Max(s)}], lines[Max(s)])]
             it == CHOOSE f : f = Step(f)
  <1>1. g \in [A \X Line -> A] /\ Unread \in A
    BY ReadType, UnreadType
  <1>2. PICK f : IsFold(f, A, g, Unread, lines)
    <2> HIDE DEF g, A
    <2> QED
      BY <1>1, FoldExists
  <1>3. f = Step(f)
    <2>1. ASSUME NEW s \in SUBSET DOMAIN lines, s # {}
          PROVE  f[s] = ReadLine(f[s \ {Max(s)}], lines[Max(s)])
      <3>1. Max(s) \in s /\ s \ {Max(s)} \in SUBSET DOMAIN lines
        BY <1>2, <2>1 DEF IsFold
      <3>2. f[s \ {Max(s)}] \in A
        BY <1>2, <3>1 DEF IsFold
      <3>3. lines[Max(s)] \in Line
        BY <3>1
      <3>4. f[s] = g[<<f[s \ {Max(s)}], lines[Max(s)]>>]
        BY <1>2, <2>1 DEF IsFold
      <3> QED
        BY <3>2, <3>3, <3>4
    <2>2. f = [s \in SUBSET DOMAIN lines |-> f[s]] /\ f[{}] = Unread
      BY <1>2 DEF IsFold
    <2> HIDE DEF A, g
    <2> QED
      BY <2>1, <2>2
  <1>4. it = Step(it)
    BY <1>3
  <1>5. FoldLeft(ReadLine, Unread, lines) = it[DOMAIN lines]
    BY DEF FoldLeft, MapThenFoldSet
  <1> HIDE DEF it
  <1>6. it[{}] = Unread
    BY <1>4
  <1>7. ASSUME NEW s \in SUBSET DOMAIN lines, s # {}, it[s \ {Max(s)}] \in A
        PROVE  it[s] = g[<<it[s \ {Max(s)}], lines[Max(s)]>>]
    <2>1. Max(s) \in s
      BY <1>2, <1>7 DEF IsFold
    <2>2. lines[Max(s)] \in Line
      BY <2>1
    <2> HIDE DEF A
    <2>3. it[s] = ReadLine(it[s \ {Max(s)}], lines[Max(s)])
      BY <1>4, <1>7
    <2> QED
      BY <1>7, <2>2, <2>3
  <1>7a. Steps(it, A, g, Unread, lines)
    <2> HIDE DEF A, g
    <2> QED
      BY <1>6, <1>7 DEF Steps
  <1>8. PICK w : IsChain(w, it, A, g, Unread, lines)
    <2> HIDE DEF A, g, Step
    <2>1. g \in [A \X Line -> A]
      BY <1>1
    <2>2. Unread \in A
      BY <1>1
    <2>3. lines \in Seq(Line)
      OBVIOUS
    <2> QED
      BY <2>1, <2>2, <2>3, <1>7a, FoldChain
  <1>9. ASSUME NEW i \in 1..Len(lines) PROVE w[i] = ReadLine(w[i - 1], lines[i])
    <2>1. i - 1 \in 0..Len(lines)
      OBVIOUS
    <2>2. w[i - 1] \in A /\ lines[i] \in Line
      BY <1>8, <2>1 DEF IsChain
    <2>3. w[i] = g[<<w[i - 1], lines[i]>>]
      BY <1>8 DEF IsChain
    <2> HIDE DEF A
    <2> QED
      BY <2>2, <2>3
  <1>10. w \in [0..Len(lines) -> A] /\ w[0] = Unread /\ w[Len(lines)] = it[DOMAIN lines]
    BY <1>8 DEF IsChain
  <1> QED
    BY <1>5, <1>9, <1>10

\* What an entry says when the commits s of the log have named its file.
Credits(entry, s, log) ==
    /\ \E k \in s : (\A m \in s : k <= m) /\ entry.created = log[k].time
    /\ \E k \in s : (\A m \in s : m <= k) /\ entry.updated = log[k].time
    /\ ToSet(entry.authors) = {log[k].author : k \in s}

\* The commits read so far that name a file: all before i, and i by its first j files.
Seen(log, i, j, p) ==
    {k \in DOMAIN log : \/ k < i /\ p \in ToSet(log[k].files)
                        \/ k = i /\ \E m \in 1..j : log[i].files[m] = p}

Records(meta, i, j, log) ==
    \A p \in Path : IF Seen(log, i, j, p) = {} THEN p \notin DOMAIN meta
                    ELSE p \in DOMAIN meta /\ Credits(meta[p], Seen(log, i, j, p), log)

Before(acc, i, log) == acc.raised \/ Records(acc.meta, i, 0, log)

Within(acc, i, j, log) ==
    \/ acc.raised
    \/ acc.current = <<log[i].author, log[i].time>> /\ Records(acc.meta, i, j, log)

LogEntry == [author : Author, time : Nat, files : Seq(Path)]

LEMMA CommitIs ==
    ASSUME NEW log \in Log, NEW i \in DOMAIN log
    PROVE  log[i] \in [author : Author, time : Nat, files : Seq(Path)] /\ i \in Nat
  <1>1. log \in Seq(LogEntry)
    BY DEF Log, LogEntry
  <1>2. log[i] \in LogEntry /\ i \in Nat
    BY <1>1
  <1> QED
    BY <1>2 DEF LogEntry

LEMMA CreditsFirst ==
    ASSUME NEW log \in Log, NEW i \in DOMAIN log
    PROVE  Credits(FirstDated(log[i].author, log[i].time), {i}, log)
  <1> DEFINE e == FirstDated(log[i].author, log[i].time)
  <1>1. e.created = log[i].time /\ e.updated = log[i].time /\ e.authors = <<log[i].author>>
    BY DEF FirstDated
  <1>2. ToSet(<<log[i].author>>) = {log[i].author}
    BY DEF ToSet
  <1>3. i \in Nat
    BY DEF Log
  <1> HIDE DEF e
  <1>4. Credits(e, {i}, log)
    BY <1>1, <1>2, <1>3 DEF Credits
  <1> QED
    BY <1>4 DEF e

LEMMA CreditsNext ==
    ASSUME NEW log \in Log, NEW i \in DOMAIN log, NEW s \in SUBSET (1..i), NEW entry \in Entry,
           Credits(entry, s, log)
    PROVE  Credits(Dated(entry, log[i].author, log[i].time), s \union {i}, log)
  <1> DEFINE author == log[i].author
             time == log[i].time
             authors == IF Contains(entry.authors, author) THEN entry.authors
                                                           ELSE Append(entry.authors, author)
             e == Dated(entry, author, time)
             t == s \union {i}
  <1>1. entry = [created |-> entry.created, updated |-> entry.updated, authors |-> entry.authors]
        /\ entry.authors \in Seq(Author)
    BY DEF Entry
  <1>2. e.created = entry.created /\ e.updated = time /\ e.authors = authors
    <2> HIDE DEF author, time
    <2> QED
      BY <1>1 DEF Dated
  <1>3. log[i] \in [author : Author, time : Nat, files : Seq(Path)] /\ i \in Nat
    BY CommitIs
  <1>4. author \in Author
    BY <1>3
  <1>5. ToSet(authors) = ToSet(entry.authors) \union {author}
    <2> HIDE DEF author
    <2>1. CASE Contains(entry.authors, author)
      BY <1>1, <2>1 DEF Contains, ToSet
    <2>2. CASE ~Contains(entry.authors, author)
      BY <1>1, <1>4, <2>2 DEF ToSet
    <2> QED
      BY <2>1, <2>2
  <1> HIDE DEF e, authors
  <1>6. \E k \in t : (\A m \in t : k <= m) /\ e.created = log[k].time
    <2>1. PICK k \in s : (\A m \in s : k <= m) /\ entry.created = log[k].time
      BY DEF Credits
    <2>2. k <= i /\ k \in t
      BY <1>3
    <2> QED
      BY <1>2, <2>1, <2>2
  <1>7. \E k \in t : (\A m \in t : m <= k) /\ e.updated = log[k].time
    <2>1. i \in t /\ \A m \in t : m <= i
      BY <1>3
    <2> QED
      BY <1>2, <2>1
  <1>8. ToSet(e.authors) = {log[k].author : k \in t}
    BY <1>2, <1>5 DEF Credits
  <1> HIDE DEF t
  <1>9. Credits(e, t, log)
    BY <1>6, <1>7, <1>8 DEF Credits
  <1> QED
    BY <1>9 DEF e, t

LEMMA ReadHeader ==
    ASSUME NEW log \in Log, NEW i \in DOMAIN log, NEW acc \in Acc, Before(acc, i, log)
    PROVE  Within(ReadLine(acc, [header |-> TRUE, author |-> log[i].author, time |-> log[i].time]),
                  i, 0, log)
  <1> DEFINE line == [header |-> TRUE, author |-> log[i].author, time |-> log[i].time]
             new == ReadLine(acc, line)
  <1>1. new = [acc EXCEPT !.current = <<log[i].author, log[i].time>>]
    BY DEF ReadLine
  <1>2. new.raised = acc.raised /\ new.meta = acc.meta
        /\ new.current = <<log[i].author, log[i].time>>
    BY <1>1 DEF Acc
  <1> HIDE DEF new
  <1>3. Within(new, i, 0, log)
    BY <1>2 DEF Before, Within
  <1> QED
    BY <1>3 DEF new

LEMMA ReadFile ==
    ASSUME NEW log \in Log, NEW i \in DOMAIN log, NEW j \in 1..Len(log[i].files),
           NEW acc \in Acc, Within(acc, i, j - 1, log)
    PROVE  Within(ReadLine(acc, [header |-> FALSE, path |-> log[i].files[j]]), i, j, log)
  <1> DEFINE path == log[i].files[j]
             line == [header |-> FALSE, path |-> path]
             new == ReadLine(acc, line)
  <1>0. log[i] \in [author : Author, time : Nat, files : Seq(Path)] /\ i \in Nat
    BY CommitIs
  <1>1. path \in Path /\ log[i].author \in Author /\ log[i].time \in Nat
    BY <1>0
  <1> HIDE DEF path
  <1>2. CASE acc.raised
    <2>1. new.raised
      BY <1>2 DEF ReadLine, Acc
    <2> QED
      BY <2>1 DEF Within, path
  <1>3. CASE ~acc.raised
    <2>1. acc.current = <<log[i].author, log[i].time>> /\ Records(acc.meta, i, j - 1, log)
      BY <1>3 DEF Within
    <2>2. acc.current # <<>> /\ acc.current[1] = log[i].author /\ acc.current[2] = log[i].time
      BY <2>1
    <2>3. CASE log[i].author.barred
      <3>1. new = [acc EXCEPT !.raised = TRUE]
        BY <2>2, <2>3 DEF ReadLine
      <3>2. new.raised
        BY <3>1 DEF Acc
      <3> QED
        BY <3>2 DEF Within, path
    <2>4. CASE ~log[i].author.barred
      <3> DEFINE meta == Recorded(acc.meta, path, log[i].author, log[i].time)
      <3>1. new = [acc EXCEPT !.meta = meta]
        BY <2>2, <2>4 DEF ReadLine
      <3>2. new.current = acc.current /\ new.meta = meta
        <4> HIDE DEF meta
        <4> QED
          BY <3>1 DEF Acc
      <3>3. acc.meta \in Metas
        BY DEF Acc
      <3>4. ASSUME NEW p \in Path
            PROVE  IF Seen(log, i, j, p) = {} THEN p \notin DOMAIN meta
                   ELSE p \in DOMAIN meta /\ Credits(meta[p], Seen(log, i, j, p), log)
        <4>1. DOMAIN meta = DOMAIN acc.meta \union {path}
          BY DEF Recorded
        <4>2. CASE p # path
          <5>1. Seen(log, i, j, p) = Seen(log, i, j - 1, p)
            BY <4>2 DEF Seen, path
          <5>2. p \in DOMAIN acc.meta => meta[p] = acc.meta[p]
            BY <4>2 DEF Recorded
          <5> HIDE DEF meta
          <5> QED
            BY <2>1, <4>1, <4>2, <5>1, <5>2 DEF Records
        <4>3. CASE p = path
          <5> DEFINE s == Seen(log, i, j - 1, p)
          <5>1. Seen(log, i, j, p) = s \union {i} /\ s \in SUBSET (1..i)
            <6>1. DOMAIN log \in SUBSET Nat /\ \A k \in DOMAIN log : k >= 1
              BY DEF Log
            <6>2. s \in SUBSET (1..i)
              BY <1>0, <6>1 DEF Seen
            <6>3. \A m \in 1..j : m \in 1..(j - 1) \/ m = j
              OBVIOUS
            <6>4. \A m \in 1..(j - 1) : m \in 1..j
              OBVIOUS
            <6>5. i \in Seen(log, i, j, p)
              BY <4>3 DEF Seen, path
            <6> QED
              BY <6>2, <6>3, <6>4, <6>5 DEF Seen
          <5>2. CASE s = {}
            <6>1. p \notin DOMAIN acc.meta
              BY <2>1, <5>2 DEF Records
            <6>2. meta[p] = FirstDated(log[i].author, log[i].time)
              BY <4>3, <6>1 DEF Recorded
            <6>3. Credits(meta[p], {i}, log)
              BY <6>2, CreditsFirst
            <6> HIDE DEF meta
            <6> QED
              BY <4>1, <4>3, <5>1, <5>2, <6>3
          <5>3. CASE s # {}
            <6>1. p \in DOMAIN acc.meta /\ Credits(acc.meta[p], s, log)
              BY <2>1, <5>3 DEF Records
            <6>2. meta[p] = Dated(acc.meta[p], log[i].author, log[i].time)
              BY <4>3, <6>1 DEF Recorded
            <6>3. acc.meta[p] \in Entry
              BY <3>3, <6>1, MetaIs
            <6> HIDE DEF s
            <6>4. Credits(meta[p], s \union {i}, log)
              BY <5>1, <6>1, <6>2, <6>3, CreditsNext
            <6> HIDE DEF meta
            <6> QED
              BY <4>1, <4>3, <5>1, <6>4
          <5> QED
            BY <5>2, <5>3
        <4> QED
          BY <4>2, <4>3
      <3>5. Records(meta, i, j, log)
        <4> HIDE DEF meta
        <4> QED
          BY <3>4 DEF Records
      <3> HIDE DEF new, meta
      <3>6. Within(new, i, j, log)
        BY <2>1, <3>2, <3>5 DEF Within
      <3> QED
        BY <3>6 DEF new, path
    <2> QED
      BY <2>3, <2>4
  <1> QED
    BY <1>2, <1>3

LEMMA CommitRead ==
    ASSUME NEW log \in Log, NEW i \in DOMAIN log, NEW acc, Within(acc, i, Len(log[i].files), log)
    PROVE  Before(acc, i + 1, log)
  <1>1. log[i] \in [author : Author, time : Nat, files : Seq(Path)] /\ i \in Nat
    BY CommitIs
  <1>2. DOMAIN log \in SUBSET Nat
    BY DEF Log
  <1>3. ASSUME NEW p \in Path PROVE Seen(log, i, Len(log[i].files), p) = Seen(log, i + 1, 0, p)
    <2>1. p \in ToSet(log[i].files) <=> \E m \in 1..Len(log[i].files) : log[i].files[m] = p
      BY <1>1 DEF ToSet
    <2>2. \A k \in DOMAIN log : k < i + 1 <=> k < i \/ k = i
      BY <1>1, <1>2
    <2>3. 1..0 = {}
      OBVIOUS
    <2> QED
      BY <2>1, <2>2, <2>3 DEF Seen
  <1> QED
    BY <1>3 DEF Within, Before, Records

Header(log, i) == [header |-> TRUE, author |-> log[i].author, time |-> log[i].time]
Named(log, i, j) == [header |-> FALSE, path |-> log[i].files[j]]

\* The lines of commit i follow the first off[i - 1].
Offsets(off, lines, log) ==
    /\ off[0] = 0 /\ off[Len(log)] = Len(lines)
    /\ \A i \in 1..Len(log) :
          /\ off[i] = off[i - 1] + 1 + Len(log[i].files)
          /\ off[i - 1] + 1 \in 1..Len(lines)
          /\ lines[off[i - 1] + 1] = Header(log, i)
          /\ \A j \in 1..Len(log[i].files) :
                /\ off[i - 1] + 1 + j \in 1..Len(lines)
                /\ lines[off[i - 1] + 1 + j] = Named(log, i, j)

\* Where the lines of each commit lie among those of the log.
LEMMA LinesOf ==
    ASSUME NEW log \in Log
    PROVE  /\ LogLines(log) \in Seq(Line)
           /\ \E off \in [0..Len(log) -> Nat] : Offsets(off, LogLines(log), log)
  <1> DEFINE part(i) == <<Header(log, i)>> \o [j \in DOMAIN log[i].files |-> Named(log, i, j)]
             parts == [i \in DOMAIN log |-> part(i)]
  <1>1. LogLines(log) = FlattenSeq(parts)
    BY DEF LogLines, Header, Named
  <1>2. DOMAIN log = 1..Len(log) /\ Len(log) \in Nat
    BY DEF Log
  <1>3. ASSUME NEW i \in DOMAIN log
        PROVE  /\ part(i) \in Seq(Line) /\ Len(part(i)) = 1 + Len(log[i].files)
               /\ Len(log[i].files) \in Nat
               /\ part(i)[1] = Header(log, i)
               /\ \A j \in 1..Len(log[i].files) : part(i)[1 + j] = Named(log, i, j)
    <2> DEFINE files == log[i].files
               a == <<Header(log, i)>>
               b == [j \in DOMAIN files |-> Named(log, i, j)]
    <2>1. files \in Seq(Path) /\ log[i].author \in Author /\ log[i].time \in Nat
      BY CommitIs
    <2>2. Header(log, i) \in Line
      BY <2>1 DEF Header, Line
    <2>3. a \in Seq(Line) /\ Len(a) = 1 /\ a[1] = Header(log, i)
      BY <2>2
    <2>4. Len(files) \in Nat /\ DOMAIN files = 1..Len(files)
      <3> HIDE DEF files
      <3> QED
        BY <2>1
    <2>5. ASSUME NEW j \in 1..Len(files) PROVE Named(log, i, j) \in Line
      <3>1. files[j] \in Path
        <4> HIDE DEF files
        <4> QED
          BY <2>1
      <3> QED
        BY <3>1 DEF Named, Line
    <2> HIDE DEF files
    <2>6. b \in Seq(Line) /\ Len(b) = Len(files) /\ \A j \in 1..Len(files) : b[j] = Named(log, i, j)
      <3>1. b \in [1..Len(files) -> Line]
        BY <2>4, <2>5
      <3>2. b \in Seq(Line)
        BY <2>4, <3>1
      <3>3. DOMAIN b = 1..Len(files)
        BY <2>4
      <3>4. \A j \in 1..Len(files) : b[j] = Named(log, i, j)
        BY <2>4
      <3> HIDE DEF b
      <3>5. Len(b) = Len(files)
        BY <2>4, <3>2, <3>3, LenProperties
      <3> QED
        BY <3>2, <3>4, <3>5
    <2> HIDE DEF a, b
    <2>7. /\ a \o b \in Seq(Line) /\ Len(a \o b) = 1 + Len(files)
          /\ \A k \in 1..(1 + Len(files)) : (a \o b)[k] = IF k <= 1 THEN a[k] ELSE b[k - 1]
      <3>1. /\ a \o b \in Seq(Line) /\ Len(a \o b) = Len(a) + Len(b)
            /\ \A k \in 1..(Len(a) + Len(b)) :
                  (a \o b)[k] = IF k <= Len(a) THEN a[k] ELSE b[k - Len(a)]
        <4>1. a \in Seq(Line) /\ b \in Seq(Line)
          BY <2>3, <2>6
        <4> QED
          BY <4>1, ConcatProperties
      <3> QED
        BY <2>3, <2>6, <3>1
    <2>8. (a \o b)[1] = Header(log, i)
      BY <2>3, <2>4, <2>7
    <2>9. ASSUME NEW j \in 1..Len(files) PROVE (a \o b)[1 + j] = Named(log, i, j)
      <3>1. 1 + j \in 1..(1 + Len(files)) /\ ~(1 + j <= 1) /\ (1 + j) - 1 = j
        BY <2>4
      <3> QED
        BY <2>6, <2>7, <3>1
    <2>10. a \o b = part(i)
      BY DEF a, b, files
    <2> HIDE DEF part
    <2> QED
      BY <2>4, <2>7, <2>8, <2>9, <2>10 DEF files
  <1> HIDE DEF part
  <1>4. /\ parts \in Seq(Seq(Line)) /\ Len(parts) = Len(log)
        /\ \A i \in 1..Len(log) : parts[i] = part(i)
    <2>1. parts \in [1..Len(log) -> Seq(Line)] /\ DOMAIN parts = 1..Len(log)
      BY <1>2, <1>3
    <2>2. \A i \in 1..Len(log) : parts[i] = part(i)
      BY <1>2
    <2> HIDE DEF parts
    <2>3. parts \in Seq(Seq(Line))
      BY <1>2, <2>1
    <2> QED
      BY <1>2, <2>1, <2>2, <2>3, LenProperties
  <1> HIDE DEF parts
  <1>5. LogLines(log) \in Seq(Line)
    <2>1. PICK w \in [0..Len(parts) -> Seq(Line)] : FlattenSeq(parts) = w[Len(parts)]
      BY <1>4, Flattens
    <2> QED
      BY <1>1, <1>2, <1>4, <2>1
  <1>6. PICK off \in [0..Len(parts) -> Nat] :
              /\ off[0] = 0 /\ off[Len(parts)] = Len(FlattenSeq(parts))
              /\ \A i \in 1..Len(parts) : off[i] = off[i - 1] + Len(parts[i])
              /\ \A i \in 1..Len(parts) : \A j \in 1..Len(parts[i]) :
                    /\ off[i - 1] + j \in 1..Len(FlattenSeq(parts))
                    /\ FlattenSeq(parts)[off[i - 1] + j] = parts[i][j]
    BY <1>4, FlattenPlaces
  <1>7. ASSUME NEW i \in 1..Len(log)
        PROVE  /\ off[i] = off[i - 1] + 1 + Len(log[i].files)
               /\ off[i - 1] + 1 \in 1..Len(LogLines(log))
               /\ LogLines(log)[off[i - 1] + 1] = Header(log, i)
               /\ \A j \in 1..Len(log[i].files) :
                     /\ off[i - 1] + 1 + j \in 1..Len(LogLines(log))
                     /\ LogLines(log)[off[i - 1] + 1 + j] = Named(log, i, j)
    <2> DEFINE m == Len(log[i].files)
               o == off[i - 1]
    <2>0. i - 1 \in 0..Len(parts)
      BY <1>2, <1>4
    <2>1. /\ m \in Nat /\ o \in Nat /\ parts[i] = part(i) /\ Len(parts[i]) = 1 + m
          /\ part(i)[1] = Header(log, i)
          /\ \A j \in 1..m : part(i)[1 + j] = Named(log, i, j)
      BY <1>2, <1>3, <1>4, <1>6, <2>0
    <2>2. off[i] = o + (1 + m)
      BY <1>4, <1>6, <2>1
    <2>3. \A j \in 1..(1 + m) : /\ o + j \in 1..Len(LogLines(log))
                                /\ LogLines(log)[o + j] = part(i)[j]
      <3>1. i \in 1..Len(parts) /\ LogLines(log) = FlattenSeq(parts)
        BY <1>1, <1>4
      <3>2. \A j \in 1..Len(parts[i]) : /\ o + j \in 1..Len(FlattenSeq(parts))
                                        /\ FlattenSeq(parts)[o + j] = parts[i][j]
        BY <1>6, <3>1
      <3> HIDE DEF o
      <3> QED
        BY <2>1, <3>1, <3>2
    <2> HIDE DEF m, o
    <2>4. 1 \in 1..(1 + m) /\ off[i] = o + 1 + m
      BY <2>1, <2>2
    <2>5. ASSUME NEW j \in 1..m
          PROVE  o + 1 + j \in 1..Len(LogLines(log)) /\ LogLines(log)[o + 1 + j] = Named(log, i, j)
      <3>1. 1 + j \in 1..(1 + m) /\ o + (1 + j) = o + 1 + j
        BY <2>1
      <3> QED
        BY <2>1, <2>3, <3>1
    <2>6. o + 1 \in 1..Len(LogLines(log)) /\ LogLines(log)[o + 1] = Header(log, i)
      BY <2>1, <2>3, <2>4
    <2> QED
      BY <2>4, <2>5, <2>6 DEF m, o
  <1>8. Offsets(off, LogLines(log), log) /\ off \in [0..Len(log) -> Nat]
    BY <1>1, <1>4, <1>6, <1>7 DEF Offsets
  <1> QED
    BY <1>5, <1>8

\* What the metadata of a log say, unless reading it raised.
LEMMA LogRead ==
    ASSUME NEW log \in Log
    PROVE  /\ _load_submodule_metadata(log) \in Acc
           /\ Before(_load_submodule_metadata(log), Len(log) + 1, log)
  <1> DEFINE lines == LogLines(log)
             n == Len(log)
  <1>1. lines \in Seq(Line)
    BY LinesOf
  <1>2. PICK off \in [0..n -> Nat] : Offsets(off, lines, log)
    BY LinesOf
  <1> HIDE DEF lines
  <1>3. PICK w \in [0..Len(lines) -> Acc] :
              /\ w[0] = Unread
              /\ \A i \in 1..Len(lines) : w[i] = ReadLine(w[i - 1], lines[i])
              /\ FoldLeft(ReadLine, Unread, lines) = w[Len(lines)]
    BY <1>1, Reads
  <1>4. n \in Nat /\ DOMAIN log = 1..n /\ Len(lines) \in Nat
    BY <1>1 DEF Log
  <1> HIDE DEF n
  <1>5. ASSUME NEW i \in 1..n, off[i - 1] \in 0..Len(lines), Before(w[off[i - 1]], i, log)
        PROVE  off[i] \in 0..Len(lines) /\ Before(w[off[i]], i + 1, log)
    <2> DEFINE m == Len(log[i].files)
               o == off[i - 1] + 1
    <2>1. m \in Nat
      <3>1. log[i].files \in Seq(Path)
        BY <1>4, CommitIs
      <3> QED
        BY <3>1
    <2>2. off[i] = o + m /\ o \in 1..Len(lines) /\ o - 1 = off[i - 1] /\ lines[o] = Header(log, i)
          /\ \A j \in 1..m : o + j \in 1..Len(lines) /\ lines[o + j] = Named(log, i, j)
      <3>1. off[i - 1] \in Nat
        BY <1>4, <1>5
      <3>2. o - 1 = off[i - 1]
        BY <3>1
      <3> QED
        BY <1>2, <1>5, <3>2 DEF Offsets, n
    <2> HIDE DEF m, o
    <2>3. w[o - 1] \in Acc /\ w[o] = ReadLine(w[o - 1], Header(log, i))
      BY <1>3, <1>5, <2>2
    <2>4. Within(w[o], i, 0, log)
      <3>1. w[o] = ReadLine(w[o - 1], [header |-> TRUE, author |-> log[i].author,
                                       time |-> log[i].time])
        BY <2>3 DEF Header
      <3> QED
        BY <1>4, <1>5, <2>2, <2>3, <3>1, ReadHeader
    <2> DEFINE E == {j \in 0..m : o + j \in 0..Len(lines) /\ Within(w[o + j], i, j, log)}
    <2>5. 0 \in E
      <3>1. 0 \in 0..m /\ o + 0 = o /\ o + 0 \in 0..Len(lines)
        BY <1>4, <2>1, <2>2
      <3> QED
        BY <2>4, <3>1
    <2>6. \A k \in 0..m : k \in E /\ k < m => k + 1 \in E
      <3> SUFFICES ASSUME NEW k \in 0..m, k \in E, k < m PROVE k + 1 \in E
        OBVIOUS
      <3> DEFINE j == k + 1
                 p == o + j
      <3>1. j \in 1..m /\ j - 1 = k /\ j \in 0..m /\ p - 1 = o + k
        BY <1>4, <2>1, <2>2
      <3>2. Within(w[o + k], i, k, log) /\ o + k \in 0..Len(lines)
        OBVIOUS
      <3> HIDE DEF E, j
      <3>3. p \in 1..Len(lines) /\ lines[p] = Named(log, i, j)
        BY <2>2, <3>1
      <3> HIDE DEF p
      <3>4. w[p - 1] \in Acc /\ w[p] = ReadLine(w[p - 1], Named(log, i, j))
        BY <1>3, <3>1, <3>2, <3>3
      <3>5. w[p] = ReadLine(w[p - 1], [header |-> FALSE, path |-> log[i].files[j]])
        BY <3>4 DEF Named
      <3>6. Within(w[p - 1], i, j - 1, log)
        BY <3>1, <3>2
      <3>7. Within(w[p], i, j, log)
        <4>1. j \in 1..Len(log[i].files) /\ i \in DOMAIN log
          BY <1>4, <3>1 DEF m
        <4> QED
          BY <3>4, <3>5, <3>6, <4>1, ReadFile
      <3>8. j \in E
        BY <1>4, <3>1, <3>3, <3>7 DEF E, p
      <3> QED
        BY <3>8 DEF j
    <2>7. m \in E
      <3> HIDE DEF E
      <3>1. \A k \in 0..m : k \in E
        BY <2>1, <2>5, <2>6, UpTo
      <3> QED
        BY <2>1, <3>1
    <2>8. off[i] \in 0..Len(lines) /\ Within(w[off[i]], i, m, log)
      BY <2>2, <2>7
    <2> QED
      BY <1>4, <2>8, CommitRead DEF m
  <1> DEFINE D == {i \in 0..n : off[i] \in 0..Len(lines) /\ Before(w[off[i]], i + 1, log)}
  <1>6. 0 \in D
    <2>1. ASSUME NEW p \in Path PROVE Seen(log, 1, 0, p) = {} /\ p \notin DOMAIN Unread.meta
      <3>1. \A k \in DOMAIN log : ~(k < 1)
        BY <1>4
      <3>2. 1..0 = {}
        OBVIOUS
      <3>3. DOMAIN Unread.meta = {}
        BY DEF Unread
      <3> QED
        BY <3>1, <3>2, <3>3 DEF Seen
    <2>2. Before(Unread, 1, log)
      BY <2>1 DEF Before, Records
    <2>3. off[0] = 0 /\ 0 \in 0..n /\ 0 + 1 = 1 /\ 0 \in 0..Len(lines) /\ w[0] = Unread
      BY <1>2, <1>3, <1>4 DEF Offsets
    <2> QED
      BY <2>2, <2>3
  <1>7. \A k \in 0..n : k \in D /\ k < n => k + 1 \in D
    <2> SUFFICES ASSUME NEW k \in 0..n, k \in D, k < n PROVE k + 1 \in D
      OBVIOUS
    <2> DEFINE i == k + 1
    <2>1. i \in 1..n /\ i - 1 = k /\ i \in 0..n
      BY <1>4
    <2>2. off[k] \in 0..Len(lines) /\ Before(w[off[k]], i, log)
      OBVIOUS
    <2> HIDE DEF D, i
    <2>3. off[i] \in 0..Len(lines) /\ Before(w[off[i]], i + 1, log)
      BY <1>5, <2>1, <2>2
    <2>4. i \in D
      BY <2>1, <2>3 DEF D
    <2> QED
      BY <2>4 DEF i
  <1>8. n \in D
    <2> HIDE DEF D
    <2>1. \A k \in 0..n : k \in D
      BY <1>4, <1>6, <1>7, UpTo
    <2> QED
      BY <1>4, <2>1
  <1>9. Before(w[Len(lines)], n + 1, log) /\ w[Len(lines)] \in Acc
    <2>1. Before(w[Len(lines)], n + 1, log)
      BY <1>2, <1>8 DEF Offsets, n
    <2>2. Len(lines) \in 0..Len(lines)
      BY <1>4
    <2> HIDE DEF D
    <2> QED
      BY <1>3, <2>1, <2>2
  <1>10. _load_submodule_metadata(log) = w[Len(lines)]
    BY <1>3 DEF _load_submodule_metadata, Unread, lines
  <1> QED
    BY <1>9, <1>10 DEF n

LEMMA MinMaxAre ==
    ASSUME NEW s \in SUBSET Nat, NEW k \in s
    PROVE  /\ (\A m \in s : k <= m) => Min(s) = k
           /\ (\A m \in s : m <= k) => Max(s) = k
  <1>1. ASSUME \A m \in s : k <= m PROVE Min(s) = k
    <2>1. \A x \in s : (\A y \in s : x <= y) => x = k
      BY <1>1
    <2>2. Min(s) \in s /\ \A y \in s : Min(s) <= y
      BY <1>1, Zenon DEF Min
    <2> QED
      BY <2>1, <2>2
  <1>2. ASSUME \A m \in s : m <= k PROVE Max(s) = k
    <2>1. \A y \in s : k >= y
      BY <1>2
    <2>2. \A x \in s : (\A y \in s : x >= y) => x = k
      BY <1>2
    <2>3. Max(s) \in s /\ \A y \in s : Max(s) >= y
      BY <2>1, Zenon DEF Max
    <2> QED
      BY <2>2, <2>3
  <1> QED
    BY <1>1, <1>2

\* The metadata of a log that is read to its end.
LEMMA MetadataSay ==
    ASSUME NEW log \in Log, ~_load_submodule_metadata(log).raised, NEW path \in Path
    PROVE  LET meta == _load_submodule_metadata(log).meta
               named == Naming(log, path)
           IN  IF named = {} THEN path \notin DOMAIN meta
               ELSE /\ path \in DOMAIN meta
                    /\ meta[path].created = log[Min(named)].time
                    /\ meta[path].updated = log[Max(named)].time
                    /\ ToSet(meta[path].authors) = {log[k].author : k \in named}
  <1> DEFINE acc == _load_submodule_metadata(log)
             named == Naming(log, path)
  <1>1. Records(acc.meta, Len(log) + 1, 0, log)
    BY LogRead DEF Before
  <1> HIDE DEF acc
  <1>2. named \in SUBSET Nat /\ named \subseteq DOMAIN log
    BY DEF Naming, Log
  <1>3. Seen(log, Len(log) + 1, 0, path) = named
    <2>1. \A k \in DOMAIN log : k < Len(log) + 1 /\ k # Len(log) + 1
      BY DEF Log
    <2> QED
      BY <2>1 DEF Seen, Naming
  <1> HIDE DEF named
  <1>4. IF named = {} THEN path \notin DOMAIN acc.meta
        ELSE path \in DOMAIN acc.meta /\ Credits(acc.meta[path], named, log)
    BY <1>1, <1>3 DEF Records
  <1>5. CASE named = {}
    BY <1>4, <1>5 DEF acc, named
  <1>6. CASE named # {}
    <2> DEFINE entry == acc.meta[path]
    <2>1. path \in DOMAIN acc.meta /\ Credits(entry, named, log)
      BY <1>4, <1>6
    <2> HIDE DEF entry
    <2>2. entry.created = log[Min(named)].time
      <3>1. PICK k \in named : (\A m \in named : k <= m) /\ entry.created = log[k].time
        BY <2>1 DEF Credits
      <3> QED
        BY <1>2, <3>1, MinMaxAre
    <2>3. entry.updated = log[Max(named)].time
      <3>1. PICK k \in named : (\A m \in named : m <= k) /\ entry.updated = log[k].time
        BY <2>1 DEF Credits
      <3> QED
        BY <1>2, <3>1, MinMaxAre
    <2>4. ToSet(entry.authors) = {log[k].author : k \in named}
      BY <2>1 DEF Credits
    <2> QED
      BY <1>6, <2>1, <2>2, <2>3, <2>4 DEF acc, named, entry
  <1> QED
    BY <1>5, <1>6

\* Of two prefixes of a path, one is a prefix of the other.
LEMMA PrefixesCompare ==
    ASSUME NEW p \in Path, NEW q \in Path, NEW r \in Path, IsPrefix(p, r), IsPrefix(q, r)
    PROVE  IsPrefix(p, q) \/ IsPrefix(q, p)
  <1>1. ASSUME NEW a \in Path, NEW b \in Path, IsPrefix(a, r), IsPrefix(b, r), Len(a) <= Len(b)
        PROVE  IsPrefix(a, b)
    <2>1. Len(a) \in Nat /\ Len(b) \in Nat /\ Len(r) \in Nat /\ Len(b) <= Len(r)
      BY <1>1 DEF IsPrefix, Path
    <2>2. ASSUME NEW k \in 1..Len(a) PROVE a[k] = b[k]
      <3>1. k \in 1..Len(a) /\ k \in 1..Len(b) /\ k \in 1..Len(r)
        BY <1>1, <2>1
      <3>2. SubSeq(a, 1, Len(a)) = SubSeq(r, 1, Len(a)) /\ SubSeq(b, 1, Len(b)) = SubSeq(r, 1, Len(b))
        BY <1>1 DEF IsPrefix
      <3>3. SubSeq(a, 1, Len(a))[k] = a[k] /\ SubSeq(b, 1, Len(b))[k] = b[k]
        BY <3>1 DEF Path
      <3>4. SubSeq(r, 1, Len(a))[k] = r[k] /\ SubSeq(r, 1, Len(b))[k] = r[k]
        BY <1>1, <2>1, <3>1 DEF Path
      <3> QED
        BY <3>2, <3>3, <3>4
    <2>3. SubSeq(a, 1, Len(a)) = SubSeq(b, 1, Len(a))
      BY <1>1, <2>1, <2>2 DEF Path
    <2> QED
      BY <1>1, <2>3 DEF IsPrefix
  <1>2. Len(p) <= Len(q) \/ Len(q) <= Len(p)
    BY DEF Path
  <1> QED
    BY <1>1, <1>2

Disjoint(submodules) ==
    \A i, j \in DOMAIN submodules : IsPrefix(submodules[i].path, submodules[j].path) => i = j

LEMMA OneOwner ==
    ASSUME NEW f \in File, NEW submodules \in Seq(Submodule), Disjoint(submodules),
           NEW i \in Owners(f, submodules)
    PROVE  /\ i \in DOMAIN submodules /\ submodules[i] \in Submodule
           /\ Owners(f, submodules) = {i} /\ Owner(f, submodules) = submodules[i]
  <1>1. i \in DOMAIN submodules /\ f.page /\ IsPrefix(submodules[i].path, f.real)
    BY DEF Owners
  <1>2. \A k \in DOMAIN submodules : submodules[k] \in Submodule /\ k \in Nat
    OBVIOUS
  <1>3. \A k \in DOMAIN submodules : submodules[k].path \in Path
    BY <1>2 DEF Submodule
  <1>4. f.real \in Path
    BY DEF File
  <1>5. ASSUME NEW j \in Owners(f, submodules) PROVE j = i
    <2>1. j \in DOMAIN submodules /\ IsPrefix(submodules[j].path, f.real)
      BY DEF Owners
    <2>2. \/ IsPrefix(submodules[i].path, submodules[j].path)
          \/ IsPrefix(submodules[j].path, submodules[i].path)
      BY <1>1, <1>3, <1>4, <2>1, PrefixesCompare
    <2> QED
      BY <1>1, <2>1, <2>2 DEF Disjoint
  <1>6. Owners(f, submodules) = {i}
    BY <1>5
  <1>7. (CHOOSE k \in Owners(f, submodules) : \A j \in Owners(f, submodules) : k <= j) = i
    <2>1. i <= i
      BY <1>1, <1>2
    <2> QED
      BY <1>6, <2>1
  <1> QED
    BY <1>1, <1>2, <1>6, <1>7 DEF Owner

\* The dates of one file are those of the commits that name it in its submodule's log.
DatesAre(dates, f, cached, submodules) ==
    LET named(s) == Naming(s.log, SubSeq(f.real, Len(s.path) + 1, Len(f.real)))
        of == {s \in ToSet(submodules) : f.page /\ IsPrefix(s.path, f.real) /\ named(s) # {}}
    IN  IF of = {} THEN dates = cached
        ELSE \A s \in of :
                /\ dates.created = s.log[Min(named(s))].time
                /\ dates.updated = s.log[Max(named(s))].time
                /\ ToSet(dates.authors) = {s.log[k].author : k \in named(s)}

LEMMA DatesOfIs ==
    ASSUME NEW f \in File, NEW cached, NEW submodules \in Seq(Submodule), Disjoint(submodules),
           Owners(f, submodules) # {}
             => ~_load_submodule_metadata(Owner(f, submodules).log).raised
    PROVE  DatesAre(DatesOf(f, cached, submodules), f, cached, submodules)
  <1> DEFINE named(s) == Naming(s.log, SubSeq(f.real, Len(s.path) + 1, Len(f.real)))
             of == {s \in ToSet(submodules) :
                       f.page /\ IsPrefix(s.path, f.real) /\ named(s) # {}}
             dates == DatesOf(f, cached, submodules)
  <1>1. \A s \in of : \E k \in Owners(f, submodules) : s = submodules[k]
    BY DEF ToSet, Owners
  <1>2. CASE Owners(f, submodules) = {}
    <2>1. of = {}
      BY <1>1, <1>2
    <2>2. dates = cached
      BY <1>2 DEF DatesOf
    <2> QED
      BY <2>1, <2>2 DEF DatesAre, of, named, dates
  <1>3. CASE Owners(f, submodules) # {}
    <2>1. PICK i \in Owners(f, submodules) : TRUE
      BY <1>3
    <2> DEFINE owner == submodules[i]
               meta == _load_submodule_metadata(owner.log).meta
               path == RelToSub(f, owner)
    <2>2. owner \in Submodule /\ Owners(f, submodules) = {i} /\ Owner(f, submodules) = owner
      BY <2>1, OneOwner
    <2>3. owner.path \in Path /\ owner.log \in Log /\ f.real \in Path
      BY <2>2 DEF Submodule, File
    <2>4. path \in Path
      BY <2>3 DEF RelToSub, Path
    <2>5. named(owner) = Naming(owner.log, path)
      BY DEF RelToSub
    <2>6. IF named(owner) = {} THEN path \notin DOMAIN meta
          ELSE /\ path \in DOMAIN meta
               /\ meta[path].created = owner.log[Min(named(owner))].time
               /\ meta[path].updated = owner.log[Max(named(owner))].time
               /\ ToSet(meta[path].authors) = {owner.log[k].author : k \in named(owner)}
      <3>1. ~_load_submodule_metadata(owner.log).raised
        BY <1>3, <2>2
      <3> QED
        BY <2>3, <2>4, <2>5, <3>1, MetadataSay
    <2>7. dates = IF path \in DOMAIN meta THEN meta[path] ELSE cached
      BY <1>3, <2>2 DEF DatesOf
    <2>8. \A s \in of : s = owner
      BY <1>1, <2>2
    <2>9. named(owner) # {} => owner \in of
      <3>1. i \in DOMAIN submodules /\ f.page /\ IsPrefix(owner.path, f.real)
        BY <2>1 DEF Owners
      <3>2. owner \in ToSet(submodules)
        BY <3>1 DEF ToSet
      <3> HIDE DEF named, owner
      <3> QED
        BY <3>1, <3>2 DEF owner
    <2>10. named(owner) = {} => of = {}
      BY <2>8
    <2> HIDE DEF of, named, owner, meta, path, dates
    <2>11. CASE named(owner) = {}
      <3>1. of = {} /\ dates = cached
        BY <2>6, <2>7, <2>10, <2>11
      <3> QED
        BY <3>1 DEF DatesAre, of, named, dates
    <2>12. CASE named(owner) # {}
      <3>1. of # {} /\ dates = meta[path]
        BY <2>6, <2>7, <2>9, <2>12
      <3>2. \A s \in of :
                /\ dates.created = s.log[Min(named(s))].time
                /\ dates.updated = s.log[Max(named(s))].time
                /\ ToSet(dates.authors) = {s.log[k].author : k \in named(s)}
        BY <2>6, <2>8, <2>12, <3>1
      <3> QED
        BY <3>1, <3>2 DEF DatesAre, of, named, dates
    <2> QED
      BY <2>11, <2>12
  <1> QED
    BY <1>2, <1>3

-----------------------------------------------------------------------------
(* What a build hands on, in every site there has been *)

\* The site is the last build's: of a file that was complete, with a tree it did not fail on.
SiteInv ==
    /\ tree \in Trees \union {DevTree}
    /\ site # NoSite =>
          \E y \in Ymls : Readable(y) /\ ~Raises(y, tree) /\ site = SiteOf(y, tree)

BuiltInv == TypeOK /\ SiteInv

LEMMA InitBuilt == Init => BuiltInv
  <1>1. Init => TypeOK
    BY InitInstall DEF InstallInv
  <1>2. Init => SiteInv
    BY DEF Init, SiteInv
  <1> QED
    BY <1>1, <1>2 DEF BuiltInv

LEMMA NextBuilt == BuiltInv /\ [Next]_vars => BuiltInv'
  <1> SUFFICES ASSUME BuiltInv, [Next]_vars PROVE BuiltInv'
    OBVIOUS
  <1>1. TypeOK'
    BY NextTypes DEF BuiltInv
  <1>2. CASE Build
    <2>1. tree' = tree /\ yml \in Ymls
      BY <1>2 DEF Build, BuiltInv, TypeOK
    <2>2. \/ Readable(yml) /\ ~Raises(yml, tree) /\ site' = SiteOf(yml, tree)
          \/ site' = site
      BY <1>2 DEF Build
    <2> QED
      BY <1>1, <2>1, <2>2 DEF BuiltInv, SiteInv
  <1>3. CASE UNCHANGED <<site, tree>>
    BY <1>1, <1>3 DEF BuiltInv, SiteInv
  <1> QED
    BY <1>2, <1>3 DEF Next, SetupRuns, MakeDocServe, SetupEnds, Watch, Fire, WindowCloses, Stop,
       ServeEnds, ObserverJoined, InterruptSetup, Stopped, SaveBase, SaveCustom, DeleteCustom,
       EditResult, UseGit, EditRest, Edits, vars, serveVars

\* What the hooks are handed has the types they expect.
LEMMA SiteIs ==
    ASSUME BuiltInv, site # NoSite
    PROVE  \E y \in Ymls :
              /\ ~Raises(y, tree) /\ site = SiteOf(y, tree)
              /\ NavOf(y) \in Nav
              /\ \A p \in DOMAIN tree.configs : tree.configs[p] \in Config
              /\ tree.files \in Seq(File) /\ tree.submodules \in Seq(Submodule)
              /\ Disjoint(tree.submodules)
  <1>1. PICK y \in Ymls : Readable(y) /\ ~Raises(y, tree) /\ site = SiteOf(y, tree)
    BY DEF BuiltInv, SiteInv
  <1>2. y.custom \in Customs \ Broken
    BY <1>1 DEF Readable, Ymls
  <1>3. NavOf(y) \in Nav
    BY <1>2, NavAssumption DEF NavOf
  <1>4. tree \in Trees \union {DevTree}
    BY DEF BuiltInv, SiteInv
  <1> QED
    BY <1>1, <1>3, <1>4, TreeAssumption DEF Disjoint

\* Every page of a nav and of the navs it includes is in the site's nav, under its titles, as
\* the file that was meant: for any navs, any docs_dir and any paths through "..".
THEOREM NavTheorem == Spec => []NavDenotesThePages
  <1>1. ASSUME BuiltInv, site # NoSite
        PROVE  Expected(NavOf(site.from), tree.configs)
                  \subseteq {[at |-> leaf.at, file |-> Denotes(DocsDir, leaf.val),
                              anchor |-> leaf.val.anchor] : leaf \in ToSet(site.nav)}
    <2>1. PICK y \in Ymls :
              /\ site = SiteOf(y, tree)
              /\ NavOf(y) \in Nav
              /\ \A p \in DOMAIN tree.configs : tree.configs[p] \in Config
      BY <1>1, SiteIs
    <2>2. site.from = y /\ site.nav = _replace_includes(NavOf(y), tree.configs)
      BY <2>1 DEF SiteOf
    <2> QED
      BY <2>1, <2>2, NavPages
  <1>2. BuiltInv => NavDenotesThePages
    BY <1>1 DEF NavDenotesThePages
  <1> QED
    BY <1>2, InitBuilt, NextBuilt, PTL DEF Spec

\* The snippets' search paths are the project's own, the root, docs and what is behind the
\* directory symlinks, each once, for any files of a build.
THEOREM SnippetTheorem == Spec => []SnippetPathsOnce
  <1>1. SnippetBase \in Seq(Paths) /\ Once(SnippetBase)
    <2>1. SnippetBase \in Seq(Path)
      BY SnippetAssumption
    <2>2. Seq(Path) \subseteq Seq(Paths)
      BY PathIsPaths, SeqMonotonic
    <2> QED
      BY <2>1, <2>2, SnippetAssumption, OnceCounts
  <1>2. ASSUME BuiltInv, site # NoSite
        PROVE  /\ IsPrefix(SnippetBase, site.base_path)
               /\ ToSet(site.base_path) = ToSet(SnippetBase) \union {<<>>, DocsDir}
                       \union {f.real : f \in {g \in ToSet(tree.files) : g.link = "dir"}}
               /\ Cardinality(ToSet(site.base_path)) = Len(site.base_path)
    <2>1. PICK y \in Ymls : site = SiteOf(y, tree) /\ tree.files \in Seq(File)
      BY <1>2, SiteIs
    <2> DEFINE b == SnippetPaths(SnippetBase, tree.files)
    <2>2. site.base_path = b
      BY <2>1 DEF SiteOf
    <2>3. /\ b \in Seq(Paths) /\ Once(b) /\ Continues(SnippetBase, b)
          /\ ToSet(b) = ToSet(SnippetBase) \union {<<>>, DocsDir} \union LinkedTo(ToSet(tree.files))
      BY <1>1, <2>1, SnippetsOnce
    <2> HIDE DEF b
    <2>4. IsPrefix(SnippetBase, b)
      BY <1>1, <2>3 DEF Continues, IsPrefix
    <2>5. Cardinality(ToSet(b)) = Len(b)
      BY <2>3, OnceCounts
    <2> QED
      BY <2>2, <2>3, <2>4, <2>5 DEF LinkedTo
  <1>3. BuiltInv => SnippetPathsOnce
    BY <1>2 DEF SnippetPathsOnce
  <1> QED
    BY <1>3, InitBuilt, NextBuilt, PTL DEF Spec

\* A page of a submodule is dated by the first and the last commit that name it and credits
\* all who made one, for any logs; any other keeps what the plugin found.
THEOREM DatesTheorem == Spec => []DatesAreTheLogs
  <1>1. ASSUME BuiltInv, site # NoSite, NEW i \in DOMAIN tree.files
        PROVE  DatesAre(site.dates[i], tree.files[i], OwnDates, tree.submodules)
    <2>1. PICK y \in Ymls :
              /\ ~Raises(y, tree) /\ site = SiteOf(y, tree)
              /\ tree.files \in Seq(File) /\ tree.submodules \in Seq(Submodule)
              /\ Disjoint(tree.submodules)
      BY <1>1, SiteIs
    <2> DEFINE f == tree.files[i]
               g == FixedFile(f)
    <2>2. f \in File
      BY <1>1, <2>1
    <2>3. g.real = f.real /\ g.page = f.page
      <3> HIDE DEF f
      <3> QED
        BY <2>2 DEF FixedFile, File
    <2>4. /\ Owners(g, tree.submodules) = Owners(f, tree.submodules)
          /\ Owner(g, tree.submodules) = Owner(f, tree.submodules)
          /\ \A s : RelToSub(g, s) = RelToSub(f, s)
      <3> HIDE DEF f, g
      <3>1. Owners(g, tree.submodules) = Owners(f, tree.submodules)
        BY <2>3 DEF Owners
      <3> QED
        BY <2>3, <3>1 DEF Owner, RelToSub
    <2>5. site.dates[i] = DatesOf(f, OwnDates, tree.submodules)
      <3>1. site.dates[i] = DatesOf(g, OwnDates, tree.submodules)
        BY <1>1, <2>1 DEF SiteOf
      <3> HIDE DEF f, g
      <3> QED
        BY <2>4, <3>1 DEF DatesOf
    <2>6. Owners(f, tree.submodules) # {}
             => ~_load_submodule_metadata(Owner(f, tree.submodules).log).raised
      BY <1>1, <2>1 DEF Raises, MetadataRaises
    <2> HIDE DEF f
    <2>7. DatesAre(DatesOf(f, OwnDates, tree.submodules), f, OwnDates, tree.submodules)
      BY <2>1, <2>2, <2>6, DatesOfIs
    <2> QED
      BY <2>5, <2>7 DEF f
  <1>2. BuiltInv => DatesAreTheLogs
    BY <1>1 DEF DatesAreTheLogs, DatesAre
  <1> QED
    BY <1>2, InitBuilt, NextBuilt, PTL DEF Spec

=============================================================================
