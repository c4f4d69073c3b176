------------------------------ MODULE DocServe ------------------------------
(***************************************************************************)
(* make doc-serve and make doc-build: setup_documentation.py, then mkdocs  *)
(* with the hooks of DocHooks, and under doc-serve the watcher             *)
(* doc_serve_watch.py, which runs the setup again in the thread that       *)
(* delivers its file events.  mkdocs, the file events and the editors are  *)
(* external.                                                               *)
(***************************************************************************)
EXTENDS SetupDocs, DocHooks

CONSTANTS
    Navs,        \* per content of mkdocs_custom.yml: the nav it declares
    SnippetBase, \* pymdownx.snippets base_path of mkdocs_base.yml
    Trees,       \* the checkouts a build may find: configs, files, submodules
    DevTree,     \* the one of the person at doc-serve
    OwnDates,    \* what the dates plugin found in the parent repository
    MaxEdits,    \* bound: what people do to the project, the runs they stop half way
                 \* among it
    MaxQueue     \* bound: pending file events; more of them mean the same

\* A custom file that loads has a nav.
ASSUME NavAssumption == \A c \in Customs \ Broken : Navs[c] \in Nav

\* The project's own search paths are not listed twice.
ASSUME SnippetAssumption ==
    SnippetBase \in Seq(Path) /\ Cardinality(ToSet(SnippetBase)) = Len(SnippetBase)

\* git keeps no submodule of a project inside another one.
ASSUME TreeAssumption ==
    \A t \in Trees \union {DevTree} :
        /\ \A p \in DOMAIN t.configs : p \in Path /\ t.configs[p] \in Config
        /\ t.files \in Seq(File) /\ t.submodules \in Seq(Submodule)
        /\ \A i, j \in DOMAIN t.submodules :
              IsPrefix(t.submodules[i].path, t.submodules[j].path) => i = j

ASSUME BoundAssumption == MaxEdits \in Nat /\ MaxQueue \in Nat \ {0}

VARIABLES
    mode,     \* "dev" (doc-serve) or "ci" (doc-build on a fresh checkout)
    phase,    \* where the make target is
    queue,    \* file events of the sources, not yet delivered
    recent,   \* less than 0.3 s since the event that was last acted on
    changed,  \* mkdocs serve saw a change it has not built yet
    site,     \* the last build
    tree,     \* the checkout
    edits,    \* number of things people did to the project and runs they stopped
    missed    \* history: since the last read of the sources one was saved that
              \* nobody heard of, or whose event was dropped

serveVars == <<mode, phase, queue, recent, changed, site, tree, edits, missed>>
vars == <<setupVars, serveVars>>

(***************************************************************************)
(* File events                                                             *)
(***************************************************************************)

\* Mutant: mkdocs.yml is watched too.
SOURCESAndResult == {"mkdocs_custom.yml", "mkdocs_base.yml", "mkdocs.yml"}

SOURCES == {"mkdocs_custom.yml", "mkdocs_base.yml"}

\* Mutant: a move is known by its source path only.
HandledWithoutMoves == {"modified", "created"}

\* on_modified, on_created, on_moved (by the destination); deletions are not handled.
Handled == {"modified", "created", "moved"}

Upto(n) == IF n > MaxQueue THEN MaxQueue ELSE n

\* One change to the file is one event or two.
Delivers(file, kind) ==
    IF phase = "watching" /\ file \in SOURCES /\ kind \in Handled
    THEN queue' \in {Upto(queue + 1), Upto(queue + 2)}
    ELSE UNCHANGED queue

(***************************************************************************)
(* A run of setup_documentation.py, by make or by regen()                  *)
(***************************************************************************)

SetupRuns ==
    /\ SetupStep
    /\ CASE custom' # custom -> Delivers("mkdocs_custom.yml", "created")
         [] yml' # yml       -> Delivers("mkdocs.yml", "modified")
         [] OTHER            -> UNCHANGED queue
    /\ changed' = (changed \/ <<yml, installed>>' # <<yml, installed>>)
    /\ missed' = (missed /\ pc # "merge")
    /\ UNCHANGED <<mode, phase, recent, site, tree, edits>>

MakeDocServe ==
    /\ mode = "dev" /\ phase = "down"
    /\ Begins
    /\ phase' = "setup"
    /\ UNCHANGED <<mode, queue, recent, changed, site, tree, edits, missed>>

SetupEnds ==
    /\ phase = "setup" /\ pc = "idle"
    /\ phase' = IF exit # "ok" THEN "down" ELSE IF mode = "ci" THEN "build" ELSE "starting"
    /\ UNCHANGED <<setupVars, mode, queue, recent, changed, site, tree, edits, missed>>

\* main(): observer.start(), then mkdocs serve, which builds first.
Watch ==
    /\ phase = "starting"
    /\ phase' = "watching"
    /\ queue' = 0 /\ recent' = FALSE /\ changed' = TRUE
    /\ UNCHANGED <<setupVars, mode, site, tree, edits, missed>>

Remaining == queue - 1

\* _fire_if_source, in the dispatch thread: while a run is on, events wait.
Fire ==
    /\ phase = "watching" /\ pc = "idle" /\ queue > 0
    /\ queue' = Remaining
    /\ \/ /\ ~recent
          /\ recent' = TRUE
          /\ Begins
          /\ UNCHANGED missed
       \/ /\ recent
          /\ missed' = (missed \/ merged # Sources)
          /\ UNCHANGED <<setupVars, recent>>
    /\ UNCHANGED <<mode, phase, changed, site, tree, edits>>

WindowCloses ==
    /\ recent
    /\ recent' = FALSE
    /\ UNCHANGED <<setupVars, mode, phase, queue, changed, site, tree, edits, missed>>

Stopped ==
    /\ Interrupted
    /\ edits < MaxEdits /\ edits' = edits + 1

\* Ctrl-C reaches the run too; the way out through mkdocs' own end waits for it.
Stop ==
    /\ phase = "watching"
    /\ \/ Stopped
       \/ pc = "idle" /\ UNCHANGED <<setupVars, edits>>
    /\ phase' = "down" /\ queue' = 0 /\ recent' = FALSE /\ changed' = FALSE
    /\ UNCHANGED <<mode, site, tree, missed>>

ServeEnds ==
    /\ phase = "watching"
    /\ phase' = "joining"
    /\ queue' = 0 /\ changed' = FALSE
    /\ UNCHANGED <<setupVars, mode, recent, site, tree, edits, missed>>

ObserverJoined ==
    /\ phase = "joining" /\ pc = "idle"
    /\ phase' = "down" /\ recent' = FALSE /\ changed' = FALSE
    /\ UNCHANGED <<setupVars, mode, queue, site, tree, edits, missed>>

InterruptSetup ==
    /\ phase = "setup" /\ mode = "dev"
    /\ Stopped
    /\ phase' = "down"
    /\ UNCHANGED <<mode, queue, recent, changed, site, tree, missed>>

(***************************************************************************)
(* A build                                                                 *)
(***************************************************************************)

NavOf(y) == Navs[y.custom]

\* The order of the hooks: on_config, then on_files, the symlinks before the authors.
SiteOf(y, t) ==
    LET files == [i \in DOMAIN t.files |-> FixedFile(t.files[i])]
    IN  [from      |-> y,
         nav       |-> _replace_includes(NavOf(y), t.configs),
         base_path |-> SnippetPaths(SnippetBase, t.files),
         read      |-> [i \in DOMAIN files |-> files[i].abs],
         dates     |-> [i \in DOMAIN files |-> DatesOf(files[i], OwnDates, t.submodules)]]

Raises(y, t) ==
    \/ IncludeRaises(NavOf(y), t.configs)
    \/ MetadataRaises(t.files, t.submodules)

NoSite == [from |-> NoFile]

Readable(y) == y \notin {NoFile, Empty, HandEdited}

\* A hand-edited file is built as it is, without hooks worth following; a truncated
\* one is not built.
Build ==
    /\ \/ phase = "watching" /\ changed
       \/ phase = "build"
    /\ changed' = FALSE
    /\ phase' = IF mode = "ci" THEN "down" ELSE phase
    /\ UNCHANGED <<setupVars, mode, queue, recent, tree, edits, missed>>
    /\ \/ /\ Readable(yml) /\ ~Raises(yml, tree)
          /\ site' = SiteOf(yml, tree)
       \/ /\ Readable(yml) => Raises(yml, tree)
          /\ UNCHANGED site

(***************************************************************************)
(* The people at doc-serve                                                 *)
(***************************************************************************)

Edits ==
    /\ mode = "dev" /\ edits < MaxEdits
    /\ edits' = edits + 1
    /\ UNCHANGED <<mode, phase, recent, site, tree>>

Unheard == phase # "watching"

\* A save rewrites the file in place, or moves another over it.
SaveBase ==
    /\ Edits
    /\ \E b \in Bases : b # base /\ base' = b
    /\ \E kind \in {"modified", "moved"} : Delivers("mkdocs_base.yml", kind)
    /\ missed' = (missed \/ Unheard)
    /\ UNCHANGED <<custom, yml, git, installed, dirs, pc, local, exit, changed>>

SaveCustom ==
    /\ Edits
    /\ \E c \in Customs : c # custom /\ custom' = c
    /\ \E kind \in {"modified", "moved"} : Delivers("mkdocs_custom.yml", kind)
    /\ missed' = (missed \/ Unheard)
    /\ UNCHANGED <<base, yml, git, installed, dirs, pc, local, exit, changed>>

DeleteCustom ==
    /\ Edits
    /\ custom # NoFile /\ custom' = NoFile
    /\ Delivers("mkdocs_custom.yml", "deleted")
    /\ UNCHANGED <<base, yml, git, installed, dirs, pc, local, exit, changed, missed>>

EditResult ==
    /\ Edits
    /\ EditYml
    /\ Delivers("mkdocs.yml", "modified")
    /\ changed' = TRUE
    /\ UNCHANGED missed

UseGit ==
    /\ Edits
    /\ Stage \/ Commit
    /\ UNCHANGED <<queue, changed, missed>>

EditRest ==
    /\ Edits
    /\ EditProject
    /\ changed' = TRUE
    /\ UNCHANGED <<queue, missed>>

(***************************************************************************)
(* Specification                                                           *)
(***************************************************************************)

\* A project that has no documentation yet, and one set up before, whose files under
\* docs are its own.
NewProject ==
    /\ custom = NoFile
    /\ yml = NoFile /\ index = NoFile /\ commit = NoFile
    /\ docs = FALSE /\ pages = [p \in Pages |-> "none"]
    /\ assets = "none" /\ seeds = [f \in Seeds |-> "none"]
    /\ gitignore \in LastLines

KnownProject ==
    /\ custom \in {c \in Customs : Loads(c)}
    /\ yml = Sources /\ index = yml /\ commit = yml
    /\ docs = TRUE /\ pages = [p \in Pages |-> "project"]
    /\ assets = "project" /\ seeds = [f \in Seeds |-> "project"]
    /\ gitignore = "entry"

Init ==
    /\ base \in Bases
    /\ \/ /\ mode = "dev" /\ tree = DevTree
          /\ NewProject \/ KnownProject
          /\ phase = "down" /\ pc = "idle"
       \/ /\ mode = "ci" /\ tree \in Trees
          /\ KnownProject
          /\ phase = "setup" /\ pc = "custom"
    /\ dirs = Dirs /\ links = [d \in Dirs |-> "none"]
    /\ merged = NoFile /\ todo = {} /\ exit = "none" /\ torn = FALSE
    /\ queue = 0 /\ recent = FALSE /\ changed = FALSE
    /\ site = NoSite /\ edits = 0 /\ missed = FALSE

Next ==
    \/ SetupRuns
    \/ MakeDocServe \/ SetupEnds \/ Watch
    \/ Fire \/ WindowCloses \/ Stop \/ ServeEnds \/ ObserverJoined \/ InterruptSetup
    \/ Build
    \/ SaveBase \/ SaveCustom \/ DeleteCustom \/ EditResult \/ UseGit \/ EditRest

\* The setup script and the observer's thread go on; mkdocs, time and people need not.
Fairness == WF_vars(SetupRuns) /\ WF_vars(Fire)

Spec == Init /\ [][Next]_vars /\ Fairness

(***************************************************************************)
(* Properties                                                              *)
(***************************************************************************)

\* Types, and what a run in progress implies: past the read it holds the sources it
\* read, and outside a run of make or of the watcher nothing runs.
TypeOK ==
    /\ base \in Bases /\ custom \in Customs \union {NoFile}
    /\ yml \in Ymls /\ index \in Ymls \ {Empty} /\ commit \in Ymls \ {Empty}
    /\ docs \in BOOLEAN /\ pages \in [Pages -> Copies]
    /\ assets \in Copies /\ seeds \in [Seeds -> Copies]
    /\ gitignore \in Gitignores
    /\ dirs \subseteq Dirs /\ todo \subseteq Dirs
    /\ links \in [Dirs -> {"none", "link", "real"}]
    /\ pc \in {"idle", "custom", "merge", "check", "truncate", "write", "docs", "copy",
               "assets", "seeds", "gitignore", "listing", "links"}
    /\ merged \in {NoFile} \union [base : Bases, custom : Customs \ Broken]
    /\ pc \in {"check", "truncate", "write"} => merged # NoFile
    /\ exit \in {"none", "ok", "failed"} /\ torn \in BOOLEAN
    /\ mode \in {"dev", "ci"}
    /\ phase \in {"down", "setup", "starting", "watching", "joining", "build"}
    /\ phase \in {"down", "starting", "build"} => pc = "idle"
    /\ mode = "ci" => phase \in {"down", "setup", "build"}
    /\ queue \in 0..MaxQueue /\ edits \in 0..MaxEdits
    /\ recent \in BOOLEAN /\ changed \in BOOLEAN /\ missed \in BOOLEAN

Resting == pc = "idle" /\ queue = 0

Settled == phase = "watching" /\ Resting /\ ~changed

\* Once everything under doc-serve is quiet, mkdocs.yml is the merge of the sources as
\* they are and the page shows it, unless the last run failed, the custom file is
\* gone, mkdocs.yml was edited by hand, or a save fell into one of the two gaps of
\* the watcher: before it started, or between a run's read and the end of the 0.3 s
\* (doc_serve_watch.py:13-16, 81-89).
SettledIsCurrent ==
    Settled /\ exit = "ok" /\ custom # NoFile /\ yml # HandEdited /\ ~missed =>
        /\ yml = Sources
        /\ Raises(yml, tree) \/ site.from = yml

Finished == pc = "links" /\ todo = {}

\* A run that gets to its end has installed everything, whatever runs before it were
\* stopped half way: docs/, the managed assets of the template, every starter file, a
\* link for every directory that is not left out, and the .gitignore entry, at
\* worst behind the blanks the last line consisted of; and, unless one of them was
\* stopped in the middle of copying docs_template or a starter file, the pages of the
\* template too, all of them whole (setup_documentation.py:99-275).  After such a stop
\* docs/ exists, so no run fills it up, whatever ensure_docs_dir's docstring ensures.
CompletedRunInstalls ==
    Finished =>
        /\ docs /\ assets = "template"
        /\ \A f \in Seeds : seeds[f] # "none"
        /\ ~torn => /\ \A p \in Pages : pages[p] \in Whole
                    /\ \A f \in Seeds : seeds[f] \in Whole
        /\ \A d \in dirs \ Skipped : links[d] # "none"
        /\ gitignore \in {"entry", "indented"}

\* No step of a run touches what is the project's own: its custom file, its pages and
\* starter files, its directories under docs, its index
\* (setup_documentation.py:94-96, 104-106, 162-179, 264-272).
ProjectFilesKept ==
    [][SetupRuns =>
        /\ custom # NoFile => custom' = custom
        /\ \A p \in Pages : pages[p] = "project" => pages'[p] = "project"
        /\ \A f \in Seeds : seeds[f] = "project" => seeds'[f] = "project"
        /\ \A d \in Dirs : links[d] = "real" => links'[d] = "real"
        /\ <<base, git>>' = <<base, git>>]_vars

\* The watcher comes to rest: its own runs do not keep waking it, and no event stays
\* undelivered (doc_serve_watch.py:61-64, 81-89).
WatcherSettles == phase = "watching" ~> Resting \/ phase # "watching"

Denotes(docs_dir, val) == Resolved(docs_dir, val.path)

\* The leaves a nav stands for: where each of them is, what it is titled.
Expected(nav, configs) ==
    UNION {IF Includes(nav[i].val, configs)
           THEN {[at   |-> nav[i].at \o leaf.at,
                  file |-> Denotes(IncludeDocs(nav[i].val, configs), leaf.val),
                  anchor |-> leaf.val.anchor] :
                    leaf \in {l \in ToSet(configs[IncludePath(nav[i].val)].nav) :
                                 l.val.kind = "page"}}
           ELSE IF nav[i].val.kind = "page"
           THEN {[at |-> nav[i].at, file |-> Denotes(DocsDir, nav[i].val),
                  anchor |-> nav[i].val.anchor]}
           ELSE {} : i \in DOMAIN nav}

\* Every page of an included project is in the site's nav, under the title that
\* included it, and its entry, read from this project's docs, is the file the
\* included project meant, by an absolute path when that is not under docs
\* (inline_nav_include.py:30-130).
NavDenotesThePages ==
    site # NoSite =>
        Expected(NavOf(site.from), tree.configs)
            \subseteq {[at |-> leaf.at, file |-> Denotes(DocsDir, leaf.val),
                        anchor |-> leaf.val.anchor] : leaf \in ToSet(site.nav)}

\* The commits that name a file.
Naming(log, path) == {k \in DOMAIN log : path \in ToSet(log[k].files)}

\* A page of a submodule is dated by the first and the last commit of its log that
\* name it and credits everyone who made one of them; any other page keeps what the
\* plugin found (submodule_authors.py:82-198).
DatesAreTheLogs ==
    site # NoSite =>
        \A i \in DOMAIN tree.files :
            LET f == tree.files[i]
                named(s) == Naming(s.log, SubSeq(f.real, Len(s.path) + 1, Len(f.real)))
                of == {s \in ToSet(tree.submodules) :
                          f.page /\ IsPrefix(s.path, f.real) /\ named(s) # {}}
            IN  IF of = {} THEN site.dates[i] = OwnDates
                ELSE \A s \in of :
                        /\ site.dates[i].created = s.log[Min(named(s))].time
                        /\ site.dates[i].updated = s.log[Max(named(s))].time
                        /\ ToSet(site.dates[i].authors) = {s.log[k].author : k \in named(s)}

\* Snippets are searched where the project says, then in the project root, in docs and
\* behind every directory symlink, each once (fix_symlinks.py:18-21, 54-66).
SnippetPathsOnce ==
    site # NoSite =>
        /\ IsPrefix(SnippetBase, site.base_path)
        /\ ToSet(site.base_path) = ToSet(SnippetBase) \union {<<>>, DocsDir}
                \union {f.real : f \in {g \in ToSet(tree.files) : g.link = "dir"}}
        /\ Cardinality(ToSet(site.base_path)) = Len(site.base_path)

=============================================================================
