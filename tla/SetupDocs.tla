----------------------------- MODULE SetupDocs -----------------------------
(***************************************************************************)
(* setup_documentation.py: one run as the steps of its main(), each of     *)
(* which may be its last; copies and links are made one by one.  A file is *)
(* abstracted to where its content comes from.  docs_dir is docs, as in    *)
(* this repository's mkdocs_custom.yml.                                    *)
(***************************************************************************)
EXTENDS Naturals, FiniteSets

CONSTANTS
    Bases,      \* contents of mkdocs_base.yml
    Customs,    \* contents of mkdocs_custom.yml
    Template,   \* the one shipped as a template
    Broken,     \* those that are not YAML
    Seeds,      \* SEED_FILES: docs/authors.yml and .mailmap
    InDocs,     \* those of them that are also in docs_template
    Pages,      \* what docs_template holds beside those and the managed assets:
                \* index.md, override/main.html and what no later step copies
    Dirs,       \* directories of the project root
    Skipped,    \* those create_symlinks leaves out: ignored by git or by
                \* .symlinkignore, hidden, node_modules, submodules, docs
    NoFile, Empty, HandEdited  \* a missing, a truncated, a hand-edited file

ASSUME ContentAssumption == Template \in Customs /\ Broken \subseteq Customs
ASSUME SeedAssumption == InDocs \subseteq Seeds
ASSUME SentinelAssumption ==
    /\ NoFile \notin Customs
    /\ Empty \notin {NoFile, HandEdited}
    /\ \A b \in Bases, c \in Customs :
          [base |-> b, custom |-> c] \notin {NoFile, Empty, HandEdited}

VARIABLES
    base, custom,  \* mkdocs_base.yml, mkdocs_custom.yml
    yml,           \* mkdocs.yml in the working tree
    index, commit, \* and as staged, and as committed
    docs,          \* docs/ exists
    pages,         \* per page under docs/: whose it is
    assets,        \* the managed assets under docs/: whose copy they are
    seeds,         \* per starter file: whose it is
    gitignore,     \* the .gitignore: with the entry, or how its last line ends
    dirs,          \* the directories of the project root
    links,         \* per directory: what docs/<dir> is
    pc,            \* the step the run is at
    merged,        \* the sources it read
    todo,          \* the directories it has yet to link
    exit,          \* how the last run ended
    torn           \* history: Ctrl-C fell into the copy of docs_template, or cut
                   \* the copy of a starter file short

sources == <<base, custom>>
git == <<index, commit>>
installed == <<docs, pages, assets, seeds, gitignore, links>>
local == <<merged, todo, torn>>
setupVars == <<base, custom, yml, index, commit, docs, pages, assets, seeds, gitignore, dirs,
               links, pc, merged, todo, exit, torn>>

Merge(b, c) == [base |-> b, custom |-> c]
Sources == Merge(base, custom)
\* A file that does not load is never merged.
Ymls == {NoFile, Empty, HandEdited} \union [base : Bases, custom : Customs \ Broken]
\* "cut": the beginning of a template.
Copies == {"none", "cut", "template", "project"}
Whole == {"template", "project"}
\* "closed": or there is no file, or an empty one.
LastLines == {"closed", "open", "blank"}
Gitignores == LastLines \union {"entry", "indented"}

Advances(from, to) ==
    /\ pc = from
    /\ pc' = to
    /\ UNCHANGED exit

Ends(from, how) ==
    /\ pc = from
    /\ pc' = "idle"
    /\ exit' = how

Begins ==
    /\ pc = "idle"
    /\ pc' = "custom"
    /\ UNCHANGED <<sources, yml, git, installed, dirs, local, exit>>

(***************************************************************************)
(* main()                                                                  *)
(***************************************************************************)

ensure_mkdocs_custom ==
    /\ Advances("custom", "merge")
    /\ custom' = IF custom = NoFile THEN Template ELSE custom
    /\ UNCHANGED <<base, yml, git, installed, dirs, local>>

\* Mutant: what does not load is merged as it is.
LoadsAnything(content) == TRUE

Loads(content) == content \notin Broken \union {NoFile}

\* merge_mkdocs_yml reads both sources, and raises on one that does not load...
ReadSources ==
    /\ \/ /\ Loads(custom)
          /\ Advances("merge", "check")
          /\ merged' = Sources
       \/ /\ ~Loads(custom)
          /\ Ends("merge", "failed")
          /\ UNCHANGED merged
    /\ UNCHANGED <<sources, yml, git, installed, dirs, todo, torn>>

\* git diff-index --cached: the index against the last commit, whatever is in the
\* working tree.
is_file_dirty == yml # NoFile /\ index # commit

CheckDirty ==
    /\ \/ ~is_file_dirty /\ Advances("check", "truncate")
       \/ is_file_dirty /\ Ends("check", "failed")
    /\ UNCHANGED <<sources, yml, git, installed, dirs, local>>

\* ...and writes the file in place.
Truncate ==
    /\ Advances("truncate", "write")
    /\ yml' = Empty
    /\ UNCHANGED <<sources, git, installed, dirs, local>>

Write ==
    /\ Advances("write", "docs")
    /\ yml' = merged
    /\ UNCHANGED <<sources, git, installed, dirs, local>>

\* Nothing is copied into a docs that exists; copytree makes the directory first...
ensure_docs_dir ==
    /\ Advances("docs", IF docs THEN "assets" ELSE "copy")
    /\ docs' = TRUE
    /\ UNCHANGED <<sources, yml, git, pages, assets, seeds, gitignore, dirs, links, local>>

Filled(copies, file) == copies[file] = "none" /\ copies' = [copies EXCEPT ![file] = "template"]

\* ...and copies file after file: the pages, the managed assets, docs/authors.yml.
copytree ==
    /\ \/ /\ Advances("copy", "copy")
          /\ \/ (\E p \in Pages : Filled(pages, p)) /\ UNCHANGED <<assets, seeds>>
             \/ assets = "none" /\ assets' = "template" /\ UNCHANGED <<pages, seeds>>
             \/ (\E f \in InDocs : Filled(seeds, f)) /\ UNCHANGED <<pages, assets>>
       \/ /\ Advances("copy", "assets")
          /\ assets # "none"
          /\ \A p \in Pages : pages[p] # "none"
          /\ \A f \in InDocs : seeds[f] # "none"
          /\ UNCHANGED <<pages, assets, seeds>>
    /\ UNCHANGED <<sources, yml, git, docs, gitignore, dirs, links, local>>

\* Mutant: an existing copy is kept.
SyncMissing(copy) == IF copy = "none" THEN "template" ELSE copy

Synced(copy) == "template"

sync_managed_docs_assets ==
    /\ Advances("assets", "seeds")
    /\ assets' = Synced(assets)
    /\ UNCHANGED <<sources, yml, git, docs, pages, seeds, gitignore, dirs, links, local>>

\* Mutant: starter files are synced like the managed assets.
UnseededAlways(copy) == copy # "template"

Unseeded(copy) == copy = "none"

\* Only what is missing; a starter file that exists is never looked into.
seed_files ==
    /\ \/ /\ Advances("seeds", "seeds")
          /\ \E f \in Seeds : Unseeded(seeds[f]) /\ seeds' = [seeds EXCEPT ![f] = "template"]
       \/ /\ Advances("seeds", "gitignore")
          /\ \A f \in Seeds : ~Unseeded(seeds[f])
          /\ UNCHANGED seeds
    /\ UNCHANGED <<sources, yml, git, docs, pages, assets, gitignore, dirs, links, local>>

\* Mutant: appended without the newline an open last line needs.
AppendedBare(lines) ==
    CASE lines = "open" -> "closed" [] lines = "blank" -> "indented" [] OTHER -> "entry"

\* An open last line of blanks gets no newline either: the entry comes after the
\* blanks, where neither git nor the next run reads it as such.
Appended(lines) == IF lines = "blank" THEN "indented" ELSE "entry"

ensure_gitignore_entries ==
    /\ Advances("gitignore", "listing")
    /\ gitignore' = IF gitignore = "entry" THEN "entry" ELSE Appended(gitignore)
    /\ UNCHANGED <<sources, yml, git, docs, pages, assets, seeds, dirs, links, local>>

ListDirectories ==
    /\ Advances("listing", "links")
    /\ todo' = dirs \ Skipped
    /\ UNCHANGED <<sources, yml, git, installed, dirs, merged, torn>>

\* Mutant: whatever is there is replaced.
LinkedOver(entry) == "link"

\* A symlink is replaced, anything else kept.
Linked(entry) == IF entry = "real" THEN "real" ELSE "link"

CreateSymlink ==
    /\ Advances("links", "links")
    /\ \E d \in todo : links' = [links EXCEPT ![d] = Linked(@)] /\ todo' = todo \ {d}
    /\ UNCHANGED <<sources, yml, git, docs, pages, assets, seeds, gitignore, dirs, merged,
                   torn>>

Finishes ==
    /\ todo = {}
    /\ Ends("links", "ok")
    /\ UNCHANGED <<sources, yml, git, installed, dirs, local>>

SetupStep ==
    \/ ensure_mkdocs_custom \/ ReadSources \/ CheckDirty \/ Truncate \/ Write
    \/ ensure_docs_dir \/ copytree \/ sync_managed_docs_assets \/ seed_files
    \/ ensure_gitignore_entries \/ ListDirectories \/ CreateSymlink \/ Finishes

Shortened(copies, file) == copies[file] = "none" /\ copies' = [copies EXCEPT ![file] = "cut"]

\* A copy that is cut short leaves the beginning of the file behind.
CopyCutShort ==
    \/ /\ pc = "copy" /\ (\E p \in Pages : Shortened(pages, p))
       /\ UNCHANGED <<assets, seeds>>
    \/ /\ \/ pc = "assets"
          \/ pc = "copy" /\ assets = "none"
       /\ assets' = "cut"
       /\ UNCHANGED <<pages, seeds>>
    \/ /\ \/ pc = "copy" /\ (\E f \in InDocs : Shortened(seeds, f))
          \/ pc = "seeds" /\ (\E f \in Seeds : Shortened(seeds, f))
       /\ UNCHANGED <<pages, assets>>

\* Ctrl-C, which reaches the run in every step; a link may be removed already.
Interrupted ==
    /\ pc # "idle"
    /\ Ends(pc, "failed")
    /\ \/ UNCHANGED <<pages, assets, seeds>>
       \/ CopyCutShort
    /\ torn' = (torn \/ pc = "copy" \/ seeds' # seeds)
    /\ \/ UNCHANGED links
       \/ /\ pc = "links"
          /\ \E d \in todo : links[d] = "link" /\ links' = [links EXCEPT ![d] = "none"]
    /\ UNCHANGED <<sources, yml, git, docs, gitignore, dirs, merged, todo>>

(***************************************************************************)
(* The people who work on the project                                      *)
(***************************************************************************)

EditYml ==
    /\ yml' = HandEdited
    /\ UNCHANGED <<sources, git, installed, dirs, pc, local, exit>>

Stage ==
    /\ yml \notin {NoFile, Empty, index}
    /\ index' = yml
    /\ UNCHANGED <<sources, yml, commit, installed, dirs, pc, local, exit>>

Commit ==
    /\ index # commit
    /\ commit' = index
    /\ UNCHANGED <<sources, yml, index, installed, dirs, pc, local, exit>>

\* What only the steps after the merge look at changes between two runs.
EditProject ==
    /\ pc = "idle"
    /\ \/ /\ docs /\ assets' = "project"
          /\ UNCHANGED <<pages, seeds, gitignore, dirs, links>>
       \/ /\ \E p \in Pages : docs /\ pages' = [pages EXCEPT ![p] = "project"]
          /\ UNCHANGED <<assets, seeds, gitignore, dirs, links>>
       \/ /\ \E f \in Seeds : /\ docs \/ f \notin InDocs
                              /\ seeds' = [seeds EXCEPT ![f] = "project"]
          /\ UNCHANGED <<pages, assets, gitignore, dirs, links>>
       \/ /\ gitignore' \in LastLines
          /\ UNCHANGED <<pages, assets, seeds, dirs, links>>
       \/ /\ \E d \in Dirs : dirs' \in {dirs \union {d}, dirs \ {d}}
          /\ UNCHANGED <<pages, assets, seeds, gitignore, links>>
       \/ /\ \E d \in Dirs : docs /\ links' = [links EXCEPT ![d] = "real"]
          /\ UNCHANGED <<pages, assets, seeds, gitignore, dirs>>
    /\ UNCHANGED <<sources, yml, git, docs, pc, local, exit>>

=============================================================================
