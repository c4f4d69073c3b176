------------------------------ MODULE Release ------------------------------
(***************************************************************************)
(* release.py: numbering a release from the tags one clone has, the guard  *)
(* that compares the number with the commits around HEAD, and the betas it *)
(* does not guard, run in several clones of one repository.  A stable      *)
(* release is three steps, because the fetch inside the guard comes after  *)
(* the number is computed and other clones may push at any moment.  git,   *)
(* the remote and the people who push are external.                        *)
(***************************************************************************)
EXTENDS Integers, FiniteSets

CONSTANTS
    Commits,        \* the commits of the repository
    Ancestry,       \* per commit: the commits reachable from it, itself included
    OnPatchBranch,  \* the commits checked out by main, hotfix/* or patch/*
    Clones,
    Levels,         \* the levels people release at
    MaxTags,        \* bound: tags that exist anywhere or are being created
    NoTag           \* what an idle clone creates

ASSUME AncestryAssumption ==
    /\ Ancestry \in [Commits -> SUBSET Commits]
    /\ \A c \in Commits : c \in Ancestry[c]
    /\ \A c, d \in Commits : c \in Ancestry[d] /\ d \in Ancestry[c] => c = d
    /\ \A c, d, e \in Commits : c \in Ancestry[d] /\ d \in Ancestry[e] => c \in Ancestry[e]
ASSUME OnPatchBranchAssumption == OnPatchBranch \subseteq Commits
ASSUME LevelsAssumption == Levels \subseteq {"patch", "minor", "major"}
ASSUME MaxTagsAssumption == MaxTags \in Nat

VARIABLES
    tags,    \* per clone: its tags, each a version and a commit
    remote,  \* the tags of the shared repository
    pc,      \* per clone: the step release.py is at
    new,     \* per clone: the tag it is about to create, at its HEAD
    seen,    \* history: the remote's tags its last guard fetched
    blind    \* history: a stable tag was created while one existed that neither
             \* the clone nor the fetch of its guard knew of

vars == <<tags, remote, pc, new, seen, blind>>

(***************************************************************************)
(* Versions.  beta = 0 is a stable version, beta = n its n-th prerelease.  *)
(***************************************************************************)

Version == [major : Nat, minor : Nat, patch : Nat, beta : Nat]
Tag == [version : Version, commit : Commits]
TagAt(v, c) == [version |-> v, commit |-> c]

V(major, minor, patch) == [major |-> major, minor |-> minor, patch |-> patch, beta |-> 0]

SEEDS == [patch |-> V(0, 0, 1), minor |-> V(0, 1, 0), major |-> V(1, 0, 0)]

SameBase(v, w) == v.major = w.major /\ v.minor = w.minor /\ v.patch = w.patch

BaseBelow(v, w) ==
    \/ v.major < w.major
    \/ v.major = w.major /\ v.minor < w.minor
    \/ v.major = w.major /\ v.minor = w.minor /\ v.patch < w.patch

\* SemVer precedence: a prerelease comes before its release.
Below(v, w) ==
    \/ BaseBelow(v, w)
    \/ SameBase(v, w) /\ v.beta # 0 /\ (w.beta = 0 \/ v.beta < w.beta)

Highest(versions) == CHOOSE v \in versions : \A w \in versions : ~Below(v, w)

VersionsOf(ts) == {t.version : t \in ts}
StableOf(ts) == {t \in ts : t.version.beta = 0}

stable_versions(ts) == VersionsOf(StableOf(ts))

Bump(v, level) ==
    CASE level = "patch" -> V(v.major, v.minor, v.patch + 1)
      [] level = "minor" -> V(v.major, v.minor + 1, 0)
      [] level = "major" -> V(v.major + 1, 0, 0)

\* Mutant: the seed of the level although there are releases.
SeededStable(level, ts) == SEEDS[level]

next_stable(level, ts) ==
    IF stable_versions(ts) = {} THEN SEEDS[level]
                                ELSE Bump(Highest(stable_versions(ts)), level)

(***************************************************************************)
(* git                                                                     *)
(***************************************************************************)

\* Mutant: nothing fetched.
NotFetched(ts, fetched) == ts

\* `git fetch --tags --force`: the remote's tags replace those of the same name.
Fetched(ts, fetched) ==
    {t \in ts : t.version \notin VersionsOf(fetched)} \union fetched

\* `git tag` refuses a name that is taken.
WithTag(ts, n) == IF n.version \in VersionsOf(ts) THEN ts ELSE ts \union {n}

Everywhere == remote \union UNION {tags[cl] : cl \in Clones}

Init ==
    /\ tags = [cl \in Clones |-> {}]
    /\ remote = {}
    /\ pc = [cl \in Clones |-> "idle"]
    /\ new = [cl \in Clones |-> NoTag]
    /\ seen = [cl \in Clones |-> {}]
    /\ blind = FALSE

(***************************************************************************)
(* patch, minor, major                                                     *)
(***************************************************************************)

\* Mutant: the number of a refused release is kept.
ExitsKeeping(cl) ==
    /\ pc' = [pc EXCEPT ![cl] = "idle"]
    /\ UNCHANGED new

Exits(cl) ==
    /\ pc' = [pc EXCEPT ![cl] = "idle"]
    /\ new' = [new EXCEPT ![cl] = NoTag]

StableBegins(cl, level, HEAD) ==
    /\ pc[cl] = "idle"
    /\ level = "patch" => HEAD \in OnPatchBranch
    /\ new' = [new EXCEPT ![cl] = TagAt(next_stable(level, tags[cl]), HEAD)]
    /\ pc' = [pc EXCEPT ![cl] = "guard"]
    /\ UNCHANGED <<tags, remote, seen, blind>>

\* Mutants: one half of the comparison only.
FitsDescendants(n, ts) ==
    \A t \in StableOf(ts) : n.commit \in Ancestry[t.commit] => Below(n.version, t.version)
FitsAncestors(n, ts) ==
    \A t \in StableOf(ts) : t.commit \in Ancestry[n.commit] => Below(t.version, n.version)

\* HEAD is its own ancestor and its own descendant.
Fits(n, ts) ==
    \A t \in StableOf(ts) :
        /\ t.commit \in Ancestry[n.commit] => Below(t.version, n.version)
        /\ n.commit \in Ancestry[t.commit] => Below(n.version, t.version)

\* The fetch is best-effort, and skipped with RELEASE_MGMT_NO_FETCH=1.
assert_integrity(cl) ==
    /\ pc[cl] = "guard"
    /\ \E fetched \in {remote, {}} :
        /\ tags' = [tags EXCEPT ![cl] = Fetched(tags[cl], fetched)]
        /\ \/ /\ Fits(new[cl], tags'[cl])
              /\ pc' = [pc EXCEPT ![cl] = "create"]
              /\ seen' = [seen EXCEPT ![cl] = fetched]
              /\ UNCHANGED new
           \/ /\ ~Fits(new[cl], tags'[cl])
              /\ Exits(cl)
              /\ UNCHANGED seen
    /\ UNCHANGED <<remote, blind>>

Create(cl) ==
    /\ pc[cl] = "create"
    /\ tags' = [tags EXCEPT ![cl] = WithTag(tags[cl], new[cl])]
    /\ blind' = (blind \/ ~(StableOf(Everywhere) \subseteq seen[cl] \union tags[cl]))
    /\ seen' = [seen EXCEPT ![cl] = {}]
    /\ Exits(cl)
    /\ UNCHANGED remote

(***************************************************************************)
(* patch-beta, minor-beta, major-beta, latest-beta: never guarded          *)
(***************************************************************************)

Beta(v, n) == [v EXCEPT !.beta = n]
BetasOf(ts) == {v \in VersionsOf(ts) : v.beta # 0}
_existing_betas_for(base, ts) == {v \in BetasOf(ts) : SameBase(v, base)}
_bump_beta(v) == Beta(v, v.beta + 1)

TagsAtOnce(cl, n) ==
    /\ pc[cl] = "idle"
    /\ tags' = [tags EXCEPT ![cl] = WithTag(tags[cl], n)]
    /\ UNCHANGED <<remote, pc, new, seen, blind>>

\* Mutant: always the first beta.
FirstBeta(level, ts) == Beta(next_stable(level, ts), 1)

NextBeta(level, ts) ==
    LET base == next_stable(level, ts)
        betas == _existing_betas_for(base, ts)
    IN  IF betas # {} THEN _bump_beta(Highest(betas)) ELSE Beta(base, 1)

cmd_beta(cl, level, HEAD) == TagsAtOnce(cl, TagAt(NextBeta(level, tags[cl]), HEAD))

\* Without a beta: the first one of the highest tag, of 0.1.0 without any tag.
LatestBeta(ts) ==
    IF BetasOf(ts) # {} THEN _bump_beta(Highest(BetasOf(ts)))
    ELSE IF ts # {} THEN Beta(Highest(VersionsOf(ts)), 1)
    ELSE Beta(V(0, 1, 0), 1)

cmd_latest_beta(cl, HEAD) == TagsAtOnce(cl, TagAt(LatestBeta(tags[cl]), HEAD))

(***************************************************************************)
(* The people around it                                                    *)
(***************************************************************************)

\* The remote rejects a tag whose name it has.
Push(cl) ==
    /\ pc[cl] = "idle"
    /\ \E t \in tags[cl] :
        /\ t.version \notin VersionsOf(remote)
        /\ remote' = remote \union {t}
    /\ UNCHANGED <<tags, pc, new, seen, blind>>

\* make hard-reset-tags: every local tag is deleted before the fetch, which may fail.
HardResetTags(cl) ==
    /\ pc[cl] = "idle"
    /\ \E ts \in {remote, {}} : tags' = [tags EXCEPT ![cl] = ts]
    /\ UNCHANGED <<remote, pc, new, seen, blind>>

Next ==
    \E cl \in Clones :
        \/ /\ Cardinality(Everywhere) + Cardinality({c \in Clones : pc[c] # "idle"}) < MaxTags
           /\ \E HEAD \in Commits :
                 \/ \E level \in Levels :
                       StableBegins(cl, level, HEAD) \/ cmd_beta(cl, level, HEAD)
                 \/ cmd_latest_beta(cl, HEAD)
        \/ assert_integrity(cl)
        \/ Create(cl)
        \/ Push(cl)
        \/ HardResetTags(cl)

Spec == Init /\ [][Next]_vars

(***************************************************************************)
(* Properties                                                              *)
(***************************************************************************)

\* Types: every tag a version at a commit; a clone holds a number only inside a run of
\* release.py.
TypeOK ==
    /\ tags \in [Clones -> SUBSET Tag]
    /\ remote \subseteq Tag
    /\ pc \in [Clones -> {"idle", "guard", "create"}]
    /\ new \in [Clones -> Tag \union {NoTag}]
    /\ \A cl \in Clones : IF pc[cl] = "idle" THEN new[cl] = NoTag ELSE new[cl] \in Tag
    /\ seen \in [Clones -> SUBSET Tag]
    /\ blind \in BOOLEAN

\* The number a release starts with is above every release its clone knows, so
\* the guard's look at HEAD's ancestors (release.py:105) can only ever refuse for
\* a tag that its own fetch brought.
NumberAboveKnown ==
    \A cl \in Clones : pc[cl] = "guard" =>
        \A t \in StableOf(tags[cl]) : Below(t.version, new[cl].version)

InOrder(ts) ==
    \A t, u \in ts :
        /\ t.version = u.version => t.commit = u.commit
        /\ t.commit = u.commit => t.version = u.version
        /\ t.commit \in Ancestry[u.commit] /\ t # u => Below(t.version, u.version)

\* As long as nobody created a release in ignorance of another one, pushed since
\* the fetch or not pushed at all, the releases of all clones and of the remote
\* are ordered like their commits (release.py:15-22, 97-113).
OrderedUnlessBlind == ~blind => InOrder(StableOf(Everywhere))

\* A beta at a level never fails on a name that is taken, and it is above every
\* release its clone knows and every beta of the same release (release.py:159-163).
BetaIsAhead ==
    [][\A cl \in Clones, level \in Levels, HEAD \in Commits :
        cmd_beta(cl, level, HEAD) =>
            \E t \in tags'[cl] \ tags[cl] :
                \A u \in tags[cl] :
                    u.version.beta = 0 \/ SameBase(u.version, t.version)
                        => Below(u.version, t.version)]_vars

=============================================================================
