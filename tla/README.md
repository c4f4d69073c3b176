# neops-lab in TLA+

neops-lab brings up a network lab on one host and drives discovery against it.
It is a set of host scripts, generators and make targets around services it does
not contain: the CMS, the workflow engine and its worker, containerlab,
Kubernetes. Hardly anything in it runs concurrently *inside* the repository. What
makes it hard is that a script's view of those services is always late, that any
step can fail or be interrupted, and that the next target starts from whatever
the last one left behind. The modules here model exactly that: the scripts'
control flow with every error path, and the services as external actors that may
answer, refuse, restart, forget or answer too late.

## The system and its parts

| Part | State it keeps | Operations | Hard behaviour | What makes it correct | Module |
| --- | --- | --- | --- | --- | --- |
| Workflow runner, `run_workflow` | the execution's uuid, a deadline | start (POST), poll (GET), exit code | lost answers, half-open connections, engine restarts, token expiry | a job starts once; a verdict is true; polling ends in time | `RunWorkflow` |
| Containerlab flavour, `make local-lab-up/-down`, `generate` | marker file, generated clab file; device containers | guard, generate, stack, bootstrap wait, deploy, waits, record; destroy, forget | a failure or Ctrl-C after any step, a topology edited under a running lab | the marker never lies; one scenario at a time; an honest banner | `ClabLab` over `LabScenarios`, abstractly `ScenarioSlot` |
| Kubernetes flavour, `make kind-lab-up/-down` | marker file, manifest; Deployments, ConfigMap, pods | guard, load, render, apply, wait, record; delete, forget | apply never removes, pods keep the config they started with, pods restart at any time | the record keeps others out; down leaves nothing | `KindLab` over `LabScenarios` |
| Workflow bootstrap, `bootstrap/register.py` | the outcome per document | publish, legacy fallback, exit code | lost and late requests, reruns, immutable versions, exceptions | exit code 0 is the truth; a refusal hides no document | `Bootstrap` |
| Readiness waits, `wait_ready`, `wait_devices` | the pending set | poll until empty or timeout | readiness is latched per item; items come and go; a round may outlast the timeout | exit code 0 means that everything was ready at some time of the wait | `Discovery`; what the verdict decides, `ClabLab` |
| Discovery pipeline, `local-lab-up`, `local-lab-discover`, `lab_token` | the token in the environment | configure, mint, wait, run | 15-minute tokens that keep the grants of their login, long deploys and waits, exported tokens | a minted token is alive and carries the declared grants in every call | `Discovery` |
| CMS configuration, `apply_cms_config`, `local-env-init` | role, grants, scope columns in the CMS; `cms_api_key.env` | probe, seed, grant, columns | `init_scopes` resets columns behind every `manage.py`; stale keys; reruns | a finished run leaves the declared configuration | `CmsConfig` |
| Scenario resolution, `resolve_scenario` | `generated/<s>/scenario` | overlay, prune, check | interrupted resolves, stale files | a resolved tree is the overlay, nothing else | its result is an input of the other modules |
| Topology rendering, `gen_clab_topology`, `gen_device_configs`, `gen_kind_manifests` | generated files | links, relocation, configs | pure functions | links pair up, addresses stay in the subnet and distinct | as device sets, in both flavours |
| Release management, `release.py`, `hard_reset_tags.sh` | git tags, per clone and on the remote | next stable, guard, betas, reset | the fetch comes after the number, other clones push at any time | numbers above what is known; releases ordered like their commits | `Release` |
| Documentation tooling, `setup_documentation.py`, `doc_serve_watch.py`, the mkdocs hooks | `mkdocs.yml`, `docs/`, `.gitignore`; pending file events | merge and install, watch and run again, rewrite nav, paths and dates | saves during a run, debounced events, interrupted installs, own output | quiet means current; a finished run installed everything; a project's files are its own | `SetupDocs`, `DocHooks`, composed by `DocServe` |
| Checks and wrappers (`doctor`, `check_env_pins`, `containerlab`, `check_subnets.py`), `clean_sites_directory.py`, images and compose files | none | | | | not modelled |

The parts meet in the make targets: `local-lab-up` runs the CMS configuration,
mints a token, starts the containers, waits for the bootstrap's exit code,
deploys, waits for worker and devices, and writes the marker. They talk through
exit codes (a failing step ends the target), files (marker, clab file, manifest)
and the external services. The release scripts and the documentation tooling share
a directory with the lab and nothing else.

## The modules

**`RunWorkflow`** is one job and the invocations of `run_workflow` an operator
makes for it. `pc` follows the script: `load` (the parameter argument), `start`
and `posted` (the POST, sent and waited for), `poll`, `asked`, `sleep` (the loop
of `poll_until_terminal`), `done`. Each `except` branch is an action:
`SendPost` with a refusing link is `URLError`, `PostAnswered` covers 2xx, 401/403
and every other status, `PostAnswerLost` is the branch that must not retry,
`PollRefused` and `PollFails` are those of `fetch_execution`. The engine may
handle a queued request after the script stopped waiting for it, or lose it in a
restart. `RunAgain` is the operator who reads "failed to start" or "failed to
reach" and runs the command again; after "the execution may have started" they
look at the monitor instead, as the message tells them. Time is `elapsed`, which
every round trip and every pause advances.

Of the engine it is assumed that an error status on the POST means nothing was
started, and that a connection that broke before the request was out delivered
nothing. A gateway that answers 504 for a request it passed on is outside the
model.

**`ClabLab`** has one action per recipe line that changes something, under a
`pc`; `Fails` is a step that ends the target where it stands, which is what make
and the recipe's `set -e` do. `lab[d]` is the scenario device `d` was started
from, `clabFile[s]` the device set in the generated file of scenario `s`,
`marker` the marker file. `Reconfigure` and `Create` are the two halves of
`deploy --reconfigure`: containerlab destroys only the nodes it is handed and
refuses to create while others of the lab remain (`CreateRefused`). `Destroy`
has the `|| true` of `local-lab-down`. `Regenerate` is `make generate`, also run
by `local-lab-discover` under a deployed lab, and `EditTopology` is the author,
at any time. The CMS, its configuration and the token are one step that works or
fails. A device stops only by a make target: that a device crashes after
`wait_devices` saw it once is not in this module.

**`ScenarioSlot`** is what `ClabLab` promises: an occupant and a record. A
scenario moves in only into an empty host and past a record that is empty or its
own, and is put on record only while it occupies. `ClabLab` implements it with
`occupant` the scenario of the running devices and `record` the marker
(`ImplementsSlot`).

**`KindLab`** is the same pair of targets against a namespace. The data that
matters differs: `apply` adds Deployments and replaces the ConfigMap but never
removes a Deployment and does not restart a pod whose Deployment is unchanged, so
`pods[d]` remembers whose config the pod read. A pod that restarts reads the
ConfigMap of that moment and cannot start when its key is gone. `kubectl wait --all`
visits the Deployments one after another and looks at none again: `SeesAvailable` is
one visit, `saw` what the wait has behind it, and a pod seen early may be gone when the
last one is seen and the lab is recorded, which is why `BannerIsHonest` is about what
was seen. A Deployment counts as Available exactly while its pod is ready: that its
status follows the pod with a delay is not modelled. `leftover` is a
history variable: a `kind-lab-up` stopped after its apply and before its record.
An interrupted `kubectl delete namespace` is taken to have deleted everything or
nothing when the next target starts.

**`Bootstrap`** is the `lab_bootstrap` container, started again by each
`local-lab-up`. `index` walks the documents; `answer` is what the engine said to
the request out; `Raise` is an exception leaving `main()`. A request nobody waits
for any more goes to `stray` and may be handled at any later time, also while the
next run publishes an edited document. The documents change between runs only
(`RunAgain`): the container mounts the resolved tree, which `scenario-resolve`
rewrites before `up -d`. The legacy route accepts a 409 without comparing
contents, and `ExitZeroMeansPublished` says so.

**`CmsConfig`** is `apply_cms_config` and the targets around it. The script is a
row of steps (`token`, `probe`, `seed`, `platforms`, `permissions`, `scope_id`,
`upsert`, `verify`), each of which either goes on (`Goto`) or ends script and
target (`End("1")`, `Fails`), the steps with several writes also half-way. The
CMS keeps rows in a `database` and forgets what it `cached` when it starts;
`ManagePy` is what a `manage.py` command does on the side: `init_scopes` may put
the image's columns back. `keyFile` and `engine` name the database whose key is in
`cms_api_key.env` and in the running engine, so a key is live when the two numbers
agree. `exported` is `NEOPS_CMS_TOKEN` in the environment a target runs in: it wins
over the file, which is then not read at all (`Token`, `apply_cms_config:76-87`), and
may be a live key, that of a dropped database or one of another CMS (`OtherKey`); keys
are taken to be those of the user `neops`. The engine reads the file whatever is
exported. Two things follow that no property speaks of, because the code has them: with
a live key exported `local-lab-up` reaches its `up -d` over a file without a key, and
the engine then refuses to start; and the message of the probe names `cms_api_key.env`
and advises `make local-env-init`, which cannot help while the dead key that was probed
is the exported one. `tree` is the resolved scenario, chosen anew by every target that resolves
one: the operator may have switched scenarios or edited `permissions.json`, whose
grants only ever widen. A `persona` stands for a user with its role and grant
profile. CMS and engine may stop at any time; nothing but a make target starts
them (no service has a restart policy). `local-lab-up` is followed to its `up -d`;
what comes after is `ClabLab`'s. An `init_scopes` run by a server start is taken
to be through when the server reports healthy.

**`Discovery`** follows one thing through `local-lab-up` and `local-lab-discover`:
the engine token. `StepAfter` is the order of the two recipes. A token has an
`age` and the `grants` of its login. `gated` is whether the engine gates: in the mode
`disabled`, which `docker-compose.yml:103` sets, it refuses nothing, in `enforce` a token
that is too old or holds no grant (`Refused`); `permissive` is like one or the other,
by what the CMS answers. Grants are a number, since `apply_cms_config` and `lab-grant`
only ever add to them. `grantCommand` is whether the CMS image can grant at all: without
it `apply_cms_config` prints a line, grants nothing and succeeds (`apply_cms_config:259-268`),
which the docs say of the published image (`docs/10-concepts/50-authorization.md:99-103`).
`declared` is what the scenario's `permissions.json` says, `resolved` what the
target copied of it when it began, `granted` what the CMS has. `Mint` reuses what
the recipe's shell finds, as the Makefile's snippet does, and `UnsetToken` is what
makes the second login of `local-lab-up` a real one. The waits are `wait_ready` and
`wait_devices`, one loop in two scripts: `Asks` is one request or connection, which
takes up to its own timeout, whatever the deadline; `Sleeps` starts the next round
with what is still pending; the deadline is looked at between rounds only. Workers
and devices come and go at any time. A token ages in the login that mints it, the
registration and deploy, the waits, and between targets; the other commands take no
time. `minted` and `seen` are history variables. What the steps do to the lab, the
engine and the CMS is in `ClabLab`, `Bootstrap`, `CmsConfig` and `RunWorkflow`.

**`Release`** is `release.py` in several clones of one repository. A stable release
is three steps, `StableBegins` (the number, from the tags the clone has),
`assert_integrity` (the fetch, then the comparison with HEAD's ancestors and
descendants, which may refuse) and `Create` (the tag), and other clones may push
between any two of them. A beta is one step, `TagsAtOnce`, with no guard. The fetch
works or not, as the script goes on either way; `HardResetTags` deletes every local
tag before it. `blind` is history: a release was created while another existed that
neither its clone nor the fetch of its guard knew of, because it was pushed after
that fetch, or not pushed, or the fetch failed. Nothing in the script can see those.

**`SetupDocs`** is one run of `setup_documentation.py`, a step per thing it writes,
so that Ctrl-C can come between any two of them, also between the truncation of
`mkdocs.yml` and its content and between the removal of a link and its creation.
`copytree` and `seed_files` copy one file per step, in any order, and Ctrl-C may cut a
copy short (`CopyCutShort`). `Pages` are the files of `docs_template` that no later step
writes; `torn` is history: a run was stopped inside the copy of `docs_template`, or
left a starter file cut short. A
file is abstracted to where its content comes from: the merge of which sources,
whose copy of an asset, which kind of last line `.gitignore` has (one of blanks and no
newline gets the entry behind its blanks, `setup_documentation.py:196-200`, where it
means nothing until the next run adds it again). The one file of `ensure_mkdocs_custom`
is copied in one step. **`DocHooks`**
holds the three hooks as operators from what mkdocs hands them to what they return:
`_replace_includes` on a nav, `FixedFile` and `SnippetPaths` on files,
`_load_submodule_metadata` and `DatesOf` on a `git log`. **`DocServe`** composes
them: `make doc-serve` runs the setup, then mkdocs next to the watcher, whose thread
delivers the file events one by one and runs the setup in `Fire` while the later
ones wait in `queue`; `make doc-build` runs the setup and builds once, over one of
the checkouts in `Trees`. `recent` is the watcher's 0.3 seconds, `changed` is what
mkdocs serve has yet to build, `site` the last build. `missed` is history: a save
that came before the watcher was there, or whose event the debounce dropped after
the run had read the sources.

## The runs

| Run | Instance | What it shows |
| --- | --- | --- |
| `run_workflow` | budget 5, pause 2, request timer 3, two invocations | a job starts once, verdicts are true, no overrun beyond one pause, broken polls are retried, every invocation ends |
| `clab_lab` | two scenarios over three devices, overlapping topologies, every fault | the marker never lies, the slot is implemented, the banner is honest |
| `clab_lab_down` | failing `containerlab destroy` only | **violated**: after a failed destroy the marker is gone and the next `local-lab-down` trusts the command line |
| `kind_lab` | two scenarios, two FRR devices and one SR Linux, every fault | the recorded scenario's config alone reaches the pods, the record can be trusted up to `leftover`, a lab is recorded after each of its devices was seen on its config, down leaves nothing |
| `kind_lab_wait` | `kubectl wait` timing out only | **violated**: the guard admits another scenario beside unrecorded pods |
| `bootstrap` | two documents, two versions, two contents, two runs | exit code 0 is the truth, a refusal hides nothing, every run ends |
| `bootstrap_malformed` | the same | **violated**: a document that does not parse hides the documents after it |
| `cms_config` | two looks, one persona, two databases, any key exported or none | a target that succeeded left the CMS as declared; a dead key, from the file or exported, is named at the probe; after `local-env-init` the engine holds a live key, and neither it nor a `local-lab-up` without an exported key comes to start the engine without one |
| `cms_config_cache` | the same | **violated**: the key probe is a query as `neops` before the grant, so the CMS can cache an empty scope list |
| `discovery` | one function block, two devices, three levels of grants, times that just fit into a token's life | a minted token lives through the waits and, where the CMS can grant, carries the declared grants; a wait that succeeds has seen everything ready |
| `release` | two commits, two clones, two levels, three tags | a number is above every release its clone knows; releases are ordered like their commits until one is blind; betas are free and ahead |
| `doc_serve` | two contents of the base file, three of the custom file (one broken), two edits or stopped runs, every log of up to two commits | quiet means current up to `missed`; a finished run installed everything, up to `torn` every page and whole, and touched nothing of the project's; the watcher settles; nav, snippet paths and dates are what the sources mean |

Bounds. `Timeout` 5 with a pause of 2 and a timer of 3 leaves room for a round
trip the timer cuts, for one the deadline cuts (5 − 2 − 2 = 1 < 3) and for a
pause that crosses the deadline. Two invocations are what a double start needs.
Two scenarios are what sharing needs; the topologies of `MCClabLab` overlap in
one device and differ in one, so the wrong topology strands something, and an
edit can make them equal. `MCKindLab` has a topology without FRR devices, which
the generator refuses. Two documents with two versions can agree, conflict or
claim the same version, and two runs are what a late request of an earlier run
needs. Two databases are what a key needs to outlive one, two looks what a stale
column needs; one persona is declared or not from target to target, which is all
the grants tell apart. In `MCDiscovery` the life of a token, 11, is one more
than a login and both waits at their longest (1 + (2 + 1 + 1) + (2 + 1 + 2));
two devices are what a round needs to find one ready and the other not. Its
number of targets is not bounded. In `MCRelease` two commits are the least that
are ordered (branches that diverge are left to the proof, which holds for any
commit graph), two clones the least that race, and three tags leave room for a
release, a second one and a beta of either. In `MCDocServe` two edits are what
it takes to save during a run and again before it ends, a run that Ctrl-C stops counts
as one (two of them, or one and an edit, is what it takes to meet what an earlier run
left), and two pending events
stand for any more, since the one after the last acts like it; two commits are
what a first and a last one need. There is no bound on the number of targets of
`MCCmsConfig`. In every module the bounds are constants of the instance; the
theorems below hold for all of them.

Fairness. `RunWorkflow` and `Bootstrap` assume weak fairness of the script's own
steps and nothing else: a running process goes on, and its timers (the request
timeout of every `urlopen` and `requests.post`) make the steps that wait
possible. `DocServe` assumes it of the setup (`SetupRuns`) and of the observer's
thread (`Fire`); mkdocs and the 0.3 seconds of the debounce are not among them,
because the watcher settles also while they last. Engine, network and operator are not fair. The make targets carry no
liveness property: they end when their waits do, and those are external.

The four violated runs are divergences between the code and what its comments and
docs say; PROJECT.json quotes the lines. In `cms_config_cache` it is the comment's
own word, "the first `neops` query", that makes the probe fill the cache: the CMS
is not in this repository.

Divergences that need no run, because reading the two places is enough:

- The quickstart says that `--reconfigure` makes "switching scenarios *replace* the
  running devices" (`docs/getting-started/20-quickstart.md:68`), while the guard of
  `local-lab-up` refuses to switch (`Makefile:370-377`), as the same page says
  further down.
- A parameter file that does not load leaves `run_workflow` by an uncaught exception
  with exit code 1 (`run_workflow:213`), which its table reserves for a workflow that
  reached a failed state (`run_workflow:20-23`). The model keeps it apart as the
  verdict `bad_params`.
- `Makefile:488-491` and `docs/10-concepts/50-authorization.md:83` say that an edit of
  `permissions.json` reaches the engine on the next target. With
  `NEOPS_ENGINE_TOKEN` exported the mint reuses it (`Makefile:312`), and the grants of
  its login stay: `GrantsReachTheEngine` is stated for tokens the target minted.
  `local-lab-up` mints its second token whatever was exported.
- The docstring of `ensure_docs_dir` says that it "ensures that the docs directory exists
  and contains an index.md" (`setup_documentation.py:99-103`); the code looks for the
  directory only, so after a Ctrl-C inside `shutil.copytree` (`setup_documentation.py:105-106`)
  no later run brings the missing pages: `CompletedRunInstalls` claims them only where no
  copy was torn. A starter file that was cut short stays so for the same reason
  (`setup_documentation.py:172-173`).
- The docstring of `is_file_dirty` (`setup_documentation.py:39-40`) says "modified but
  not staged"; the command (`setup_documentation.py:60`) compares the index
  with HEAD, so an edit that is not staged is written over and one that is staged
  stops the run, which then asks to stage or commit (`setup_documentation.py:91`).

## The proofs

Each proof module EXTENDS its component and states the theorems for all values of
the constants, from the named assumptions only: the timeouts are naturals and
pause and timer are positive; every scenario has a topology and no topology is
empty; the absent marker is not a scenario; an absent definition is not a content;
the image's look is none of the lab's, and no key is not a key; ancestry is a partial
order; what is not a merge of sources is not one; a custom file that loads has a nav
(`NavAssumption`), the project lists no search path twice (`SnippetAssumption`), the
files, YAML configs and submodules of a checkout have the types the hooks expect and no
submodule lies inside another, which git refuses (`TreeAssumption`); and a login and both waits at their
longest fit into the life of a token, which in the repository is
15 + (180 + 2 + 5) + (240 + 2 + 3 · 15) < 900 seconds (each `timeout` of a socket
taken to bound the round trip).

- `RunWorkflowProofs`. `TypeOK`, `JobStartedOnce`, `VerdictTruthful`,
  `DeadlineHolds` and `BrokenPollIsRetried`. The invariant adds that every earlier
  attempt ended without an execution and without a request that could become one
  (this is what makes the next attempt safe), that the script's position agrees
  with what became of its POST, and that the clock is below the deadline while a
  poll is out.
- `ClabLabProofs`. `TypeOK`, `RecordNamesTheRunning`, `BannerIsHonest`, that no
  two scenarios ever run side by side, and that `ClabLab` implements
  `ScenarioSlot`. Neither safety property is inductive: the invariant carries the
  guard's condition through the whole target (`Admitted`), the one-scenario fact
  (`OneScenario`), and what each step has established by the time the next begins
  (`Generated`, `Deployed`, `Prepared`). The refinement rests on it: a create is
  `MoveIn` because nothing runs and the marker admits the target, the record is
  `PutOnRecord` because what runs is the target's. `DownTheorem` and `GoneTheorem` say
  where the finding of `clab_lab_down` ends: where only the generator, the stack and the
  bootstrap fail (`HarmlessFaults`), local-lab-down hands over every running device and
  a scenario is forgotten over an empty lab only. Each of the other four faults alone
  (`deploy`, `wait`, `destroy`, `edit`) violates `DownHandsTheRunning` in the
  configuration of that run, so the condition is as weak as a set of faults can be.
  Their invariant adds that the files follow the topologies and that outside the
  deployed steps only what the record names runs (`FilesInStep`, `RecordHolds`,
  `GoneFirst`).
- `KindLabProofs`. `TypeOK`, `ConfigFollowsRecord`, `RecordTrusted`,
  `BannerIsHonest`, `DownLeavesNothing`. The step that matters is `Apply`: with
  nothing left over, whatever runs read the config in the namespace (`OneConfig`),
  and that config is the target's or absent, by the record (`ConfigFollowsRecord`)
  or, with nothing on record, because the namespace was never applied to
  (`Fresh`). What the wait has seen of the target's devices was then on the target's
  config whatever restarted since (`Seen`). `KindImplementsSlot` and `RecordTheorem` say where the finding of
  `kind_lab_wait` ends: as long as nothing is left over (`[]~leftover`) the Kubernetes
  targets implement `ScenarioSlot` too, with the ConfigMap's scenario as the occupant,
  and where neither the apply nor the wait fails the record names every running pod,
  whatever else fails, restarts or is edited. Either of the two alone violates it.
- `BootstrapProofs`. `TypeOK`, `ExitZeroMeansPublished`, `RefusalHidesNothing`.
  What the engine told the script stays true (`HeldStays`: a published version is
  never overwritten), so the outcomes collected one after the other hold together
  at the end.
- `CmsConfigProofs`. All five properties of `cms_config`, for any personas, looks
  and number of databases. A successful end is only as good as what each step left
  behind, so the invariant says of every step what is still true `Past` it
  (`SeedInv`, `PlatformsInv`, `PermissionsInv`, and `ColumnsInv`, which can only
  start at the last write), that the key is live once the columns were written
  (`KeyInv`), that a key from the file or the environment is live where the script got past its
  probe with an answer, that `local-env-init` minted into the file whatever is exported
  (`MintedInv`), and that the recreated engine holds the key that was minted
  (`EngineInv`). `StaleCacheTheorem` says where the finding of `cms_config_cache` comes
  from and from nowhere else: the probe, or an engine that runs before the grant.

- `DiscoveryProofs`. All four properties of `discovery`. The age of a token is
  bounded by the login that minted it and what the waits have spent since (`AgeInv`),
  and that a wait spends at most its timeout, one pause and one round holds because
  the round shrinks by what it has asked (`SpentInv`). That the second login of
  `local-lab-up` is not skipped (`FreshInv`) keeps the deploy out of the sum.
- `ReleaseProofs`. `TypeOK`, `NumberAboveKnown`, `OrderedUnlessBlind` and
  `BetaIsAhead`, for any commit graph. `CHOOSE` of the highest version is only good where
  there is one, so the proof carries with every set of tags that each of its parts
  has a highest element (`Topped`) and that adding a tag, fetching and resetting keep
  it. The order of all releases everywhere then rests on the guard: what is created
  has been compared with every release there is, or the creation was blind.
- `DocServeProofs`. All seven safety properties of `doc_serve`. The installation is
  not inductive over interrupted runs by itself: the invariant says for each step what
  is in place past it (`Installs`), so that what an interrupted run left is repaired by
  the next, and what no run repairs, a page that is missing or a copy cut short, is there
  only after a copy was torn (`Untorn`). `SettledIsCurrent` rests on where the knowledge of a save is at any
  moment: in an event that waits, in a run that has not read yet, in `mkdocs.yml`, or
  in `missed`. `NavDenotesThePages`, `SnippetPathsOnce` and `DatesAreTheLogs` hold of
  every site because a site is always what the hooks make of a complete `mkdocs.yml`
  and of a checkout they do not fail on (`SiteInv`); the rest is about the hooks alone,
  for navs, file lists and logs of any length:
  - a fold is followed step by step (`Walks`, `Targets`, `Reads`: the results after
    each element exist, start at the base and step as the hook does), and so is
    `FlattenSeq` (`Flattens`, `FlattenPlaces`: where each element ends up). The
    library's induction theorems need an operator as a parameter; here every
    induction is over a set of indices below the length of a sequence (`UpTo`, from the
    well-foundedness of `<`), so nothing is taken on trust;
  - the nav: a resolved path has no `..` left (`ResolvedPlain`), so what
    `_rewrite_path` writes relative to `docs`, or absolute, resolves to the same file
    again (`ReadBack`), and `_replace_includes` loses no leaf (`NavPages`);
  - the search paths: adding keeps what is there, in its order and once (`Adding`);
  - the dates: after the first `j` files of commit `i` the metadata record for every
    path exactly the commits that named it so far (`Records`), or reading has raised;
    both inductions, over commits and over the files of one, meet in `LogRead`. That a
    page has one owner is `OneOwner`: two prefixes of a path are prefixes of one another.

Model-checked only: `InvocationEnds`, `RunEnds` and `WatcherSettles`, which are
liveness under fairness, out of the prover's reach.

## Not modelled

- `kind-lab-discover` and `kind-lab-cms-config` as targets. Their scripts are
  modelled (`Bootstrap`, `Discovery`, `RunWorkflow`, `CmsConfig`); what is left is a
  recipe without state, which sends the exported token or none, and a port-forward.
- `resolve_scenario`: one pass of copies and removals that every target runs again
  from the start, so its result is an input here (`EditTopology`, `EditPermissions`,
  the trees of `CmsConfig`). A tree left half-resolved by Ctrl-C is met by a script
  that is called by hand, never by a target.
- `build_links`, `relocate` and the device configs: pure functions of
  `topology.json`, whose committed outputs the tests compare byte for byte.
- `doctor`, `check_env_pins`, the `containerlab` wrapper and the subnet check read the
  host once and keep nothing; `clean_sites_directory.py` edits a finished site; images
  and compose files are configuration, whose effect is an external action.
- The count behind the CMS's login limit: a refused login is a `Mint` that fails, at
  any time. The diagnostics `wait_ready` prints after a timeout.
- `run_workflow`: a 2xx answer to the start without a `uuid` (`run_workflow:111`),
  which leaves the script by an uncaught `KeyError`. In it, in `register.py` and in
  the waits a timeout is taken to bound the round trip, though sockets count it per
  connect and per read: an answer that drips is outside the models.
- `doc-serve`: `observer.stop()` comes up to 5 seconds after Ctrl-C (`Stop` goes down at
  once); an `mkdocs_base.yml` that does not load; a `mkdocs_custom.yml` cut short while
  its template is copied. Paths are resolved by their names (`Resolved`), not through
  symlinks.
- Two make invocations at once: nothing in the Makefile serialises them, and each
  module takes the targets one at a time. Outside `DocServe` that is also how time
  passes: between targets, and in the steps that wait.
