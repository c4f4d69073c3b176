------------------------------ MODULE CmsConfig ------------------------------
(***************************************************************************)
(* apply_cms_config and the make targets around it (local-env-init,        *)
(* local-env-up, local-lab-up as far as its `up -d`, apply-cms-config,     *)
(* lab-grant and the targets that stop the stack): idempotent steps that   *)
(* `set -e` may stop anywhere, against a CMS that puts its own columns     *)
(* back behind every manage.py command and caches what its users may see,  *)
(* with an API key in a file that outlives the database it was minted in,  *)
(* or, instead of the file's, the key exported in the shell make runs in   *)
(* (taken to be a key of the user neops, of whichever CMS).                *)
(*                                                                         *)
(* The CMS and the engine are external.  The CMS's init_scopes, run by a   *)
(* server start, is taken to be through when the server is healthy; run by *)
(* a manage.py command, it gets through or is cut off with the command.    *)
(***************************************************************************)
EXTENDS Naturals

CONSTANTS
    Looks,        \* scope/Global/*.json: table columns, drill-down, dashboard
    ImageLook,    \* what the CMS image seeds the Global scope with
    Personas,     \* a user with a role and the role's grant profile
    MaxDatabases, \* bound: databases, one more with every local-env-prune
    NoFile,       \* no cms_api_key.env
    NoKey,        \* a cms_api_key.env that was touched only, nothing exported
    OtherKey,     \* a key of another CMS
    Off           \* no engine runs

Databases == 1..MaxDatabases

ASSUME CmsAssumption ==
    /\ ImageLook \notin Looks
    /\ MaxDatabases \in Nat \ {0}
    /\ NoFile # NoKey
    /\ OtherKey \notin {NoFile, NoKey}
    /\ {NoFile, NoKey, OtherKey, Off} \cap Databases = {}

\* generated/<scenario>/scenario: the scope files and cms/permissions.json.
Trees == [look : Looks, declared : SUBSET Personas]

VARIABLES
    tree,         \* the resolved tree
    exported,     \* NEOPS_CMS_TOKEN in the environment of the running target
    keyFile,      \* cms_api_key.env: the database its key was minted in
    database,     \* the database in the postgres volume
    seeded,       \* neops holds lab-admin, and lab-admin the Global scope
    dashboard,    \* Global's dashboard_configuration
    columns,      \* Global's columns and drill-down
    platforms,    \* frr and srl are known
    members,      \* personas whose user and role exist, at full visibility
    granted,      \* personas whose role holds its workflow profile
    cms,          \* the server: "up" or "down"
    cached,       \* what the server remembers of the scopes neops may see
    grantCommand, \* the CMS image has grant_workflow_permissions
    engine,       \* the database of the key the engine booted with
    target,       \* the make target run last
    pc,           \* the step it is at
    keyProbe,     \* the script's key_probe
    exit,         \* the target's exit code
    restarted     \* history: the server started after the columns were written

setting == <<tree, exported>>
databaseVars == <<database, seeded, dashboard, platforms, members, granted>>
serverVars == <<cms, columns, cached, restarted>>
runVars == <<target, pc, keyProbe, exit>>
vars == <<setting, keyFile, databaseVars, serverVars, grantCommand, engine, runVars>>

Init ==
    /\ tree \in Trees
    /\ exported = NoKey
    /\ keyFile = NoFile
    /\ database = 1
    /\ seeded = FALSE
    /\ dashboard = ImageLook
    /\ columns = ImageLook
    /\ platforms = FALSE
    /\ members = {}
    /\ granted = {}
    /\ cms = "down"
    /\ cached = "nothing"
    /\ grantCommand \in BOOLEAN
    /\ engine = Off
    /\ target = "none"
    /\ pc = "idle"
    /\ keyProbe = "none"
    /\ exit = "none"
    /\ restarted = FALSE

(***************************************************************************)
(* The CMS (external).                                                     *)
(***************************************************************************)

\* A server start reseeds Global (always_update_on_restart) and forgets.
StartServer ==
    /\ cms' = "up"
    /\ columns' = ImageLook
    /\ cached' = "nothing"
    /\ restarted' = TRUE

\* init_scopes runs behind a manage.py command and may get through.
ManagePy ==
    /\ cms = "up"
    /\ columns' \in {columns, ImageLook}
    /\ UNCHANGED <<cms, cached, restarted>>

\* A query as neops makes the server remember the scopes neops may see.
QueryAsNeops ==
    cached' = IF cached # "nothing" THEN cached
              ELSE IF seeded THEN "scope" ELSE "no_scope"

\* The key apply_cms_config works with: an exported one wins over the file's.
Token == IF exported # NoKey THEN exported ELSE keyFile

KeyIsLive == Token = database

(***************************************************************************)
(* Control: a step either goes on or ends the target where it stands.      *)
(***************************************************************************)

Goto(step) ==
    /\ pc' = step
    /\ UNCHANGED <<target, exit>>

End(code) ==
    /\ pc' = "idle"
    /\ exit' = code
    /\ UNCHANGED target

(***************************************************************************)
(* make.                                                                   *)
(***************************************************************************)

Start(t) ==
    /\ pc = "idle"
    /\ target' = t
    /\ keyProbe' = "none"
    /\ tree' \in Trees
    /\ exported' \in {NoKey, OtherKey} \union 1..database
    /\ UNCHANGED <<databaseVars, serverVars, grantCommand, engine>>

\* Mutant: the whole stack is started before there is a key.
LocalEnvInitWholeStack ==
    /\ Start("local-env-init")
    /\ keyFile' = IF keyFile = NoFile THEN NoKey ELSE keyFile
    /\ pc' = "up"
    /\ exit' = "none"

LocalEnvInit ==
    /\ Start("local-env-init")
    /\ keyFile' = IF keyFile = NoFile THEN NoKey ELSE keyFile
    /\ pc' = "up_cms"
    /\ exit' = "none"

\* Refused without a key file.
StartWithKeyFile(t, first) ==
    /\ Start(t)
    /\ pc' = IF keyFile = NoFile THEN "idle" ELSE first
    /\ exit' = IF keyFile = NoFile THEN "1" ELSE "none"
    /\ UNCHANGED keyFile

LocalEnvUp == StartWithKeyFile("local-env-up", "up")
LocalLabUp == StartWithKeyFile("local-lab-up", "up_cms")

\* apply-cms-config, and local-lab-discover before it mints its token.
ApplyCmsConfig ==
    /\ Start("apply-cms-config")
    /\ pc' = "token"
    /\ exit' = "none"
    /\ UNCHANGED keyFile

\* docker compose up -d --wait cms: started, replaced, or found running.
UpCms ==
    /\ pc = "up_cms"
    /\ \/ StartServer
       \/ cms = "up" /\ UNCHANGED serverVars
    /\ Goto(IF target = "local-env-init" THEN "mint" ELSE "token")
    /\ UNCHANGED <<setting, keyFile, databaseVars, grantCommand, engine, keyProbe>>

\* The pk and the key come from two manage.py commands.
Mint ==
    /\ pc = "mint"
    /\ ManagePy
    /\ keyFile' = database
    /\ Goto("token")
    /\ UNCHANGED <<setting, databaseVars, grantCommand, engine, keyProbe>>

\* Mutant: without --force-recreate the running engine keeps its key.
RecreateEngineUnforced ==
    /\ pc = "recreate"
    /\ \/ cms = "up" /\ UNCHANGED serverVars
       \/ cms = "down" /\ StartServer
    /\ engine' = IF engine = Off THEN keyFile ELSE engine
    /\ Goto("up")
    /\ UNCHANGED <<setting, keyFile, databaseVars, grantCommand, keyProbe>>

\* docker compose up -d --force-recreate workflow_engine, which depends on the CMS.
RecreateEngine ==
    /\ pc = "recreate"
    /\ \/ cms = "up" /\ UNCHANGED serverVars
       \/ cms = "down" /\ StartServer
    /\ engine' = keyFile
    /\ Goto("up")
    /\ UNCHANGED <<setting, keyFile, databaseVars, grantCommand, keyProbe>>

\* Mutant: an engine image that boots without a key.
UpRestPlaceholder ==
    /\ pc = "up"
    /\ \/ cms = "up" /\ UNCHANGED serverVars
       \/ (cms = "down" \/ target = "local-env-up") /\ StartServer
    /\ engine' = keyFile
    /\ End("0")
    /\ UNCHANGED <<setting, keyFile, databaseVars, grantCommand, keyProbe>>

\* docker compose up -d: what runs is kept, or replaced when its image or its
\* mounts changed; a changed env_file alone replaces nothing.  After an UpCms of
\* the same target nothing about the CMS changed.  An engine without a key exits,
\* and the command with it.
UpRest ==
    /\ pc = "up"
    /\ \/ cms = "up" /\ UNCHANGED serverVars
       \/ (cms = "down" \/ target = "local-env-up") /\ StartServer
    /\ \/ engine # Off /\ UNCHANGED engine /\ End("0")
       \/ keyFile \in Databases /\ engine' = keyFile /\ End("0")
       \/ keyFile = NoKey /\ engine' = Off /\ End("1")
    /\ UNCHANGED <<setting, keyFile, databaseVars, grantCommand, keyProbe>>

\* make lab-grant ROLE=..: one manage.py command.
LabGrant(p) ==
    /\ pc = "idle"
    /\ ManagePy
    /\ \/ grantCommand /\ p \in members /\ granted' = granted \union {p} /\ exit' = "0"
       \/ ~(grantCommand /\ p \in members) /\ exit' = "1" /\ UNCHANGED granted
    /\ target' = "lab-grant"
    /\ UNCHANGED <<setting, keyFile, database, seeded, dashboard, platforms, members, grantCommand,
                   engine, pc, keyProbe>>

\* docker compose down.
Down(t) ==
    /\ pc = "idle"
    /\ target' = t
    /\ exit' = "0"
    /\ cms' = "down"
    /\ engine' = Off
    /\ cached' = "nothing"
    /\ UNCHANGED <<setting, keyFile, grantCommand, pc, keyProbe>>

LocalEnvDown ==
    /\ Down("local-env-down")
    /\ UNCHANGED <<databaseVars, columns, restarted>>

\* docker compose down -v: the volume goes, cms_api_key.env stays.
LocalEnvPrune ==
    /\ Down("local-env-prune")
    /\ database < MaxDatabases
    /\ database' = database + 1
    /\ seeded' = FALSE
    /\ dashboard' = ImageLook
    /\ columns' = ImageLook
    /\ platforms' = FALSE
    /\ members' = {}
    /\ granted' = {}
    /\ UNCHANGED restarted

(***************************************************************************)
(* apply_cms_config.                                                       *)
(***************************************************************************)

ReadToken ==
    /\ pc = "token"
    /\ IF Token \in {NoFile, NoKey} THEN End("1") ELSE Goto("probe")
    /\ UNCHANGED <<setting, keyFile, databaseVars, serverVars, grantCommand, engine, keyProbe>>

\* Mutant: `{ scopes .. }` answers a bad key with an empty list, not an error.
ProbeKeyWithScopes ==
    /\ pc = "probe"
    /\ keyProbe' \in {"valid", "no_answer"}
    /\ Goto("seed")
    /\ UNCHANGED <<setting, keyFile, databaseVars, serverVars, grantCommand, engine>>

\* A probe without an answer is no reason to stop (|| true).
ProbeKey ==
    /\ pc = "probe"
    /\ \/ /\ cms = "up" /\ KeyIsLive
          /\ QueryAsNeops
          /\ keyProbe' = "valid"
          /\ Goto("seed")
       \/ /\ cms = "up" /\ ~KeyIsLive
          /\ keyProbe' = "invalid"
          /\ End("1")
          /\ UNCHANGED cached
       \/ /\ keyProbe' = "no_answer"
          /\ Goto("seed")
          /\ UNCHANGED cached
    /\ UNCHANGED <<setting, keyFile, databaseVars, cms, columns, restarted, grantCommand, engine>>

\* Role and membership, the scope, then the role's scope.
Seed ==
    /\ pc = "seed"
    /\ ManagePy
    /\ \/ dashboard' = tree.look /\ seeded' = TRUE /\ Goto("platforms")
       \/ dashboard' \in {dashboard, tree.look} /\ UNCHANGED seeded /\ End("1")
    /\ UNCHANGED <<setting, keyFile, database, platforms, members, granted, grantCommand, engine,
                   keyProbe>>

SeedPlatforms ==
    /\ pc = "platforms"
    /\ ManagePy
    /\ platforms' = TRUE
    /\ Goto("permissions")
    /\ UNCHANGED <<setting, keyFile, database, seeded, dashboard, members, granted, grantCommand,
                   engine, keyProbe>>

\* Mutant: a persona that exists is taken to have its grants.
ApplyPermissionsOnce ==
    /\ pc = "permissions"
    /\ ManagePy
    /\ \/ /\ members' = members \union tree.declared
          /\ granted' = IF grantCommand THEN granted \union (tree.declared \ members) ELSE granted
          /\ Goto("scope_id")
       \/ /\ \E part \in SUBSET tree.declared : members' = members \union part
          /\ UNCHANGED granted
          /\ End("1")
    /\ UNCHANGED <<setting, keyFile, database, seeded, dashboard, platforms, grantCommand, engine,
                   keyProbe>>

\* Roles and users, then the grants, one role after the other; nothing is taken
\* away that an earlier permissions.json declared.  It may stop on the way.
ApplyPermissions ==
    /\ pc = "permissions"
    /\ ManagePy
    /\ \/ /\ members' = members \union tree.declared
          /\ granted' = IF grantCommand THEN granted \union tree.declared ELSE granted
          /\ Goto("scope_id")
       \/ /\ \E part \in SUBSET tree.declared : members' = members \union part
          /\ UNCHANGED granted
          /\ End("1")
       \/ /\ grantCommand
          /\ members' = members \union tree.declared
          /\ \E part \in SUBSET tree.declared : granted' = granted \union part
          /\ End("1")
    /\ UNCHANGED <<setting, keyFile, database, seeded, dashboard, platforms, grantCommand, engine,
                   keyProbe>>

ResolveScopeId ==
    /\ pc = "scope_id"
    /\ ManagePy
    /\ Goto("upsert")
    /\ UNCHANGED <<setting, keyFile, databaseVars, grantCommand, engine, keyProbe>>

\* Mutant: the columns are written before the scope's id is looked up.
UpsertColumnsEarly ==
    /\ pc = "upsert"
    /\ cms = "up" /\ KeyIsLive
    /\ columns' \in {tree.look, ImageLook}
    /\ restarted' = FALSE
    /\ Goto("verify")
    /\ UNCHANGED <<setting, keyFile, databaseVars, cms, cached, grantCommand, engine, keyProbe>>

\* scopesUpsert through the running server, authorised by neops's role; the answer
\* to a mutation that went through may be lost.
UpsertColumns ==
    /\ pc = "upsert"
    /\ cms = "up" /\ KeyIsLive /\ seeded
    /\ QueryAsNeops
    /\ columns' = tree.look
    /\ restarted' = FALSE
    /\ Goto("verify") \/ End("1")
    /\ UNCHANGED <<setting, keyFile, databaseVars, cms, grantCommand, engine, keyProbe>>

Verify ==
    /\ pc = "verify"
    /\ cms = "up" /\ KeyIsLive
    /\ QueryAsNeops
    /\ CASE target = "local-env-init" -> Goto("recreate")
         [] target = "local-lab-up" -> Goto("up")
         [] OTHER -> End("0")
    /\ UNCHANGED <<setting, keyFile, databaseVars, cms, columns, restarted, grantCommand, engine,
                   keyProbe>>

\* Any command may fail, also for want of a CMS, and ends script and target (set -e).
Fails ==
    /\ pc # "idle"
    /\ End("1")
    /\ \/ UNCHANGED serverVars
       \/ pc \in {"mint", "platforms", "scope_id"} /\ ManagePy
    /\ UNCHANGED <<setting, keyFile, databaseVars, grantCommand, engine, keyProbe>>

(***************************************************************************)
(* The stack, on its own.                                                  *)
(***************************************************************************)

CmsStops ==
    /\ cms = "up"
    /\ cms' = "down"
    /\ cached' = "nothing"
    /\ UNCHANGED <<setting, keyFile, databaseVars, columns, restarted, grantCommand, engine, runVars>>

EngineStops ==
    /\ engine # Off
    /\ engine' = Off
    /\ UNCHANGED <<setting, keyFile, databaseVars, serverVars, grantCommand, runVars>>

\* The engine reads the CMS as neops.
EngineQueries ==
    /\ engine = database
    /\ cms = "up"
    /\ QueryAsNeops
    /\ UNCHANGED <<setting, keyFile, databaseVars, cms, columns, restarted, grantCommand, engine,
                   runVars>>

\* NEOPS_PERMISSIONS_SIMPLE_CACHE_LIFETIME, 10 minutes.
CacheExpires ==
    /\ cached # "nothing"
    /\ cached' = "nothing"
    /\ UNCHANGED <<setting, keyFile, databaseVars, cms, columns, restarted, grantCommand, engine,
                   runVars>>

Make ==
    \/ LocalEnvInit \/ LocalEnvUp \/ LocalLabUp \/ ApplyCmsConfig \/ LocalEnvDown \/ LocalEnvPrune
    \/ \E p \in Personas : LabGrant(p)

Steps == UpCms \/ Mint \/ RecreateEngine \/ UpRest \/ Fails

Script ==
    \/ ReadToken \/ ProbeKey \/ Seed \/ SeedPlatforms \/ ApplyPermissions \/ ResolveScopeId
    \/ UpsertColumns \/ Verify

Stack == CmsStops \/ EngineStops \/ EngineQueries \/ CacheExpires

Next == Make \/ Steps \/ Script \/ Stack

Spec == Init /\ [][Next]_vars

-----------------------------------------------------------------------------
(***************************************************************************)
(* Properties.                                                             *)
(***************************************************************************)

Targets == {"none", "local-env-init", "local-env-up", "local-env-down", "local-env-prune",
            "local-lab-up", "apply-cms-config", "lab-grant"}

\* The targets that run apply_cms_config.
Applying == {"local-env-init", "local-lab-up", "apply-cms-config"}

ScriptSteps == {"token", "probe", "seed", "platforms", "permissions", "scope_id", "upsert",
                "verify"}

TypeOK ==
    /\ tree \in Trees
    /\ exported \in Databases \union {NoKey, OtherKey}
    /\ keyFile \in Databases \union {NoFile, NoKey}
    /\ database \in Databases
    /\ dashboard \in Looks \union {ImageLook}
    /\ columns \in Looks \union {ImageLook}
    /\ seeded \in BOOLEAN
    /\ platforms \in BOOLEAN
    /\ grantCommand \in BOOLEAN
    /\ restarted \in BOOLEAN
    /\ members \subseteq Personas
    /\ granted \subseteq Personas
    /\ cms \in {"up", "down"}
    /\ cached \in {"nothing", "no_scope", "scope"}
    /\ engine \in Databases \union {Off}
    /\ target \in Targets
    /\ pc \in {"idle", "up_cms", "mint", "recreate", "up"} \union ScriptSteps
    /\ keyProbe \in {"none", "valid", "invalid", "no_answer"}
    /\ exit \in {"none", "0", "1"}

Succeeded(ts) == pc = "idle" /\ exit = "0" /\ target \in ts

\* A target that ran apply_cms_config to its end left the CMS as the resolved tree
\* declares it, whatever half-finished runs, restarts and grants came before: role,
\* scope, platforms, personas, their grants where the image can grant, dashboard
\* and columns, the columns unless the server was started again after they were
\* written.
SuccessMeansConfigured ==
    Succeeded(Applying) =>
        /\ seeded
        /\ platforms
        /\ tree.declared \subseteq members
        /\ grantCommand => tree.declared \subseteq granted
        /\ dashboard = tree.look
        /\ columns = tree.look \/ restarted

\* A run with a key of another database or CMS, from the file or exported, gets past
\* the probe only when the probe was not answered, and never to a successful end.
DeadKeyIsNamedEarly ==
    target \in Applying /\ ~KeyIsLive =>
        /\ pc \in ScriptSteps \ {"token", "probe"} => keyProbe = "no_answer"
        /\ ~Succeeded(Applying)

\* After local-env-init the engine that runs holds a key of this database, also one
\* that was left over from before, and until the next target.
InitReachesTheEngine ==
    Succeeded({"local-env-init"}) /\ engine # Off => engine = database

\* Where local-env-init, or local-lab-up without an exported key, comes to start the
\* engine, the file the engine reads holds a key of this database: no placeholder,
\* which it would refuse and the whole `up` with it, and no dead key.  An exported key
\* gets local-lab-up there without a look at the file.
EngineIsStartedWithAKey ==
    pc \in {"recreate", "up"} =>
        /\ target = "local-env-init" => keyFile = database
        /\ target = "local-lab-up" /\ exported = NoKey => keyFile = database

\* The grant comes before the first query as neops, so that what the CMS caches is
\* the grant and local-env-init ends with the Global scope visible, as the comment
\* in local-env-init has it.
FirstQueryCachesTheGrant ==
    Succeeded({"local-env-init"}) => cached # "no_scope"

=============================================================================
