-------------------------- MODULE CmsConfigProofs --------------------------
(***************************************************************************)
(* What a successful target says about the CMS, the key and the engine,    *)
(* for any personas, looks and number of databases.                        *)
(***************************************************************************)
EXTENDS CmsConfig, TLAPS

\* Which target is at which step.
TargetInv ==
    /\ pc \in ScriptSteps => target \in Applying
    /\ pc = "up_cms" => target \in {"local-env-init", "local-lab-up"}
    /\ pc \in {"mint", "recreate"} => target = "local-env-init"
    /\ pc = "up" => target \in {"local-env-init", "local-lab-up", "local-env-up"}
    /\ pc # "idle" => exit = "none"

\* The script has come through the named steps, or with them to a successful end.
Past(steps) ==
    \/ pc \in steps \union {"recreate"}
    \/ pc = "up" /\ target \in Applying
    \/ Succeeded(Applying)

\* Past the probe the key in use is live unless the probe was not answered; past the
\* columns it is live.
KeyInv ==
    /\ pc \in ScriptSteps \ {"token", "probe"} => KeyIsLive \/ keyProbe = "no_answer"
    /\ Past({"verify"}) => KeyIsLive

\* What each step wrote is still there.
SeedInv ==
    Past({"platforms", "permissions", "scope_id", "upsert", "verify"}) =>
        seeded /\ dashboard = tree.look

PlatformsInv == Past({"permissions", "scope_id", "upsert", "verify"}) => platforms

PermissionsInv ==
    Past({"scope_id", "upsert", "verify"}) =>
        /\ tree.declared \subseteq members
        /\ grantCommand => tree.declared \subseteq granted

\* The columns are written last: no manage.py command follows.
ColumnsInv == Past({"verify"}) => columns = tree.look \/ restarted

\* Past its mint, local-env-init finds in the file a key of this database.
MintedInv ==
    target = "local-env-init" /\ pc \in ScriptSteps \union {"recreate", "up"} =>
        keyFile = database

\* The engine was recreated with the key that was minted.
EngineInv ==
    target = "local-env-init" /\ (pc = "up" \/ Succeeded(Applying)) => engine \in {database, Off}

IInv ==
    /\ TypeOK /\ TargetInv /\ KeyInv /\ SeedInv /\ PlatformsInv /\ PermissionsInv /\ ColumnsInv
    /\ MintedInv /\ EngineInv

-----------------------------------------------------------------------------

\* The type of what belongs to the server.
ServerType ==
    /\ cms \in {"up", "down"}
    /\ columns \in Looks \union {ImageLook}
    /\ cached \in {"nothing", "no_scope", "scope"}
    /\ restarted \in BOOLEAN

\* Starting it, finding it running and a manage.py command respect it.
LEMMA ServerStep ==
    ASSUME TypeOK, StartServer \/ UNCHANGED serverVars \/ ManagePy
    PROVE  ServerType'
  <1>1. CASE StartServer
    BY <1>1 DEF StartServer, ServerType
  <1>2. CASE UNCHANGED serverVars
    BY <1>2 DEF serverVars, TypeOK, ServerType
  <1>3. CASE ManagePy
    BY <1>3 DEF ManagePy, TypeOK, ServerType
  <1> QED BY <1>1, <1>2, <1>3

\* What a resolved tree declares.
LEMMA TreeType == tree \in Trees => tree.look \in Looks /\ tree.declared \subseteq Personas
  BY DEF Trees

\* What may be exported is a key: of this database, an earlier one or another CMS.
LEMMA ExportedType ==
    ASSUME TypeOK, NEW t, Start(t)
    PROVE  exported' \in Databases \union {NoKey, OtherKey}
  <1>1. 1..database \subseteq Databases
    BY CmsAssumption DEF TypeOK, Databases, CmsAssumption
  <1> QED BY <1>1 DEF Start

\* The initial states satisfy the invariant.
LEMMA InitIInv == Init => IInv
  <1> SUFFICES ASSUME Init PROVE IInv
    OBVIOUS
  <1>1. 1 \in Databases
    BY CmsAssumption DEF CmsAssumption, Databases
  <1>2. TypeOK
    BY <1>1 DEF Init, TypeOK, Targets, ScriptSteps
  <1>3. TargetInv /\ KeyInv /\ SeedInv /\ PlatformsInv /\ PermissionsInv /\ ColumnsInv
        /\ MintedInv /\ EngineInv
    BY DEF Init, TargetInv, KeyInv, SeedInv, PlatformsInv, PermissionsInv, ColumnsInv, MintedInv,
        EngineInv, Past, Succeeded, Applying, ScriptSteps
  <1> QED BY <1>2, <1>3 DEF IInv

\* Every step of make, the script and the stack preserves the invariant.
LEMMA NextIInv == IInv /\ [Next]_vars => IInv'
  <1> SUFFICES ASSUME IInv, [Next]_vars PROVE IInv'
    OBVIOUS
  <1> USE DEF IInv, Past, Succeeded, Applying, ScriptSteps, Targets, KeyIsLive,
        Token, setting, databaseVars, serverVars, runVars
  <1>1. CASE LocalEnvInit
    <2>1. TypeOK'
      <3>1. exported' \in Databases \union {NoKey, OtherKey}
        BY <1>1, ExportedType DEF LocalEnvInit
      <3> QED BY <1>1, <3>1 DEF LocalEnvInit, Start, TypeOK
    <2>2. (TargetInv /\ KeyInv /\ SeedInv /\ PlatformsInv)'
      BY <1>1 DEF LocalEnvInit, Start, TypeOK, TargetInv, KeyInv, SeedInv, PlatformsInv
    <2>3. (PermissionsInv /\ ColumnsInv /\ MintedInv /\ EngineInv)'
      BY <1>1 DEF LocalEnvInit, Start, TypeOK, TargetInv, KeyInv, PermissionsInv,
          ColumnsInv, MintedInv, EngineInv
    <2> QED BY <2>1, <2>2, <2>3
  <1>2. CASE LocalEnvUp
    <2>1. TypeOK'
      <3>1. exported' \in Databases \union {NoKey, OtherKey}
        BY <1>2, ExportedType DEF LocalEnvUp, StartWithKeyFile
      <3> QED BY <1>2, <3>1 DEF LocalEnvUp, Start, StartWithKeyFile, TypeOK
    <2>2. (TargetInv /\ KeyInv /\ SeedInv /\ PlatformsInv)'
      BY <1>2 DEF LocalEnvUp, Start, StartWithKeyFile, TypeOK, TargetInv, KeyInv, SeedInv,
          PlatformsInv
    <2>3. (PermissionsInv /\ ColumnsInv /\ MintedInv /\ EngineInv)'
      BY <1>2 DEF LocalEnvUp, Start, StartWithKeyFile, TypeOK, TargetInv, KeyInv,
          PermissionsInv,
          ColumnsInv, MintedInv, EngineInv
    <2> QED BY <2>1, <2>2, <2>3
  <1>3. CASE LocalLabUp
    <2>1. TypeOK'
      <3>1. exported' \in Databases \union {NoKey, OtherKey}
        BY <1>3, ExportedType DEF LocalLabUp, StartWithKeyFile
      <3> QED BY <1>3, <3>1 DEF LocalLabUp, Start, StartWithKeyFile, TypeOK
    <2>2. (TargetInv /\ KeyInv /\ SeedInv /\ PlatformsInv)'
      BY <1>3 DEF LocalLabUp, Start, StartWithKeyFile, TypeOK, TargetInv, KeyInv, SeedInv,
          PlatformsInv
    <2>3. (PermissionsInv /\ ColumnsInv /\ MintedInv /\ EngineInv)'
      BY <1>3 DEF LocalLabUp, Start, StartWithKeyFile, TypeOK, TargetInv, KeyInv,
          PermissionsInv,
          ColumnsInv, MintedInv, EngineInv
    <2> QED BY <2>1, <2>2, <2>3
  <1>4. CASE ApplyCmsConfig
    <2>1. TypeOK'
      <3>1. exported' \in Databases \union {NoKey, OtherKey}
        BY <1>4, ExportedType DEF ApplyCmsConfig
      <3> QED BY <1>4, <3>1 DEF ApplyCmsConfig, Start, TypeOK
    <2>2. (TargetInv /\ KeyInv /\ SeedInv /\ PlatformsInv)'
      BY <1>4 DEF ApplyCmsConfig, Start, TypeOK, TargetInv, KeyInv, SeedInv, PlatformsInv
    <2>3. (PermissionsInv /\ ColumnsInv /\ MintedInv /\ EngineInv)'
      BY <1>4 DEF ApplyCmsConfig, Start, TypeOK, TargetInv, KeyInv, PermissionsInv,
          ColumnsInv, MintedInv, EngineInv
    <2> QED BY <2>1, <2>2, <2>3
  <1>5. CASE LocalEnvDown
    <2>1. TypeOK'
      BY <1>5 DEF LocalEnvDown, Down, TypeOK
    <2>2. (TargetInv /\ KeyInv /\ SeedInv /\ PlatformsInv)'
      BY <1>5 DEF LocalEnvDown, Down, TypeOK, TargetInv, KeyInv, SeedInv, PlatformsInv
    <2>3. (PermissionsInv /\ ColumnsInv /\ MintedInv /\ EngineInv)'
      BY <1>5 DEF LocalEnvDown, Down, TypeOK, TargetInv, KeyInv, PermissionsInv,
          ColumnsInv, MintedInv, EngineInv
    <2> QED BY <2>1, <2>2, <2>3
  <1>6. CASE LocalEnvPrune
    <2>0. database + 1 \in Databases
      BY <1>6, CmsAssumption DEF LocalEnvPrune, TypeOK, Databases, CmsAssumption
    <2>1. TypeOK'
      BY <1>6, <2>0 DEF LocalEnvPrune, Down, TypeOK
    <2>2. (TargetInv /\ KeyInv /\ SeedInv /\ PlatformsInv)'
      BY <1>6 DEF LocalEnvPrune, Down, TypeOK, TargetInv, KeyInv, SeedInv, PlatformsInv
    <2>3. (PermissionsInv /\ ColumnsInv /\ MintedInv /\ EngineInv)'
      BY <1>6 DEF LocalEnvPrune, Down, TypeOK, TargetInv, KeyInv, PermissionsInv,
          ColumnsInv, MintedInv, EngineInv
    <2> QED BY <2>1, <2>2, <2>3
  <1>7. CASE UpCms
    <2>1. TypeOK'
      <3>1. ServerType'
        BY <1>7, ServerStep DEF UpCms
      <3> QED BY <1>7, <3>1 DEF UpCms, Goto, TypeOK, ServerType
    <2>2. (TargetInv /\ KeyInv /\ SeedInv /\ PlatformsInv)'
      BY <1>7 DEF UpCms, StartServer, Goto, TypeOK, TargetInv, KeyInv, SeedInv, PlatformsInv
    <2>3. (PermissionsInv /\ ColumnsInv /\ MintedInv /\ EngineInv)'
      BY <1>7 DEF UpCms, StartServer, Goto, TypeOK, TargetInv, KeyInv, PermissionsInv,
          ColumnsInv, MintedInv, EngineInv
    <2> QED BY <2>1, <2>2, <2>3
  <1>8. CASE Mint
    <2>1. TypeOK'
      BY <1>8 DEF Mint, ManagePy, Goto, TypeOK
    <2>2. (TargetInv /\ KeyInv /\ SeedInv /\ PlatformsInv)'
      BY <1>8 DEF Mint, ManagePy, Goto, TypeOK, TargetInv, KeyInv, SeedInv, PlatformsInv
    <2>3. (PermissionsInv /\ ColumnsInv /\ MintedInv /\ EngineInv)'
      BY <1>8 DEF Mint, ManagePy, Goto, TypeOK, TargetInv, KeyInv, PermissionsInv,
          ColumnsInv, MintedInv, EngineInv
    <2> QED BY <2>1, <2>2, <2>3
  <1>9. CASE RecreateEngine
    <2>1. TypeOK'
      <3>1. ServerType'
        BY <1>9, ServerStep DEF RecreateEngine
      <3>2. keyFile \in Databases
        BY <1>9 DEF RecreateEngine, TypeOK, TargetInv, MintedInv
      <3> QED BY <1>9, <3>1, <3>2 DEF RecreateEngine, Goto, TypeOK, ServerType
    <2>2. (TargetInv /\ KeyInv /\ SeedInv /\ PlatformsInv)'
      BY <1>9 DEF RecreateEngine, StartServer, Goto, TypeOK, TargetInv, KeyInv, SeedInv,
          PlatformsInv
    <2>3. (PermissionsInv /\ ColumnsInv /\ MintedInv /\ EngineInv)'
      BY <1>9 DEF RecreateEngine, StartServer, Goto, TypeOK, TargetInv, KeyInv, PermissionsInv,
          ColumnsInv, MintedInv, EngineInv
    <2> QED BY <2>1, <2>2, <2>3
  <1>10. CASE UpRest
    <2>1. TypeOK'
      <3>1. ServerType'
        BY <1>10, ServerStep DEF UpRest
      <3> QED BY <1>10, <3>1 DEF UpRest, End, TypeOK, ServerType
    <2>2. (TargetInv /\ KeyInv /\ SeedInv /\ PlatformsInv)'
      BY <1>10 DEF UpRest, StartServer, End, TypeOK, TargetInv, KeyInv, SeedInv, PlatformsInv
    <2>3. (PermissionsInv /\ ColumnsInv /\ MintedInv /\ EngineInv)'
      BY <1>10 DEF UpRest, StartServer, End, TypeOK, TargetInv, KeyInv, PermissionsInv,
          ColumnsInv, MintedInv, EngineInv
    <2> QED BY <2>1, <2>2, <2>3
  <1>11. CASE Fails
    <2>1. TypeOK'
      BY <1>11 DEF Fails, ManagePy, End, TypeOK
    <2>2. (TargetInv /\ KeyInv /\ SeedInv /\ PlatformsInv)'
      BY <1>11 DEF Fails, ManagePy, End, TypeOK, TargetInv, KeyInv, SeedInv, PlatformsInv
    <2>3. (PermissionsInv /\ ColumnsInv /\ MintedInv /\ EngineInv)'
      BY <1>11 DEF Fails, ManagePy, End, TypeOK, TargetInv, KeyInv, PermissionsInv,
          ColumnsInv, MintedInv, EngineInv
    <2> QED BY <2>1, <2>2, <2>3
  <1>12. CASE ReadToken
    <2>1. TypeOK'
      BY <1>12 DEF ReadToken, Goto, End, TypeOK
    <2>2. (TargetInv /\ KeyInv /\ SeedInv /\ PlatformsInv)'
      BY <1>12 DEF ReadToken, Goto, End, TypeOK, TargetInv, KeyInv, SeedInv, PlatformsInv
    <2>3. (PermissionsInv /\ ColumnsInv /\ MintedInv /\ EngineInv)'
      BY <1>12 DEF ReadToken, Goto, End, TypeOK, TargetInv, KeyInv, PermissionsInv,
          ColumnsInv, MintedInv, EngineInv
    <2> QED BY <2>1, <2>2, <2>3
  <1>13. CASE ProbeKey
    <2>1. TypeOK'
      BY <1>13 DEF ProbeKey, QueryAsNeops, Goto, End, TypeOK
    <2>2. (TargetInv /\ KeyInv /\ SeedInv /\ PlatformsInv)'
      BY <1>13 DEF ProbeKey, QueryAsNeops, Goto, End, TypeOK, TargetInv, KeyInv, SeedInv,
          PlatformsInv
    <2>3. (PermissionsInv /\ ColumnsInv /\ MintedInv /\ EngineInv)'
      BY <1>13 DEF ProbeKey, QueryAsNeops, Goto, End, TypeOK, TargetInv, KeyInv, PermissionsInv,
          ColumnsInv, MintedInv, EngineInv
    <2> QED BY <2>1, <2>2, <2>3
  <1>14. CASE Seed
    <2>1. TypeOK'
      <3>1. ServerType'
        BY <1>14, ServerStep DEF Seed
      <3>2. dashboard' \in Looks \union {ImageLook} /\ seeded' \in BOOLEAN
        BY <1>14, TreeType DEF Seed, TypeOK
      <3>3. pc' \in {"platforms", "idle"} /\ exit' \in {exit, "1"} /\ UNCHANGED target
        BY <1>14 DEF Seed, Goto, End
      <3> QED BY <1>14, <3>1, <3>2, <3>3 DEF Seed, TypeOK, ServerType
    <2>2. (TargetInv /\ KeyInv /\ SeedInv /\ PlatformsInv)'
      BY <1>14 DEF Seed, ManagePy, Goto, End, TypeOK, TargetInv, KeyInv, SeedInv, PlatformsInv
    <2>3. (PermissionsInv /\ ColumnsInv /\ MintedInv /\ EngineInv)'
      BY <1>14 DEF Seed, ManagePy, Goto, End, TypeOK, TargetInv, KeyInv, PermissionsInv,
          ColumnsInv, MintedInv, EngineInv
    <2> QED BY <2>1, <2>2, <2>3
  <1>15. CASE SeedPlatforms
    <2>1. TypeOK'
      BY <1>15 DEF SeedPlatforms, ManagePy, Goto, TypeOK
    <2>2. (TargetInv /\ KeyInv /\ SeedInv /\ PlatformsInv)'
      BY <1>15 DEF SeedPlatforms, ManagePy, Goto, TypeOK, TargetInv, KeyInv, SeedInv, PlatformsInv
    <2>3. (PermissionsInv /\ ColumnsInv /\ MintedInv /\ EngineInv)'
      BY <1>15 DEF SeedPlatforms, ManagePy, Goto, TypeOK, TargetInv, KeyInv, PermissionsInv,
          ColumnsInv, MintedInv, EngineInv
    <2> QED BY <2>1, <2>2, <2>3
  <1>16. CASE ApplyPermissions
    <2>1. TypeOK'
      <3>1. ServerType'
        BY <1>16, ServerStep DEF ApplyPermissions
      <3> QED BY <1>16, <3>1, TreeType DEF ApplyPermissions, Goto, End, TypeOK, ServerType
    <2>2. (TargetInv /\ KeyInv /\ SeedInv /\ PlatformsInv)'
      BY <1>16 DEF ApplyPermissions, ManagePy, Goto, End, TypeOK, TargetInv, KeyInv, SeedInv,
          PlatformsInv
    <2>3. (PermissionsInv /\ ColumnsInv /\ MintedInv /\ EngineInv)'
      BY <1>16 DEF ApplyPermissions, ManagePy, Goto, End, TypeOK, TargetInv, KeyInv,
          PermissionsInv,
          ColumnsInv, MintedInv, EngineInv
    <2> QED BY <2>1, <2>2, <2>3
  <1>17. CASE ResolveScopeId
    <2>1. TypeOK'
      BY <1>17 DEF ResolveScopeId, ManagePy, Goto, TypeOK
    <2>2. (TargetInv /\ KeyInv /\ SeedInv /\ PlatformsInv)'
      BY <1>17 DEF ResolveScopeId, ManagePy, Goto, TypeOK, TargetInv, KeyInv, SeedInv,
          PlatformsInv
    <2>3. (PermissionsInv /\ ColumnsInv /\ MintedInv /\ EngineInv)'
      BY <1>17 DEF ResolveScopeId, ManagePy, Goto, TypeOK, TargetInv, KeyInv, PermissionsInv,
          ColumnsInv, MintedInv, EngineInv
    <2> QED BY <2>1, <2>2, <2>3
  <1>18. CASE UpsertColumns
    <2>1. TypeOK'
      <3>1. columns' \in Looks /\ restarted' \in BOOLEAN /\ UNCHANGED cms
        BY <1>18, TreeType DEF UpsertColumns, TypeOK
      <3>2. cached' \in {"nothing", "no_scope", "scope"}
        BY <1>18 DEF UpsertColumns, QueryAsNeops, TypeOK
      <3>3. pc' \in {"verify", "idle"} /\ exit' \in {exit, "1"} /\ UNCHANGED target
        BY <1>18 DEF UpsertColumns, Goto, End
      <3> QED BY <1>18, <3>1, <3>2, <3>3 DEF UpsertColumns, TypeOK
    <2>2. (TargetInv /\ KeyInv /\ SeedInv /\ PlatformsInv)'
      BY <1>18 DEF UpsertColumns, QueryAsNeops, Goto, End, TypeOK, TargetInv, KeyInv, SeedInv,
          PlatformsInv
    <2>3. (PermissionsInv /\ ColumnsInv /\ MintedInv /\ EngineInv)'
      BY <1>18 DEF UpsertColumns, QueryAsNeops, Goto, End, TypeOK, TargetInv, KeyInv,
          PermissionsInv,
          ColumnsInv, MintedInv, EngineInv
    <2> QED BY <2>1, <2>2, <2>3
  <1>19. CASE Verify
    <2>1. TypeOK'
      BY <1>19 DEF Verify, QueryAsNeops, Goto, End, TypeOK
    <2>2. (TargetInv /\ KeyInv /\ SeedInv /\ PlatformsInv)'
      BY <1>19 DEF Verify, QueryAsNeops, Goto, End, TypeOK, TargetInv, KeyInv, SeedInv,
          PlatformsInv
    <2>3. (PermissionsInv /\ ColumnsInv /\ MintedInv /\ EngineInv)'
      BY <1>19 DEF Verify, QueryAsNeops, Goto, End, TypeOK, TargetInv, KeyInv, PermissionsInv,
          ColumnsInv, MintedInv, EngineInv
    <2> QED BY <2>1, <2>2, <2>3
  <1>20. CASE CmsStops
    <2>1. TypeOK'
      BY <1>20 DEF CmsStops, TypeOK
    <2>2. (TargetInv /\ KeyInv /\ SeedInv /\ PlatformsInv)'
      BY <1>20 DEF CmsStops, TypeOK, TargetInv, KeyInv, SeedInv, PlatformsInv
    <2>3. (PermissionsInv /\ ColumnsInv /\ MintedInv /\ EngineInv)'
      BY <1>20 DEF CmsStops, TypeOK, TargetInv, KeyInv, PermissionsInv,
          ColumnsInv, MintedInv, EngineInv
    <2> QED BY <2>1, <2>2, <2>3
  <1>21. CASE EngineStops
    <2>1. TypeOK'
      BY <1>21 DEF EngineStops, TypeOK
    <2>2. (TargetInv /\ KeyInv /\ SeedInv /\ PlatformsInv)'
      BY <1>21 DEF EngineStops, TypeOK, TargetInv, KeyInv, SeedInv, PlatformsInv
    <2>3. (PermissionsInv /\ ColumnsInv /\ MintedInv /\ EngineInv)'
      BY <1>21 DEF EngineStops, TypeOK, TargetInv, KeyInv, PermissionsInv,
          ColumnsInv, MintedInv, EngineInv
    <2> QED BY <2>1, <2>2, <2>3
  <1>22. CASE EngineQueries
    <2>1. TypeOK'
      BY <1>22 DEF EngineQueries, QueryAsNeops, TypeOK
    <2>2. (TargetInv /\ KeyInv /\ SeedInv /\ PlatformsInv)'
      BY <1>22 DEF EngineQueries, QueryAsNeops, TypeOK, TargetInv, KeyInv, SeedInv, PlatformsInv
    <2>3. (PermissionsInv /\ ColumnsInv /\ MintedInv /\ EngineInv)'
      BY <1>22 DEF EngineQueries, QueryAsNeops, TypeOK, TargetInv, KeyInv, PermissionsInv,
          ColumnsInv, MintedInv, EngineInv
    <2> QED BY <2>1, <2>2, <2>3
  <1>23. CASE CacheExpires
    <2>1. TypeOK'
      BY <1>23 DEF CacheExpires, TypeOK
    <2>2. (TargetInv /\ KeyInv /\ SeedInv /\ PlatformsInv)'
      BY <1>23 DEF CacheExpires, TypeOK, TargetInv, KeyInv, SeedInv, PlatformsInv
    <2>3. (PermissionsInv /\ ColumnsInv /\ MintedInv /\ EngineInv)'
      BY <1>23 DEF CacheExpires, TypeOK, TargetInv, KeyInv, PermissionsInv,
          ColumnsInv, MintedInv, EngineInv
    <2> QED BY <2>1, <2>2, <2>3
  <1>24. CASE \E p \in Personas : LabGrant(p)
    <2>1. TypeOK'
      BY <1>24 DEF LabGrant, ManagePy, TypeOK
    <2>2. (TargetInv /\ KeyInv /\ SeedInv /\ PlatformsInv)'
      BY <1>24 DEF LabGrant, ManagePy, TypeOK, TargetInv, KeyInv, SeedInv, PlatformsInv
    <2>3. (PermissionsInv /\ ColumnsInv /\ MintedInv /\ EngineInv)'
      BY <1>24 DEF LabGrant, ManagePy, TypeOK, TargetInv, KeyInv, PermissionsInv,
          ColumnsInv, MintedInv, EngineInv
    <2> QED BY <2>1, <2>2, <2>3
  <1>25. CASE UNCHANGED vars
    BY <1>25 DEF vars, TypeOK, TargetInv, KeyInv, SeedInv, PlatformsInv, PermissionsInv,
        ColumnsInv, MintedInv, EngineInv
  <1> QED
    BY <1>1, <1>2, <1>3, <1>4, <1>5, <1>6, <1>7, <1>8, <1>9, <1>10, <1>11, <1>12, <1>13, <1>14,
        <1>15, <1>16, <1>17, <1>18, <1>19, <1>20, <1>21, <1>22, <1>23, <1>24, <1>25 DEF Next,
        Make, Steps, Script, Stack

\* So it holds of every state the targets reach.
LEMMA Invariance == Spec => []IInv
  <1> QED BY InitIInv, NextIInv, PTL DEF Spec

\* Every variable keeps its type, for any personas, looks and number of databases.
THEOREM TypeCorrectness == Spec => []TypeOK
  <1>1. IInv => TypeOK
    BY DEF IInv
  <1> QED BY Invariance, <1>1, PTL

\* A target that ran apply_cms_config to its end left the CMS as declared, however
\* many half-finished runs came before.
THEOREM ConfiguredTheorem == Spec => []SuccessMeansConfigured
  <1>1. IInv => SuccessMeansConfigured
    BY DEF IInv, SuccessMeansConfigured, SeedInv, PlatformsInv, PermissionsInv, ColumnsInv, Past
  <1> QED BY Invariance, <1>1, PTL

\* A key of another database or CMS, exported or from the file, is named at the probe
\* and never ends in success.
THEOREM DeadKeyTheorem == Spec => []DeadKeyIsNamedEarly
  <1>1. IInv => DeadKeyIsNamedEarly
    BY DEF IInv, DeadKeyIsNamedEarly, KeyInv, Past
  <1> QED BY Invariance, <1>1, PTL

\* The engine that runs after local-env-init holds a key of this database.
THEOREM EngineKeyTheorem == Spec => []InitReachesTheEngine
  <1>1. IInv => InitReachesTheEngine
    BY DEF IInv, InitReachesTheEngine, EngineInv, Succeeded, Applying
  <1> QED BY Invariance, <1>1, PTL

\* local-env-init, and local-lab-up unless a key is exported, start the engine only
\* over a file that holds a key of this database.
THEOREM EngineStartTheorem == Spec => []EngineIsStartedWithAKey
  <1>1. IInv => EngineIsStartedWithAKey
    BY DEF IInv, EngineIsStartedWithAKey, MintedInv, KeyInv, KeyIsLive, Token, Past, Applying
  <1> QED BY Invariance, <1>1, PTL

\* Where the CMS comes to remember that neops sees no scope: at the key probe, or
\* for an engine that runs before the grant.  The column writes and the check at
\* the script's end never do it, and from the grant on nothing does, until a prune.
StaleCacheOrigin ==
    [][cached # "no_scope" /\ cached' = "no_scope" =>
         ~seeded /\ (pc = "probe" \/ engine = database)]_vars

\* Nothing but the two queries before the grant makes the CMS cache its absence,
\* for any personas, looks and number of databases.
THEOREM StaleCacheTheorem == Spec => StaleCacheOrigin
  <1>1. IInv /\ [Next]_vars =>
          [cached # "no_scope" /\ cached' = "no_scope" =>
             ~seeded /\ (pc = "probe" \/ engine = database)]_vars
    <2> SUFFICES ASSUME IInv, Next, cached # "no_scope", cached' = "no_scope"
                 PROVE  ~seeded /\ (pc = "probe" \/ engine = database)
      OBVIOUS
    <2> USE DEF setting, databaseVars, serverVars, runVars
    <2>1. CASE Make
      BY <2>1 DEF Make, LocalEnvInit, LocalEnvUp, LocalLabUp, ApplyCmsConfig, Start,
         StartWithKeyFile, LocalEnvDown, LocalEnvPrune, Down, LabGrant, ManagePy
    <2>2. CASE Steps
      BY <2>2 DEF Steps, UpCms, Mint, RecreateEngine, UpRest, Fails, StartServer, ManagePy
    <2>3. CASE Script
      <3>1. CASE Verify
        BY <3>1 DEF Verify, QueryAsNeops, IInv, SeedInv, Past
      <3>2. CASE ProbeKey \/ UpsertColumns
        BY <3>2 DEF ProbeKey, UpsertColumns, QueryAsNeops
      <3> QED
        BY <2>3, <3>1, <3>2 DEF Script, ReadToken, Seed, SeedPlatforms, ApplyPermissions,
           ResolveScopeId, ManagePy
    <2>4. CASE Stack
      BY <2>4 DEF Stack, CmsStops, EngineStops, EngineQueries, CacheExpires, QueryAsNeops
    <2> QED BY <2>1, <2>2, <2>3, <2>4 DEF Next
  <1> QED
    BY <1>1, Invariance, PTL DEF Spec, StaleCacheOrigin

=============================================================================
