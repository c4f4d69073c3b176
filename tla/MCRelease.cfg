SPECIFICATION Spec
CONSTANTS
    root = root
    main = main
    alice = alice
    bob = bob
    Commits <- MCCommits
    Ancestry <- MCAncestry
    OnPatchBranch <- MCOnPatchBranch
    Clones <- MCClones
    Levels = {"patch", "major"}
    MaxTags = 3
    NoTag = NoTag
SYMMETRY CloneSymmetry
INVARIANTS
    TypeOK
    NumberAboveKnown
    OrderedUnlessBlind
PROPERTY BetaIsAhead
