--------------------------- MODULE ReleaseProofs ---------------------------
(***************************************************************************)
(* What release.py guarantees for any commit graph, any number of clones   *)
(* and whatever the remote brings.                                         *)
(***************************************************************************)
EXTENDS Release, TLAPS

\* Empty, or with a highest version: what makes Highest well defined.  It is carried
\* along as an invariant, because tags only ever come together by unions.
Topped(versions) == versions = {} \/ \E v \in versions : \A w \in versions : ~Below(v, w)

\* Every set of versions a command takes the highest of.
Tops(ts) ==
    /\ Topped(VersionsOf(ts))
    /\ Topped(stable_versions(ts))
    /\ Topped(BetasOf(ts))
    /\ \A base \in Version : Topped(_existing_betas_for(base, ts))

OneCommit(ts) == \A t, u \in ts : t.version = u.version => t.commit = u.commit

Sound(ts) == ts \subseteq Tag /\ Tops(ts) /\ OneCommit(ts)

-----------------------------------------------------------------------------
(* Versions *)

LEMMA VersionFields ==
    ASSUME NEW v \in Version
    PROVE  /\ v.major \in Nat /\ v.minor \in Nat /\ v.patch \in Nat /\ v.beta \in Nat
           /\ v = [major |-> v.major, minor |-> v.minor, patch |-> v.patch, beta |-> v.beta]
  BY DEF Version

\* Precedence is a strict total order.
LEMMA BelowOrder ==
    ASSUME NEW u \in Version, NEW v \in Version, NEW w \in Version
    PROVE  /\ ~Below(v, v)
           /\ Below(u, v) => ~Below(v, u)
           /\ Below(u, v) /\ Below(v, w) => Below(u, w)
           /\ u # v => Below(u, v) \/ Below(v, u)
  <1>1. u # v => ~(u.major = v.major /\ u.minor = v.minor /\ u.patch = v.patch
                     /\ u.beta = v.beta)
    BY VersionFields
  <1> QED
    BY <1>1, VersionFields DEF Below, BaseBelow, SameBase

\* Two sets that have a highest version have one together.
LEMMA ToppedUnion ==
    ASSUME NEW S \in SUBSET Version, NEW T \in SUBSET Version, Topped(S), Topped(T)
    PROVE  Topped(S \union T)
  <1>1. CASE S = {} \/ T = {}
    BY <1>1 DEF Topped
  <1>2. CASE S # {} /\ T # {}
    <2>1. PICK v \in S : \A x \in S : ~Below(v, x)
      BY <1>2 DEF Topped
    <2>2. PICK w \in T : \A x \in T : ~Below(w, x)
      BY <1>2 DEF Topped
    <2>3. CASE Below(v, w)
      <3>1. \A x \in S : ~Below(w, x)
        BY <2>1, <2>3, BelowOrder
      <3> QED
        BY <2>2, <3>1 DEF Topped
    <2>4. CASE ~Below(v, w)
      <3>1. \A x \in T : ~Below(v, x)
        BY <2>2, <2>4, BelowOrder
      <3> QED
        BY <2>1, <3>1 DEF Topped
    <2> QED
      BY <2>3, <2>4
  <1> QED
    BY <1>1, <1>2

LEMMA ToppedSingle ==
    ASSUME NEW v \in Version
    PROVE  Topped({v})
  BY BelowOrder DEF Topped

LEMMA HighestIsHighest ==
    ASSUME NEW S, S # {}, Topped(S)
    PROVE  Highest(S) \in S /\ \A w \in S : ~Below(Highest(S), w)
  BY DEF Topped, Highest

-----------------------------------------------------------------------------
(* Sets of tags *)

\* Whose versions are the union of two such sets' has its highest versions too.
LEMMA TopsUnion ==
    ASSUME NEW ts \in SUBSET Tag, NEW us \in SUBSET Tag, NEW vs \in SUBSET Tag,
           Tops(ts), Tops(us), VersionsOf(vs) = VersionsOf(ts) \union VersionsOf(us)
    PROVE  Tops(vs)
  <1> DEFINE Vs(xs) == VersionsOf(xs)
             Stable(xs) == {v \in Vs(xs) : v.beta = 0}
             Betas(xs, base) == {v \in Vs(xs) : v.beta # 0 /\ SameBase(v, base)}
  <1>1. \A xs \in SUBSET Tag :
            /\ Vs(xs) \subseteq Version
            /\ stable_versions(xs) = Stable(xs)
            /\ \A base \in Version : _existing_betas_for(base, xs) = Betas(xs, base)
    BY DEF VersionsOf, Tag, stable_versions, StableOf, BetasOf, _existing_betas_for
  <1>2. Topped(Vs(vs))
    BY <1>1, ToppedUnion DEF Tops
  <1>3. Topped(stable_versions(vs))
    <2>1. stable_versions(vs) = stable_versions(ts) \union stable_versions(us)
      BY <1>1
    <2> QED
      BY <1>1, <2>1, ToppedUnion DEF Tops
  <1>4. Topped(BetasOf(vs))
    <2>1. BetasOf(vs) = BetasOf(ts) \union BetasOf(us)
      BY DEF BetasOf
    <2> QED
      BY <1>1, <2>1, ToppedUnion DEF Tops, BetasOf
  <1>5. ASSUME NEW base \in Version PROVE Topped(_existing_betas_for(base, vs))
    <2>1. _existing_betas_for(base, vs)
            = _existing_betas_for(base, ts) \union _existing_betas_for(base, us)
      BY <1>1
    <2> QED
      BY <1>1, <2>1, ToppedUnion DEF Tops
  <1> QED
    BY <1>2, <1>3, <1>4, <1>5 DEF Tops

LEMMA TopsNone == Tops({})
  BY DEF Tops, Topped, VersionsOf, stable_versions, StableOf, BetasOf, _existing_betas_for

LEMMA TopsSingle ==
    ASSUME NEW t \in Tag
    PROVE  Tops({t})
  <1>1. t.version \in Version
    BY DEF Tag
  <1>2. \A S \in SUBSET {t.version} : Topped(S)
    BY <1>1, ToppedSingle DEF Topped
  <1> QED
    BY <1>2 DEF Tops, VersionsOf, stable_versions, StableOf, BetasOf, _existing_betas_for

\* One more tag, if its name is free.
LEMMA WithTagSound ==
    ASSUME NEW ts, Sound(ts), NEW n \in Tag
    PROVE  Sound(WithTag(ts, n))
  <1>1. CASE n.version \in VersionsOf(ts)
    BY <1>1 DEF WithTag
  <1>2. CASE n.version \notin VersionsOf(ts)
    <2>1. WithTag(ts, n) = ts \union {n}
      BY <1>2 DEF WithTag
    <2>2. VersionsOf(ts \union {n}) = VersionsOf(ts) \union VersionsOf({n})
      BY DEF VersionsOf
    <2>3. Tops(ts \union {n})
      BY <2>2, TopsUnion, TopsSingle DEF Sound
    <2>4. OneCommit(ts \union {n})
      BY <1>2 DEF Sound, OneCommit, VersionsOf
    <2> QED
      BY <2>1, <2>3, <2>4 DEF Sound
  <1> QED
    BY <1>1, <1>2

\* A fetch that replaces the tags of the same name.
LEMMA FetchedSound ==
    ASSUME NEW ts, Sound(ts), NEW fetched, Sound(fetched)
    PROVE  /\ Sound(Fetched(ts, fetched))
           /\ fetched \subseteq Fetched(ts, fetched)
           /\ Fetched(ts, fetched) \subseteq ts \union fetched
  <1>1. VersionsOf(Fetched(ts, fetched)) = VersionsOf(ts) \union VersionsOf(fetched)
    BY DEF Fetched, VersionsOf
  <1>2. Fetched(ts, fetched) \subseteq Tag
    BY DEF Sound, Fetched
  <1>3. Tops(Fetched(ts, fetched))
    BY <1>1, <1>2, TopsUnion DEF Sound
  <1>4. OneCommit(Fetched(ts, fetched))
    BY DEF Sound, OneCommit, Fetched, VersionsOf
  <1> QED
    BY <1>2, <1>3, <1>4 DEF Sound, Fetched

-----------------------------------------------------------------------------
(* Numbers *)

\* A stable number is above every release of the tags it is computed from.
LEMMA NextStable ==
    ASSUME NEW ts, Sound(ts), NEW level \in Levels
    PROVE  /\ next_stable(level, ts) \in Version
           /\ next_stable(level, ts).beta = 0
           /\ \A v \in stable_versions(ts) : Below(v, next_stable(level, ts))
  <1> DEFINE S == stable_versions(ts)
  <1>1. S \subseteq {v \in Version : v.beta = 0}
    BY DEF Sound, Tag, stable_versions, StableOf, VersionsOf
  <1>2. level \in {"patch", "minor", "major"}
    BY LevelsAssumption
  <1>3. CASE S = {}
    BY <1>2, <1>3 DEF next_stable, SEEDS, V, Version
  <1>4. CASE S # {}
    <2>1. Highest(S) \in S /\ \A w \in S : ~Below(Highest(S), w)
      BY <1>4, HighestIsHighest DEF Sound, Tops
    <2>2. PICK h \in S : h = Highest(S)
      BY <2>1
    <2>3. next_stable(level, ts) = Bump(h, level)
      BY <1>4, <2>2 DEF next_stable
    <2>4. Bump(h, level) \in Version /\ Bump(h, level).beta = 0 /\ Below(h, Bump(h, level))
      BY <1>1, <1>2, <2>2 DEF Bump, V, Version, Below, BaseBelow
    <2>5. ASSUME NEW v \in S PROVE Below(v, Bump(h, level))
      <3>1. v = h \/ Below(v, h)
        BY <1>1, <2>1, <2>2, <2>5, BelowOrder
      <3> QED
        BY <1>1, <2>4, <2>5, <3>1, BelowOrder
    <2> QED
      BY <2>3, <2>4, <2>5
  <1> QED
    BY <1>3, <1>4

LEMMA BetaVersion ==
    ASSUME NEW v \in Version, NEW n \in Nat, n # 0
    PROVE  /\ Beta(v, n) \in Version /\ Beta(v, n).beta = n /\ SameBase(Beta(v, n), v)
  BY DEF Beta, Version, SameBase

LEMMA BumpedBeta ==
    ASSUME NEW v \in Version
    PROVE  /\ _bump_beta(v) \in Version /\ _bump_beta(v).beta = v.beta + 1
           /\ SameBase(_bump_beta(v), v)
  BY DEF _bump_beta, Beta, Version, SameBase

\* The number of a beta is a beta's, of the release it is for, and above every release
\* and every beta of that release.
LEMMA NextBetaIsAhead ==
    ASSUME NEW ts, Sound(ts), NEW level \in Levels
    PROVE  /\ NextBeta(level, ts) \in Version
           /\ NextBeta(level, ts).beta # 0
           /\ SameBase(NextBeta(level, ts), next_stable(level, ts))
           /\ \A v \in stable_versions(ts) \union _existing_betas_for(next_stable(level, ts), ts) :
                 Below(v, NextBeta(level, ts))
  <1> DEFINE base == next_stable(level, ts)
             betas == _existing_betas_for(base, ts)
             beta == NextBeta(level, ts)
  <1>1. /\ base \in Version /\ base.beta = 0
        /\ \A v \in stable_versions(ts) : Below(v, base)
    BY NextStable
  <1>2. stable_versions(ts) \subseteq {v \in Version : v.beta = 0}
    BY DEF Sound, Tag, stable_versions, StableOf, VersionsOf
  <1>3. betas \subseteq {v \in Version : v.beta # 0 /\ SameBase(v, base)}
    BY DEF Sound, Tag, _existing_betas_for, BetasOf, VersionsOf
  <1>4. /\ beta \in Version /\ beta.beta # 0 /\ SameBase(beta, base)
        /\ \A v \in betas : Below(v, beta)
    <2>1. CASE betas = {}
      <3>1. beta = Beta(base, 1)
        BY <2>1 DEF NextBeta
      <3> QED
        BY <1>1, <2>1, <3>1, BetaVersion
    <2>2. CASE betas # {}
      <3>1. Highest(betas) \in betas /\ \A w \in betas : ~Below(Highest(betas), w)
        BY <1>1, <2>2, HighestIsHighest DEF Sound, Tops
      <3>2. PICK h \in betas : h = Highest(betas)
        BY <3>1
      <3>3. beta = _bump_beta(h)
        BY <2>2, <3>2 DEF NextBeta
      <3>4. /\ beta \in Version /\ beta.beta = h.beta + 1 /\ SameBase(beta, h)
            /\ h \in Version /\ h.beta \in Nat \ {0} /\ SameBase(h, base)
        BY <1>3, <3>2, <3>3, BumpedBeta, VersionFields
      <3>5. SameBase(beta, base) /\ beta.beta # 0
        BY <3>4 DEF SameBase
      <3>6. Below(h, beta)
        BY <3>4, VersionFields DEF Below, SameBase
      <3>7. ASSUME NEW v \in betas PROVE Below(v, beta)
        <4>1. v = h \/ Below(v, h)
          BY <1>3, <3>1, <3>2, <3>7, BelowOrder
        <4> QED
          BY <1>3, <3>4, <3>6, <3>7, <4>1, BelowOrder
      <3> QED
        BY <3>4, <3>5, <3>7
    <2> QED
      BY <2>1, <2>2
  <1>5. ASSUME NEW v \in stable_versions(ts) PROVE Below(v, beta)
    <2>1. Below(v, base) /\ v.beta = 0 /\ base.beta = 0
      BY <1>1, <1>2, <1>5
    <2>2. BaseBelow(v, base)
      BY <2>1 DEF Below
    <2> QED
      BY <1>4, <2>2 DEF Below, BaseBelow, SameBase
  <1> QED
    BY <1>4, <1>5

LEMMA LatestBetaIsABeta ==
    ASSUME NEW ts, Sound(ts)
    PROVE  LatestBeta(ts) \in Version /\ LatestBeta(ts).beta # 0
  <1>1. VersionsOf(ts) \subseteq Version /\ BetasOf(ts) \subseteq Version
    BY DEF Sound, Tag, VersionsOf, BetasOf
  <1>2. CASE BetasOf(ts) # {}
    <2>1. PICK h \in BetasOf(ts) : h = Highest(BetasOf(ts))
      BY <1>2, HighestIsHighest DEF Sound, Tops
    <2> QED
      BY <1>1, <1>2, <2>1, BumpedBeta, VersionFields DEF LatestBeta
  <1>3. CASE BetasOf(ts) = {} /\ ts # {}
    <2>1. VersionsOf(ts) # {}
      BY <1>3 DEF VersionsOf
    <2>2. PICK h \in VersionsOf(ts) : h = Highest(VersionsOf(ts))
      BY <2>1, HighestIsHighest DEF Sound, Tops
    <2>3. LatestBeta(ts) = Beta(h, 1)
      BY <1>3, <2>2 DEF LatestBeta
    <2> QED
      BY <1>1, <2>2, <2>3, BetaVersion
  <1>4. CASE BetasOf(ts) = {} /\ ts = {}
    <2>1. V(0, 1, 0) \in Version
      BY DEF V, Version
    <2> QED
      BY <1>4, <2>1, BetaVersion DEF LatestBeta
  <1> QED
    BY <1>2, <1>3, <1>4

-----------------------------------------------------------------------------
(* The invariant *)

\* What a clone inside a stable release holds: a stable number, and past the guard one
\* that fits all the tags it has, the fetched ones among them.
Guarded ==
    \A cl \in Clones :
        /\ pc[cl] # "idle" => new[cl].version.beta = 0
        /\ pc[cl] = "create" => Fits(new[cl], tags[cl]) /\ seen[cl] \subseteq tags[cl]

IInv == /\ TypeOK
        /\ Sound(remote)
        /\ \A cl \in Clones : Sound(tags[cl])
        /\ Guarded
        /\ NumberAboveKnown
        /\ OrderedUnlessBlind

LEMMA InitIInv == Init => IInv
  <1> SUFFICES ASSUME Init PROVE IInv
    OBVIOUS
  <1>1. Sound({})
    BY TopsNone DEF Sound, OneCommit
  <1>2. Everywhere = {}
    BY DEF Init, Everywhere
  <1> QED
    BY <1>1, <1>2 DEF Init, IInv, TypeOK, Guarded, NumberAboveKnown, OrderedUnlessBlind,
       InOrder, StableOf

\* A step that brings no stable tag into the world keeps the order.
LEMMA OrderKept ==
    ASSUME OrderedUnlessBlind, UNCHANGED blind,
           StableOf(Everywhere') \subseteq StableOf(Everywhere)
    PROVE  OrderedUnlessBlind'
  BY DEF OrderedUnlessBlind, InOrder, StableOf

\* A tag that is added in one clone, wherever that is.
LEMMA EverywhereWith ==
    ASSUME NEW cl \in Clones, NEW n, TypeOK, UNCHANGED remote,
           tags' = [tags EXCEPT ![cl] = WithTag(tags[cl], n)]
    PROVE  Everywhere' \subseteq Everywhere \union {n}
  BY DEF TypeOK, Everywhere, WithTag

\* A beta in one clone.
LEMMA BetaTagKeeps ==
    ASSUME IInv, NEW cl \in Clones, NEW n \in Tag, n.version.beta # 0, TagsAtOnce(cl, n)
    PROVE  IInv'
  <1> USE DEF TagsAtOnce
  <1>1. tags'[cl] = WithTag(tags[cl], n) /\ \A o \in Clones \ {cl} : tags'[o] = tags[o]
    BY DEF IInv, TypeOK
  <1>2. \A o \in Clones : Sound(tags'[o])
    BY <1>1, WithTagSound DEF IInv
  <1>3. TypeOK'
    BY <1>2 DEF IInv, TypeOK, Sound
  <1>4. Guarded' /\ NumberAboveKnown'
    BY <1>1 DEF IInv, Guarded, NumberAboveKnown
  <1>5. StableOf(Everywhere') \subseteq StableOf(Everywhere)
    BY EverywhereWith DEF IInv, StableOf
  <1> QED
    BY <1>2, <1>3, <1>4, <1>5, OrderKept DEF IInv

\* A fetch, or a reset, in one clone.
LEMMA FetchKeepsOrder ==
    ASSUME IInv, NEW cl \in Clones, NEW ts, ts \subseteq tags[cl] \union remote,
           tags' = [tags EXCEPT ![cl] = ts], UNCHANGED <<remote, blind>>
    PROVE  OrderedUnlessBlind'
  <1>1. Everywhere' \subseteq Everywhere
    BY DEF IInv, TypeOK, Everywhere
  <1> QED
    BY <1>1, OrderKept DEF IInv, StableOf

LEMMA StableBeginsKeeps ==
    ASSUME IInv, NEW cl \in Clones, NEW level \in Levels, NEW HEAD \in Commits,
           StableBegins(cl, level, HEAD)
    PROVE  IInv'
  <1> DEFINE n == TagAt(next_stable(level, tags[cl]), HEAD)
  <1>1. /\ n \in Tag /\ n.version.beta = 0
        /\ \A t \in StableOf(tags[cl]) : Below(t.version, n.version)
    BY NextStable DEF IInv, TagAt, Tag, stable_versions, VersionsOf
  <1>2. /\ new' = [new EXCEPT ![cl] = n] /\ pc' = [pc EXCEPT ![cl] = "guard"]
        /\ UNCHANGED <<tags, remote, seen, blind>>
    BY DEF StableBegins
  <1>3. TypeOK'
    BY <1>1, <1>2 DEF IInv, TypeOK
  <1>4. Guarded' /\ NumberAboveKnown'
    BY <1>1, <1>2 DEF IInv, TypeOK, Guarded, NumberAboveKnown
  <1>5. OrderedUnlessBlind'
    BY <1>2 DEF IInv, OrderedUnlessBlind, Everywhere
  <1> QED
    BY <1>2, <1>3, <1>4, <1>5 DEF IInv

LEMMA GuardKeeps ==
    ASSUME IInv, NEW cl \in Clones, assert_integrity(cl)
    PROVE  IInv'
  <1>1. PICK fetched \in {remote, {}} :
            /\ tags' = [tags EXCEPT ![cl] = Fetched(tags[cl], fetched)]
            /\ \/ /\ Fits(new[cl], tags'[cl])
                  /\ pc' = [pc EXCEPT ![cl] = "create"]
                  /\ seen' = [seen EXCEPT ![cl] = fetched]
                  /\ UNCHANGED new
               \/ Exits(cl) /\ UNCHANGED seen
    BY DEF assert_integrity
  <1>2. pc[cl] = "guard" /\ UNCHANGED <<remote, blind>>
    BY DEF assert_integrity
  <1>3. Sound(fetched) /\ fetched \subseteq remote
    BY <1>1, TopsNone DEF IInv, Sound, OneCommit
  <1>4. /\ Sound(Fetched(tags[cl], fetched))
        /\ fetched \subseteq Fetched(tags[cl], fetched)
        /\ Fetched(tags[cl], fetched) \subseteq tags[cl] \union remote
    BY <1>3, FetchedSound DEF IInv
  <1>5. /\ tags'[cl] = Fetched(tags[cl], fetched)
        /\ \A o \in Clones \ {cl} : tags'[o] = tags[o]
    BY <1>1 DEF IInv, TypeOK
  <1>6. \A o \in Clones : Sound(tags'[o])
    BY <1>4, <1>5 DEF IInv
  <1>7. tags' \in [Clones -> SUBSET Tag]
    BY <1>1, <1>4 DEF IInv, TypeOK, Sound
  <1>8. OrderedUnlessBlind'
    BY <1>1, <1>2, <1>4, FetchKeepsOrder
  <1>9. CASE /\ Fits(new[cl], tags'[cl])
             /\ pc' = [pc EXCEPT ![cl] = "create"]
             /\ seen' = [seen EXCEPT ![cl] = fetched]
             /\ UNCHANGED new
    <2>1. TypeOK'
      BY <1>2, <1>3, <1>7, <1>9 DEF IInv, TypeOK, Sound
    <2>2. Guarded'
      BY <1>2, <1>4, <1>5, <1>9 DEF IInv, TypeOK, Guarded
    <2>3. NumberAboveKnown'
      BY <1>5, <1>9 DEF IInv, TypeOK, NumberAboveKnown
    <2> QED
      BY <1>2, <1>6, <1>8, <2>1, <2>2, <2>3 DEF IInv
  <1>10. CASE Exits(cl) /\ UNCHANGED seen
    <2>1. TypeOK'
      BY <1>2, <1>7, <1>10 DEF IInv, TypeOK, Exits
    <2>2. Guarded' /\ NumberAboveKnown'
      BY <1>5, <1>10 DEF IInv, TypeOK, Guarded, NumberAboveKnown, Exits
    <2> QED
      BY <1>2, <1>6, <1>8, <2>1, <2>2 DEF IInv
  <1> QED
    BY <1>1, <1>9, <1>10

\* The step that makes a release: with nothing unknown about, what fits the clone's
\* tags fits all there are.
LEMMA CreateKeeps ==
    ASSUME IInv, NEW cl \in Clones, Create(cl)
    PROVE  IInv'
  <1> DEFINE n == new[cl]
  <1>1. /\ pc[cl] = "create" /\ n \in Tag /\ n.version.beta = 0
        /\ Fits(n, tags[cl]) /\ seen[cl] \subseteq tags[cl]
    BY DEF IInv, TypeOK, Guarded, Create
  <1>2. /\ tags' = [tags EXCEPT ![cl] = WithTag(tags[cl], n)]
        /\ blind' = (blind \/ ~(StableOf(Everywhere) \subseteq seen[cl] \union tags[cl]))
        /\ seen' = [seen EXCEPT ![cl] = {}]
        /\ Exits(cl) /\ UNCHANGED remote
    BY DEF Create
  <1>3. tags'[cl] = WithTag(tags[cl], n) /\ \A o \in Clones \ {cl} : tags'[o] = tags[o]
    BY <1>2 DEF IInv, TypeOK
  <1>4. \A o \in Clones : Sound(tags'[o])
    BY <1>1, <1>3, WithTagSound DEF IInv
  <1>5. TypeOK'
    BY <1>2, <1>4 DEF IInv, TypeOK, Sound, Exits
  <1>6. Guarded' /\ NumberAboveKnown'
    BY <1>2, <1>3 DEF IInv, TypeOK, Guarded, NumberAboveKnown, Exits
  <1>7. OrderedUnlessBlind'
    <2> SUFFICES ASSUME ~blind' PROVE InOrder(StableOf(Everywhere'))
      BY DEF OrderedUnlessBlind
    <2>1. ~blind /\ StableOf(Everywhere) \subseteq tags[cl]
      BY <1>1, <1>2
    <2>2. InOrder(StableOf(Everywhere))
      BY <2>1 DEF IInv, OrderedUnlessBlind
    <2>3. CASE n.version \in VersionsOf(tags[cl])
      <3>1. Everywhere' = Everywhere
        BY <1>2, <1>3, <2>3 DEF WithTag, Everywhere
      <3> QED
        BY <2>2, <3>1
    <2>4. CASE n.version \notin VersionsOf(tags[cl])
      <3>1. StableOf(Everywhere') \subseteq StableOf(Everywhere) \union {n}
        BY <1>2, EverywhereWith DEF IInv, StableOf
      <3>2. ASSUME NEW t \in StableOf(Everywhere)
            PROVE  /\ t.version # n.version
                   /\ t.commit # n.commit
                   /\ t.commit \in Ancestry[n.commit] => Below(t.version, n.version)
                   /\ n.commit \in Ancestry[t.commit] => Below(n.version, t.version)
        <4>1. t \in tags[cl] /\ t \in StableOf(tags[cl])
          BY <2>1, <3>2 DEF StableOf
        <4>2. /\ t.commit \in Ancestry[n.commit] => Below(t.version, n.version)
              /\ n.commit \in Ancestry[t.commit] => Below(n.version, t.version)
          BY <1>1, <4>1 DEF Fits
        <4>3. t.version \in Version /\ n.version \in Version /\ n.commit \in Commits
          BY <1>1, <4>1 DEF IInv, TypeOK, Tag
        <4>4. t.commit # n.commit
          BY <4>2, <4>3, BelowOrder, AncestryAssumption
        <4> QED
          BY <2>4, <4>1, <4>2, <4>4 DEF VersionsOf
      <3> QED
        BY <2>2, <3>1, <3>2 DEF InOrder
    <2> QED
      BY <2>3, <2>4
  <1> QED
    BY <1>2, <1>4, <1>5, <1>6, <1>7 DEF IInv

LEMMA PushKeeps ==
    ASSUME IInv, NEW cl \in Clones, Push(cl)
    PROVE  IInv'
  <1>1. PICK t \in tags[cl] : t.version \notin VersionsOf(remote) /\ remote' = remote \union {t}
    BY DEF Push
  <1>2. UNCHANGED <<tags, pc, new, seen, blind>>
    BY DEF Push
  <1>3. t \in Tag /\ remote' = WithTag(remote, t)
    BY <1>1 DEF IInv, TypeOK, WithTag
  <1>4. Sound(remote')
    BY <1>3, WithTagSound DEF IInv
  <1>5. Everywhere' = Everywhere
    BY <1>1, <1>2 DEF Everywhere
  <1>6. TypeOK'
    BY <1>2, <1>4 DEF IInv, TypeOK, Sound
  <1>7. Guarded' /\ NumberAboveKnown'
    BY <1>2 DEF IInv, Guarded, NumberAboveKnown
  <1> QED
    BY <1>2, <1>4, <1>5, <1>6, <1>7, OrderKept DEF IInv

LEMMA ResetKeeps ==
    ASSUME IInv, NEW cl \in Clones, HardResetTags(cl)
    PROVE  IInv'
  <1>1. PICK ts \in {remote, {}} : tags' = [tags EXCEPT ![cl] = ts]
    BY DEF HardResetTags
  <1>2. pc[cl] = "idle" /\ UNCHANGED <<remote, pc, new, seen, blind>>
    BY DEF HardResetTags
  <1>3. Sound(ts) /\ ts \subseteq tags[cl] \union remote
    BY <1>1, TopsNone DEF IInv, Sound, OneCommit
  <1>4. \A o \in Clones : tags'[o] = IF o = cl THEN ts ELSE tags[o]
    BY <1>1 DEF IInv, TypeOK
  <1>5. TypeOK'
    BY <1>1, <1>2, <1>3 DEF IInv, TypeOK, Sound
  <1>6. Guarded' /\ NumberAboveKnown'
    BY <1>2, <1>4 DEF IInv, Guarded, NumberAboveKnown
  <1>7. OrderedUnlessBlind'
    BY <1>1, <1>2, <1>3, FetchKeepsOrder
  <1> QED
    BY <1>2, <1>3, <1>4, <1>5, <1>6, <1>7 DEF IInv

\* Every step preserves the invariant.
LEMMA NextIInv == IInv /\ [Next]_vars => IInv'
  <1> SUFFICES ASSUME IInv, [Next]_vars PROVE IInv'
    OBVIOUS
  <1>1. ASSUME NEW cl \in Clones, NEW level \in Levels, NEW HEAD \in Commits,
               StableBegins(cl, level, HEAD)
        PROVE  IInv'
    BY <1>1, StableBeginsKeeps
  <1>2. ASSUME NEW cl \in Clones, NEW level \in Levels, NEW HEAD \in Commits,
               cmd_beta(cl, level, HEAD)
        PROVE  IInv'
    <2>1. TagAt(NextBeta(level, tags[cl]), HEAD) \in Tag
          /\ TagAt(NextBeta(level, tags[cl]), HEAD).version.beta # 0
      BY NextBetaIsAhead DEF IInv, TagAt, Tag
    <2> QED
      BY <1>2, <2>1, BetaTagKeeps DEF cmd_beta
  <1>3. ASSUME NEW cl \in Clones, NEW HEAD \in Commits, cmd_latest_beta(cl, HEAD)
        PROVE  IInv'
    <2>1. TagAt(LatestBeta(tags[cl]), HEAD) \in Tag
          /\ TagAt(LatestBeta(tags[cl]), HEAD).version.beta # 0
      BY LatestBetaIsABeta DEF IInv, TagAt, Tag
    <2> QED
      BY <1>3, <2>1, BetaTagKeeps DEF cmd_latest_beta
  <1>4. ASSUME NEW cl \in Clones,
               assert_integrity(cl) \/ Create(cl) \/ Push(cl) \/ HardResetTags(cl)
        PROVE  IInv'
    BY <1>4, GuardKeeps, CreateKeeps, PushKeeps, ResetKeeps
  <1>5. CASE UNCHANGED vars
    BY <1>5 DEF vars, IInv, TypeOK, Guarded, NumberAboveKnown, OrderedUnlessBlind, Everywhere
  <1> QED
    BY <1>1, <1>2, <1>3, <1>4, <1>5 DEF Next

-----------------------------------------------------------------------------

THEOREM Invariance == Spec => []IInv
  BY InitIInv, NextIInv, PTL DEF Spec

\* Every variable keeps its type; a number is held only inside a run of release.py.
THEOREM TypeCorrectness == Spec => []TypeOK
  <1>1. IInv => TypeOK
    BY DEF IInv
  <1> QED
    BY <1>1, Invariance, PTL

\* The number computed before the fetch is above every release its clone knows then.
THEOREM NumberTheorem == Spec => []NumberAboveKnown
  <1>1. IInv => NumberAboveKnown
    BY DEF IInv
  <1> QED
    BY <1>1, Invariance, PTL

\* Releases are ordered like their commits until one is made in ignorance of another.
THEOREM OrderTheorem == Spec => []OrderedUnlessBlind
  <1>1. IInv => OrderedUnlessBlind
    BY DEF IInv
  <1> QED
    BY <1>1, Invariance, PTL

\* A beta's name is free, and above the releases and the betas it has to be above.
THEOREM BetaTheorem == Spec => BetaIsAhead
  <1> DEFINE Ahead ==
        \A cl \in Clones, level \in Levels, HEAD \in Commits :
            cmd_beta(cl, level, HEAD) =>
                \E t \in tags'[cl] \ tags[cl] :
                    \A u \in tags[cl] :
                        u.version.beta = 0 \/ SameBase(u.version, t.version)
                            => Below(u.version, t.version)
  <1>1. IInv => Ahead
    <2> SUFFICES ASSUME IInv, NEW cl \in Clones, NEW level \in Levels, NEW HEAD \in Commits,
                        cmd_beta(cl, level, HEAD)
                 PROVE  \E t \in tags'[cl] \ tags[cl] :
                            \A u \in tags[cl] :
                                u.version.beta = 0 \/ SameBase(u.version, t.version)
                                    => Below(u.version, t.version)
      OBVIOUS
    <2> DEFINE ts == tags[cl]
               base == next_stable(level, ts)
               n == TagAt(NextBeta(level, ts), HEAD)
    <2>1. tags'[cl] = WithTag(ts, n)
      BY DEF cmd_beta, TagsAtOnce, IInv, TypeOK
    <2>2. Sound(ts)
      BY DEF IInv
    <2>3. /\ n.version \in Version /\ n.version.beta # 0 /\ SameBase(n.version, base)
          /\ \A v \in stable_versions(ts) \union _existing_betas_for(base, ts) :
                Below(v, n.version)
      BY <2>2, NextBetaIsAhead DEF TagAt
    <2>4. ASSUME NEW u \in ts, u.version.beta = 0 \/ SameBase(u.version, n.version)
          PROVE  Below(u.version, n.version)
      <3>1. CASE u.version.beta = 0
        BY <2>3, <3>1 DEF stable_versions, StableOf, VersionsOf
      <3>2. CASE u.version.beta # 0 /\ SameBase(u.version, n.version)
        <4>1. SameBase(u.version, base)
          BY <2>3, <3>2 DEF SameBase
        <4> QED
          BY <2>3, <3>2, <4>1 DEF _existing_betas_for, BetasOf, VersionsOf
      <3> QED
        BY <2>4, <3>1, <3>2
    <2>5. n.version \notin VersionsOf(ts)
      BY <2>3, <2>4, BelowOrder DEF VersionsOf, SameBase
    <2>6. n \in tags'[cl] \ ts
      BY <2>1, <2>5 DEF WithTag, VersionsOf
    <2> QED
      BY <2>4, <2>6
  <1>2. IInv /\ [Next]_vars => [Ahead]_vars
    BY <1>1
  <1>3. BetaIsAhead <=> [][Ahead]_vars
    BY DEF BetaIsAhead
  <1> QED
    BY <1>2, <1>3, Invariance, PTL DEF Spec

=============================================================================
