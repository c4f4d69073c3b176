-------------------------- MODULE DiscoveryProofs --------------------------
(***************************************************************************)
(* That a token outlasts the calls it is minted for, carries the grants of *)
(* its target, and that a wait which succeeds has seen everything ready:   *)
(* for any blocks, devices, times that satisfy LifeAssumption, and grants. *)
(***************************************************************************)
EXTENDS Discovery, FiniteSetTheorems, TLAPS

\* The longest a wait has taken with this round as far as it is.
SpentBound(step) ==
    Timeout[step] + Interval
        + Limit[step] * (Cardinality(Waited[step]) - Cardinality(round))

SpentInv == \A step \in Waits : pc = step => spent <= SpentBound(step)

\* The steps of each recipe.
StepInv ==
    /\ target = "local-lab-up" => pc # "run"
    /\ target = "local-lab-discover" => pc \notin {"bootstrap", "deploy", "remint", "record"}

\* The second login of local-lab-up is never skipped.
FreshInv ==
    /\ pc = "remint" => env = NoToken
    /\ pc = "ready" /\ target = "local-lab-up" => minted

\* How old a minted token can be, once no deploy may lie in between.
AgeInv ==
    minted =>
        /\ env \in Token
        /\ pc = "ready" => env.age <= LoginTimeout + spent
        /\ pc = "devices" => env.age <= LoginTimeout + LongestReady + spent
        /\ pc \in {"record", "run"} => env.age <= LoginTimeout + LongestReady + LongestDevices

\* Past its configuration step a target's grants are in the CMS, and in its token, if
\* the image can grant.
GrantsInv ==
    /\ grantCommand /\ pc \notin {"idle", "config"} => granted >= resolved
    /\ pc \in {"idle", "config", "mint"} => ~minted
    /\ grantCommand /\ minted => env.grants >= resolved

\* A wait counts what is up, and what is up has been seen.
SeenInv ==
    /\ pc \in Waits => up \subseteq seen
    /\ ZeroMeansSeen

IInv == TypeOK /\ SpentInv /\ StepInv /\ FreshInv /\ AgeInv /\ GrantsInv /\ SeenInv

-----------------------------------------------------------------------------
(***************************************************************************)
(* Numbers, tokens and steps                                               *)
(***************************************************************************)

\* The times of a wait are naturals, and what it waits for is finite.
LEMMA WaitFacts ==
    ASSUME NEW step \in Waits
    PROVE  /\ Timeout[step] \in Nat /\ Limit[step] \in Nat
           /\ IsFiniteSet(Waited[step]) /\ Cardinality(Waited[step]) \in Nat
           /\ Waited[step] \subseteq Items
  <1>1. IsFiniteSet(Waited[step]) /\ Waited[step] \subseteq Items
    BY ItemsAssumption DEF Waits, Waited, Items
  <1>2. Timeout[step] \in Nat /\ Limit[step] \in Nat
    BY TimesAssumption DEF Waits, Timeout, Limit
  <1> QED BY <1>1, <1>2, FS_CardinalityType

LEMMA ProductIsNatural ==
    ASSUME NEW m \in Nat, NEW n \in Nat PROVE m * n \in Nat
  BY SMT

LEMMA OneMore ==
    ASSUME NEW m \in Nat, NEW n \in Nat, NEW k \in Nat, NEW l \in Nat, l = k - 1
    PROVE  m * (n - l) = m * (n - k) + m
  BY SMT

LEMMA ProductGrows ==
    ASSUME NEW m \in Nat, NEW n \in Nat, NEW k \in Nat, k <= n
    PROVE  m * k <= m * n
  <1>1. n - k \in Nat
    BY SMT
  <1>2. m * (n - k) \in Nat
    BY <1>1, ProductIsNatural
  <1>3. m * n = m * k + m * (n - k)
    BY SMT
  <1>4. m * k \in Nat /\ m * n \in Nat
    BY ProductIsNatural
  <1> QED BY <1>2, <1>3, <1>4

\* Time passes for a token at most as long as it passes.
LEMMA AgedToken ==
    ASSUME NEW t \in Token, NEW d \in Nat
    PROVE  /\ Aged(t, d) \in Token
           /\ Aged(t, d).age <= t.age + d
           /\ Aged(t, d).grants = t.grants
  BY TimesAssumption, NoTokenAssumption, MaxGrantsAssumption DEF Aged, Token

LEMMA AgedType ==
    ASSUME NEW t \in Token \union {NoToken}, NEW d \in Nat
    PROVE  Aged(t, d) \in Token \union {NoToken}
  BY AgedToken DEF Aged

\* Where a recipe's step leads.
LEMMA StepAfterFacts ==
    ASSUME NEW t \in Targets
    PROVE  /\ StepAfter[t].start = "config"
           /\ StepAfter[t].config = "mint"
           /\ StepAfter[t].mint = IF t = "local-lab-up" THEN "bootstrap" ELSE "ready"
           /\ StepAfter[t].ready = "devices"
           /\ StepAfter[t].devices = IF t = "local-lab-up" THEN "record" ELSE "run"
           /\ t = "local-lab-up" => /\ StepAfter[t].bootstrap = "deploy"
                                    /\ StepAfter[t].deploy = "remint"
                                    /\ StepAfter[t].remint = "ready"
  BY DEF StepAfter, Targets

\* A round that has everything to ask leaves the bound where the wait began.
LEMMA BoundAtLeast ==
    ASSUME NEW step \in Waits, NEW r \in SUBSET Waited[step]
    PROVE  /\ Cardinality(r) \in Nat
           /\ Cardinality(r) <= Cardinality(Waited[step])
           /\ Limit[step] * (Cardinality(Waited[step]) - Cardinality(r)) \in Nat
           /\ Limit[step] * (Cardinality(Waited[step]) - Cardinality(r))
                <= Limit[step] * Cardinality(Waited[step])
  <1>1. IsFiniteSet(r) /\ Cardinality(r) <= Cardinality(Waited[step])
    BY WaitFacts, FS_Subset
  <1>2. Cardinality(r) \in Nat
    BY <1>1, FS_CardinalityType
  <1>3. Cardinality(Waited[step]) - Cardinality(r) \in Nat
        /\ Cardinality(Waited[step]) - Cardinality(r) <= Cardinality(Waited[step])
    BY <1>1, <1>2, WaitFacts
  <1>4. Limit[step] * (Cardinality(Waited[step]) - Cardinality(r)) \in Nat
    BY <1>3, WaitFacts, ProductIsNatural
  <1>5. Limit[step] * (Cardinality(Waited[step]) - Cardinality(r))
                <= Limit[step] * Cardinality(Waited[step])
    BY <1>3, WaitFacts, ProductGrows
  <1> QED BY <1>1, <1>2, <1>4, <1>5

\* A wait never takes longer than LongestReady or LongestDevices.
LEMMA SpentAtMost ==
    ASSUME IInv
    PROVE  /\ pc = "ready" => spent <= LongestReady
           /\ pc = "devices" => spent <= LongestDevices
  <1>1. ASSUME NEW step \in Waits, pc = step
        PROVE  spent <= Timeout[step] + Interval + Limit[step] * Cardinality(Waited[step])
    <2>1. round \in SUBSET Waited[step]
      BY <1>1 DEF IInv, TypeOK
    <2>2. spent <= SpentBound(step) /\ spent \in Nat
      BY <1>1 DEF IInv, SpentInv, TypeOK
    <2>3. Limit[step] * Cardinality(Waited[step]) \in Nat
      BY WaitFacts, ProductIsNatural
    <2> QED BY <2>1, <2>2, <2>3, BoundAtLeast, WaitFacts, TimesAssumption DEF SpentBound
  <1>2. pc = "ready" => spent <= LongestReady
    BY <1>1 DEF Waits, Waited, Timeout, Limit, LongestReady
  <1>3. pc = "devices" => spent <= LongestDevices
    BY <1>1 DEF Waits, Waited, Timeout, Limit, LongestDevices
  <1> QED BY <1>2, <1>3

LEMMA LongestType == LongestReady \in Nat /\ LongestDevices \in Nat
  <1>1. EngineTimeout * Cardinality(Blocks) \in Nat
    BY TimesAssumption, ItemsAssumption, FS_CardinalityType, ProductIsNatural
  <1>2. ConnectTimeout * Cardinality(Devices) \in Nat
    BY TimesAssumption, ItemsAssumption, FS_CardinalityType, ProductIsNatural
  <1> QED BY <1>1, <1>2, TimesAssumption DEF LongestReady, LongestDevices

-----------------------------------------------------------------------------
(***************************************************************************)
(* The invariant                                                           *)
(***************************************************************************)

LEMMA InitIInv == Init => IInv
  <1> SUFFICES ASSUME Init PROVE IInv
    OBVIOUS
  <1>2. pc = "idle" /\ ~minted
    BY DEF Init
  <1>1. TypeOK
    <2>1. declared \in 0..MaxGrants /\ resolved \in 0..MaxGrants /\ granted \in 0..MaxGrants
      BY MaxGrantsAssumption DEF Init
    <2>2. minted \in BOOLEAN
      BY Zenon DEF Init
    <2>3. pc \notin Waits
      BY <1>2 DEF Waits
    <2> QED BY <1>2, <2>1, <2>2, <2>3 DEF Init, TypeOK
  <1>3. GrantsInv /\ AgeInv
    BY <1>2 DEF GrantsInv, AgeInv
  <1> QED BY <1>1, <1>2, <1>3
          DEF IInv, SpentInv, StepInv, FreshInv, SeenInv, ZeroMeansSeen, Waits

\* A recipe that ends leaves nothing to claim.
LEMMA EndsIInv ==
    ASSUME IInv, Ends PROVE IInv'
  <1>2. pc' = "idle" /\ ~minted'
    BY DEF Ends
  <1>1. TypeOK'
    <2>1. declared' \in 0..MaxGrants /\ resolved' \in 0..MaxGrants /\ granted' \in 0..MaxGrants
      BY MaxGrantsAssumption DEF Ends, IInv, TypeOK
    <2>2. minted' \in BOOLEAN
      BY Zenon DEF Ends
    <2>3. pc' \notin Waits
      BY <1>2 DEF Waits
    <2> QED BY <1>2, <2>1, <2>2, <2>3 DEF Ends, stack, IInv, TypeOK
  <1>3. GrantsInv' /\ AgeInv'
    BY <1>2 DEF GrantsInv, AgeInv
  <1> QED BY <1>1, <1>2, <1>3
          DEF IInv, SpentInv, StepInv, FreshInv, SeenInv, ZeroMeansSeen, Waits

\* Starting a step keeps the types of what the waits are about.
LEMMA GotoTypes ==
    ASSUME IInv, NEW step \in {"config", "mint", "bootstrap", "deploy", "remint", "ready",
                               "devices", "record", "run"},
           Goto(step), UNCHANGED up
    PROVE  /\ pc' = step
           /\ round' \subseteq pending'
           /\ step \in Waits => /\ pending' = Waited[step] /\ round' = Waited[step]
                                /\ spent' = 0 /\ up' \subseteq seen'
           /\ spent' \in Nat /\ up' \subseteq Items /\ seen' \subseteq Items
           /\ SpentInv'
  <1>1. CASE step \in Waits
    <2>1. spent' = 0 /\ pc' = step /\ round' = Waited[step]
      BY <1>1 DEF Goto
    <2>2. SpentInv'
      <3>1. SpentBound(step)' = Timeout[step] + Interval + Limit[step] * 0
        BY <2>1, <1>1, WaitFacts DEF SpentBound
      <3> QED BY <2>1, <3>1, <1>1, WaitFacts, TimesAssumption DEF SpentInv
    <2>3. /\ pending' = Waited[step] /\ up' \subseteq seen'
          /\ seen' \subseteq Items /\ up' \subseteq Items
      BY <1>1 DEF Goto, IInv, TypeOK
    <2> QED BY <2>1, <2>2, <2>3
  <1>2. CASE step \notin Waits
    BY <1>2 DEF Goto, wait, IInv, TypeOK, SpentInv
  <1> QED BY <1>1, <1>2

LEMMA BeginIInv ==
    ASSUME IInv, NEW t \in Targets, Begin(t) PROVE IInv'
  <1>1. Goto("config") /\ UNCHANGED up
    BY StepAfterFacts DEF Begin
  <1>2. pc' = "config" /\ round' \subseteq pending' /\ spent' \in Nat
          /\ up' \subseteq Items /\ seen' \subseteq Items /\ SpentInv'
    BY <1>1, GotoTypes
  <1>3. TypeOK'
    BY <1>2 DEF Begin, stack, IInv, TypeOK, Waits
  <1> QED BY <1>2, <1>3
          DEF Begin, IInv, StepInv, FreshInv, AgeInv, GrantsInv, SeenInv, ZeroMeansSeen, Waits

LEMMA ApplyCmsConfigIInv ==
    ASSUME IInv, ApplyCmsConfig PROVE IInv'
  <1>1. Goto("mint") /\ UNCHANGED up /\ pc = "config"
    BY StepAfterFacts DEF ApplyCmsConfig, Completes, IInv, TypeOK
  <1>2. pc' = "mint" /\ round' \subseteq pending' /\ spent' \in Nat
          /\ up' \subseteq Items /\ seen' \subseteq Items /\ SpentInv'
    BY <1>1, GotoTypes
  <1>3. TypeOK' /\ (grantCommand => granted' >= resolved')
    BY <1>2, MaxGrantsAssumption DEF ApplyCmsConfig, stack, tokens, IInv, TypeOK, Waits
  <1> QED BY <1>1, <1>2, <1>3
          DEF ApplyCmsConfig, stack, tokens, IInv, StepInv, FreshInv, AgeInv, GrantsInv, SeenInv,
              ZeroMeansSeen, Waits

LEMMA MintIInv ==
    ASSUME IInv, Mint PROVE IInv'
  <1>1. PICK step \in {"mint", "remint"} : pc = step /\ Goto(StepAfter[target][step])
    BY DEF Mint, Completes
  <1> DEFINE next == IF step = "remint" THEN "ready"
                     ELSE IF target = "local-lab-up" THEN "bootstrap" ELSE "ready"
  <1>2. target \in Targets /\ (step = "remint" => target = "local-lab-up")
    BY <1>1 DEF IInv, TypeOK, StepInv, Targets
  <1>3. StepAfter[target][step] = next
    BY <1>2, StepAfterFacts
  <1>4. Goto(next) /\ UNCHANGED up
    BY <1>1, <1>3 DEF Mint
  <1> HIDE DEF next
  <1>5. next \in {"bootstrap", "ready"}
        /\ (target = "local-lab-discover" => next = "ready")
        /\ (next = "ready" /\ target = "local-lab-up" => step = "remint")
    BY <1>2 DEF next, Targets
  <1>6. /\ pc' = next /\ round' \subseteq pending' /\ spent' \in Nat
        /\ up' \subseteq Items /\ seen' \subseteq Items /\ SpentInv'
        /\ next = "ready" => pending' = Blocks /\ spent' = 0 /\ up' \subseteq seen'
    BY <1>4, <1>5, GotoTypes DEF Waits, Waited
  <1>7. CASE env # NoToken /\ UNCHANGED tokens
    <2>1. step = "mint"
      BY <1>1, <1>7 DEF IInv, FreshInv
    <2>2. TypeOK'
      BY <1>5, <1>6, <1>7 DEF Mint, stack, grants, tokens, IInv, TypeOK, Waits, Waited
    <2>3. ~minted'
      BY <1>7, <2>1, <1>1 DEF stack, tokens, IInv, GrantsInv
    <2> QED BY <1>1, <1>5, <1>6, <1>7, <2>1, <2>2, <2>3
            DEF Mint, stack, grants, tokens, IInv, TypeOK, StepInv, FreshInv, AgeInv, GrantsInv, SeenInv,
                ZeroMeansSeen, Waits, Waited, Targets
  <1>8. CASE /\ env = NoToken
             /\ \E d \in 0..LoginTimeout :
                    env' = TokenOf(d, granted) /\ shell' = Aged(shell, d)
             /\ minted' = TRUE
    <2>1. PICK d \in 0..LoginTimeout : env' = TokenOf(d, granted) /\ shell' = Aged(shell, d)
      BY <1>8
    <2>2. d \in Nat /\ d <= LoginTimeout /\ d \in 0..Life /\ shell \in Token \union {NoToken}
      BY LifeAssumption, LongestType, TimesAssumption DEF IInv, TypeOK
    <2>3. env' \in Token /\ env'.age = d /\ env'.grants = granted
      BY <2>1, <2>2 DEF TokenOf, Token, IInv, TypeOK
    <2>4. shell' \in Token \union {NoToken}
      BY <2>1, <2>2, AgedType
    <2>5. TypeOK'
      BY <1>5, <1>6, <1>8, <2>3, <2>4 DEF Mint, stack, grants, IInv, TypeOK, Waits, Waited
    <2>6. AgeInv'
      BY <1>5, <1>6, <2>2, <2>3, TimesAssumption DEF AgeInv
    <2> QED BY <1>1, <1>5, <1>6, <1>8, <2>3, <2>5, <2>6
            DEF Mint, stack, grants, IInv, TypeOK, StepInv, FreshInv, GrantsInv, SeenInv,
                ZeroMeansSeen, Waits, Waited, Targets
  <1> QED BY <1>7, <1>8 DEF Mint

LEMMA PassesTypes ==
    ASSUME IInv, NEW d \in Nat, Passes(d)
    PROVE  /\ shell' \in Token \union {NoToken} /\ env' \in Token \union {NoToken}
           /\ env \in Token => /\ env' \in Token
                               /\ env'.age <= env.age + d
                               /\ env'.grants = env.grants
  BY AgedType, AgedToken DEF Passes, IInv, TypeOK

LEMMA BootstrapIInv ==
    ASSUME IInv, Bootstrap PROVE IInv'
  <1>1. pc = "bootstrap" /\ target = "local-lab-up"
    BY DEF Bootstrap, Completes, IInv, TypeOK, StepInv, Targets
  <1>2. Goto("deploy") /\ UNCHANGED up
    BY <1>1, StepAfterFacts DEF Bootstrap, Completes, Targets
  <1>3. pc' = "deploy" /\ round' \subseteq pending' /\ spent' \in Nat
          /\ up' \subseteq Items /\ seen' \subseteq Items /\ SpentInv'
    BY <1>2, GotoTypes
  <1>4. PICK d \in 0..Life : Passes(d)
    BY DEF Bootstrap
  <1>5. /\ shell' \in Token \union {NoToken} /\ env' \in Token \union {NoToken}
        /\ env \in Token => env' \in Token /\ env'.grants = env.grants
    BY <1>4, PassesTypes, TimesAssumption
  <1>6. TypeOK'
    BY <1>3, <1>5 DEF Bootstrap, stack, grants, IInv, TypeOK, Waits
  <1> QED BY <1>1, <1>3, <1>5, <1>6
          DEF Bootstrap, stack, grants, IInv, StepInv, FreshInv, AgeInv, GrantsInv, SeenInv,
              ZeroMeansSeen, Waits

LEMMA DeployIInv ==
    ASSUME IInv, Deploy PROVE IInv'
  <1>1. pc = "deploy" /\ target = "local-lab-up"
    BY DEF Deploy, Completes, IInv, TypeOK, StepInv, Targets
  <1>2. Goto("remint") /\ UNCHANGED up
    BY <1>1, StepAfterFacts DEF Deploy, Completes, Targets
  <1>3. pc' = "remint" /\ round' \subseteq pending' /\ spent' \in Nat
          /\ up' \subseteq Items /\ seen' \subseteq Items /\ SpentInv'
    BY <1>2, GotoTypes
  <1>4. env' = NoToken /\ minted' = FALSE /\ shell' \in Token \union {NoToken}
    BY AgedType, TimesAssumption DEF Deploy, UnsetToken, IInv, TypeOK
  <1>5. TypeOK'
    BY <1>3, <1>4 DEF Deploy, stack, grants, IInv, TypeOK, Waits
  <1> QED BY <1>1, <1>3, <1>4, <1>5
          DEF Deploy, stack, grants, IInv, StepInv, FreshInv, AgeInv, GrantsInv, SeenInv,
              ZeroMeansSeen, Waits

\* Time that passes within a wait reaches the token and the wait alike.
LEMMA WaitPasses ==
    ASSUME IInv, pc \in Waits, NEW d \in Nat, Passes(d), spent' = spent + d,
           UNCHANGED <<minted, pc>>
    PROVE  AgeInv'
  <1>1. env \in Token => env' \in Token /\ env'.age <= env.age + d
    BY PassesTypes
  <1>2. ASSUME minted
        PROVE  /\ env' \in Token
               /\ pc = "ready" => env'.age <= LoginTimeout + spent'
               /\ pc = "devices" => env'.age <= LoginTimeout + LongestReady + spent'
    <2>1. env \in Token /\ env'.age \in Nat /\ env.age \in Nat /\ spent \in Nat
      BY <1>1, <1>2, TimesAssumption DEF IInv, AgeInv, TypeOK, Token
    <2> QED BY <1>1, <1>2, <2>1, TimesAssumption, LongestType DEF IInv, AgeInv
  <1> QED BY <1>2 DEF AgeInv, Waits

LEMMA AsksIInv ==
    ASSUME IInv, NEW step \in Waits, NEW i \in round, Asks(i, step) PROVE IInv'
  <1>1. PICK d \in 0..Limit[step] : Passes(d) /\ spent' = spent + d
    BY DEF Asks
  <1>2. d \in Nat /\ d <= Limit[step]
    BY <1>1, WaitFacts
  <1>3. pc = step /\ pc' = step /\ UNCHANGED <<stack, grants, minted, target, up, seen>>
    BY DEF Asks
  <1>4. PICK answer \in Answers(i) :
            pending' = IF Counts(answer) THEN pending \ {i} ELSE pending
    BY DEF Asks
  <1>5. /\ round \subseteq pending /\ pending \subseteq Waited[step] /\ i \in round
        /\ round' = round \ {i}
    BY <1>3 DEF Asks, IInv, TypeOK
  <1>6. TypeOK'
    <2>1. shell' \in Token \union {NoToken} /\ env' \in Token \union {NoToken}
      BY <1>1, <1>2, PassesTypes
    <2>2. round' \subseteq pending' /\ pending' \subseteq Waited[step]
      BY <1>4, <1>5
    <2> QED BY <1>1, <1>2, <1>3, <2>1, <2>2 DEF stack, grants, IInv, TypeOK
  <1>7. SpentInv'
    <2>1. /\ Cardinality(round') = Cardinality(round) - 1
          /\ Cardinality(round) \in Nat /\ Cardinality(round') \in Nat
          /\ Cardinality(round) <= Cardinality(Waited[step])
      BY <1>5, BoundAtLeast, WaitFacts, FS_RemoveElement, FS_Subset
    <2>2. Limit[step] * (Cardinality(Waited[step]) - Cardinality(round'))
            = Limit[step] * (Cardinality(Waited[step]) - Cardinality(round)) + Limit[step]
      <3> DEFINE m == Limit[step]
                 n == Cardinality(Waited[step])
                 k == Cardinality(round)
                 l == Cardinality(round')
      <3>1. m \in Nat /\ n \in Nat /\ k \in Nat /\ l \in Nat /\ l = k - 1
        BY <2>1, WaitFacts
      <3> HIDE DEF m, n, k, l
      <3>2. m * (n - l) = m * (n - k) + m
        BY <3>1, OneMore
      <3> QED BY <3>2 DEF m, n, k, l
    <2>3. spent <= SpentBound(step) /\ spent \in Nat
      BY <1>3 DEF IInv, SpentInv, TypeOK
    <2>4. Limit[step] * (Cardinality(Waited[step]) - Cardinality(round)) \in Nat
      BY <1>5, BoundAtLeast
    <2>5. spent' <= SpentBound(step)'
      BY <1>1, <1>2, <2>2, <2>3, <2>4, WaitFacts, TimesAssumption DEF SpentBound
    <2> QED BY <1>3, <2>5 DEF SpentInv
  <1>8. AgeInv'
    BY <1>1, <1>2, <1>3, WaitPasses DEF Waits
  <1>9. GrantsInv'
    BY <1>1, <1>2, <1>3, PassesTypes DEF stack, grants, IInv, GrantsInv, AgeInv, Waits
  <1>10. SeenInv'
    <2>1. Counts(answer) => i \in seen
      BY <1>3, <1>4 DEF Counts, Answers, IInv, SeenInv
    <2> QED BY <1>3, <1>4, <2>1 DEF IInv, SeenInv, ZeroMeansSeen, Waits
  <1> QED BY <1>3, <1>6, <1>7, <1>8, <1>9, <1>10 DEF IInv, StepInv, FreshInv, Waits

LEMMA SleepsIInv ==
    ASSUME IInv, NEW step \in Waits, Sleeps(step) PROVE IInv'
  <1>1. /\ pc = step /\ pc' = step /\ round' = pending /\ pending' = pending
        /\ Passes(Interval) /\ spent' = spent + Interval /\ spent < Timeout[step]
        /\ UNCHANGED <<stack, grants, minted, target, up, seen>>
    BY DEF Sleeps
  <1>2. Interval \in Nat
    BY TimesAssumption
  <1>3. pending \subseteq Waited[step]
    BY <1>1 DEF IInv, TypeOK
  <1>4. TypeOK'
    <2>1. shell' \in Token \union {NoToken} /\ env' \in Token \union {NoToken}
      BY <1>1, <1>2, PassesTypes
    <2> QED BY <1>1, <1>2, <1>3, <2>1 DEF stack, grants, IInv, TypeOK
  <1>5. SpentInv'
    <2>1. Limit[step] * (Cardinality(Waited[step]) - Cardinality(pending)) \in Nat
      BY <1>3, BoundAtLeast
    <2>2. spent' <= SpentBound(step)'
      BY <1>1, <1>2, <2>1, WaitFacts DEF SpentBound, IInv, TypeOK
    <2> QED BY <1>1, <2>2 DEF SpentInv
  <1>6. AgeInv'
    BY <1>1, <1>2, WaitPasses
  <1>7. GrantsInv'
    BY <1>1, <1>2, PassesTypes DEF stack, grants, IInv, GrantsInv, AgeInv, Waits
  <1> QED BY <1>1, <1>4, <1>5, <1>6, <1>7
          DEF IInv, StepInv, FreshInv, SeenInv, ZeroMeansSeen, Waits

LEMMA ReadyIInv ==
    ASSUME IInv, NEW step \in Waits, Ready(step) PROVE IInv'
  <1> DEFINE next == IF step = "ready" THEN "devices"
                     ELSE IF target = "local-lab-up" THEN "record" ELSE "run"
  <1>1. pc = step /\ pending = {} /\ Goto(StepAfter[target][step]) /\ UNCHANGED up
    BY DEF Ready, Completes
  <1>2. target \in Targets
    BY DEF IInv, TypeOK
  <1>3. StepAfter[target][step] = next
    BY <1>2, StepAfterFacts DEF Waits
  <1>4. Goto(next)
    BY <1>1, <1>3
  <1> HIDE DEF next
  <1>5. /\ next \in {"devices", "record", "run"}
        /\ next = "devices" <=> step = "ready"
        /\ next = "record" => target = "local-lab-up"
        /\ next = "run" => target = "local-lab-discover"
    BY <1>2 DEF next, Targets, Waits
  <1>6. /\ pc' = next /\ round' \subseteq pending' /\ spent' \in Nat
        /\ up' \subseteq Items /\ seen' \subseteq Items /\ SpentInv'
        /\ next = "devices" => pending' = Devices /\ spent' = 0 /\ up' \subseteq seen'
    BY <1>1, <1>4, <1>5, GotoTypes DEF Waits, Waited
  <1>7. UNCHANGED <<stack, grants, tokens, target>>
    BY DEF Ready
  <1>8. TypeOK'
    BY <1>5, <1>6, <1>7 DEF stack, grants, tokens, IInv, TypeOK, Waits, Waited
  <1>9. AgeInv'
    <2>1. pc = "ready" => spent <= LongestReady
      BY SpentAtMost
    <2>2. pc = "devices" => spent <= LongestDevices
      BY SpentAtMost
    <2>3. ASSUME minted
          PROVE  /\ env \in Token /\ env.age \in Nat /\ spent \in Nat
                 /\ step = "ready" => env.age <= LoginTimeout + LongestReady
                 /\ step = "devices" => env.age <= LoginTimeout + LongestReady + LongestDevices
      <3>1. env \in Token /\ env.age \in Nat /\ spent \in Nat
        BY <2>3, TimesAssumption DEF IInv, AgeInv, TypeOK, Token
      <3> QED BY <1>1, <2>1, <2>2, <2>3, <3>1, LongestType, TimesAssumption DEF IInv, AgeInv
    <2> QED BY <1>5, <1>6, <1>7, <2>3, LongestType, TimesAssumption DEF stack, tokens, AgeInv, Waits
  <1>10. SeenInv'
    <2>1. Waited[step] \subseteq seen
      BY <1>1 DEF IInv, SeenInv, ZeroMeansSeen
    <2>2. Blocks \subseteq seen'
      <3>1. Blocks \subseteq seen
        BY <1>1, <2>1 DEF Waits, Waited, IInv, SeenInv, ZeroMeansSeen
      <3>2. seen' = seen \/ seen' = (seen \ Devices) \union up
        BY <1>4, <1>5 DEF Goto, Waits, Waited
      <3> QED BY <3>1, <3>2, ItemsAssumption
    <2>3. next # "devices" => Devices \subseteq seen'
      BY <1>4, <1>5, <2>1 DEF Goto, Waits, Waited
    <2> QED BY <1>5, <1>6, <2>2, <2>3 DEF SeenInv, ZeroMeansSeen, Waits, Waited
  <1> QED BY <1>1, <1>5, <1>6, <1>7, <1>8, <1>9, <1>10
          DEF stack, grants, tokens, IInv, StepInv, FreshInv, GrantsInv, Waits, Targets

LEMMA WaitingIInv ==
    ASSUME IInv, Waiting PROVE IInv'
  BY AsksIInv, ReadyIInv, SleepsIInv, EndsIInv DEF Waiting, TimesOut, Fails

LEMMA ItemsChangeIInv ==
    ASSUME IInv, ItemsChange PROVE IInv'
  BY DEF ItemsChange, stack, grants, tokens, wait, IInv, TypeOK, SpentInv, SpentBound, StepInv,
         FreshInv, AgeInv, GrantsInv, SeenInv, ZeroMeansSeen, Waits, Items

\* The operator's other commands touch no claim of a target that runs.
LEMMA GrantsChangeIInv ==
    ASSUME IInv, EditPermissions \/ LabGrant \/ Prune PROVE IInv'
  <1>1. UNCHANGED <<stack, resolved, tokens, target, pc, up, wait, seen>>
    BY DEF EditPermissions, LabGrant, Prune
  <1>2. TypeOK'
    BY <1>1, MaxGrantsAssumption
       DEF EditPermissions, LabGrant, Prune, stack, tokens, wait, IInv, TypeOK
  <1>3. GrantsInv'
    BY <1>1, MaxGrantsAssumption
       DEF EditPermissions, LabGrant, Prune, stack, tokens, IInv, TypeOK, GrantsInv
  <1> QED BY <1>1, <1>2, <1>3
          DEF stack, tokens, wait, IInv, SpentInv, SpentBound, StepInv, FreshInv, AgeInv, SeenInv,
              ZeroMeansSeen

LEMMA ExportTokenIInv ==
    ASSUME IInv, ExportToken PROVE IInv'
  <1>1. \A g \in 0..granted : TokenOf(0, g) \in Token
    BY TimesAssumption, MaxGrantsAssumption DEF TokenOf, Token, IInv, TypeOK
  <1>2. shell' \in Token \union {NoToken}
    BY <1>1 DEF ExportToken
  <1> QED BY <1>2
          DEF ExportToken, stack, grants, wait, IInv, TypeOK, SpentInv, SpentBound, StepInv, FreshInv,
              AgeInv, GrantsInv, SeenInv, ZeroMeansSeen, Waits

LEMMA TimePassesIInv ==
    ASSUME IInv, TimePasses PROVE IInv'
  <1>1. PICK d \in 1..Life : Passes(d)
    BY DEF TimePasses
  <1>2. shell' \in Token \union {NoToken} /\ env' \in Token \union {NoToken}
    BY <1>1, PassesTypes, TimesAssumption
  <1> QED BY <1>2
          DEF TimePasses, stack, grants, wait, IInv, TypeOK, SpentInv, SpentBound, StepInv, FreshInv,
              AgeInv, GrantsInv, SeenInv, ZeroMeansSeen, Waits

LEMMA NextIInv == IInv /\ [Next]_vars => IInv'
  <1> SUFFICES ASSUME IInv, [Next]_vars PROVE IInv'
    OBVIOUS
  <1>1. CASE Recipe
    BY <1>1, BeginIInv, EndsIInv, ApplyCmsConfigIInv, MintIInv, BootstrapIInv, DeployIInv,
       WaitingIInv
       DEF Recipe, Fails, Record, StartExecution
  <1>2. CASE Around
    BY <1>2, ItemsChangeIInv, GrantsChangeIInv, ExportTokenIInv, TimePassesIInv DEF Around
  <1>3. CASE UNCHANGED vars
    BY <1>3 DEF vars, stack, grants, tokens, wait, IInv, TypeOK, SpentInv, SpentBound, StepInv,
                FreshInv, AgeInv, GrantsInv, SeenInv, ZeroMeansSeen
  <1> QED BY <1>1, <1>2, <1>3 DEF Next

\* The invariant holds in every behaviour.
THEOREM Invariance == Spec => []IInv
  BY InitIInv, NextIInv, PTL DEF Spec

-----------------------------------------------------------------------------

\* Every variable keeps its type, and a wait asks only for what it waits for: for any
\* blocks, devices, times and grants.
THEOREM TypeCorrectness == Spec => []TypeOK
  BY Invariance, PTL DEF IInv

\* A token minted by a target lives through both waits up to the start of the execution,
\* and local-lab-up waits with no other: for any times that satisfy LifeAssumption.
THEOREM TokenTheorem == Spec => []TokenOutlastsTheWaits
  <1>1. IInv => TokenOutlastsTheWaits
    <2> SUFFICES ASSUME IInv PROVE TokenOutlastsTheWaits
      OBVIOUS
    <2>1. ASSUME pc \in {"ready", "run"}, minted PROVE env.age < Life
      <3>1. env.age \in Nat /\ spent \in Nat
        BY <2>1, TimesAssumption DEF IInv, AgeInv, TypeOK, Token
      <3>2. pc = "ready" => env.age <= LoginTimeout + LongestReady
        BY <2>1, <3>1, SpentAtMost, LongestType, TimesAssumption DEF IInv, AgeInv
      <3>3. pc = "run" => env.age <= LoginTimeout + LongestReady + LongestDevices
        BY <2>1 DEF IInv, AgeInv
      <3> QED BY <2>1, <3>1, <3>2, <3>3, LongestType, TimesAssumption, LifeAssumption
    <2> QED BY <2>1 DEF TokenOutlastsTheWaits, IInv, FreshInv
  <1> QED BY <1>1, Invariance, PTL

\* A minted token carries the grants its target resolved, where the CMS image can grant:
\* for any edits, grants and prunes in between.
THEOREM GrantsTheorem == Spec => []GrantsReachTheEngine
  <1>1. IInv => GrantsReachTheEngine
    BY DEF IInv, GrantsInv, GrantsReachTheEngine
  <1> QED BY <1>1, Invariance, PTL

\* A wait that succeeds has seen each of its items ready: for any blocks and devices,
\* coming and going at any time.
THEOREM SeenTheorem == Spec => []ZeroMeansSeen
  BY Invariance, PTL DEF IInv, SeenInv

=============================================================================
