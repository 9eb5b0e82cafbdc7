----------------------------- MODULE RecordsProofs -----------------------------
(***************************************************************************)
(* Theorems about the components of Records, for any values of their       *)
(* constants: the composition itself, the plugin runtime, the router, the  *)
(* permission rules, the fence parser and the installer of language        *)
(* servers.                                                                *)
(***************************************************************************)
EXTENDS Records, WellFoundedInduction, FiniteSetTheorems, TLAPS

-----------------------------------------------------------------------------
(* The composition.                                                        *)

\* In a behaviour of the composition each component behaves as it does alone.
THEOREM EachAsAlone ==
    FocusSpec => /\ Spec /\ Permissions!Spec /\ Fences!Spec
                 /\ Answers!Spec /\ Routes!Spec /\ Installs!Spec
<1>1. FocusInit => /\ Init /\ Permissions!Init /\ Fences!Init
                   /\ Answers!Init /\ Routes!Init /\ Installs!Init
  BY DEF FocusInit
<1>2. [FocusNext]_allVars => [Next]_vars
  BY DEF FocusNext, allVars
<1>3. [FocusNext]_allVars => [Permissions!Next]_(Permissions!vars)
  BY DEF FocusNext, allVars, ruleVars, Permissions!vars
<1>4. [FocusNext]_allVars => [Fences!Next]_(Fences!vars)
  BY DEF FocusNext, allVars, fenceVars, Fences!vars
<1>5. [FocusNext]_allVars => [Answers!Next]_(Answers!vars)
  BY DEF FocusNext, allVars, answerVars, Answers!vars, Answers!callVars, Answers!turnVars,
     Answers!hostVars
<1>6. [FocusNext]_allVars => [Routes!Next]_(Routes!vars)
  BY DEF FocusNext, allVars, routeVars, Routes!vars, Routes!uiVars
<1>7. [FocusNext]_allVars => [Installs!Next]_(Installs!vars)
  BY DEF FocusNext, allVars, installVars, Installs!vars, Installs!batchVars, Installs!fileVars
<1> QED
  BY <1>1, <1>2, <1>3, <1>4, <1>5, <1>6, <1>7, PTL
     DEF FocusSpec, Spec, Permissions!Spec, Fences!Spec, Answers!Spec, Routes!Spec, Installs!Spec

-----------------------------------------------------------------------------
(* The plugin runtime: its indexes.                                        *)

\* An index that is built routes a name to one of those that have it.
LEMMA BuildServes ==
    ASSUME NEW on \in SUBSET Optional, NEW commands
    PROVE  /\ Build(on, commands) \in [Names -> Owners \cup {NoOne}]
           /\ \A n \in Names :
                /\ Build(on, commands)[n] = User => n \in commands
                /\ Build(on, commands)[n] \in Optional => n \in Contributes[Build(on, commands)[n]]
<1> SUFFICES ASSUME NEW n \in Names
             PROVE  /\ Build(on, commands)[n] \in Owners \cup {NoOne}
                    /\ Build(on, commands)[n] = User => n \in commands
                    /\ Build(on, commands)[n] \in Optional
                           => n \in Contributes[Build(on, commands)[n]]
  BY DEF Build
<1> DEFINE who == Claimants(n, on, commands)
<1>1. CASE who = {}
  <2>1. Build(on, commands)[n] = NoOne
    BY <1>1 DEF Build
  <2> QED BY <2>1, OwnersAssumption
<1>2. CASE who # {}
  <2>1. Build(on, commands)[n] = CHOOSE p \in who : TRUE
    BY <1>2 DEF Build
  <2>2. Build(on, commands)[n] \in who
    BY <1>2, <2>1
  <2> QED BY <2>2, OwnersAssumption DEF Claimants, Owners
<1> QED BY <1>1, <1>2

\* Without a conflict it routes the name to whoever has it.
LEMMA BuildDecides ==
    ASSUME NEW on \in SUBSET Optional, NEW commands, ~Conflict(on, commands),
           NEW n \in Names, NEW p \in Claimants(n, on, commands)
    PROVE  Build(on, commands)[n] = p
<1> DEFINE taken == CHOOSE q \in Claimants(n, on, commands) : TRUE
<1>1. taken \in Claimants(n, on, commands)
  OBVIOUS
<1>2. Claimants(n, on, commands) \subseteq Owners
  BY DEF Claimants, Owners
<1>3. taken = p
  BY <1>1, <1>2 DEF Conflict
<1> QED BY <1>3 DEF Build

\* An index whose user entries are renewed keeps the others.
LEMMA ReindexServes ==
    ASSUME NEW commands, slash \in [Names -> Owners \cup {NoOne}]
    PROVE  /\ Reindex(commands) \in [Names -> Owners \cup {NoOne}]
           /\ \A n \in Names :
                /\ Reindex(commands)[n] = User => n \in commands
                /\ slash[n] \notin {User, NoOne} => Reindex(commands)[n] = slash[n]
                /\ Reindex(commands)[n] \in Optional => Reindex(commands)[n] = slash[n]
BY OwnersAssumption DEF Reindex, Owners

-----------------------------------------------------------------------------
(* Types of the plugin runtime.                                            *)

\* The types hold at first.
LEMMA TypeInit == ASSUME Init PROVE TypeOK
<1>1. manager \in [open : BOOLEAN, rows : SUBSET Optional]
  BY DEF Init, Closed
<1>2. edits \in 0 .. MaxEdits
  BY OwnersAssumption DEF Init
<1>3. slash \in [Names -> Owners \cup {NoOne}]
  BY DEF Init
<1> QED BY <1>1, <1>2, <1>3 DEF Init, TypeOK

\* Every step keeps the types.
LEMMA TypeStep == ASSUME TypeOK, [Next]_vars PROVE TypeOK'
<1> USE OwnersAssumption DEF TypeOK, indexVars, trustVars, turnVars, Closed
<1>1. CASE Start
  <2>1. slash' \in [Names -> Owners \cup {NoOne}]
    BY <1>1, BuildServes DEF Start
  <2> QED BY <1>1, <2>1 DEF Start
<1>2. CASE Quit BY <1>2 DEF Quit
<1>3. CASE EditFiles BY <1>3 DEF EditFiles
<1>4. CASE Reload
  <2>1. slash' \in [Names -> Owners \cup {NoOne}]
    BY <1>4, ReindexServes DEF Reload
  <2> QED BY <1>4, <2>1 DEF Reload
<1>5. CASE OpenManager BY <1>5 DEF OpenManager
<1>6. CASE CloseManager BY <1>6 DEF CloseManager
<1>7. ASSUME NEW p \in Optional, PressRow(p) PROVE TypeOK'
  <2> DEFINE on == p \notin manager.rows
  <2>1. /\ With(enabled, p, on) \in SUBSET Optional
        /\ With(enabled, p, ~on) \in SUBSET Optional
    BY DEF With
  <2>2. Build(With(enabled, p, on), cache) \in [Names -> Owners \cup {NoOne}]
    BY <2>1, BuildServes
  <2>3. /\ slash' \in [Names -> Owners \cup {NoOne}]
        /\ enabled' \subseteq Optional /\ plugins_toml' \subseteq Optional
        /\ unsaved' \in BOOLEAN
    BY <1>7, <2>1, <2>2 DEF PressRow, ApplyToggle
  <2>4. manager' \in [open : BOOLEAN, rows : SUBSET Optional]
    BY <1>7 DEF PressRow, With
  <2> QED BY <1>7, <2>3, <2>4 DEF PressRow
<1>8. ASSUME NEW n \in Names, RunCommand(n) PROVE TypeOK'
  BY <1>8 DEF RunCommand, Expanded
<1>9. ASSUME NEW level \in {"always", "session"}, AnswerTrust(level) PROVE TypeOK'
  BY <1>9 DEF AnswerTrust, Expanded, TrustSaved
<1>10. CASE CancelTrust BY <1>10 DEF CancelTrust
<1>11. CASE SubmitPrompt BY <1>11 DEF SubmitPrompt
<1>12. CASE UNCHANGED vars BY <1>12 DEF vars
<1> QED
  BY <1>1, <1>2, <1>3, <1>4, <1>5, <1>6, <1>7, <1>8, <1>9, <1>10, <1>11, <1>12 DEF Next

\* The runtime keeps its types.
THEOREM Typing == Spec => []TypeOK
<1>1. Init => TypeOK
  BY TypeInit
<1> QED BY <1>1, TypeStep, PTL DEF Spec

-----------------------------------------------------------------------------
(* Routes of commands.                                                     *)

\* What a running process has saved is what its indexes were built from: every plugin
\* that is to be enabled, and the Core, own their names. A renewal of the user's entries
\* leaves them there, and a toggle that fails changes neither.
SavedSetOwns ==
    proc = "up" /\ ~unsaved =>
        \A n \in Names : \A p \in Claimants(n, plugins_toml, {}) : slash[n] = p

\* The invariant.
RouteInv == TypeOK /\ RoutesAreServed /\ SavedSetOwns

\* Those who claim a name without the user's commands claim it with them.
LEMMA ClaimsGrow ==
    ASSUME NEW on, NEW commands, NEW n
    PROVE  Claimants(n, on, {}) \subseteq Claimants(n, on, commands)
BY DEF Claimants

\* Every step keeps the routes.
LEMMA RouteStep == ASSUME RouteInv, [Next]_vars PROVE RoutesAreServed' /\ SavedSetOwns'
<1> USE DEF RouteInv, indexVars, trustVars, turnVars
<1>1. CASE Start
  <2> SUFFICES ASSUME proc' = "up" PROVE RoutesAreServed' /\ SavedSetOwns'
    BY DEF RoutesAreServed, SavedSetOwns
  <2>1. /\ slash' = Build(plugins_toml, files) /\ cache' = files
        /\ ~Conflict(plugins_toml, files) /\ plugins_toml' = plugins_toml
    BY <1>1 DEF Start
  <2>2. plugins_toml \in SUBSET Optional
    BY DEF TypeOK
  <2>3. RoutesAreServed'
    BY <2>1, <2>2, BuildServes DEF RoutesAreServed
  <2>4. ASSUME NEW n \in Names, NEW p \in Claimants(n, plugins_toml, {})
        PROVE  slash'[n] = p
    BY <2>1, <2>2, ClaimsGrow, BuildDecides
  <2> QED BY <2>1, <2>3, <2>4 DEF SavedSetOwns
<1>2. CASE Quit BY <1>2 DEF Quit, RoutesAreServed, SavedSetOwns
<1>3. CASE EditFiles BY <1>3 DEF EditFiles, RoutesAreServed, SavedSetOwns
<1>4. CASE Reload
  <2>1. /\ slash' = Reindex(files) /\ cache' = files /\ proc = "up"
        /\ unsaved' = unsaved /\ plugins_toml' = plugins_toml
    BY <1>4 DEF Reload, Free
  <2>2. slash \in [Names -> Owners \cup {NoOne}] /\ plugins_toml \in SUBSET Optional
    BY DEF TypeOK
  <2>3. RoutesAreServed'
    BY <2>1, <2>2, ReindexServes DEF RoutesAreServed
  <2>4. ASSUME NEW n \in Names, NEW p \in Claimants(n, plugins_toml, {}), ~unsaved
        PROVE  slash'[n] = p
    <3>1. slash[n] = p
      BY <2>1, <2>4 DEF SavedSetOwns
    <3>2. p \notin {User, NoOne}
      BY <2>2, OwnersAssumption DEF Claimants
    <3> QED BY <2>1, <2>2, <3>1, <3>2, ReindexServes
  <2> QED BY <2>1, <2>3, <2>4 DEF SavedSetOwns
<1>5. CASE OpenManager BY <1>5 DEF OpenManager, RoutesAreServed, SavedSetOwns
<1>6. CASE CloseManager BY <1>6 DEF CloseManager, RoutesAreServed, SavedSetOwns
<1>7. ASSUME NEW p \in Optional, PressRow(p) PROVE RoutesAreServed' /\ SavedSetOwns'
  <2> DEFINE on    == p \notin manager.rows
             asked == With(enabled, p, on)
  <2>0. proc' = proc /\ cache' = cache /\ asked \in SUBSET Optional
    BY <1>7 DEF PressRow, With, TypeOK
  <2>1. CASE Conflict(asked, cache)
    <3>1. UNCHANGED <<slash, plugins_toml, unsaved>>
      BY <1>7, <2>1 DEF PressRow, ApplyToggle
    <3> QED BY <2>0, <3>1 DEF RoutesAreServed, SavedSetOwns
  <2>2. CASE ~Conflict(asked, cache)
    <3>1. /\ slash' = Build(asked, cache)
          /\ ~unsaved' => plugins_toml' = asked
      BY <1>7, <2>2 DEF PressRow, ApplyToggle
    <3>2. RoutesAreServed'
      BY <2>0, <3>1, BuildServes DEF RoutesAreServed
    <3>3. ASSUME NEW n \in Names, NEW q \in Claimants(n, asked, {}) PROVE slash'[n] = q
      BY <2>0, <2>2, <3>1, ClaimsGrow, BuildDecides
    <3> QED BY <3>1, <3>2, <3>3 DEF SavedSetOwns
  <2> QED BY <2>1, <2>2
<1>8. ASSUME NEW n \in Names, RunCommand(n) PROVE RoutesAreServed' /\ SavedSetOwns'
  BY <1>8 DEF RunCommand, RoutesAreServed, SavedSetOwns
<1>9. ASSUME NEW level \in {"always", "session"}, AnswerTrust(level)
      PROVE  RoutesAreServed' /\ SavedSetOwns'
  BY <1>9 DEF AnswerTrust, RoutesAreServed, SavedSetOwns
<1>10. CASE CancelTrust BY <1>10 DEF CancelTrust, RoutesAreServed, SavedSetOwns
<1>11. CASE SubmitPrompt BY <1>11 DEF SubmitPrompt, RoutesAreServed, SavedSetOwns
<1>12. CASE UNCHANGED vars BY <1>12 DEF vars, RoutesAreServed, SavedSetOwns
<1> QED
  BY <1>1, <1>2, <1>3, <1>4, <1>5, <1>6, <1>7, <1>8, <1>9, <1>10, <1>11, <1>12 DEF Next

\* The routes hold in every reachable state.
THEOREM RouteInvariance == Spec => []RouteInv
<1>1. Init => RouteInv
  BY TypeInit DEF Init, RouteInv, RoutesAreServed, SavedSetOwns
<1>2. RouteInv /\ [Next]_vars => RouteInv'
  BY TypeStep, RouteStep DEF RouteInv
<1> QED BY <1>1, <1>2, PTL DEF Spec

\* No dispatch of a command ends in nothing, whatever was reloaded and toggled before.
THEOREM RoutesServed == Spec => []RoutesAreServed
<1>1. RouteInv => RoutesAreServed
  BY DEF RouteInv
<1> QED BY <1>1, RouteInvariance, PTL

\* What a toggle has saved does not conflict with the commands that are loaded.
LEMMA SavedSetFits == ASSUME RouteInv PROVE SavedSetStarts
<1> SUFFICES ASSUME proc = "up", ~unsaved, \A n \in cache : slash[n] = User,
                    NEW n \in Names, NEW p \in Owners, NEW q \in Owners, p # q,
                    {p, q} \subseteq Claimants(n, plugins_toml, cache)
             PROVE  FALSE
  BY DEF SavedSetStarts, Conflict
<1>1. \A r \in Claimants(n, plugins_toml, cache) :
          r = User \/ r \in Claimants(n, plugins_toml, {})
  BY DEF Claimants
<1>2. \A r \in Claimants(n, plugins_toml, {}) : slash[n] = r /\ r # User
  BY OwnersAssumption DEF RouteInv, SavedSetOwns, TypeOK, Claimants
<1>3. User \in Claimants(n, plugins_toml, cache) => slash[n] = User
  BY OwnersAssumption DEF RouteInv, TypeOK, Claimants
<1> QED BY <1>1, <1>2, <1>3

\* The next start after a saved toggle does not panic, even after toggles that failed.
THEOREM SavedStarts == Spec => []SavedSetStarts
<1>1. RouteInv => SavedSetStarts
  BY SavedSetFits
<1> QED BY <1>1, RouteInvariance, PTL

-----------------------------------------------------------------------------
(* Trust.                                                                  *)

\* A level in force, and a project that is saved, come from an answer of the user.
TrustInv ==
    /\ shell_ran => granted
    /\ trust = "always" => granted
    /\ trusted_projects => granted

\* Every step keeps it.
LEMMA TrustStep == ASSUME TypeOK, TrustInv, [Next]_vars PROVE TrustInv'
<1> USE DEF TrustInv, TypeOK, indexVars, trustVars, turnVars
<1>1. CASE Start BY <1>1 DEF Start
<1>2. CASE Quit BY <1>2 DEF Quit
<1>3. CASE EditFiles BY <1>3 DEF EditFiles
<1>4. CASE Reload BY <1>4 DEF Reload
<1>5. CASE OpenManager BY <1>5 DEF OpenManager
<1>6. CASE CloseManager BY <1>6 DEF CloseManager
<1>7. ASSUME NEW p \in Optional, PressRow(p) PROVE TrustInv' BY <1>7 DEF PressRow
<1>8. ASSUME NEW n \in Names, RunCommand(n) PROVE TrustInv'
  BY <1>8 DEF RunCommand, Expanded
<1>9. ASSUME NEW level \in {"always", "session"}, AnswerTrust(level) PROVE TrustInv'
  BY <1>9 DEF AnswerTrust, Expanded, TrustSaved
<1>10. CASE CancelTrust BY <1>10 DEF CancelTrust
<1>11. CASE SubmitPrompt BY <1>11 DEF SubmitPrompt
<1>12. CASE UNCHANGED vars BY <1>12 DEF vars
<1> QED
  BY <1>1, <1>2, <1>3, <1>4, <1>5, <1>6, <1>7, <1>8, <1>9, <1>10, <1>11, <1>12 DEF Next

\* No shell substitution runs before the user has trusted the project for good, over any
\* order of answers, cancels, failed saves and restarts.
THEOREM ShellTrusted == Spec => []ShellNeedsTrust
<1>1. Init => TrustInv
  BY DEF Init, TrustInv
<1>2. TypeOK /\ TrustInv /\ [Next]_vars => TrustInv'
  BY TrustStep
<1>3. TrustInv => ShellNeedsTrust
  BY DEF TrustInv, ShellNeedsTrust
<1> QED BY <1>1, <1>2, <1>3, Typing, PTL DEF Spec

-----------------------------------------------------------------------------
(* Numbers, and recursion over them.                                       *)

\* A set of numbers has a least one.
LEMMA Least ==
    ASSUME NEW S \in SUBSET Nat, S # {}
    PROVE  \E m \in S : \A k \in S : m <= k
<1>1. OpToRel(<, Nat) = {ss \in Nat \X Nat : ss[1] < ss[2]}
  BY ZenonT(10) DEF OpToRel
<1>2. PICK m \in S : \A k \in S : ~(<<k, m>> \in OpToRel(<, Nat))
  BY NatLessThanWellFounded, WFMin
<1>3. \A k \in S : ~(<<k, m>> \in {ss \in Nat \X Nat : ss[1] < ss[2]})
  BY <1>1, <1>2, ZenonT(10)
<1>4. \A k \in S : ~(k < m)
  BY <1>3
<1> QED
  BY <1>4

\* Induction up to n, over a set.
LEMMA UpTo ==
    ASSUME NEW n \in Nat, NEW S, 0 \in S, \A i \in 0 .. n - 1 : i \in S => i + 1 \in S
    PROVE  0 .. n \subseteq S
<1> SUFFICES ASSUME ~(0 .. n \subseteq S) PROVE FALSE
  OBVIOUS
<1> DEFINE Out == {i \in 0 .. n : i \notin S}
<1>1. PICK m \in Out : \A k \in Out : m <= k
  <2>1. Out \in SUBSET Nat /\ Out # {}
    OBVIOUS
  <2> QED
    BY <2>1, Least, Zenon
<1>2. m # 0 /\ m \in 0 .. n
  BY <1>1
<1>3. m - 1 \in 0 .. n - 1 /\ m - 1 \in 0 .. n /\ ~(m <= m - 1) /\ (m - 1) + 1 = m
  BY <1>2
<1>4. m - 1 \in S
  BY <1>1, <1>3
<1> QED
  BY <1>1, <1>3, <1>4

\* f begins with a, and g leads from each value of it to the next.
Follows(f, n, a, g) == f[0] = a /\ \A k \in 1 .. n : f[k] = g[<<k, f[k - 1]>>]

\* There is such a function.
LEMMA Recursion ==
    ASSUME NEW V, NEW n \in Nat, NEW a \in V, NEW g,
           \A k \in 1 .. n : \A v \in V : g[<<k, v>>] \in V
    PROVE  \E f \in [0 .. n -> V] : Follows(f, n, a, g)
<1> DEFINE S == {i \in 0 .. n : \E f \in [0 .. i -> V] : Follows(f, i, a, g)}
<1>1. 0 \in S
  <2>1. [i \in 0 .. 0 |-> a] \in [0 .. 0 -> V] /\ Follows([i \in 0 .. 0 |-> a], 0, a, g)
    BY DEF Follows
  <2>2. 0 \in 0 .. n
    OBVIOUS
  <2> QED
    BY <2>1, <2>2
<1>2. ASSUME NEW i \in 0 .. n - 1, i \in S PROVE i + 1 \in S
  <2>1. PICK f \in [0 .. i -> V] : Follows(f, i, a, g)
    BY <1>2
  <2>2. i \in Nat /\ i + 1 \in 1 .. n /\ i + 1 \in 0 .. n /\ f[i] \in V
    BY <2>1
  <2>3. PICK x : x = g[<<i + 1, f[i]>>] /\ x \in V
    BY <2>2
  <2>4. PICK h : h = [k \in 0 .. i + 1 |-> IF k = i + 1 THEN x ELSE f[k]]
    OBVIOUS
  <2>5. h \in [0 .. i + 1 -> V] /\ h[0] = a /\ h[i + 1] = x /\ \A k \in 0 .. i : h[k] = f[k]
    BY <2>1, <2>2, <2>3, <2>4 DEF Follows
  <2>6. ASSUME NEW k \in 1 .. i + 1 PROVE h[k] = g[<<k, h[k - 1]>>]
    <3>1. CASE k = i + 1
      <4>1. k - 1 = i /\ i \in 0 .. i
        BY <2>2, <3>1
      <4>2. h[k - 1] = f[i]
        BY <2>5, <4>1
      <4> QED
        BY <2>3, <2>5, <3>1, <4>2
    <3>2. CASE k # i + 1
      <4>1. k \in 1 .. i /\ k \in 0 .. i /\ k - 1 \in 0 .. i
        BY <2>2, <3>2
      <4> QED
        BY <2>1, <2>5, <4>1 DEF Follows
    <3> QED
      BY <3>1, <3>2
  <2>7. Follows(h, i + 1, a, g)
    BY <2>1, <2>5, <2>6 DEF Follows
  <2> QED
    BY <2>2, <2>5, <2>7
<1> HIDE DEF S
<1>3. 0 .. n \subseteq S
  BY <1>1, <1>2, UpTo
<1>4. n \in S
  BY <1>3
<1> QED
  BY <1>4 DEF S


-----------------------------------------------------------------------------
(* The router.                                                             *)

\* A catalog is a list.
LEMMA Listed == \A p \in Routes!Providers : \E n \in Nat : DOMAIN Catalog[p] = 1 .. n
BY CatalogAssumption

-----------------------------------------------------------------------------
(* The layers.                                                             *)

\* The first model that will do is one of those, and the provider's.
LEMMA FirstIsOne ==
    ASSUME NEW p \in Routes!Providers, NEW these, Routes!Offers(p) \cap these # {}
    PROVE  Routes!FirstOf(p, these) \in Routes!Offers(p) \cap these
<1> DEFINE Good  == {i \in DOMAIN Catalog[p] : Catalog[p][i] \in these}
           First(i) == /\ i \in DOMAIN Catalog[p] /\ Catalog[p][i] \in these
                       /\ \A j \in 1 .. i - 1 : Catalog[p][j] \notin these
<1>1. Good # {} /\ Good \subseteq Nat
  BY Listed DEF Routes!Offers
<1>2. PICK i \in Good : \A j \in Good : i <= j
  BY <1>1, Least, Zenon
<1>3. \A j \in Good : ~(j < i)
  BY <1>1, <1>2
<1>4. First(i)
  <2>1. ASSUME NEW j \in 1 .. i - 1 PROVE Catalog[p][j] \notin these
    <3>1. PICK n \in Nat : DOMAIN Catalog[p] = 1 .. n
      BY Listed
    <3>2. i \in 1 .. n /\ j \in Nat /\ j < i /\ j \notin Good
      BY <1>1, <1>3, <3>1
    <3> QED BY <3>1, <3>2
  <2> QED BY <1>2, <2>1
<1> QED BY <1>4 DEF Routes!FirstOf, Routes!Offers

\* Of five layers, the last of which has an answer, one that has is taken.
LEMMA OneOfFive ==
    ASSUME NEW a, NEW b, NEW c, NEW d, NEW e, e # {}
    PROVE  LET layers == <<a, b, c, d, e>>
               first  == CHOOSE i \in DOMAIN layers :
                            layers[i] # {} /\ \A j \in 1 .. i - 1 : layers[j] = {}
           IN  layers[first] \in {a, b, c, d, e}
<1> DEFINE layers == <<a, b, c, d, e>>
           Speaks(i) == layers[i] # {} /\ \A j \in 1 .. i - 1 : layers[j] = {}
<1>1. DOMAIN layers = 1 .. 5 /\ layers[1] = a /\ layers[2] = b /\ layers[3] = c
        /\ layers[4] = d /\ layers[5] = e
  OBVIOUS
<1> HIDE DEF layers
<1>2. \E i \in 1 .. 5 : Speaks(i)
  <2>1. CASE a # {}
    <3> Speaks(1)
      BY <1>1, <2>1
    <3> QED OBVIOUS
  <2>2. CASE a = {} /\ b # {}
    <3> Speaks(2)
      BY <1>1, <2>2
    <3> QED OBVIOUS
  <2>3. CASE a = {} /\ b = {} /\ c # {}
    <3> Speaks(3)
      BY <1>1, <2>3
    <3> QED OBVIOUS
  <2>4. CASE a = {} /\ b = {} /\ c = {} /\ d # {}
    <3> Speaks(4)
      BY <1>1, <2>4
    <3> QED OBVIOUS
  <2>5. CASE a = {} /\ b = {} /\ c = {} /\ d = {}
    <3> Speaks(5)
      BY <1>1, <2>5
    <3> QED OBVIOUS
  <2> QED BY <2>1, <2>2, <2>3, <2>4, <2>5
<1>3. (CHOOSE i \in DOMAIN layers : Speaks(i)) \in 1 .. 5
  BY <1>1, <1>2
<1>4. layers[CHOOSE i \in DOMAIN layers : Speaks(i)] \in {a, b, c, d, e}
  BY <1>1, <1>3
<1> QED BY <1>4 DEF layers

\* The router's answer is one of a layer's.
LEMMA PickIsOfALayer ==
    \A d \in Routes!Picks : \/ d \in Routes!OverrideLayer
                          \/ d \in Routes!ModalityLayer
                          \/ d \in Routes!RuleLayer
                    \/ d \in Routes!HeuristicLayer
                    \/ d = Routes!RouteTo(turn.active, turn.model, "default")
<1> DEFINE fallback == {Routes!RouteTo(turn.active, turn.model, "default")}
<1>1. fallback # {}
  OBVIOUS
<1> HIDE DEF fallback
<1>2. LET layers == <<Routes!OverrideLayer, Routes!ModalityLayer, Routes!RuleLayer,
                      Routes!HeuristicLayer, fallback>>
          first  == CHOOSE i \in DOMAIN layers :
                       layers[i] # {} /\ \A j \in 1 .. i - 1 : layers[j] = {}
      IN  layers[first] \in {Routes!OverrideLayer, Routes!ModalityLayer, Routes!RuleLayer,
                             Routes!HeuristicLayer, fallback}
  BY <1>1, OneOfFive, Zenon
<1>3. Routes!Picks \in {Routes!OverrideLayer, Routes!ModalityLayer, Routes!RuleLayer,
                        Routes!HeuristicLayer, fallback}
  BY <1>2, Zenon DEF Routes!Picks, fallback
<1> QED BY <1>3 DEF fallback

-----------------------------------------------------------------------------
(* The invariant.                                                          *)

\* A turn is a record of these fields.
Shape ==
    turn = [phase |-> turn.phase, msg |-> turn.msg, override |-> turn.override,
            active |-> turn.active, model |-> turn.model, rules |-> turn.rules,
            views |-> turn.views, decision |-> turn.decision, warned |-> turn.warned]

\* The layer for images picks a model that sees them.
ModalitySees ==
    turn.phase = "picked" /\ turn.decision.reason = "modality"
        => turn.decision.model \in SeesImages

\* The invariant.
RInv ==
    /\ pool \subseteq Routes!Providers
    /\ Shape /\ ModalitySees /\ Routes!AnotherVendorNeedsConsent
          /\ Routes!ImageIsSeenOrWarned

\* At the start there is no turn.
LEMMA Initially == ASSUME Routes!Init PROVE RInv
BY DEF Routes!Init, RInv, Shape, Routes!Idle, ModalitySees, Routes!AnotherVendorNeedsConsent,
       Routes!ImageIsSeenOrWarned

\* A layer names another vendor only with the user's consent, and one that is connected.
LEMMA LayersConsent ==
    ASSUME NEW d \in Routes!Picks, d.provider # turn.active
    PROVE  /\ d.provider \in pool
           /\ \/ turn.override # Nothing /\ turn.override.provider = d.provider
              \/ \E i \in DOMAIN turn.rules.rules : turn.rules.rules[i].provider = d.provider
              \/ turn.rules.heuristics
<1>1. CASE d \in Routes!OverrideLayer
  BY <1>1 DEF Routes!OverrideLayer, Routes!RouteTo
<1>2. CASE d \in Routes!ModalityLayer
  BY <1>2 DEF Routes!ModalityLayer, Routes!RouteTo
<1>3. CASE d \in Routes!RuleLayer
  BY <1>3 DEF Routes!RuleLayer, Routes!RouteTo
<1>4. CASE d \in Routes!HeuristicLayer
  BY <1>4 DEF Routes!HeuristicLayer, Routes!HaveTier, Routes!RouteTo
<1>5. CASE d = Routes!RouteTo(turn.active, turn.model, "default")
  BY <1>5 DEF Routes!RouteTo
<1> QED BY <1>1, <1>2, <1>3, <1>4, <1>5, PickIsOfALayer

\* The layer for images returns a model that sees them.
LEMMA LayersSee ==
    ASSUME pool \subseteq Routes!Providers, NEW d \in Routes!Picks, d.reason = "modality"
    PROVE  d.model \in SeesImages
<1>1. CASE d \in Routes!ModalityLayer
  <2>1. PICK p \in pool : /\ Routes!Offers(p) \cap SeesImages # {}
                          /\ d = Routes!RouteTo(p, Routes!FirstOf(p, SeesImages), "modality")
    BY <1>1 DEF Routes!ModalityLayer
  <2>2. Routes!FirstOf(p, SeesImages) \in SeesImages
    BY <2>1, FirstIsOne
  <2> QED BY <2>1, <2>2 DEF Routes!RouteTo
<1>2. ~(d \in Routes!OverrideLayer \/ d \in Routes!RuleLayer \/ d \in Routes!HeuristicLayer
          \/ d = Routes!RouteTo(turn.active, turn.model, "default"))
  BY DEF Routes!OverrideLayer, Routes!RuleLayer, Routes!HeuristicLayer, Routes!RouteTo
<1> QED BY <1>1, <1>2, PickIsOfALayer

\* What happens around a turn does not touch what it has read.
LEMMA TurnKeeps ==
    ASSUME RInv, pool' \subseteq Routes!Providers, UNCHANGED turn PROVE RInv'
BY DEF RInv, Shape, ModalitySees, Routes!AnotherVendorNeedsConsent, Routes!ImageIsSeenOrWarned

\* A turn that has no decision has nothing to answer for.
LEMMA Undecided ==
    ASSUME RInv, UNCHANGED pool, Shape', turn'.phase \notin {"picked", "routed"} PROVE RInv'
BY DEF RInv, ModalitySees, Routes!AnotherVendorNeedsConsent, Routes!ImageIsSeenOrWarned

\* Every step keeps the invariant.
LEMMA Step == ASSUME RInv, [Routes!Next]_(Routes!vars) PROVE RInv'
<1>1. CASE \E p \in Routes!Providers : Routes!Use(p) \/ Routes!Connect(p) \/ Routes!Disconnect(p)
  BY <1>1, TurnKeeps DEF RInv, Routes!Use, Routes!Connect, Routes!Disconnect
<1>2. CASE \/ \E p \in Routes!Providers, m \in Routes!Models : Routes!PickModel(p, m)
           \/ Routes!SetModel \/ Routes!RejectModel \/ Routes!ReloadRules \/ UNCHANGED Routes!vars
  BY <1>2, TurnKeeps
     DEF RInv, Routes!PickModel, Routes!SetModel, Routes!RejectModel, Routes!ReloadRules,
         Routes!vars
<1>3. CASE (\E msg \in Messages : Routes!Begin(msg)) \/ Routes!End
  <2>1. UNCHANGED pool
    BY <1>3 DEF Routes!Begin, Routes!End, Routes!hostVars
  <2>2. ASSUME NEW msg \in Messages, Routes!Begin(msg)
        PROVE  Shape' /\ turn'.phase \notin {"picked", "routed"}
    BY <2>2 DEF Routes!Begin, Routes!Idle, Shape
  <2>3. CASE Routes!End
    <3> Shape' /\ turn'.phase \notin {"picked", "routed"}
      BY <2>3 DEF Routes!End, Routes!Idle, Shape
    <3> QED BY <2>1, Undecided
  <2> QED BY <1>3, <2>1, <2>2, <2>3, Undecided
<1>4. CASE Routes!ReadActive \/ Routes!ReadModel \/ Routes!ReadRules
  <2>1. UNCHANGED pool /\ Shape' /\ turn'.phase \notin {"picked", "routed"}
    BY <1>4 DEF Routes!ReadActive, Routes!ReadModel, Routes!ReadRules, RInv, Shape, Routes!hostVars
  <2> QED BY <2>1, Undecided
<1>5. CASE Routes!Pick
  <2>1. PICK d \in Routes!Picks :
            turn' = [turn EXCEPT !.phase = "picked", !.views = pool, !.decision = d]
    BY <1>5 DEF Routes!Pick
  <2>2. UNCHANGED pool /\ Shape' /\ turn'.phase = "picked"
    BY <1>5, <2>1 DEF Routes!Pick, Routes!hostVars, RInv, Shape
  <2>3. /\ turn'.decision = d /\ turn'.views = pool
        /\ turn'.active = turn.active /\ turn'.override = turn.override /\ turn'.rules = turn.rules
    BY <2>1 DEF RInv, Shape
  <2>4. Routes!AnotherVendorNeedsConsent'
    BY <2>3, LayersConsent DEF Routes!AnotherVendorNeedsConsent
  <2>5. ModalitySees'
    BY <2>3, LayersSee DEF ModalitySees, RInv
  <2> QED BY <2>2, <2>4, <2>5 DEF RInv, Routes!ImageIsSeenOrWarned
<1>6. CASE Routes!Warn
  <2>1. /\ turn.phase = "picked" /\ UNCHANGED pool
        /\ Shape' /\ turn'.phase = "routed" /\ turn'.msg = turn.msg /\ turn'.views = pool
        /\ turn'.decision = turn.decision /\ turn'.warned = Routes!LacksVision(turn.decision)
    BY <1>6 DEF Routes!Warn, Routes!Idle, Shape, Routes!hostVars
  <2>2. Routes!ImageIsSeenOrWarned'
    BY <2>1 DEF RInv, ModalitySees, Routes!LacksVision, Routes!ImageIsSeenOrWarned
  <2> QED BY <2>1, <2>2 DEF RInv, ModalitySees, Routes!AnotherVendorNeedsConsent
<1> QED BY <1>1, <1>2, <1>3, <1>4, <1>5, <1>6 DEF Routes!Next

-----------------------------------------------------------------------------
\* A message goes to another vendor only where its prefix, a rule or the heuristics say
\* so, whatever happens between the reads of a turn (AnotherVendorNeedsConsent).
THEOREM Consented == Routes!Spec => []AnotherVendorNeedsConsent
<1>1. RInv => AnotherVendorNeedsConsent
  BY DEF RInv, AnotherVendorNeedsConsent
<1>2. Routes!Init => RInv
  BY Initially
<1>3. RInv /\ [Routes!Next]_(Routes!vars) => RInv'
  BY Step
<1> QED BY <1>1, <1>2, <1>3, PTL DEF Routes!Spec

\* A message with an image goes to a model that sees images, or the user is warned, while
\* the provider is connected and lists the model (ImageIsSeenOrWarned).
THEOREM SeenOrWarned == Routes!Spec => []ImageIsSeenOrWarned
<1>1. RInv => ImageIsSeenOrWarned
  BY DEF RInv, ImageIsSeenOrWarned
<1>2. Routes!Init => RInv
  BY Initially
<1>3. RInv /\ [Routes!Next]_(Routes!vars) => RInv'
  BY Step
<1> QED BY <1>1, <1>2, <1>3, PTL DEF Routes!Spec

-----------------------------------------------------------------------------
(* The permission rules. The library's theorems of induction take an       *)
(* operator as a parameter; UpTo takes a set, and is enough for what       *)
(* Retained returns.                                                       *)

\* f is the recursion of Retained up to n.
Keeps(f, rs, these, n) ==
    f = [i \in 0 .. n |->
            IF i = 0 THEN << >>
            ELSE IF rs[i] \in these THEN Append(f[i - 1], rs[i]) ELSE f[i - 1]]

\* There is such a function.
LEMMA KeepsExists ==
    ASSUME NEW rs, NEW these, NEW n \in Nat
    PROVE  \E f : Keeps(f, rs, these, n)
<1> DEFINE S == {i \in Nat : \E f : Keeps(f, rs, these, i)}
<1>1. 0 \in S
  <2>1. Keeps([i \in 0 .. 0 |-> << >>], rs, these, 0)
    BY DEF Keeps
  <2> QED
    BY <2>1
<1>2. ASSUME NEW i \in 0 .. n - 1, i \in S PROVE i + 1 \in S
  <2>1. PICK f : Keeps(f, rs, these, i)
    BY <1>2
  <2>2. PICK x : x = IF rs[i + 1] \in these THEN Append(f[i], rs[i + 1]) ELSE f[i]
    OBVIOUS
  <2>3. PICK g : g = [k \in 0 .. i + 1 |-> IF k = i + 1 THEN x ELSE f[k]]
    OBVIOUS
  <2>4. g = [k \in 0 .. i + 1 |->
            IF k = 0 THEN << >>
            ELSE IF rs[k] \in these THEN Append(g[k - 1], rs[k]) ELSE g[k - 1]]
    <3>1. ASSUME NEW k \in 0 .. i + 1
          PROVE  g[k] = IF k = 0 THEN << >>
                        ELSE IF rs[k] \in these THEN Append(g[k - 1], rs[k]) ELSE g[k - 1]
      <4>1. CASE k = i + 1
        <5>1. k # 0 /\ k - 1 = i /\ g[k] = x /\ g[i] = f[i]
          BY <2>3, <4>1
        <5> QED
          BY <5>1, <4>1, <2>2
      <4>2. CASE k # i + 1
        <5>1. k \in 0 .. i /\ g[k] = f[k] /\ (k # 0 => g[k - 1] = f[k - 1])
          BY <2>3, <4>2
        <5>2. f[k] = IF k = 0 THEN << >>
                     ELSE IF rs[k] \in these THEN Append(f[k - 1], rs[k]) ELSE f[k - 1]
          BY <2>1, <5>1 DEF Keeps
        <5> QED
          BY <5>1, <5>2
      <4> QED
        BY <4>1, <4>2
    <3>2. g = [k \in 0 .. i + 1 |-> g[k]]
      BY <2>3
    <3> QED
      BY <3>1, <3>2
  <2>5. Keeps(g, rs, these, i + 1)
    BY <2>4 DEF Keeps
  <2>6. i + 1 \in Nat /\ \E h : Keeps(h, rs, these, i + 1)
    BY <2>5
  <2> QED
    BY <2>6
<1> HIDE DEF S
<1>3. 0 .. n \subseteq S
  BY <1>1, <1>2, UpTo
<1> QED
  BY <1>3 DEF S

\* Retained is where it ends.
LEMMA RetainedEnds ==
    ASSUME NEW rs, NEW these, Len(rs) \in Nat
    PROVE  \E f : Keeps(f, rs, these, Len(rs))
             /\ Permissions!Retained(rs, these) = f[Len(rs)]
<1> DEFINE kept == CHOOSE f : Keeps(f, rs, these, Len(rs))
<1>1. Keeps(kept, rs, these, Len(rs))
  BY KeepsExists, Zenon
<1>2. Permissions!Retained(rs, these) = kept[Len(rs)]
  BY Zenon DEF Permissions!Retained, Keeps
<1> QED
  BY <1>1, <1>2, Zenon

\* What it does: those of the rules that are among these; all of them, if all are.
LEMMA RetainedIs ==
    ASSUME NEW rs \in Seq(Permissions!Rules), NEW these
    PROVE  /\ Permissions!Retained(rs, these) \in Seq(Permissions!Rules)
           /\ Permissions!SetOf(Permissions!Retained(rs, these))
                = Permissions!SetOf(rs) \cap these
           /\ Permissions!SetOf(rs) \subseteq these
                => Permissions!Retained(rs, these) = rs
<1>1. Len(rs) \in Nat /\ DOMAIN rs = 1 .. Len(rs)
  OBVIOUS
<1>2. PICK f : Keeps(f, rs, these, Len(rs))
        /\ Permissions!Retained(rs, these) = f[Len(rs)]
  BY <1>1, RetainedEnds
<1>3. /\ f[0] = << >>
      /\ \A i \in 0 .. Len(rs) - 1 :
           f[i + 1] = IF rs[i + 1] \in these THEN Append(f[i], rs[i + 1]) ELSE f[i]
  <2>1. f[0] = << >>
    BY <1>1, <1>2 DEF Keeps
  <2>2. ASSUME NEW i \in 0 .. Len(rs) - 1
        PROVE  f[i + 1] = IF rs[i + 1] \in these THEN Append(f[i], rs[i + 1]) ELSE f[i]
    <3>1. i + 1 \in 0 .. Len(rs) /\ i + 1 # 0 /\ (i + 1) - 1 = i
      BY <1>1
    <3> QED
      BY <3>1, <1>2 DEF Keeps
  <2> QED
    BY <2>1, <2>2
<1> DEFINE Of(i) == {rs[k] : k \in 1 .. i}
           Same(i) == Len(f[i]) = i /\ \A k \in 1 .. i : f[i][k] = rs[k]
           S == {i \in 0 .. Len(rs) :
                    /\ f[i] \in Seq(Permissions!Rules)
                    /\ Permissions!SetOf(f[i]) = Of(i) \cap these
                    /\ Permissions!SetOf(rs) \subseteq these => Same(i)}
<1>4. 0 \in S
  <2>1. Of(0) = {}
    OBVIOUS
  <2>2. f[0] \in Seq(Permissions!Rules) /\ Len(f[0]) = 0 /\ Permissions!SetOf(f[0]) = {}
    BY <1>3 DEF Permissions!SetOf
  <2>3. 0 \in 0 .. Len(rs) /\ \A k \in 1 .. 0 : f[0][k] = rs[k]
    BY <1>1
  <2> QED
    BY <2>1, <2>2, <2>3
<1>5. ASSUME NEW i \in 0 .. Len(rs) - 1, i \in S PROVE i + 1 \in S
  <2>1. i + 1 \in 1 .. Len(rs) /\ rs[i + 1] \in Permissions!Rules /\ i \in Nat
          /\ i + 1 \in 0 .. Len(rs)
    BY <1>1
  <2>2. Of(i + 1) = Of(i) \cup {rs[i + 1]}
    <3>1. 1 .. i + 1 = (1 .. i) \cup {i + 1}
      BY <2>1
    <3> QED
      BY <3>1
  <2>3. CASE rs[i + 1] \in these
    <3>1. f[i + 1] = Append(f[i], rs[i + 1]) /\ f[i] \in Seq(Permissions!Rules)
      BY <1>3, <1>5, <2>3
    <3>2. /\ f[i + 1] \in Seq(Permissions!Rules) /\ Len(f[i + 1]) = Len(f[i]) + 1
          /\ Len(f[i]) \in Nat
          /\ DOMAIN f[i + 1] = 1 .. Len(f[i]) + 1 /\ DOMAIN f[i] = 1 .. Len(f[i])
          /\ \A k \in 1 .. Len(f[i]) : f[i + 1][k] = f[i][k]
          /\ f[i + 1][Len(f[i]) + 1] = rs[i + 1]
      BY <2>1, <3>1
    <3>3. Permissions!SetOf(f[i + 1]) = Permissions!SetOf(f[i]) \cup {rs[i + 1]}
      <4>1. 1 .. Len(f[i]) + 1 = (1 .. Len(f[i])) \cup {Len(f[i]) + 1}
        BY <3>2
      <4>2. Permissions!SetOf(f[i + 1])
              = {f[i + 1][k] : k \in (1 .. Len(f[i])) \cup {Len(f[i]) + 1}}
        BY <3>2, <4>1 DEF Permissions!SetOf
      <4>3. Permissions!SetOf(f[i]) = {f[i][k] : k \in 1 .. Len(f[i])}
        BY <3>2 DEF Permissions!SetOf
      <4> QED
        BY <3>2, <4>2, <4>3
    <3>4. Permissions!SetOf(rs) \subseteq these
                        => Len(f[i + 1]) = i + 1 /\ \A k \in 1 .. i + 1 : f[i + 1][k] = rs[k]
      <4> SUFFICES ASSUME Permissions!SetOf(rs) \subseteq these
                   PROVE  Len(f[i + 1]) = i + 1 /\ \A k \in 1 .. i + 1 : f[i + 1][k] = rs[k]
        OBVIOUS
      <4>1. Len(f[i]) = i /\ \A k \in 1 .. i : f[i][k] = rs[k]
        BY <1>5
      <4> QED
        BY <4>1, <3>2, <2>1
    <3> QED
      BY <1>5, <2>1, <2>2, <2>3, <3>2, <3>3, <3>4
  <2>4. CASE rs[i + 1] \notin these
    <3>1. f[i + 1] = f[i] /\ ~(Permissions!SetOf(rs) \subseteq these)
      BY <1>1, <1>3, <2>1, <2>4 DEF Permissions!SetOf
    <3> QED
      BY <1>5, <2>1, <2>2, <2>4, <3>1
  <2> QED
    BY <2>3, <2>4
<1>6. Len(rs) \in S
  <2> HIDE DEF S
  <2>1. 0 .. Len(rs) \subseteq S
    BY <1>1, <1>4, <1>5, UpTo
  <2> QED
    BY <1>1, <2>1
<1>7. Of(Len(rs)) = Permissions!SetOf(rs)
  BY <1>1 DEF Permissions!SetOf
<1>8. ASSUME NEW g \in Seq(Permissions!Rules), Len(g) = Len(rs), \A k \in 1 .. Len(rs) :
               g[k] = rs[k]
      PROVE  g = rs
  BY <1>8
<1> QED
  BY <1>2, <1>6, <1>7, <1>8

\* Sorting by decision loses no rule.
LEMMA SortedIs ==
    ASSUME NEW rs \in Seq(Permissions!Rules)
    PROVE  Permissions!ByDecision(rs) \in Seq(Permissions!Rules)
             /\ Permissions!SetOf(Permissions!ByDecision(rs)) = Permissions!SetOf(rs)
<1> DEFINE allow == {r \in Permissions!Rules : r.decision = "allow"}
           deny  == {r \in Permissions!Rules : r.decision = "deny"}
           a == Permissions!Retained(rs, allow)
           b == Permissions!Retained(rs, deny)
<1>1. /\ a \in Seq(Permissions!Rules) /\ Permissions!SetOf(a) = Permissions!SetOf(rs) \cap allow
      /\ b \in Seq(Permissions!Rules) /\ Permissions!SetOf(b) = Permissions!SetOf(rs) \cap deny
  BY RetainedIs, Zenon
<1>2. Permissions!ByDecision(rs) = a \o b
  BY Zenon DEF Permissions!ByDecision, Permissions!WithDecision
<1>3. Permissions!SetOf(rs) \subseteq allow \cup deny
  <2>1. \A r \in Permissions!Rules : r.decision \in {"allow", "deny"}
    BY DEF Permissions!Rules, Permissions!Decisions
  <2> QED
    BY <2>1 DEF Permissions!SetOf
<1> HIDE DEF a, b, allow, deny
<1>4. a \o b \in Seq(Permissions!Rules)
        /\ Permissions!SetOf(a \o b) = Permissions!SetOf(a) \cup Permissions!SetOf(b)
  <2>1. ASSUME NEW x \in Seq(Permissions!Rules), NEW y \in Seq(Permissions!Rules)
        PROVE  x \o y \in Seq(Permissions!Rules)
                 /\ Permissions!SetOf(x \o y) = Permissions!SetOf(x) \cup Permissions!SetOf(y)
    <3>1. /\ Len(x) \in Nat /\ Len(y) \in Nat
          /\ DOMAIN x = 1 .. Len(x) /\ DOMAIN y = 1 .. Len(y)
               /\ DOMAIN (x \o y) = 1 .. Len(x) + Len(y)
          /\ \A k \in 1 .. Len(x) : (x \o y)[k] = x[k]
          /\ \A k \in 1 .. Len(y) : (x \o y)[Len(x) + k] = y[k]
          /\ x \o y \in Seq(Permissions!Rules)
      BY <2>1
    <3>2. ASSUME NEW k \in 1 .. Len(x) + Len(y)
          PROVE (x \o y)[k] \in Permissions!SetOf(x) \cup Permissions!SetOf(y)
      <4>1. CASE k \in 1 .. Len(x)
        BY <3>1, <4>1 DEF Permissions!SetOf
      <4>2. CASE k \notin 1 .. Len(x)
        <5>1. k - Len(x) \in 1 .. Len(y) /\ Len(x) + (k - Len(x)) = k
          BY <3>1, <4>2
        <5> QED
          BY <3>1, <5>1 DEF Permissions!SetOf
      <4> QED
        BY <4>1, <4>2
    <3>3. ASSUME NEW k \in 1 .. Len(x) PROVE x[k] \in Permissions!SetOf(x \o y)
      <4>1. k \in DOMAIN (x \o y)
        BY <3>1
      <4> QED
        BY <3>1, <4>1 DEF Permissions!SetOf
    <3>4. ASSUME NEW k \in 1 .. Len(y) PROVE y[k] \in Permissions!SetOf(x \o y)
      <4>1. Len(x) + k \in DOMAIN (x \o y)
        BY <3>1
      <4> QED
        BY <3>1, <4>1 DEF Permissions!SetOf
    <3>5. Permissions!SetOf(x \o y) \subseteq Permissions!SetOf(x) \cup Permissions!SetOf(y)
      BY <3>1, <3>2 DEF Permissions!SetOf
    <3>6. Permissions!SetOf(x) \subseteq Permissions!SetOf(x \o y)
            /\ Permissions!SetOf(y) \subseteq Permissions!SetOf(x \o y)
      BY <3>1, <3>3, <3>4 DEF Permissions!SetOf
    <3> QED
      BY <3>1, <3>5, <3>6
  <2> QED
    BY <1>1, <2>1
<1> QED
  BY <1>1, <1>2, <1>3, <1>4

(***************************************************************************)
(* Matching.                                                               *)
(***************************************************************************)
Hits(rs, c) == {i \in DOMAIN rs : Permissions!MatchesCall(rs[i], c)}

\* i is the first of the rules that matches.
IsFirst(i, rs, c) == i \in Hits(rs, c) /\ \A j \in Hits(rs, c) : i <= j

\* The first match decides.
LEMMA FirstDecides ==
    ASSUME NEW rs \in Seq(Permissions!Rules), NEW c, NEW i, IsFirst(i, rs, c)
    PROVE  Permissions!MatchFirst(rs, c) = rs[i].decision
             /\ rs[i].decision \in Permissions!Decisions
<1>1. Hits(rs, c) \subseteq Int /\ i \in DOMAIN rs /\ Hits(rs, c) # {}
  BY DEF Hits, IsFirst
<1>2. \A k \in Hits(rs, c) : (\A j \in Hits(rs, c) : k <= j) => k = i
  BY <1>1 DEF IsFirst
<1>3. (CHOOSE k \in Hits(rs, c) : \A j \in Hits(rs, c) : k <= j) = i
  BY <1>2, Zenon DEF IsFirst
<1>4. rs[i].decision \in Permissions!Decisions
  <2>1. rs[i] \in Permissions!Rules
    BY <1>1
  <2> QED
    BY <2>1 DEF Permissions!Rules
<1> QED
  BY <1>1, <1>3, <1>4, Zenon DEF Permissions!MatchFirst, Hits

\* There is one as soon as a rule matches.
LEMMA FirstExists ==
    ASSUME NEW rs \in Seq(Permissions!Rules), NEW c, Hits(rs, c) # {}
    PROVE  \E i : IsFirst(i, rs, c)
<1>1. Hits(rs, c) \in SUBSET Nat
  BY DEF Hits
<1>2. PICK m \in Hits(rs, c) : \A k \in Hits(rs, c) : m <= k
  BY <1>1, Least, Zenon
<1> QED
  BY <1>2, Zenon DEF IsFirst

\* Nothing is decided only when no rule matches.
LEMMA NoneMeansNoHit ==
    ASSUME NEW rs \in Seq(Permissions!Rules), NEW c
    PROVE  Permissions!MatchFirst(rs, c) = "none" <=> Hits(rs, c) = {}
<1>1. CASE Hits(rs, c) = {}
  BY <1>1, Zenon DEF Permissions!MatchFirst, Hits
<1>2. CASE Hits(rs, c) # {}
  <2>1. PICK i : IsFirst(i, rs, c)
    BY <1>2, FirstExists, Zenon
  <2>2. Permissions!MatchFirst(rs, c) \in Permissions!Decisions
    BY <2>1, FirstDecides, Zenon
  <2> QED
    BY <1>2, <2>2 DEF Permissions!Decisions
<1> QED
  BY <1>1, <1>2

\* A rule put last decides the calls it covers and no other rule matches; whatever else
\* was decided is decided the same way.
LEMMA Appended ==
    ASSUME NEW rs \in Seq(Permissions!Rules), NEW r \in Permissions!Rules, NEW c
    PROVE  /\ Permissions!MatchFirst(rs, c) # "none"
                => Permissions!MatchFirst(Append(rs, r), c) = Permissions!MatchFirst(rs, c)
           /\ Permissions!MatchFirst(rs, c) = "none" /\ Permissions!MatchesCall(r, c)
                => Permissions!MatchFirst(Append(rs, r), c) = r.decision
<1> DEFINE longer == Append(rs, r)
           n == Len(rs) + 1
<1>1. /\ longer \in Seq(Permissions!Rules) /\ DOMAIN longer = 1 .. n /\ n \in Nat
      /\ DOMAIN rs = 1 .. n - 1 /\ longer[n] = r /\ n \in 1 .. n
      /\ \A i \in 1 .. n - 1 : longer[i] = rs[i]
  OBVIOUS
<1> HIDE DEF longer, n
<1>2. Hits(longer, c) = IF Permissions!MatchesCall(r, c) THEN Hits(rs, c) \cup {n}
        ELSE Hits(rs, c)
  <2>1. 1 .. n = (1 .. n - 1) \cup {n}
    BY <1>1
  <2>2. n \notin 1 .. n - 1
    BY <1>1
  <2> QED
    BY <1>1, <2>1, <2>2, Zenon DEF Hits
<1>3. ASSUME Permissions!MatchFirst(rs, c) # "none"
      PROVE Permissions!MatchFirst(longer, c) = Permissions!MatchFirst(rs, c)
  <2>1. PICK i : IsFirst(i, rs, c)
    BY <1>3, NoneMeansNoHit, FirstExists, Zenon
  <2>2. i \in 1 .. n - 1 /\ i <= n
    BY <1>1, <2>1 DEF IsFirst, Hits
  <2>3. IsFirst(i, longer, c)
    BY <1>2, <2>1, <2>2, Zenon DEF IsFirst
  <2>4. longer[i] = rs[i]
    BY <1>1, <2>2
  <2>5. Permissions!MatchFirst(rs, c) = rs[i].decision
    BY <2>1, FirstDecides
  <2>6. Permissions!MatchFirst(longer, c) = longer[i].decision
    BY <1>1, <2>3, FirstDecides
  <2> QED
    BY <2>4, <2>5, <2>6
<1>4. ASSUME Permissions!MatchFirst(rs, c) = "none", Permissions!MatchesCall(r, c)
      PROVE  Permissions!MatchFirst(longer, c) = r.decision
  <2>1. Hits(longer, c) = {n}
    BY <1>2, <1>4, NoneMeansNoHit, Zenon
  <2>2. IsFirst(n, longer, c)
    BY <1>1, <2>1 DEF IsFirst
  <2> QED
    BY <1>1, <2>2, FirstDecides, Zenon
<1> QED
  BY <1>3, <1>4 DEF longer

(***************************************************************************)
(* The rules in force.                                                     *)
(***************************************************************************)
\* No rule has the pattern of a call that asks: its pattern matches it, so that the rule
\* would have decided it.
LEMMA AskedIsNew ==
    ASSUME NEW rs \in Seq(Permissions!Rules), NEW c \in Calls,
             Permissions!MatchFirst(rs, c) = "none"
    PROVE  Permissions!WithoutPattern(rs, c) = rs
<1>1. Hits(rs, c) = {}
  BY NoneMeansNoHit
<1>2. ASSUME NEW r \in Permissions!SetOf(rs)
      PROVE r \in {q \in Permissions!Rules : q.pattern # c}
  <2>1. PICK i \in DOMAIN rs : r = rs[i]
    BY <1>2 DEF Permissions!SetOf
  <2>2. r \in Permissions!Rules
    BY <2>1
  <2>3. r.pattern # c
    BY <1>1, <2>1, PatternsAssumption DEF Hits, Permissions!MatchesCall
  <2> QED
    BY <2>2, <2>3
<1>3. Permissions!SetOf(rs) \subseteq {q \in Permissions!Rules : q.pattern # c}
  BY <1>2
<1> QED
  BY <1>3, RetainedIs, Zenon DEF Permissions!WithoutPattern

\* What has been answered decides: above it nothing does, and the first rule that matches
\* says what was answered.
Decided(c) ==
    recorded[c] # "none"
      => /\ c \notin Sensitive
         /\ Permissions!MatchFirst(front_matter, c) = "none"
         /\ Permissions!MatchFirst(toml_rules, c) = recorded[c]

\* The types.
PTypes ==
    /\ up \in BOOLEAN /\ saved \in BOOLEAN
    /\ front_matter \in Seq(Permissions!Rules)
    /\ toml_rules \in Seq(Permissions!Rules) /\ entries \in Seq(Permissions!Rules)
    /\ asking \in Calls \cup {NoCall}
    /\ writing \in [busy : BOOLEAN, list : Seq(Permissions!Rules)]
    /\ recorded \in [Calls -> Permissions!Decisions \cup {"none"}]

\* A prompt is up for a call that nothing decides; a write under way writes the rules in
\* force, and no prompt is up meanwhile.
PInv ==
    /\ PTypes
    /\ asking # NoCall => Permissions!Evaluate(asking) = "ask"
    /\ up => \A c \in Calls : Decided(c)
    /\ ~up => asking = NoCall /\ writing = Permissions!Idle
    /\ writing.busy
         => asking = NoCall /\ Permissions!SetOf(writing.list) = Permissions!SetOf(toml_rules)
    /\ up /\ saved => Permissions!SetOf(entries) = Permissions!SetOf(toml_rules)

\* An empty list of rules.
LEMMA EmptyRules == << >> \in Seq(Permissions!Rules) /\ Permissions!SetOf(<< >>) = {}
  BY DEF Permissions!SetOf

\* It holds at the start.
LEMMA PInitially == Permissions!Init => PInv
<1> SUFFICES ASSUME Permissions!Init PROVE PInv
  OBVIOUS
<1>1. PTypes
  <2>1. front_matter \in Seq(Permissions!Rules)
    <3>1. \A r \in Permissions!Rules : <<r>> \in Seq(Permissions!Rules)
      OBVIOUS
    <3> QED
      BY <3>1, EmptyRules, Zenon DEF Permissions!Init
  <2> QED
    BY <2>1, EmptyRules DEF Permissions!Init, PTypes, Permissions!Idle
<1> QED
  BY <1>1 DEF Permissions!Init, PInv, Permissions!Idle

\* What an answer of Always or Never makes of the rules.
LEMMA RuleAdded ==
    ASSUME PInv, asking # NoCall, NEW d \in Permissions!Decisions
    PROVE  LET rule == [pattern |-> asking, decision |-> d] IN
           /\ asking \in Calls /\ rule \in Permissions!Rules
           /\ asking \notin Sensitive /\ Permissions!MatchFirst(front_matter, asking) = "none"
           /\ Permissions!Recorded(toml_rules, rule) = Append(toml_rules, rule)
           /\ Append(toml_rules, rule) \in Seq(Permissions!Rules)
           /\ Permissions!MatchFirst(Append(toml_rules, rule), asking) = d
           /\ \A c : Permissions!MatchFirst(toml_rules, c) # "none"
                                    => Permissions!MatchFirst(Append(toml_rules, rule), c)
                                      = Permissions!MatchFirst(toml_rules, c)
<1> DEFINE rule == [pattern |-> asking, decision |-> d]
<1>1. asking \in Calls /\ toml_rules \in Seq(Permissions!Rules)
        /\ front_matter \in Seq(Permissions!Rules)
  BY DEF PInv, PTypes
<1>2. rule \in Permissions!Rules /\ rule.pattern = asking /\ rule.decision = d
  BY <1>1 DEF Permissions!Rules, Permissions!Patterns
<1>3. Append(toml_rules, rule) \in Seq(Permissions!Rules)
  BY <1>1, <1>2
<1>4. /\ asking \notin Sensitive
      /\ Permissions!MatchFirst(front_matter, asking) = "none"
           /\ Permissions!MatchFirst(toml_rules, asking) = "none"
  <2>1. \A rs \in Seq(Permissions!Rules) : Permissions!MatchFirst(rs, asking) # "ask"
    <3> SUFFICES ASSUME NEW rs \in Seq(Permissions!Rules)
                 PROVE Permissions!MatchFirst(rs, asking) # "ask"
      OBVIOUS
    <3>1. CASE Permissions!MatchFirst(rs, asking) = "none"
      BY <3>1
    <3>2. CASE Permissions!MatchFirst(rs, asking) # "none"
      <4>1. PICK i : IsFirst(i, rs, asking)
        BY <3>2, NoneMeansNoHit, FirstExists
      <4>2. Permissions!MatchFirst(rs, asking) \in Permissions!Decisions
        BY <4>1, FirstDecides, Zenon
      <4> QED
        BY <4>2 DEF Permissions!Decisions
    <3> QED
      BY <3>1, <3>2
  <2>2. Permissions!Evaluate(asking) = "ask"
    BY DEF PInv
  <2> QED
    BY <1>1, <2>1, <2>2 DEF Permissions!Evaluate
<1>5. Permissions!WithoutPattern(toml_rules, asking) = toml_rules
  BY <1>1, <1>4, AskedIsNew
<1>6. Permissions!Recorded(toml_rules, rule) = Append(toml_rules, rule)
  BY <1>2, <1>5, Zenon DEF Permissions!Recorded
<1>7. Permissions!MatchesCall(rule, asking)
  BY <1>1, <1>2, PatternsAssumption, Zenon DEF Permissions!MatchesCall
<1>8. Permissions!MatchFirst(Append(toml_rules, rule), asking) = d
  BY <1>1, <1>2, <1>4, <1>7, Appended, Zenon
<1>9. \A c : Permissions!MatchFirst(toml_rules, c) # "none"
                           => Permissions!MatchFirst(Append(toml_rules, rule), c)
                             = Permissions!MatchFirst(toml_rules, c)
  BY <1>1, <1>2, Appended, Zenon
<1> QED
  BY <1>1, <1>2, <1>3, <1>4, <1>6, <1>8, <1>9, Zenon

\* Every step keeps it.
LEMMA PStep == PInv /\ [Permissions!Next]_(Permissions!vars) => PInv'
<1> SUFFICES ASSUME PInv, [Permissions!Next]_(Permissions!vars) PROVE PInv'
  OBVIOUS
<1> USE DEF PInv, PTypes
<1>1. CASE Permissions!Start
  <2>1. /\ Permissions!ByDecision(entries) \in Seq(Permissions!Rules)
        /\ Permissions!SetOf(Permissions!ByDecision(entries)) = Permissions!SetOf(entries)
    BY SortedIs
  <2>2. PTypes' /\ up' /\ asking' = NoCall /\ writing' = Permissions!Idle
    BY <1>1, <2>1 DEF Permissions!Start
  <2>3. \A c \in Calls : recorded'[c] = "none"
    BY <1>1 DEF Permissions!Start
  <2>4. Permissions!SetOf(entries') = Permissions!SetOf(toml_rules')
    BY <1>1, <2>1, Zenon DEF Permissions!Start
  <2> QED
    BY <2>2, <2>3, <2>4, Zenon DEF Decided, Permissions!Idle
<1>2. CASE Permissions!AnswerOnce
  BY <1>2 DEF Permissions!AnswerOnce, Decided
<1>3. CASE Permissions!WriteEnds
  <2>1. /\ PTypes' /\ up' /\ up /\ asking' = NoCall /\ writing' = Permissions!Idle
             /\ ~Permissions!Idle.busy
    BY <1>3, EmptyRules DEF Permissions!WriteEnds, Permissions!Idle
  <2>2. \A c \in Calls : Decided(c)'
    BY <1>3 DEF Permissions!WriteEnds, Decided
  <2>3. saved' => Permissions!SetOf(entries') = Permissions!SetOf(toml_rules')
    BY <1>3 DEF Permissions!WriteEnds
  <2> QED
    BY <2>1, <2>2, <2>3
<1>4. CASE Permissions!Stop
  <2>1. PTypes' /\ ~up' /\ asking' = NoCall /\ writing' = Permissions!Idle
          /\ ~Permissions!Idle.busy
    BY <1>4, EmptyRules DEF Permissions!Stop, Permissions!Idle
  <2> QED
    BY <2>1
<1>5. CASE Permissions!HandEdit
  <2>1. entries' \in Seq(Permissions!Rules)
    <3>1. 0 .. MaxRules \subseteq Nat
      OBVIOUS
    <3>2. \A n \in Nat : [1 .. n -> Permissions!Rules] \subseteq Seq(Permissions!Rules)
      OBVIOUS
    <3> QED
      BY <1>5, <3>1, <3>2 DEF Permissions!HandEdit, Permissions!RuleLists
  <2>2. /\ UNCHANGED <<up, front_matter, toml_rules, asking, writing, recorded>>
        /\ ~up /\ saved' = FALSE
    BY <1>5 DEF Permissions!HandEdit
  <2> QED
    BY <2>1, <2>2 DEF Permissions!Idle
<1>6. ASSUME NEW c \in Calls, Permissions!AskUser(c) PROVE PInv'
  <2>1. /\ PTypes' /\ up' /\ up /\ ~writing.busy /\ writing' = writing /\ asking' = c
        /\ UNCHANGED <<saved, entries, toml_rules, front_matter, recorded>>
        /\ Permissions!Evaluate(c) = "ask"
    BY <1>6 DEF Permissions!AskUser
  <2>2. Permissions!Evaluate(asking)' = "ask"
    BY <2>1 DEF Permissions!Evaluate
  <2>3. \A k \in Calls : Decided(k)'
    BY <2>1 DEF Decided
  <2> QED
    BY <2>1, <2>2, <2>3
<1>7. ASSUME NEW d \in Permissions!Decisions, Permissions!AnswerAlways(d) PROVE PInv'
  <2> DEFINE rule == [pattern |-> asking, decision |-> d]
             longer == Append(toml_rules, rule)
  <2>1. up /\ asking # NoCall /\ ~writing.busy
    BY <1>7 DEF Permissions!AnswerAlways
  <2>2. /\ asking \in Calls /\ asking \notin Sensitive
             /\ Permissions!MatchFirst(front_matter, asking) = "none"
        /\ Permissions!Recorded(toml_rules, rule) = longer /\ longer \in Seq(Permissions!Rules)
        /\ Permissions!MatchFirst(longer, asking) = d
        /\ \A c : Permissions!MatchFirst(toml_rules, c) # "none"
             => Permissions!MatchFirst(longer, c) = Permissions!MatchFirst(toml_rules, c)
    BY <2>1, RuleAdded, Zenon
  <2> HIDE DEF longer
  <2>3. /\ toml_rules' = longer /\ up' /\ asking' = NoCall /\ saved' = FALSE
        /\ recorded' = [recorded EXCEPT ![asking] = d] /\ front_matter' = front_matter
        /\ \/ /\ writing' = [busy |-> TRUE, list |-> Permissions!Serialized(toml_rules, rule)]
              /\ entries' = << >>
           \/ UNCHANGED <<writing, entries>>
    BY <1>7, <2>1, <2>2, Zenon DEF Permissions!AnswerAlways
  <2>4. Permissions!Serialized(toml_rules, rule) \in Seq(Permissions!Rules)
          /\ Permissions!SetOf(Permissions!Serialized(toml_rules, rule))
               = Permissions!SetOf(longer)
    BY <2>2, SortedIs, Zenon DEF Permissions!Serialized
  <2>5. PTypes'
    <3>1. recorded' \in [Calls -> Permissions!Decisions \cup {"none"}]
      BY <2>2, <2>3
    <3>2. writing' \in [busy : BOOLEAN, list : Seq(Permissions!Rules)]
            /\ entries' \in Seq(Permissions!Rules)
      <4>1. ASSUME NEW list \in Seq(Permissions!Rules), writing' = [busy |-> TRUE, list |-> list]
            PROVE  writing' \in [busy : BOOLEAN, list : Seq(Permissions!Rules)]
        BY <4>1
      <4> QED
        BY <2>3, <2>4, <4>1, EmptyRules
    <3> QED
      BY <2>2, <2>3, <3>1, <3>2
  <2>6. writing'.busy => Permissions!SetOf(writing'.list) = Permissions!SetOf(toml_rules')
    BY <2>1, <2>3, <2>4
  <2>7. ASSUME NEW c \in Calls PROVE Decided(c)'
    <3>1. CASE c = asking
      <4>1. recorded'[c] = d
        BY <2>3, <3>1
      <4> QED
        BY <2>2, <2>3, <3>1, <4>1 DEF Decided
    <3>2. CASE c # asking
      <4>1. recorded'[c] = recorded[c]
        BY <2>3, <3>2
      <4>2. Decided(c)
        BY <2>1
      <4> QED
        BY <2>2, <2>3, <4>1, <4>2 DEF Decided
    <3> QED
      BY <3>1, <3>2
  <2> QED
    BY <2>3, <2>5, <2>6, <2>7
<1>8. CASE UNCHANGED Permissions!vars
  <2>1. \A c \in Calls : Decided(c)' = Decided(c)
    BY <1>8 DEF Permissions!vars, Decided
  <2> QED
    BY <1>8, <2>1 DEF Permissions!vars, Permissions!Evaluate
<1> QED
  BY <1>1, <1>2, <1>3, <1>4, <1>5, <1>6, <1>7, <1>8 DEF Permissions!Next

\* PInv holds always.
LEMMA Permission == Permissions!Spec => []PInv
<1> QED
  BY PInitially, PStep, PTL DEF Permissions!Spec

\* An Always or Never decides its call for the rest of the session: a rule that was added
\* last decides its call because nothing before it did, and later ones come after it.
THEOREM Obeyed == Permissions!Spec => []AnswerIsObeyed
<1>1. PInv => AnswerIsObeyed
  <2> SUFFICES ASSUME PInv, up, NEW c \in Calls, recorded[c] # "none"
               PROVE  Permissions!Evaluate(c) = recorded[c]
    BY DEF AnswerIsObeyed, Permissions!AnswerIsObeyed
  <2>1. Decided(c)
    BY DEF PInv
  <2> QED
    BY <2>1 DEF Decided, Permissions!Evaluate
<1> QED
  BY <1>1, Permission, PTL

\* After it was loaded or written, permissions.toml holds the rules in force, whatever was
\* edited, answered, cut off by a crash or not written before.
THEOREM SavedAsInForce == Permissions!Spec => []SavedRulesAreTheRules
<1>1. PInv => SavedRulesAreTheRules
  <2> SUFFICES ASSUME PInv, up, saved
               PROVE Permissions!SetOf(Permissions!ByDecision(entries))
                       = Permissions!SetOf(toml_rules)
    BY DEF SavedRulesAreTheRules, Permissions!SavedRulesAreTheRules
  <2>1. Permissions!SetOf(Permissions!ByDecision(entries)) = Permissions!SetOf(entries)
    BY SortedIs DEF PInv, PTypes
  <2> QED
    BY <2>1 DEF PInv
<1> QED
  BY <1>1, Permission, PTL

-----------------------------------------------------------------------------
(* The fence parser. The reference reads whole lines; the parser is behind *)
(* it by what it holds back of the line that is not complete.              *)

(***************************************************************************)
(* Types.                                                                  *)
(***************************************************************************)
Out     == Seq(Fences!Kinds \X Fences!Tokens)
\* The state of a parser.
Parsers == [buf : Seq(Fences!Tokens), inside : BOOLEAN, out : Out]

\* The kind of a chunk.
Side(inside) == IF inside THEN "html" ELSE "text"

\* A chunk has the side of its parser.
LEMMA ChunkType ==
    ASSUME NEW inside \in BOOLEAN, NEW s \in Seq(Fences!Tokens)
    PROVE  /\ Fences!Chunk(inside, s) \in Out /\ Len(Fences!Chunk(inside, s)) = Len(s)
           /\ \A i \in 1 .. Len(s) : Fences!Chunk(inside, s)[i] = <<Side(inside), s[i]>>
<1>1. PICK n \in Nat : DOMAIN s = 1 .. n /\ n = Len(s) /\ \A i \in 1 .. n : s[i] \in Fences!Tokens
  OBVIOUS
<1>2. PICK kind \in Fences!Kinds : kind = Side(inside)
  BY DEF Fences!Kinds, Side
<1>3. Fences!Chunk(inside, s) = [i \in 1 .. n |-> <<kind, s[i]>>]
  BY <1>1, <1>2 DEF Fences!Chunk, Side
<1>4. [i \in 1 .. n |-> <<kind, s[i]>>] \in Seq(Fences!Kinds \X Fences!Tokens)
  BY <1>1, <1>2
<1>5. Len([i \in 1 .. n |-> <<kind, s[i]>>]) = n
  BY <1>1
<1> QED
  BY <1>1, <1>2, <1>3, <1>4, <1>5 DEF Out

\* Consuming a line keeps the type of the parser.
LEMMA ConsumeLineType ==
    ASSUME NEW p \in Parsers, NEW line \in Seq(Fences!Tokens)
    PROVE  Fences!ConsumeLine(p, line) \in Parsers
<1>1. p.out \o Fences!Chunk(p.inside, line) \in Out
  BY ChunkType DEF Parsers, Out
<1> QED
  BY <1>1 DEF Fences!ConsumeLine, Parsers

\* Feeding it a token keeps it.
LEMMA FeedType ==
    ASSUME NEW p \in Parsers, NEW token \in Fences!Tokens
    PROVE  Fences!Feed(p, token) \in Parsers
<1>1. Append(p.buf, token) \in Seq(Fences!Tokens) /\ << >> \in Seq(Fences!Tokens)
  BY DEF Parsers
<1>2. Fences!ConsumeLine(p, Append(p.buf, token)) \in Parsers
  BY <1>1, ConsumeLineType
<1>3. \A q \in Parsers : \A b \in Seq(Fences!Tokens) : [q EXCEPT !.buf = b] \in Parsers
  BY DEF Parsers
<1> QED
  BY <1>1, <1>2, <1>3, Zenon DEF Fences!Feed

\* Flushing it keeps it.
LEMMA FlushType ==
    ASSUME NEW p \in Parsers
    PROVE  Fences!SplitSafeFlush(p) \in Parsers /\ Fences!FinishOf(p) \in Parsers
<1>1. p.out \o Fences!Chunk(p.inside, p.buf) \in Out
  BY ChunkType DEF Parsers, Out
<1>2. Fences!ConsumeLine(p, p.buf) \in Parsers
  BY ConsumeLineType DEF Parsers
<1>3. << >> \in Seq(Fences!Tokens)
  OBVIOUS
<1> QED
  BY <1>1, <1>2, <1>3 DEF Fences!SplitSafeFlush, Fences!FinishOf, Parsers

\* f is the recursion of Fed.
Feeds(f, p, fragment) ==
    f = [i \in 0 .. Len(fragment) |-> IF i = 0 THEN p ELSE Fences!Feed(f[i - 1], fragment[i])]

\* A parser is fed a fragment token by token.
LEMMA FedIs ==
    ASSUME NEW p \in Parsers, NEW fragment \in Seq(Fences!Tokens)
    PROVE  \E f \in [0 .. Len(fragment) -> Parsers] :
              /\ f[0] = p
              /\ \A i \in 1 .. Len(fragment) : f[i] = Fences!Feed(f[i - 1], fragment[i])
              /\ Fences!Fed(p, fragment) = f[Len(fragment)]
<1>1. PICK n \in Nat : n = Len(fragment) /\ \A i \in 1 .. n : fragment[i] \in Fences!Tokens
  OBVIOUS
<1> DEFINE g == [x \in (1 .. n) \X Parsers |-> Fences!Feed(x[2], fragment[x[1]])]
<1>2. \A k \in 1 .. n : \A v \in Parsers : g[<<k, v>>] \in Parsers
  BY <1>1, FeedType
<1>3. PICK f \in [0 .. n -> Parsers] : Follows(f, n, p, g)
  <2> HIDE DEF g
  <2> QED
    BY <1>1, <1>2, Recursion
<1>4. \A k \in 1 .. n : f[k] = Fences!Feed(f[k - 1], fragment[k])
  <2> SUFFICES ASSUME NEW k \in 1 .. n PROVE f[k] = Fences!Feed(f[k - 1], fragment[k])
    OBVIOUS
  <2>1. k - 1 \in 0 .. n
    OBVIOUS
  <2>2. <<k, f[k - 1]>> \in (1 .. n) \X Parsers
    BY <2>1
  <2> QED
    BY <1>3, <2>2 DEF Follows
<1>5. Feeds(f, p, fragment)
  <2>1. f = [i \in 0 .. n |-> f[i]]
    OBVIOUS
  <2>2. ASSUME NEW i \in 0 .. n
        PROVE  f[i] = IF i = 0 THEN p ELSE Fences!Feed(f[i - 1], fragment[i])
    <3>1. i # 0 => i \in 1 .. n
      OBVIOUS
    <3> QED
      BY <1>3, <1>4, <3>1 DEF Follows
  <2>3. f = [i \in 0 .. n |-> IF i = 0 THEN p ELSE Fences!Feed(f[i - 1], fragment[i])]
    BY <2>1, <2>2, Zenon
  <2> QED
    BY <1>1, <2>3 DEF Feeds
<1>6. PICK h : h = (CHOOSE e : Feeds(e, p, fragment))
  OBVIOUS
<1>7. Feeds(h, p, fragment)
  BY <1>5, <1>6, Zenon
<1>8. Fences!Fed(p, fragment) = h[n]
  BY <1>1, <1>6, Zenon DEF Fences!Fed, Feeds
<1>9. h[0] = p /\ \A i \in 1 .. n : h[i] = Fences!Feed(h[i - 1], fragment[i])
  <2>1. h[0] = p
    BY <1>1, <1>7 DEF Feeds
  <2>2. ASSUME NEW i \in 1 .. n PROVE h[i] = Fences!Feed(h[i - 1], fragment[i])
    BY <1>1, <1>7 DEF Feeds
  <2> QED
    BY <2>1, <2>2
<1>10. h[n] = f[n]
  <2> DEFINE S == {i \in 0 .. n : h[i] = f[i]}
  <2>1. 0 \in S
    BY <1>3, <1>9 DEF Follows
  <2>2. ASSUME NEW i \in 0 .. n - 1, i \in S PROVE i + 1 \in S
    <3>1. i + 1 \in 1 .. n /\ (i + 1) - 1 = i /\ i + 1 \in 0 .. n
      OBVIOUS
    <3> QED
      BY <1>4, <1>9, <2>2, <3>1
  <2> HIDE DEF S
  <2>3. 0 .. n \subseteq S
    BY <2>1, <2>2, UpTo
  <2>4. n \in S
    BY <2>3
  <2> QED
    BY <2>4 DEF S
<1> QED
  BY <1>1, <1>3, <1>4, <1>8, <1>10 DEF Follows

(***************************************************************************)
(* Lines.                                                                  *)
(***************************************************************************)
\* The line of s that is read after i tokens begins at k.
Opened(s, k, i) == k \in 1 .. i + 1 /\ Fences!Begins(s, k) /\ \A j \in k .. i : s[j] # "newline"

\* A line goes from its beginning.
LEMMA LineToIs ==
    ASSUME NEW s \in Seq(Fences!Tokens), NEW i \in 1 .. Len(s), NEW k \in 1 .. i,
           Fences!Begins(s, k), \A j \in k .. i - 1 : s[j] # "newline"
    PROVE  Fences!LineTo(s, i) = SubSeq(s, k, i)
<1> DEFINE Begin(b) == Fences!Begins(s, b) /\ \A j \in b + 1 .. i : ~Fences!Begins(s, j)
<1>1. Begin(k)
  <2>1. ASSUME NEW j \in k + 1 .. i PROVE ~Fences!Begins(s, j)
    <3>1. j - 1 \in k .. i - 1 /\ j # 1
      OBVIOUS
    <3> QED
      BY <3>1 DEF Fences!Begins
  <2> QED
    BY <2>1
<1>2. ASSUME NEW b \in 1 .. i, Begin(b) PROVE b = k
  <2>1. CASE b < k
    <3>1. k \in b + 1 .. i
      BY <2>1
    <3> QED
      BY <1>2, <3>1
  <2>2. CASE k < b
    <3>1. b \in k + 1 .. i
      BY <2>2
    <3> QED
      BY <1>1, <1>2, <3>1
  <2> QED
    BY <2>1, <2>2
<1> HIDE DEF Begin
<1>3. (CHOOSE b \in 1 .. i : Begin(b)) = k
  BY <1>1, <1>2, Zenon
<1> QED
  BY <1>3, Zenon DEF Begin, Fences!LineTo

\* A line grows by the token that is read.
LEMMA LineGrows ==
    ASSUME NEW s \in Seq(Fences!Tokens), NEW i \in 0 .. Len(s) - 1, NEW k \in 1 .. i + 1
    PROVE  /\ SubSeq(s, k, i) \in Seq(Fences!Tokens)
           /\ SubSeq(s, k, i + 1) = Append(SubSeq(s, k, i), s[i + 1])
  OBVIOUS

\* f is the recursion of CompleteLines.
Consumes(f, s) ==
    f = [i \in 0 .. Len(s) |->
            IF i = 0 THEN Fences!New ELSE Fences!ConsumeAt(f[i - 1], s, i)]

\* A new parser has its type.
LEMMA NewType == Fences!New \in Parsers
  BY DEF Fences!New, Parsers, Out

\* There always is such a beginning.
LEMMA OpenedExists ==
    ASSUME NEW s \in Seq(Fences!Tokens), NEW i \in 0 .. Len(s)
    PROVE  \E k : Opened(s, k, i)
<1> DEFINE S == {n \in 0 .. Len(s) : \E k : Opened(s, k, n)}
<1>1. 0 \in S
  <2>1. Opened(s, 1, 0)
    BY DEF Opened, Fences!Begins
  <2> QED
    BY <2>1
<1>2. ASSUME NEW n \in 0 .. Len(s) - 1, n \in S PROVE n + 1 \in S
  <2>1. PICK k : Opened(s, k, n)
    BY <1>2
  <2>2. CASE s[n + 1] = "newline"
    <3>1. Opened(s, n + 2, n + 1)
      BY <2>2 DEF Opened, Fences!Begins
    <3> QED
      BY <3>1
  <2>3. CASE s[n + 1] # "newline"
    <3>1. \A j \in k .. n + 1 : j \in k .. n \/ j = n + 1
      BY <2>1 DEF Opened
    <3>2. Opened(s, k, n + 1)
      BY <2>1, <2>3, <3>1 DEF Opened
    <3> QED
      BY <3>2
  <2> QED
    BY <2>2, <2>3
<1> HIDE DEF S
<1>3. 0 .. Len(s) \subseteq S
  <2>1. Len(s) \in Nat
    OBVIOUS
  <2> QED
    BY <1>1, <1>2, <2>1, UpTo
<1> QED
  BY <1>3 DEF S

\* A line up to a place is tokens.
LEMMA LineToType ==
    ASSUME NEW s \in Seq(Fences!Tokens), NEW i \in 1 .. Len(s)
    PROVE  Fences!LineTo(s, i) \in Seq(Fences!Tokens)
<1>1. PICK k : Opened(s, k, i - 1)
  BY OpenedExists
<1>2. k \in 1 .. i /\ Fences!Begins(s, k) /\ \A j \in k .. i - 1 : s[j] # "newline"
  BY <1>1 DEF Opened
<1>3. Fences!LineTo(s, i) = SubSeq(s, k, i)
  BY <1>2, LineToIs
<1> QED
  BY <1>2, <1>3

\* A parser consumes the complete lines of a text, place by place.
LEMMA CompleteLinesIs ==
    ASSUME NEW s \in Seq(Fences!Tokens)
    PROVE  \E f : Consumes(f, s) /\ Fences!CompleteLines(s) = f[Len(s)]
<1>1. PICK n \in Nat : n = Len(s)
  OBVIOUS
<1> DEFINE g == [x \in (1 .. n) \X Parsers |-> Fences!ConsumeAt(x[2], s, x[1])]
<1>2. \A k \in 1 .. n : \A v \in Parsers : g[<<k, v>>] \in Parsers
  <2>1. ASSUME NEW i \in 1 .. n, NEW p \in Parsers
        PROVE  Fences!ConsumeAt(p, s, i) \in Parsers
    BY <1>1, LineToType, ConsumeLineType DEF Fences!ConsumeAt
  <2> QED
    BY <2>1
<1>3. PICK f \in [0 .. n -> Parsers] : Follows(f, n, Fences!New, g)
  <2> HIDE DEF g
  <2> QED
    BY <1>1, <1>2, NewType, Recursion
<1>4. \A k \in 1 .. n :
         f[k] = Fences!ConsumeAt(f[k - 1], s, k)
  <2> SUFFICES ASSUME NEW k \in 1 .. n
               PROVE  f[k] = Fences!ConsumeAt(f[k - 1], s, k)
    OBVIOUS
  <2>1. k - 1 \in 0 .. n
    BY <1>1
  <2>2. <<k, f[k - 1]>> \in (1 .. n) \X Parsers
    BY <2>1, <1>3
  <2> QED
    BY <1>3, <2>2 DEF Follows
<1>5. Consumes(f, s)
  <2>1. f = [i \in 0 .. n |-> f[i]]
    BY <1>3
  <2>2. ASSUME NEW i \in 0 .. n
        PROVE  f[i] = IF i = 0 THEN Fences!New ELSE Fences!ConsumeAt(f[i - 1], s, i)
    <3>1. i # 0 => i \in 1 .. n
      BY <1>1
    <3> QED
      BY <1>3, <1>4, <3>1 DEF Follows
  <2>3. f = [i \in 0 .. n |->
                IF i = 0 THEN Fences!New ELSE Fences!ConsumeAt(f[i - 1], s, i)]
    BY <2>1, <2>2, Zenon
  <2> QED
    BY <1>1, <2>3 DEF Consumes
<1>6. PICK h : h = (CHOOSE e : Consumes(e, s))
  OBVIOUS
<1>7. Consumes(h, s)
  BY <1>5, <1>6, Zenon
<1>8. Fences!CompleteLines(s) = h[Len(s)]
  BY <1>6, Zenon DEF Fences!CompleteLines, Consumes
<1> QED
  BY <1>7, <1>8

\* What is consumed after each token.
LEMMA ConsumedAt ==
    ASSUME NEW s \in Seq(Fences!Tokens), NEW f, Consumes(f, s)
    PROVE  /\ f[0] = Fences!New
           /\ \A i \in 0 .. Len(s) - 1 :
                f[i + 1] = Fences!ConsumeAt(f[i], s, i + 1)
           /\ \A i \in 0 .. Len(s) : f[i] \in Parsers
<1>1. f[0] = Fences!New
  BY DEF Consumes
<1>2. ASSUME NEW i \in 0 .. Len(s) - 1
      PROVE  f[i + 1] = Fences!ConsumeAt(f[i], s, i + 1)
  <2>1. i + 1 \in 0 .. Len(s) /\ i + 1 # 0 /\ (i + 1) - 1 = i
    OBVIOUS
  <2> QED
    BY <2>1 DEF Consumes
<1>3. \A i \in 0 .. Len(s) : f[i] \in Parsers
  <2> DEFINE S == {i \in 0 .. Len(s) : f[i] \in Parsers}
  <2>1. 0 \in S
    BY <1>1, NewType
  <2>2. ASSUME NEW i \in 0 .. Len(s) - 1, i \in S PROVE i + 1 \in S
    <3>1. i + 1 \in 1 .. Len(s) /\ i + 1 \in 0 .. Len(s)
      OBVIOUS
    <3>2. f[i + 1] \in Parsers
      BY <1>2, <2>2, <3>1, LineToType, ConsumeLineType DEF Fences!ConsumeAt
    <3> QED
      BY <3>1, <3>2
  <2> HIDE DEF S
  <2>3. 0 .. Len(s) \subseteq S
    BY <2>1, <2>2, UpTo
  <2> QED
    BY <2>3 DEF S
<1> QED
  BY <1>1, <1>2, <1>3

\* What is consumed of a text does not change when it goes on.
LEMMA ConsumedStays ==
    ASSUME NEW s \in Seq(Fences!Tokens), NEW more \in Seq(Fences!Tokens), NEW f, NEW h,
           Consumes(f, s), Consumes(h, more), Len(s) <= Len(more),
           \A i \in 1 .. Len(s) : more[i] = s[i]
    PROVE  h[Len(s)] = f[Len(s)]
<1> DEFINE S == {i \in 0 .. Len(s) : h[i] = f[i]}
<1>1. 0 \in S
  BY ConsumedAt
<1>2. ASSUME NEW i \in 0 .. Len(s) - 1, i \in S PROVE i + 1 \in S
  <2>1. /\ i + 1 \in 1 .. Len(s) /\ i + 1 \in 0 .. Len(s)
        /\ i \in 0 .. Len(more) - 1 /\ i + 1 \in 1 .. Len(more)
    OBVIOUS
  <2>2. Fences!LineTo(more, i + 1) = Fences!LineTo(s, i + 1)
    <3>1. PICK k : Opened(s, k, i)
      BY OpenedExists
    <3>2. k \in 1 .. i + 1 /\ Fences!Begins(s, k) /\ \A j \in k .. i : s[j] # "newline"
      BY <3>1 DEF Opened
    <3>3. Fences!Begins(more, k) /\ \A j \in k .. i : more[j] # "newline"
      BY <3>2 DEF Fences!Begins
    <3>4. Fences!LineTo(s, i + 1) = SubSeq(s, k, i + 1)
            /\ Fences!LineTo(more, i + 1) = SubSeq(more, k, i + 1)
      BY <2>1, <3>2, <3>3, LineToIs
    <3>5. SubSeq(s, k, i + 1) = SubSeq(more, k, i + 1)
      BY <2>1, <3>2
    <3> QED
      BY <3>4, <3>5
  <2>3. /\ h[i + 1] = Fences!ConsumeAt(h[i], more, i + 1)
        /\ f[i + 1] = Fences!ConsumeAt(f[i], s, i + 1)
    BY <2>1, ConsumedAt
  <2> QED
    BY <1>2, <2>1, <2>2, <2>3 DEF Fences!ConsumeAt
<1> HIDE DEF S
<1>3. 0 .. Len(s) \subseteq S
  <2>1. Len(s) \in Nat
    OBVIOUS
  <2> QED
    BY <1>1, <1>2, <2>1, UpTo
<1>4. Len(s) \in S
  BY <1>3
<1> QED
  BY <1>4 DEF S

(***************************************************************************)
(* Markers.                                                                *)
(***************************************************************************)
\* There are no backticks in s.
NoTicks(s) == \A i \in DOMAIN s : s[i] # "ticks"

\* Backticks follow blanks only.
BlanksBefore(s) ==
    \A i \in DOMAIN s : s[i] = "ticks" => \A j \in 1 .. i - 1 : s[j] = "blank"

\* The line is no marker, and cannot become one: backticks come too late, or are followed by
\* what no marker has there.
Spoilt(inside, s) ==
    \/ NoTicks(s) /\ \E i \in DOMAIN s : s[i] # "blank"
    \/ \E k, j \in DOMAIN s :
          /\ k < j /\ s[k] = "ticks" /\ s[j] \notin {"return", "newline"}
          /\ inside \/ j # k + 1 \/ s[j] # "canvas"

\* The tokens of the markers.
LEMMA MarkerIs ==
    ASSUME NEW inside \in BOOLEAN
    PROVE  /\ Fences!Marker(inside) \in Seq(Fences!Tokens)
           /\ Len(Fences!Marker(inside)) = IF inside THEN 1 ELSE 2
           /\ Fences!Marker(inside)[1] = "ticks"
           /\ ~inside => Fences!Marker(inside)[2] = "canvas"
<1>1. CASE inside
  BY <1>1 DEF Fences!Marker, Fences!Closing, Fences!Tokens
<1>2. CASE ~inside
  BY <1>2 DEF Fences!Marker, Fences!Opening, Fences!Tokens
<1> QED
  BY <1>1, <1>2

\* In a line that is a marker, only white space comes before the backticks, and after them
\* only what the marker has, and the end of the line.
LEMMA MarkerHas ==
    ASSUME NEW inside \in BOOLEAN, NEW s \in Seq(Fences!Tokens), Fences!IsMarker(inside, s)
    PROVE  \E at \in 1 .. Len(s) :
              /\ s[at] = "ticks"
              /\ \A k \in 1 .. Len(s) : s[k] = "ticks" => k = at
              /\ \A k \in 1 .. Len(s) : at < k =>
                    \/ s[k] \in {"return", "newline"}
                    \/ ~inside /\ k = at + 1 /\ s[k] = "canvas"
<1>1. PICK n \in Nat : n = Len(s)
  OBVIOUS
<1>2. PICK i \in 0 .. n, j \in 0 .. n :
         /\ SubSeq(s, i + 1, j) = Fences!Marker(inside)
         /\ \A k \in 1 .. i : s[k] \in {"blank", "space", "return"}
         /\ \A k \in j + 1 .. n : s[k] \in {"return", "newline"}
  BY <1>1 DEF Fences!IsMarker
<1>3. PICK m \in 1 .. 2 : m = Len(Fences!Marker(inside)) /\ (inside => m = 1) /\ (~inside => m = 2)
  BY MarkerIs
<1>4. j = i + m
  <2>1. Len(SubSeq(s, i + 1, j)) = m
    BY <1>2, <1>3, Zenon
  <2>2. i + 1 <= j => Len(SubSeq(s, i + 1, j)) = j - i
    BY <1>1, <1>2
  <2>3. j < i + 1 => Len(SubSeq(s, i + 1, j)) = 0
    BY <1>1, <1>2
  <2> QED
    BY <1>2, <2>1, <2>2, <2>3
<1>5. \A k \in 1 .. m : SubSeq(s, i + 1, j)[k] = s[i + k]
  BY <1>1, <1>2, <1>4
<1>6. /\ s[i + 1] = "ticks" /\ (~inside => s[i + 2] = "canvas")
  BY <1>2, <1>3, <1>5, MarkerIs
<1>7. ASSUME NEW k \in 1 .. n
      PROVE  k \in 1 .. i \/ k = i + 1 \/ (~inside /\ k = i + 2) \/ k \in j + 1 .. n
  <2>1. k \in 1 .. i \/ k = i + 1 \/ (m = 2 /\ k = i + 2) \/ k \in j + 1 .. n
    BY <1>2, <1>4
  <2> QED
    BY <1>3, <2>1
<1>8. i + 1 \in 1 .. n
  BY <1>2, <1>3, <1>4
<1> QED
  BY <1>1, <1>2, <1>6, <1>7, <1>8

\* A line without backticks, or a spoilt one, is no marker.
LEMMA NoMarkerIsNone ==
    ASSUME NEW inside \in BOOLEAN, NEW s \in Seq(Fences!Tokens), NoTicks(s) \/ Spoilt(inside, s)
    PROVE  ~Fences!IsMarker(inside, s)
<1> SUFFICES ASSUME Fences!IsMarker(inside, s) PROVE FALSE
  OBVIOUS
<1>1. PICK at \in 1 .. Len(s) :
         /\ s[at] = "ticks"
         /\ \A k \in 1 .. Len(s) : s[k] = "ticks" => k = at
         /\ \A k \in 1 .. Len(s) : at < k =>
               \/ s[k] \in {"return", "newline"}
               \/ ~inside /\ k = at + 1 /\ s[k] = "canvas"
  BY MarkerHas
<1>2. DOMAIN s = 1 .. Len(s)
  OBVIOUS
<1>3. ~NoTicks(s)
  BY <1>1, <1>2 DEF NoTicks
<1>4. PICK k \in 1 .. Len(s), j \in 1 .. Len(s) :
          /\ k < j /\ s[k] = "ticks" /\ s[j] \notin {"return", "newline"}
          /\ inside \/ j # k + 1 \/ s[j] # "canvas"
  BY <1>2, <1>3 DEF Spoilt
<1> QED
  BY <1>1, <1>4

\* A line without backticks stays one, and a spoilt one stays spoilt.
LEMMA SpoiltStays ==
    ASSUME NEW inside \in BOOLEAN, NEW s \in Seq(Fences!Tokens), NEW t \in Fences!Tokens,
           t # "ticks"
    PROVE  /\ NoTicks(s) => NoTicks(Append(s, t))
           /\ Spoilt(inside, s) => Spoilt(inside, Append(s, t))
<1>1. PICK long \in Seq(Fences!Tokens) : long = Append(s, t)
  <2>1. Append(s, t) \in Seq(Fences!Tokens)
    OBVIOUS
  <2> QED
    BY <2>1, Zenon
<1>2. /\ DOMAIN s = 1 .. Len(s) /\ DOMAIN long = 1 .. Len(s) + 1 /\ Len(s) \in Nat
      /\ long[Len(s) + 1] = t /\ \A i \in 1 .. Len(s) : long[i] = s[i]
  BY <1>1
<1>3. NoTicks(s) => NoTicks(long)
  BY <1>2 DEF NoTicks
<1>4. ASSUME NoTicks(s), NEW i \in DOMAIN s, s[i] # "blank" PROVE Spoilt(inside, long)
  <2>1. i \in DOMAIN long /\ long[i] # "blank"
    BY <1>2, <1>4
  <2> QED
    BY <1>3, <1>4, <2>1 DEF Spoilt
<1>5. ASSUME NEW k \in DOMAIN s, NEW j \in DOMAIN s,
             k < j, s[k] = "ticks", s[j] \notin {"return", "newline"},
             inside \/ j # k + 1 \/ s[j] # "canvas"
      PROVE  Spoilt(inside, long)
  <2>1. /\ k \in DOMAIN long /\ j \in DOMAIN long /\ long[k] = s[k] /\ long[j] = s[j]
    BY <1>2
  <2> QED
    BY <1>5, <2>1 DEF Spoilt
<1> QED
  BY <1>1, <1>3, <1>4, <1>5 DEF Spoilt

\* A line is not held back for ever: where backticks follow blanks only and it does not end
\* in a carriage return, it is held back or spoilt.
LEMMA HeldOrSpoilt ==
    ASSUME NEW inside \in BOOLEAN, NEW s \in Seq(Fences!Tokens), BlanksBefore(s),
           s # << >> => s[Len(s)] \notin {"return", "newline"},
           ~Fences!MayBeMarker(inside, s)
    PROVE  Spoilt(inside, s)
<1>1. PICK n \in Nat : n = Len(s) /\ DOMAIN s = 1 .. n
  OBVIOUS
<1>2. \A i \in 0 .. n :
         Fences!IsPrefix(SubSeq(s, i + 1, n), Fences!Marker(inside))
           => \E k \in 1 .. i : s[k] # "blank"
  BY <1>1 DEF Fences!MayBeMarker
<1>3. CASE NoTicks(s)
  <2>1. n \in 0 .. n /\ SubSeq(s, n + 1, n) = << >>
    BY <1>1
  <2>2. Fences!IsPrefix(<< >>, Fences!Marker(inside))
    BY MarkerIs DEF Fences!IsPrefix
  <2>3. \E k \in 1 .. n : s[k] # "blank"
    BY <1>2, <2>1, <2>2
  <2> QED
    BY <1>1, <1>3, <2>3 DEF Spoilt
<1>4. CASE ~NoTicks(s)
  <2>1. PICK k \in 1 .. n : s[k] = "ticks" /\ \A j \in 1 .. k - 1 : s[j] = "blank"
    BY <1>1, <1>4 DEF NoTicks, BlanksBefore
  <2>2. k - 1 \in 0 .. n /\ (k - 1) + 1 = k /\ n \in 1 .. n /\ n - k \in Nat
    BY <2>1
  <2>3. ~Fences!IsPrefix(SubSeq(s, k, n), Fences!Marker(inside))
    BY <1>2, <2>1, <2>2
  <2>4. s[n] \notin {"return", "newline"}
    BY <1>1, <2>2
  <2>5. PICK rest \in Seq(Fences!Tokens) :
           /\ rest = SubSeq(s, k, n) /\ Len(rest) = n - k + 1
           /\ \A j \in 1 .. n - k + 1 : rest[j] = s[k + j - 1]
    <3>1. /\ SubSeq(s, k, n) \in Seq(Fences!Tokens) /\ Len(SubSeq(s, k, n)) = n - k + 1
          /\ \A j \in 1 .. n - k + 1 : SubSeq(s, k, n)[j] = s[k + j - 1]
      BY <1>1, <2>1, <2>2
    <3> QED
      BY <3>1, Zenon
  <2>6. rest[1] = "ticks" /\ (n = k + 1 => rest[2] = s[n])
    BY <2>1, <2>2, <2>5
  <2>7. PICK marker \in Seq(Fences!Tokens) : marker = Fences!Marker(inside)
    BY MarkerIs
  <2>8. k # n
    <3> SUFFICES ASSUME k = n PROVE Fences!IsPrefix(rest, marker)
      BY <2>3, <2>5, <2>7
    <3>1. Len(rest) = 1 /\ 1 <= Len(marker) /\ marker[1] = "ticks"
      BY <2>5, <2>7, MarkerIs
    <3>2. SubSeq(rest, 1, 1) = SubSeq(marker, 1, 1)
      BY <2>6, <3>1
    <3> QED
      BY <3>1, <3>2 DEF Fences!IsPrefix
  <2>9. inside \/ n # k + 1 \/ s[n] # "canvas"
    <3> SUFFICES ASSUME ~inside, n = k + 1, s[n] = "canvas" PROVE Fences!IsPrefix(rest, marker)
      BY <2>3, <2>5, <2>7
    <3>1. /\ Len(rest) = 2 /\ Len(marker) = 2
          /\ marker[1] = "ticks" /\ marker[2] = "canvas" /\ rest[2] = "canvas"
      BY <2>5, <2>6, <2>7, MarkerIs
    <3>2. SubSeq(rest, 1, 2) = SubSeq(marker, 1, 2)
      BY <2>6, <3>1
    <3> QED
      BY <3>1, <3>2 DEF Fences!IsPrefix
  <2>10. k < n
    BY <2>1, <2>8
  <2> QED
    BY <1>1, <2>1, <2>2, <2>4, <2>9, <2>10 DEF Spoilt
<1> QED
  BY <1>3, <1>4

\* What is emitted grows by the token that is read.
LEMMA EmittedGrows ==
    ASSUME NEW inside \in BOOLEAN, NEW o \in Out, NEW s \in Seq(Fences!Tokens), NEW t
             \in Fences!Tokens
    PROVE  o \o Fences!Chunk(inside, Append(s, t))
             = Append(o \o Fences!Chunk(inside, s), <<Side(inside), t>>)
<1>1. PICK x \in Fences!Kinds \X Fences!Tokens : x = <<Side(inside), t>>
  <2>1. Side(inside) \in Fences!Kinds
    BY DEF Fences!Kinds, Side
  <2>2. <<Side(inside), t>> \in Fences!Kinds \X Fences!Tokens
    BY <2>1
  <2> QED
    BY <2>2, Zenon
<1>2. Append(s, t) \in Seq(Fences!Tokens) /\ Len(Append(s, t)) = Len(s) + 1 /\ Len(s) \in Nat
      /\ Append(s, t)[Len(s) + 1] = t /\ \A i \in 1 .. Len(s) : Append(s, t)[i] = s[i]
  OBVIOUS
<1> DEFINE a == Fences!Chunk(inside, s)
           b == Fences!Chunk(inside, Append(s, t))
<1>3. /\ a \in Seq(Fences!Kinds \X Fences!Tokens) /\ b \in Seq(Fences!Kinds \X Fences!Tokens)
      /\ Len(a) = Len(s) /\ Len(b) = Len(s) + 1
  BY <1>2, ChunkType DEF Out
<1>4. b[Len(s) + 1] = x /\ \A i \in 1 .. Len(s) : b[i] = a[i]
  <2>1. PICK long \in Seq(Fences!Tokens) : long = Append(s, t)
    BY <1>2
  <2>2. \A i \in 1 .. Len(long) :
           Fences!Chunk(inside, long)[i] = <<Side(inside), long[i]>>
    BY <2>1, ChunkType
  <2>3. \A i \in 1 .. Len(s) : a[i] = <<Side(inside), s[i]>>
    BY ChunkType
  <2>4. Len(s) + 1 \in 1 .. Len(long) /\ \A i \in 1 .. Len(s) : i \in 1 .. Len(long)
    BY <1>2, <2>1
  <2> QED
    BY <1>1, <1>2, <2>1, <2>2, <2>3, <2>4
<1> HIDE DEF a, b
<1>5. b = Append(a, x)
  BY <1>1, <1>2, <1>3, <1>4
<1>6. o \o Append(a, x) = Append(o \o a, x)
  BY <1>1, <1>3 DEF Out
<1> QED
  BY <1>1, <1>5, <1>6 DEF a, b

\* A chunk of nothing adds nothing.
LEMMA EmittedEnds ==
    ASSUME NEW inside \in BOOLEAN, NEW o \in Out
    PROVE  o \o Fences!Chunk(inside, << >>) = o
<1>1. << >> \in Seq(Fences!Tokens)
  OBVIOUS
<1>2. Fences!Chunk(inside, << >>) \in Seq(Fences!Kinds \X Fences!Tokens)
        /\ Len(Fences!Chunk(inside, << >>)) = 0
  BY <1>1, ChunkType DEF Out
<1> QED
  BY <1>2 DEF Out

(***************************************************************************)
(* The parser against the lines.                                           *)
(***************************************************************************)
\* A marker turns the side; any other line is emitted whole.
LEMMA ConsumeLineIs ==
    ASSUME NEW p \in Parsers, NEW line \in Seq(Fences!Tokens)
    PROVE  /\ Fences!ConsumeLine(p, line).out =
                         IF Fences!IsMarker(p.inside, line) THEN p.out
                         ELSE p.out \o Fences!Chunk(p.inside, line)
           /\ Fences!IsMarker(p.inside, line) => Fences!ConsumeLine(p, line).inside = ~p.inside
           /\ ~Fences!IsMarker(p.inside, line) => Fences!ConsumeLine(p, line).inside = p.inside
<1>1. Fences!ConsumeLine(p, line) =
                IF Fences!IsMarker(p.inside, line) THEN [p EXCEPT !.inside = ~p.inside]
                ELSE [p EXCEPT !.out = @ \o Fences!Chunk(p.inside, line)]
  BY Zenon DEF Fences!ConsumeLine
<1> QED
  BY <1>1 DEF Parsers

\* What it makes of the same line on the same side.
LEMMA ConsumeSame ==
    ASSUME NEW p \in Parsers, NEW c \in Parsers, NEW line \in Seq(Fences!Tokens),
           p.inside = c.inside, p.out = c.out
    PROVE  /\ Fences!ConsumeLine(p, line).out = Fences!ConsumeLine(c, line).out
           /\ Fences!ConsumeLine(p, line).inside = Fences!ConsumeLine(c, line).inside
<1>1. /\ Fences!IsMarker(p.inside, line) = Fences!IsMarker(c.inside, line)
      /\ Fences!Chunk(p.inside, line) = Fences!Chunk(c.inside, line)
  BY Zenon
<1>2. CASE Fences!IsMarker(c.inside, line)
  <2>1. Fences!IsMarker(p.inside, line)
    BY <1>2, Zenon
  <2>2. /\ Fences!ConsumeLine(p, line).out = p.out /\ Fences!ConsumeLine(c, line).out = c.out
        /\ Fences!ConsumeLine(p, line).inside = ~p.inside
        /\ Fences!ConsumeLine(c, line).inside = ~c.inside
    BY <1>2, <2>1, ConsumeLineIs
  <2> QED
    BY <2>2, Zenon
<1>3. CASE ~Fences!IsMarker(c.inside, line)
  <2>1. ~Fences!IsMarker(p.inside, line)
    BY <1>3, Zenon
  <2>2. /\ Fences!ConsumeLine(p, line).out = p.out \o Fences!Chunk(p.inside, line)
        /\ Fences!ConsumeLine(c, line).out = c.out \o Fences!Chunk(c.inside, line)
        /\ Fences!ConsumeLine(p, line).inside = p.inside
        /\ Fences!ConsumeLine(c, line).inside = c.inside
    BY <1>3, <2>1, ConsumeLineIs
  <2> QED
    BY <1>1, <2>2, Zenon
<1> QED
  BY <1>2, <1>3

\* p has read the first i tokens of s, the last of them from k on in a line not complete; c
\* has consumed the lines before. Either p holds all of that line, or it has emitted some of
\* it, and then the line is spoilt, and there are no backticks in what p holds of it.
Holds(p, c, line) ==
    /\ p.inside = c.inside
    /\ \/ p.buf = line /\ p.out = c.out
       \/ /\ p.out \o Fences!Chunk(p.inside, p.buf) = c.out \o Fences!Chunk(c.inside, line)
          /\ Spoilt(c.inside, line)
          /\ NoTicks(p.buf)

\* A token that does not end the line.
LEMMA FeedHolds ==
    ASSUME NEW p \in Parsers, NEW c \in Parsers, NEW line \in Seq(Fences!Tokens), NEW t
             \in Fences!Tokens,
           Holds(p, c, line), t # "newline",
           t = "ticks" => \A j \in DOMAIN line : line[j] = "blank"
    PROVE  Holds(Fences!Feed(p, t), c, Append(line, t))
<1>1. Fences!Feed(p, t) = [p EXCEPT !.buf = Append(p.buf, t)]
  BY DEF Fences!Feed
<1>2. /\ Fences!Feed(p, t).inside = p.inside /\ Fences!Feed(p, t).out = p.out
      /\ Fences!Feed(p, t).buf = Append(p.buf, t)
  BY <1>1 DEF Parsers
<1>3. CASE p.buf = line /\ p.out = c.out
  BY <1>2, <1>3 DEF Holds
<1>4. CASE /\ p.out \o Fences!Chunk(p.inside, p.buf) = c.out \o Fences!Chunk(c.inside, line)
           /\ Spoilt(c.inside, line)
           /\ NoTicks(p.buf)
  <2>1. /\ p.inside = c.inside /\ c.inside \in BOOLEAN /\ p.out \in Out /\ c.out \in Out
        /\ p.buf \in Seq(Fences!Tokens)
    BY DEF Holds, Parsers
  <2>2. p.out \o Fences!Chunk(c.inside, Append(p.buf, t))
          = c.out \o Fences!Chunk(c.inside, Append(line, t))
    <3>1. p.out \o Fences!Chunk(c.inside, Append(p.buf, t))
            = Append(p.out \o Fences!Chunk(c.inside, p.buf), <<Side(c.inside), t>>)
      BY <2>1, EmittedGrows
    <3>2. c.out \o Fences!Chunk(c.inside, Append(line, t))
            = Append(c.out \o Fences!Chunk(c.inside, line), <<Side(c.inside), t>>)
      BY <2>1, EmittedGrows
    <3>3. p.out \o Fences!Chunk(c.inside, p.buf) = c.out \o Fences!Chunk(c.inside, line)
      BY <1>4, <2>1
    <3> QED
      BY <3>1, <3>2, <3>3, Zenon
  <2>3. t # "ticks"
    BY <1>4 DEF Spoilt
  <2>4. Spoilt(c.inside, Append(line, t)) /\ NoTicks(Append(p.buf, t))
    BY <1>4, <2>1, <2>3, SpoiltStays
  <2> QED
    BY <1>2, <2>1, <2>2, <2>3, <2>4 DEF Holds
<1> QED
  BY <1>3, <1>4 DEF Holds

\* The token that ends the line.
LEMMA BreakHolds ==
    ASSUME NEW p \in Parsers, NEW c \in Parsers, NEW line \in Seq(Fences!Tokens), Holds(p, c, line)
    PROVE  Holds(Fences!Feed(p, "newline"), Fences!ConsumeLine(c, Append(line, "newline")), << >>)
<1> DEFINE b == Append(p.buf, "newline")
           l == Append(line, "newline")
           q == Fences!ConsumeLine(p, b)
           d == Fences!ConsumeLine(c, l)
<1>1. /\ "newline" \in Fences!Tokens /\ p.buf \in Seq(Fences!Tokens)
      /\ p.inside = c.inside /\ c.inside \in BOOLEAN
      /\ p.out \in Out /\ c.out \in Out
  BY DEF Fences!Tokens, Holds, Parsers
<1>2. b \in Seq(Fences!Tokens) /\ l \in Seq(Fences!Tokens)
  BY <1>1
<1>3. q \in Parsers /\ d \in Parsers
  BY <1>2, ConsumeLineType
<1>4. q.inside = d.inside /\ q.out = d.out
  <2>1. CASE p.buf = line /\ p.out = c.out
    BY <1>1, <1>2, <2>1, ConsumeSame
  <2>2. CASE /\ p.out \o Fences!Chunk(p.inside, p.buf) = c.out \o Fences!Chunk(c.inside, line)
             /\ Spoilt(c.inside, line)
             /\ NoTicks(p.buf)
    <3>1. ~Fences!IsMarker(c.inside, b) /\ ~Fences!IsMarker(c.inside, l)
      <4>1. NoTicks(b) /\ Spoilt(c.inside, l)
        BY <1>1, <2>2, SpoiltStays
      <4> QED
        BY <1>1, <1>2, <4>1, NoMarkerIsNone
    <3>2. /\ q.inside = c.inside /\ d.inside = c.inside
          /\ q.out = p.out \o Fences!Chunk(c.inside, b)
               /\ d.out = c.out \o Fences!Chunk(c.inside, l)
      <4>1. q.inside = p.inside /\ q.out = p.out \o Fences!Chunk(p.inside, b)
        <5>1. ~Fences!IsMarker(p.inside, b)
          BY <1>1, <3>1, Zenon
        <5> QED
          BY <1>2, <5>1, ConsumeLineIs
      <4>2. d.inside = c.inside /\ d.out = c.out \o Fences!Chunk(c.inside, l)
        BY <1>1, <1>2, <3>1, ConsumeLineIs
      <4> QED
        BY <1>1, <4>1, <4>2
    <3>3. p.out \o Fences!Chunk(c.inside, b) = c.out \o Fences!Chunk(c.inside, l)
      <4>1. p.out \o Fences!Chunk(c.inside, b)
              = Append(p.out \o Fences!Chunk(c.inside, p.buf), <<Side(c.inside), "newline">>)
        BY <1>1, EmittedGrows
      <4>2. c.out \o Fences!Chunk(c.inside, l)
              = Append(c.out \o Fences!Chunk(c.inside, line), <<Side(c.inside), "newline">>)
        BY <1>1, EmittedGrows
      <4>3. p.out \o Fences!Chunk(c.inside, p.buf) = c.out \o Fences!Chunk(c.inside, line)
        BY <1>1, <2>2
      <4> QED
        BY <4>1, <4>2, <4>3, Zenon
    <3> QED
      BY <3>2, <3>3
  <2> QED
    BY <2>1, <2>2 DEF Holds
<1> HIDE DEF q, d
<1>5. Fences!Feed(p, "newline") = [q EXCEPT !.buf = << >>]
  BY Zenon DEF Fences!Feed, q
<1>6. /\ Fences!Feed(p, "newline").inside = d.inside /\ Fences!Feed(p, "newline").out = d.out
      /\ Fences!Feed(p, "newline").buf = << >>
  BY <1>3, <1>4, <1>5 DEF Parsers
<1> QED
  BY <1>6 DEF Holds, d

\* What flushing does.
LEMMA FlushHolds ==
    ASSUME NEW p \in Parsers, NEW c \in Parsers, NEW line \in Seq(Fences!Tokens), Holds(p, c, line),
           BlanksBefore(line), line # << >> => line[Len(line)] \notin {"return", "newline"}
    PROVE  Holds(Fences!SplitSafeFlush(p), c, line)
<1>1. CASE Fences!MayBeMarker(p.inside, p.buf)
  BY <1>1 DEF Fences!SplitSafeFlush
<1>2. CASE ~Fences!MayBeMarker(p.inside, p.buf)
  <2>1. /\ p.inside = c.inside /\ c.inside \in BOOLEAN
        /\ p.out \in Out /\ c.out \in Out /\ p.buf \in Seq(Fences!Tokens)
    BY DEF Holds, Parsers
  <2>2. PICK o \in Out : o = p.out \o Fences!Chunk(p.inside, p.buf)
    <3>1. Fences!Chunk(p.inside, p.buf) \in Out
      BY <2>1, ChunkType, Zenon
    <3>2. p.out \o Fences!Chunk(p.inside, p.buf) \in Out
      BY <2>1, <3>1 DEF Out
    <3> QED
      BY <3>2
  <2>3. Fences!SplitSafeFlush(p) = [p EXCEPT !.out = o, !.buf = << >>]
    BY <1>2, <2>2 DEF Fences!SplitSafeFlush
  <2>4. /\ Fences!SplitSafeFlush(p).out = o /\ Fences!SplitSafeFlush(p).buf = << >>
        /\ Fences!SplitSafeFlush(p).inside = p.inside
    BY <2>3 DEF Parsers
  <2>5. o \o Fences!Chunk(c.inside, << >>) = o
    BY <2>1, EmittedEnds
  <2>6. o = c.out \o Fences!Chunk(c.inside, line)
    BY <2>1, <2>2 DEF Holds
  <2>7. Spoilt(c.inside, line)
    <3>1. CASE p.buf = line
      <4>1. ~Fences!MayBeMarker(c.inside, line)
        BY <1>2, <2>1, <3>1, Zenon
      <4> QED
        BY <2>1, <4>1, HeldOrSpoilt
    <3>2. CASE p.buf # line
      BY <3>2 DEF Holds
    <3> QED
      BY <3>1, <3>2
  <2>8. NoTicks(<< >>)
    BY DEF NoTicks
  <2> QED
    BY <2>1, <2>4, <2>5, <2>6, <2>7, <2>8 DEF Holds
<1> QED
  BY <1>1, <1>2

\* What is emitted in the end, of a last line without its break.
LEMMA FinishHolds ==
    ASSUME NEW p \in Parsers, NEW c \in Parsers, NEW line \in Seq(Fences!Tokens),
             Holds(p, c, line)
    PROVE  Fences!FinishOf(p).out = IF line = << >> THEN c.out ELSE Fences!ConsumeLine(c, line).out
<1>1. /\ p.inside = c.inside /\ c.inside \in BOOLEAN
      /\ p.out \in Out /\ c.out \in Out /\ p.buf \in Seq(Fences!Tokens)
  BY DEF Holds, Parsers
<1>2. Fences!FinishOf(p).out = IF p.buf = << >> THEN p.out ELSE Fences!ConsumeLine(p, p.buf).out
  <2>1. Fences!ConsumeLine(p, p.buf) \in Parsers
    BY <1>1, ConsumeLineType
  <2> QED
    BY <2>1 DEF Fences!FinishOf, Parsers
<1>3. CASE p.buf = line /\ p.out = c.out
  <2>1. Fences!ConsumeLine(p, line).out = Fences!ConsumeLine(c, line).out
    BY <1>1, <1>3, ConsumeSame
  <2> QED
    BY <1>2, <1>3, <2>1
<1>4. CASE /\ p.out \o Fences!Chunk(p.inside, p.buf) = c.out \o Fences!Chunk(c.inside, line)
           /\ Spoilt(c.inside, line)
           /\ NoTicks(p.buf)
  <2>1. line # << >> /\ ~Fences!IsMarker(c.inside, line)
    <3>1. line # << >>
      BY <1>4 DEF Spoilt
    <3> QED
      BY <1>1, <1>4, <3>1, NoMarkerIsNone
  <2>2. Fences!ConsumeLine(c, line).out = c.out \o Fences!Chunk(c.inside, line)
    BY <2>1, ConsumeLineIs
  <2>3. CASE p.buf = << >>
    BY <1>1, <1>2, <1>4, <2>1, <2>2, <2>3, EmittedEnds
  <2>4. CASE p.buf # << >>
    <3>1. ~Fences!IsMarker(p.inside, p.buf)
      BY <1>1, <1>4, NoMarkerIsNone
    <3>2. Fences!ConsumeLine(p, p.buf).out = p.out \o Fences!Chunk(p.inside, p.buf)
      BY <1>1, <3>1, ConsumeLineIs
    <3> QED
      BY <1>2, <1>4, <2>1, <2>2, <2>4, <3>2
  <2> QED
    BY <2>3, <2>4
<1> QED
  BY <1>3, <1>4 DEF Holds

(***************************************************************************)
(* A fragment.                                                             *)
(***************************************************************************)
\* Backticks follow the blanks a line begins with.
Anchored(s) == \A i \in DOMAIN s : s[i] = "ticks" =>
    \E k \in 1 .. i : Fences!Begins(s, k) /\ \A j \in k .. i - 1 : s[j] = "blank"

\* In a line that begins at k, they follow blanks only.
LEMMA AnchoredIn ==
    ASSUME NEW s \in Seq(Fences!Tokens), Anchored(s), NEW n \in 1 .. Len(s), NEW k \in 1 .. n,
           \A j \in k .. n - 1 : s[j] # "newline", s[n] = "ticks"
    PROVE  \A j \in k .. n - 1 : s[j] = "blank"
<1>1. PICK b \in 1 .. n : Fences!Begins(s, b) /\ \A j \in b .. n - 1 : s[j] = "blank"
  BY DEF Anchored
<1>2. b <= k
  <2> SUFFICES ASSUME k < b PROVE FALSE
    BY <1>1
  <2>1. b # 1 /\ b - 1 \in k .. n - 1
    BY <1>1
  <2> QED
    BY <1>1, <2>1 DEF Fences!Begins
<1> QED
  BY <1>1, <1>2

\* The line that is read, as far as it goes.
LEMMA AnchoredLine ==
    ASSUME NEW s \in Seq(Fences!Tokens), Anchored(s), NEW n \in 0 .. Len(s), NEW k,
           Opened(s, k, n), NEW line, line = SubSeq(s, k, n)
    PROVE  BlanksBefore(line)
<1>1. k \in 1 .. n + 1 /\ \A j \in k .. n : s[j] # "newline"
  BY DEF Opened
<1>2. PICK m \in Nat : m = (n + 1) - k
  BY <1>1
<1>3. /\ line \in Seq(Fences!Tokens) /\ DOMAIN line = 1 .. m
      /\ \A j \in 1 .. m : line[j] = s[k + j - 1]
  BY <1>1, <1>2
<1> SUFFICES ASSUME NEW i \in 1 .. m, line[i] = "ticks", NEW j \in 1 .. i - 1
             PROVE  line[j] = "blank"
  BY <1>3 DEF BlanksBefore
<1>4. PICK at \in 1 .. Len(s) : at = k + i - 1 /\ k \in 1 .. at /\ at \in k .. n
  BY <1>1, <1>2
<1>5. \A l \in k .. at - 1 : s[l] # "newline"
  BY <1>1, <1>4
<1>6. s[at] = "ticks"
  BY <1>3, <1>4
<1>7. \A l \in k .. at - 1 : s[l] = "blank"
  BY <1>4, <1>5, <1>6, AnchoredIn
<1>8. k + j - 1 \in k .. at - 1 /\ j \in 1 .. m
  BY <1>1, <1>4
<1> QED
  BY <1>3, <1>7, <1>8

\* p has read the first i tokens of s.
HasRead(p, s, i) ==
    \E f, k : /\ Consumes(f, s) /\ Opened(s, k, i)
              /\ Holds(p, f[i], SubSeq(s, k, i))

\* Fed one token more, it has read that too.
LEMMA ReadsOne ==
    ASSUME NEW s \in Seq(Fences!Tokens), Anchored(s), NEW i \in 0 .. Len(s) - 1, NEW p \in Parsers,
           HasRead(p, s, i)
    PROVE  HasRead(Fences!Feed(p, s[i + 1]), s, i + 1)
<1>1. PICK f, k : Consumes(f, s) /\ Opened(s, k, i) /\ Holds(p, f[i], SubSeq(s, k, i))
  BY DEF HasRead
<1>2. /\ k \in 1 .. i + 1 /\ Fences!Begins(s, k) /\ \A j \in k .. i : s[j] # "newline"
  BY <1>1 DEF Opened
<1>3. /\ i \in Nat /\ i \in 0 .. Len(s) /\ i + 1 \in 1 .. Len(s)
      /\ i + 1 \in DOMAIN s /\ s[i + 1] \in Fences!Tokens
  OBVIOUS
<1>4. f[i] \in Parsers
  BY <1>1, <1>3, ConsumedAt
<1>5. PICK line \in Seq(Fences!Tokens) : line = SubSeq(s, k, i)
        /\ SubSeq(s, k, i + 1) = Append(line, s[i + 1])
  BY <1>2, LineGrows
<1>6. CASE s[i + 1] # "newline"
  <2>1. s[i + 1] = "ticks" => \A j \in DOMAIN line : line[j] = "blank"
    <3> SUFFICES ASSUME s[i + 1] = "ticks", NEW j \in DOMAIN line PROVE line[j] = "blank"
      OBVIOUS
    <3>1. PICK n \in 1 .. Len(s) : n = i + 1 /\ n - 1 = i /\ k \in 1 .. n
      BY <1>2, <1>3
    <3>2. \A l \in k .. n - 1 : s[l] # "newline"
      BY <1>2, <3>1
    <3>3. \A l \in k .. n - 1 : s[l] = "blank"
      BY <3>1, <3>2, AnchoredIn
    <3>4. k + j - 1 \in k .. n - 1 /\ line[j] = s[k + j - 1]
      BY <1>2, <1>5, <3>1
    <3> QED
      BY <3>3, <3>4
  <2>2. Holds(Fences!Feed(p, s[i + 1]), f[i], SubSeq(s, k, i + 1))
    BY <1>1, <1>3, <1>4, <1>5, <1>6, <2>1, FeedHolds
  <2>3. f[i + 1] = f[i]
    BY <1>1, <1>6, ConsumedAt DEF Fences!ConsumeAt
  <2>4. Opened(s, k, i + 1)
    <3>1. \A j \in k .. i + 1 : j \in k .. i \/ j = i + 1
      BY <1>2
    <3> QED
      BY <1>2, <1>6, <3>1 DEF Opened
  <2> QED
    BY <1>1, <2>2, <2>3, <2>4 DEF HasRead
<1>7. CASE s[i + 1] = "newline"
  <2>1. Fences!LineTo(s, i + 1) = Append(line, "newline")
    <3>1. k \in 1 .. i + 1 /\ \A j \in k .. (i + 1) - 1 : s[j] # "newline"
      BY <1>2
    <3>2. Fences!LineTo(s, i + 1) = SubSeq(s, k, i + 1)
      BY <1>2, <1>3, <3>1, LineToIs
    <3> QED
      BY <1>5, <1>7, <3>2
  <2>2. f[i + 1] = Fences!ConsumeLine(f[i], Append(line, "newline"))
    <3>1. f[i + 1] = Fences!ConsumeAt(f[i], s, i + 1)
      BY <1>1, ConsumedAt
    <3> QED
      BY <1>7, <2>1, <3>1, Zenon DEF Fences!ConsumeAt
  <2>3. Holds(Fences!Feed(p, s[i + 1]), f[i + 1], << >>)
    BY <1>1, <1>4, <1>5, <1>7, <2>2, BreakHolds
  <2>4. Opened(s, i + 2, i + 1) /\ SubSeq(s, i + 2, i + 1) = << >>
    BY <1>3, <1>7 DEF Opened, Fences!Begins
  <2> QED
    BY <1>1, <2>3, <2>4 DEF HasRead
<1> QED
  BY <1>6, <1>7

\* The same text, or a longer one.
LEMMA ReadsOn ==
    ASSUME NEW s \in Seq(Fences!Tokens), NEW more \in Seq(Fences!Tokens), NEW p \in Parsers,
           HasRead(p, s, Len(s)), Len(s) <= Len(more), \A i \in 1 .. Len(s) : more[i] = s[i]
    PROVE  HasRead(p, more, Len(s))
<1>1. PICK f, k : Consumes(f, s) /\ Opened(s, k, Len(s))
        /\ Holds(p, f[Len(s)], SubSeq(s, k, Len(s)))
  BY DEF HasRead
<1>2. PICK h : Consumes(h, more)
  BY CompleteLinesIs
<1>3. h[Len(s)] = f[Len(s)]
  BY <1>1, <1>2, ConsumedStays
<1>4. k \in 1 .. Len(s) + 1 /\ Fences!Begins(s, k) /\ \A j \in k .. Len(s) : s[j] # "newline"
  BY <1>1 DEF Opened
<1>5. Opened(more, k, Len(s))
  BY <1>4 DEF Opened, Fences!Begins
<1>6. SubSeq(more, k, Len(s)) = SubSeq(s, k, Len(s))
  BY <1>4
<1> QED
  BY <1>1, <1>2, <1>3, <1>5, <1>6 DEF HasRead

\* A push.
LEMMA ReadsFragment ==
    ASSUME NEW s \in Seq(Fences!Tokens), NEW fragment \in Seq(Fences!Tokens), NEW p \in Parsers,
           HasRead(p, s, Len(s)), Anchored(s \o fragment),
           fragment # << >>, fragment[Len(fragment)] # "return"
    PROVE  HasRead(Fences!PushInto(p, fragment), s \o fragment, Len(s \o fragment))
<1>1. PICK more \in Seq(Fences!Tokens) : more = s \o fragment
  <2>1. s \o fragment \in Seq(Fences!Tokens)
    OBVIOUS
  <2> QED
    BY <2>1, Zenon
<1>2. PICK m \in Nat, n \in Nat : m = Len(s) /\ n = Len(fragment)
  OBVIOUS
<1>3. /\ Len(more) = m + n
      /\ \A i \in 1 .. m : more[i] = s[i]
      /\ \A i \in 1 .. n : more[m + i] = fragment[i]
  BY <1>1, <1>2
<1>4. PICK f \in [0 .. n -> Parsers] :
         /\ f[0] = p /\ \A i \in 1 .. n : f[i] = Fences!Feed(f[i - 1], fragment[i])
         /\ Fences!Fed(p, fragment) = f[n]
  BY <1>2, FedIs
<1> DEFINE S == {i \in 0 .. n : HasRead(f[i], more, m + i)}
<1>5. 0 \in S
  <2>1. HasRead(p, more, m)
    <3>1. Len(s) <= Len(more) /\ \A i \in 1 .. Len(s) : more[i] = s[i]
      BY <1>2, <1>3
    <3>2. HasRead(p, more, Len(s))
      BY <3>1, ReadsOn
    <3> QED
      BY <1>2, <3>2
  <2>2. m + 0 = m
    BY <1>2
  <2> QED
    BY <1>2, <1>4, <2>1, <2>2
<1>6. ASSUME NEW i \in 0 .. n - 1, i \in S PROVE i + 1 \in S
  <2>1. /\ m + i \in 0 .. Len(more) - 1 /\ i \in 0 .. n
        /\ i + 1 \in 1 .. n /\ i + 1 \in 0 .. n
        /\ (m + i) + 1 = m + (i + 1) /\ (i + 1) - 1 = i
    BY <1>2, <1>3, SMTT(30)
  <2>0. f[i] \in Parsers
    BY <1>4, <2>1
  <2>2. HasRead(Fences!Feed(f[i], more[(m + i) + 1]), more, (m + i) + 1)
    BY <1>1, <1>6, <2>0, <2>1, ReadsOne
  <2>3. f[i + 1] = Fences!Feed(f[i], more[m + (i + 1)])
    BY <1>3, <1>4, <2>1
  <2> QED
    BY <2>1, <2>2, <2>3
<1> HIDE DEF S
<1>7. n \in S
  <2>1. 0 .. n \subseteq S
    BY <1>2, <1>5, <1>6, UpTo
  <2> QED
    BY <1>2, <2>1
<1>8. HasRead(f[n], more, m + n) /\ f[n] \in Parsers
  BY <1>2, <1>4, <1>7 DEF S
<1>9. HasRead(Fences!SplitSafeFlush(f[n]), more, m + n)
  <2>1. PICK h, k : Consumes(h, more) /\ Opened(more, k, m + n)
                    /\ Holds(f[n], h[m + n], SubSeq(more, k, m + n))
    BY <1>8 DEF HasRead
  <2>2. h[m + n] \in Parsers
    BY <1>2, <1>3, <2>1, ConsumedAt
  <2>3. k \in 1 .. m + n + 1 /\ \A j \in k .. m + n : more[j] # "newline"
    BY <2>1 DEF Opened
  <2>4. PICK line \in Seq(Fences!Tokens) :
           /\ line = SubSeq(more, k, m + n) /\ Len(line) = (m + n + 1) - k
           /\ \A j \in 1 .. (m + n + 1) - k : line[j] = more[k + j - 1]
    <3>1. PICK last \in 0 .. Len(more) : last = m + n
      BY <1>2, <1>3
    <3>2. /\ SubSeq(more, k, last) \in Seq(Fences!Tokens)
          /\ Len(SubSeq(more, k, last)) = (last + 1) - k
          /\ \A j \in 1 .. (last + 1) - k : SubSeq(more, k, last)[j] = more[k + j - 1]
      BY <2>3, <3>1
    <3> QED
      BY <3>1, <3>2, Zenon
  <2>5. BlanksBefore(line)
    <3>1. m + n \in 0 .. Len(more) /\ Anchored(more)
      BY <1>1, <1>2, <1>3
    <3> QED
      BY <2>1, <2>4, <3>1, AnchoredLine
  <2>6. line # << >> => line[Len(line)] \notin {"return", "newline"}
    <3> SUFFICES ASSUME line # << >> PROVE line[Len(line)] \notin {"return", "newline"}
      OBVIOUS
    <3>1. Len(line) \in 1 .. (m + n + 1) - k /\ k + Len(line) - 1 = m + n /\ m + n \in k .. m + n
      BY <2>3, <2>4
    <3>2. line[Len(line)] = more[m + n]
      BY <2>4, <3>1
    <3>3. n \in 1 .. n /\ more[m + n] = fragment[n] /\ fragment[n] # "return"
      BY <1>2, <1>3
    <3> QED
      BY <2>3, <3>1, <3>2, <3>3
  <2>7. Holds(f[n], h[m + n], line)
    BY <2>1, <2>4
  <2>8. Holds(Fences!SplitSafeFlush(f[n]), h[m + n], line)
    BY <1>8, <2>2, <2>5, <2>6, <2>7, FlushHolds
  <2> QED
    BY <2>1, <2>4, <2>8 DEF HasRead
<1> QED
  BY <1>1, <1>3, <1>4, <1>9 DEF Fences!PushInto

\* The end.
LEMMA ReadsAll ==
    ASSUME NEW s \in Seq(Fences!Tokens), NEW p \in Parsers, HasRead(p, s, Len(s))
    PROVE  Fences!FinishOf(p).out = Fences!InLines(s).out
<1>1. PICK h, k : Consumes(h, s) /\ Opened(s, k, Len(s))
        /\ Holds(p, h[Len(s)], SubSeq(s, k, Len(s)))
  BY DEF HasRead
<1>2. PICK f : Consumes(f, s) /\ Fences!CompleteLines(s) = f[Len(s)]
  BY CompleteLinesIs
<1>3. Fences!CompleteLines(s) = h[Len(s)]
  BY <1>1, <1>2, ConsumedStays
<1>4. h[Len(s)] \in Parsers
  BY <1>1, ConsumedAt
<1>5. k \in 1 .. Len(s) + 1 /\ Fences!Begins(s, k) /\ \A j \in k .. Len(s) : s[j] # "newline"
  BY <1>1 DEF Opened
<1>6. PICK line \in Seq(Fences!Tokens) : line = SubSeq(s, k, Len(s))
  <2>1. SubSeq(s, k, Len(s)) \in Seq(Fences!Tokens)
    BY <1>5
  <2> QED
    BY <2>1, Zenon
<1>7. CASE k = Len(s) + 1
  <2>1. line = << >>
    BY <1>6, <1>7
  <2>2. s = << >> \/ Fences!Last(s) = "newline"
    BY <1>5, <1>7 DEF Fences!Begins, Fences!Last
  <2>3. Fences!FinishOf(p).out = h[Len(s)].out
    BY <1>1, <1>4, <1>6, <2>1, FinishHolds
  <2> QED
    BY <1>3, <2>2, <2>3 DEF Fences!InLines
<1>8. CASE k # Len(s) + 1
  <2>1. k \in 1 .. Len(s) /\ Len(s) \in 1 .. Len(s) /\ s # << >> /\ s[Len(s)] # "newline"
    BY <1>5, <1>8
  <2>2. line # << >> /\ line[Len(line)] = s[Len(s)]
    <3>1. PICK n \in Nat : n = Len(s)
      OBVIOUS
    <3>2. Len(line) = n - k + 1 /\ \A j \in 1 .. n - k + 1 : line[j] = s[k + j - 1]
      BY <1>6, <2>1, <3>1
    <3>3. n - k + 1 \in 1 .. n - k + 1 /\ k + (n - k + 1) - 1 = n
      BY <2>1, <3>1
    <3> QED
      BY <3>1, <3>2, <3>3
  <2>3. Fences!LineTo(s, Len(s)) = line
    <3>1. \A j \in k .. Len(s) - 1 : s[j] # "newline"
      BY <1>5
    <3> QED
      BY <1>5, <1>6, <2>1, <3>1, LineToIs
  <2>4. Fences!FinishOf(p).out = Fences!ConsumeLine(h[Len(s)], line).out
    BY <1>1, <1>4, <1>6, <2>1, <2>2, FinishHolds
  <2> QED
    BY <1>3, <2>1, <2>3, <2>4 DEF Fences!InLines, Fences!Last
<1> QED
  BY <1>7, <1>8

(***************************************************************************)
(* The invariant.                                                          *)
(***************************************************************************)
FTypes == text \in Seq(Fences!Tokens) /\ Fences!Parser \in Parsers /\ parted \in BOOLEAN

\* The invariant.
FInv ==
    /\ FTypes
    /\ Fences!LineAnchored /\ ~parted =>
          IF finished THEN out = Fences!InLines(text).out
          ELSE HasRead(Fences!Parser, text, Len(text))

\* It holds at the start.
LEMMA FInitially == Fences!Init => FInv
<1> SUFFICES ASSUME Fences!Init PROVE FInv
  OBVIOUS
<1>1. text = << >> /\ text \in Seq(Fences!Tokens) /\ Len(text) = 0 /\ finished = FALSE
      /\ parted = FALSE
  BY DEF Fences!Init
<1>2. Fences!Parser = Fences!New /\ Fences!Parser \in Parsers
  BY NewType DEF Fences!Init, Fences!Parser, Fences!New
<1>3. PICK f : Consumes(f, text)
  BY <1>1, CompleteLinesIs
<1>4. f[0] = Fences!New
  BY <1>1, <1>3, ConsumedAt
<1>5. Opened(text, 1, 0) /\ SubSeq(text, 1, 0) = << >>
  BY <1>1 DEF Opened, Fences!Begins
<1>6. Holds(Fences!New, Fences!New, << >>)
  BY DEF Holds, Fences!New
<1>7. HasRead(Fences!Parser, text, Len(text))
  BY <1>1, <1>2, <1>3, <1>4, <1>5, <1>6 DEF HasRead
<1> QED
  BY <1>1, <1>2, <1>7 DEF FInv, FTypes

\* Every step keeps it.
LEMMA FStep == FInv /\ [Fences!Next]_(Fences!vars) => FInv'
<1> SUFFICES ASSUME FInv, [Fences!Next]_(Fences!vars) PROVE FInv'
  OBVIOUS
<1>0. text \in Seq(Fences!Tokens) /\ Fences!Parser \in Parsers /\ parted \in BOOLEAN
  BY Zenon DEF FInv, FTypes
<1>1. ASSUME NEW fragment \in Fences!Fragments, Fences!Push(fragment) PROVE FInv'
  <2>1. fragment \in Seq(Fences!Tokens) /\ fragment # << >>
    BY DEF Fences!Fragments
  <2>2. /\ ~finished /\ ~finished' /\ text' = text \o fragment /\ text' \in Seq(Fences!Tokens)
    BY <1>0, <1>1, <2>1 DEF Fences!Push
  <2>3. Fences!PushInto(Fences!Parser, fragment) \in Parsers
    <3>1. PICK f \in [0 .. Len(fragment) -> Parsers] :
            Fences!Fed(Fences!Parser, fragment) = f[Len(fragment)]
      BY <1>0, <2>1, FedIs
    <3>2. Fences!Fed(Fences!Parser, fragment) \in Parsers
      BY <2>1, <3>1
    <3> QED
      BY <3>2, FlushType DEF Fences!PushInto
  <2>4. Fences!Parser' = Fences!PushInto(Fences!Parser, fragment)
    BY <1>1, <2>3 DEF Fences!Push, Fences!Becomes, Fences!Parser, Parsers
  <2>6. parted' \in BOOLEAN
    BY <1>0, <1>1, Zenon DEF Fences!Push
  <2>7. ~parted' => ~parted /\ fragment[Len(fragment)] # "return"
    BY <1>1, Zenon DEF Fences!Push, Fences!Last
  <2>5. ASSUME Fences!LineAnchored', ~parted' PROVE HasRead(Fences!Parser', text', Len(text'))
    <3>1. Anchored(text \o fragment)
      BY <2>2, <2>5 DEF Anchored, Fences!LineAnchored
    <3>2. Fences!LineAnchored
      <4> SUFFICES ASSUME NEW i \in 1 .. Len(text), text[i] = "ticks"
                   PROVE  \E k \in 1 .. i : /\ Fences!Begins(text, k)
                                            /\ \A j \in k .. i - 1 : text[j] = "blank"
        BY <1>0 DEF Fences!LineAnchored
      <4>1. PICK more \in Seq(Fences!Tokens) : more = text \o fragment
        BY <2>2
      <4>2. i \in DOMAIN more /\ \A j \in 1 .. Len(text) : more[j] = text[j]
        BY <1>0, <2>1, <4>1
      <4>3. PICK k \in 1 .. i : Fences!Begins(more, k) /\ \A j \in k .. i - 1 : more[j] = "blank"
        BY <3>1, <4>1, <4>2 DEF Anchored
      <4>4. k = 1 \/ k - 1 \in 1 .. Len(text)
        BY <4>3
      <4>5. Fences!Begins(text, k)
        BY <4>2, <4>3, <4>4 DEF Fences!Begins
      <4> QED
        BY <4>2, <4>3, <4>5
    <3>3. HasRead(Fences!Parser, text, Len(text))
      BY <2>2, <2>5, <2>7, <3>2 DEF FInv
    <3>4. HasRead(Fences!PushInto(Fences!Parser, fragment), text \o fragment,
            Len(text \o fragment))
      BY <1>0, <2>1, <2>5, <2>7, <3>1, <3>3, ReadsFragment
    <3> QED
      BY <2>2, <2>4, <3>4
  <2> QED
    BY <2>2, <2>3, <2>4, <2>5, <2>6 DEF FInv, FTypes
<1>2. CASE Fences!Finish
  <2>1. text' = text /\ finished' = TRUE /\ ~finished /\ parted' = parted
    BY <1>2, Zenon DEF Fences!Finish
  <2>2. Fences!FinishOf(Fences!Parser) \in Parsers
    BY <1>0, FlushType
  <2>3. Fences!Parser' = Fences!FinishOf(Fences!Parser)
          /\ out' = Fences!FinishOf(Fences!Parser).out
    BY <1>2, <2>2 DEF Fences!Finish, Fences!Becomes, Fences!Parser, Parsers
  <2>4. ASSUME Fences!LineAnchored', ~parted' PROVE out' = Fences!InLines(text).out
    <3>1. Fences!LineAnchored /\ ~parted
      BY <2>1, <2>4 DEF Fences!LineAnchored, Fences!Begins
    <3>2. HasRead(Fences!Parser, text, Len(text))
      BY <2>1, <3>1 DEF FInv
    <3> QED
      BY <1>0, <2>3, <3>2, ReadsAll
  <2> QED
    BY <1>0, <2>1, <2>2, <2>3, <2>4 DEF FInv, FTypes
<1>3. CASE UNCHANGED Fences!vars
  BY <1>3 DEF Fences!vars, FInv, FTypes, Fences!LineAnchored, Fences!Begins, Fences!Parser
<1> QED
  BY <1>1, <1>2, <1>3 DEF Fences!Next

\* However a text is cut into fragments, none of which ends in a carriage return, it comes
\* out as its lines say, if backticks follow at most the blanks a line begins with: what the
\* parser holds back is the line itself, or what is left of one that cannot be a marker.
THEOREM InvisiblyChunked == Fences!Spec => []ChunkingIsInvisible
<1>1. FInv => ChunkingIsInvisible
  BY DEF FInv, ChunkingIsInvisible, Fences!ChunkingIsInvisible
<1> QED
  BY <1>1, FInitially, FStep, PTL DEF Fences!Spec

-----------------------------------------------------------------------------
(***************************************************************************)
(* The installer of language servers: what its screen says is true, and    *)
(* what its merges write keeps what was there.                             *)
(*                                                                         *)
(* The rows. A batch is behind its driver, at it, or before it. What is    *)
(* behind has ended and says whether it is installed; what lies before is  *)
(* queued, and no task is about to tell it anything, because a task is     *)
(* only started for the server that the driver is at; and that one is only *)
(* told "installed" when its install has returned. So no task can make a   *)
(* row end otherwise than its install did.                                 *)
(*                                                                         *)
(* The files. As long as no two merges overlap, the temporary file is the  *)
(* one the merge has opened, it is not lsp.toml, it is empty until it is   *)
(* written whole, and what is written holds all that lsp.toml held when    *)
(* it was read, which is all it holds still.                               *)
(***************************************************************************)

(***************************************************************************)
(* Types.                                                                  *)
(***************************************************************************)
Drivers == {"none", "installing", "collect", "read", "finished", "killed"} \cup Installs!Merging

\* The stages of an install, and the types of the batches.
Stages == {"queued", "fetching", "extracting", "npm", "ok", "failed", "mismatch"}

BatchTypes ==
    /\ driver \in [Installs!Batches -> Drivers]
    /\ chosen \in [Installs!Batches -> Selections \cup {<< >>}]
    /\ left \in [Installs!Batches -> Seq(Installs!Servers)]
    /\ stage \in [Installs!Batches -> Stages]
    /\ rows \in [Installs!Batches -> [Installs!Servers -> Installs!Terminal
         \cup {"absent", "queued", "working"}]]
    /\ notices \in [Installs!Batches -> SUBSET (Installs!Servers \X {"working", "installed"})]
    /\ config_error \in [Installs!Batches -> BOOLEAN]
    /\ succeeded \in [Installs!Batches -> SUBSET Installs!Servers]

\* Each batch was picked from the catalog, without repetition.
LEMMA Picked ==
    ASSUME NEW s \in Selections \cup {<< >>}
    PROVE  /\ s \in Seq(Installs!Servers) /\ Len(s) \in Nat /\ DOMAIN s = 1 .. Len(s)
           /\ \A i \in DOMAIN s : s[i] \in Installs!Servers
           /\ \A i, j \in DOMAIN s : s[i] = s[j] => i = j
<1>1. CASE s \in Selections
  BY <1>1, PickerAssumption
<1>2. CASE s = << >>
  BY <1>2
<1> QED
  BY <1>1, <1>2

\* The variables of the batches have their types at the start.
LEMMA BatchTypesInit == Installs!Init => BatchTypes
  BY DEF Installs!Init, BatchTypes, Drivers, Stages, Installs!Terminal, Installs!Batches,
     Installs!Servers

\* The steps of an install, but its end.
Works(b) ==
    \/ Installs!Start(b) \/ Installs!NpmPrints(b) \/ Installs!NpmInstalls(b)
         \/ Installs!NpmFails(b) \/ Installs!FetchFails(b)
    \/ Installs!FetchesAnother(b) \/ Installs!Fetches(b) \/ Installs!Extracts(b)
         \/ Installs!ExtractFails(b)

\* Such a step goes to some stage and starts the tasks of some notifications: of "installed"
\* only when the install has succeeded.
LEMMA AStage ==
    ASSUME BatchTypes, NEW b \in Installs!Batches, Works(b)
    PROVE  /\ driver[b] = "installing" /\ left[b] # << >> /\ stage[b] # "ok"
           /\ UNCHANGED Installs!installVars
           /\ \E where \in Stages \ {"queued"}, K \in SUBSET {"working", "installed"} :
                /\ Installs!Go(b, where) /\ ("installed" \in K => where = "ok")
                /\ notices' = [notices EXCEPT ![b] = @ \cup ({Installs!Current(b)} \X K)]
<1> USE DEF Works
<1>1. /\ driver[b] = "installing" /\ left[b] # << >> /\ stage[b] # "ok"
           /\ UNCHANGED Installs!installVars
      /\ stage[b] \in Stages
  BY DEF Installs!Start, Installs!NpmPrints, Installs!NpmInstalls, Installs!NpmFails,
     Installs!FetchFails, Installs!FetchesAnother, Installs!Fetches,
        Installs!Extracts, Installs!ExtractFails, Installs!Installing, BatchTypes
<1>2. notices = [notices EXCEPT ![b] = @ \cup ({Installs!Current(b)} \X {})]
  BY DEF BatchTypes
<1>3. stage[b] = "npm" => stage = [stage EXCEPT ![b] = "npm"]
  BY DEF BatchTypes
<1>4. \E where \in Stages \ {"queued"}, K \in SUBSET {"working", "installed"} :
        /\ Installs!Go(b, where) /\ ("installed" \in K => where = "ok")
        /\ notices' = [notices EXCEPT ![b] = @ \cup ({Installs!Current(b)} \X K)]
  <2>1. CASE Installs!Start(b)
    <3>1. \/ Installs!Go(b, "npm") /\ UNCHANGED notices
          \/ Installs!Go(b, "fetching") /\ Installs!Notify(b, {"working"})
      BY <2>1 DEF Installs!Start
    <3> QED
      BY <3>1, <1>2 DEF Installs!Notify, Stages
  <2>2. CASE Installs!NpmPrints(b)
    <3>1. Installs!Go(b, "npm") /\ Installs!Notify(b, {"working"})
      BY <2>2, <1>3 DEF Installs!NpmPrints, Installs!Installing, Installs!Go
    <3> QED
      BY <3>1 DEF Installs!Notify, Stages
  <2>3. CASE Installs!NpmInstalls(b) \/ Installs!Extracts(b)
    <3>1. Installs!Go(b, "ok") /\ Installs!Notify(b, {"installed"})
      BY <2>3 DEF Installs!NpmInstalls, Installs!Extracts
    <3> QED
      BY <3>1 DEF Installs!Notify, Stages
  <2>4. CASE Installs!NpmFails(b) \/ Installs!FetchFails(b) \/ Installs!ExtractFails(b)
    <3>1. Installs!Go(b, "failed") /\ UNCHANGED notices
      BY <2>4 DEF Installs!NpmFails, Installs!FetchFails, Installs!ExtractFails
    <3> QED
      BY <3>1, <1>2 DEF Stages
  <2>5. CASE Installs!FetchesAnother(b) \/ Installs!Fetches(b)
    <3>1. (Installs!Go(b, "mismatch") \/ Installs!Go(b, "extracting"))
            /\ Installs!Notify(b, {"working"})
      BY <2>5 DEF Installs!FetchesAnother, Installs!Fetches
    <3> QED
      BY <3>1 DEF Installs!Notify, Stages
  <2> QED
    BY <2>1, <2>2, <2>3, <2>4, <2>5
<1> QED
  BY <1>1, <1>4

\* Every step keeps them.
LEMMA BatchTypesStep == BatchTypes /\ [Installs!Next]_(Installs!vars) => BatchTypes'
<1> SUFFICES ASSUME BatchTypes, [Installs!Next]_(Installs!vars) PROVE BatchTypes'
  OBVIOUS
<1> USE DEF BatchTypes
<1>1. ASSUME NEW b \in Installs!Batches, NEW selection \in Selections,
               Installs!Confirm(b, selection)
      PROVE  BatchTypes'
  BY <1>1, PickerAssumption DEF Installs!Confirm, Installs!fileVars, Drivers, Installs!Terminal
<1>2. ASSUME NEW b \in Installs!Batches, NEW selection \in Selections,
               Installs!CannotInstall(b, selection)
      PROVE  BatchTypes'
  BY <1>2 DEF Installs!CannotInstall, Installs!fileVars, Drivers, Installs!Terminal
<1>3. ASSUME NEW b \in Installs!Batches, left[b] # << >>
      PROVE  Installs!Current(b) \in Installs!Servers /\ Tail(left[b]) \in Seq(Installs!Servers)
  BY <1>3 DEF Installs!Current
<1>4. ASSUME NEW b \in Installs!Batches, Works(b) PROVE BatchTypes'
  <2>1. PICK where \in Stages \ {"queued"}, K \in SUBSET {"working", "installed"} :
           /\ left[b] # << >> /\ UNCHANGED Installs!installVars /\ Installs!Go(b, where)
           /\ notices' = [notices EXCEPT ![b] = @ \cup ({Installs!Current(b)} \X K)]
    BY <1>4, AStage
  <2>2. Installs!Current(b) \in Installs!Servers
    BY <1>3, <2>1
  <2> QED
    BY <2>1, <2>2 DEF Installs!installVars, Installs!Go
<1>5. ASSUME NEW b \in Installs!Batches, Installs!SettleInstalled(b)
               \/ Installs!SettleFailed(b) \/ Installs!SettleMismatch(b)
                                         \/ Installs!InstallsEnd(b)
      PROVE  BatchTypes'
  <2>1. CASE Installs!SettleInstalled(b)
    BY <2>1, <1>3 DEF Installs!SettleInstalled, Installs!Installing, Installs!Advance,
       Installs!Go, Stages, Installs!Terminal, Installs!fileVars
  <2>2. CASE Installs!SettleFailed(b)
    BY <2>2, <1>3 DEF Installs!SettleFailed, Installs!Installing, Installs!Advance, Installs!Go,
       Stages, Installs!Terminal, Installs!fileVars
  <2>3. CASE Installs!SettleMismatch(b)
    BY <2>3, <1>3 DEF Installs!SettleMismatch, Installs!Installing, Installs!Go, Stages, Drivers,
       Installs!Terminal, Installs!fileVars
  <2>4. CASE Installs!InstallsEnd(b)
    BY <2>4 DEF Installs!InstallsEnd, Installs!batchVars, Drivers
  <2> QED
    BY <1>5, <2>1, <2>2, <2>3, <2>4
<1>6. ASSUME NEW b \in Installs!Batches, Installs!Collect(b) \/ Installs!Read(b)
               \/ Installs!Open(b) \/ Installs!Write(b) \/ Installs!Rename(b)
                                         \/ Installs!MergeFails(b)
      PROVE  BatchTypes'
  <2>1. driver' \in [Installs!Batches -> Drivers]
    BY <1>6 DEF Installs!Collect, Installs!Read, Installs!Open, Installs!Write, Installs!Rename,
       Installs!MergeFails, Drivers, Installs!Merging
  <2>2. config_error' \in [Installs!Batches -> BOOLEAN]
    BY <1>6 DEF Installs!Collect, Installs!Read, Installs!Open, Installs!Write, Installs!Rename,
       Installs!MergeFails, Installs!batchVars
  <2>3. UNCHANGED <<chosen, left, stage, rows, notices, succeeded>>
    BY <1>6 DEF Installs!Collect, Installs!Read, Installs!Open, Installs!Write, Installs!Rename,
       Installs!MergeFails, Installs!batchVars
  <2> QED
    BY <2>1, <2>2, <2>3
<1>7. ASSUME NEW b \in Installs!Batches, Installs!Deliver(b) PROVE BatchTypes'
  <2>1. PICK n \in notices[b] :
          /\ notices' = [notices EXCEPT ![b] = @ \ {n}]
          /\ rows' = [rows EXCEPT ![b][n[1]] = Installs!Applied(@, n[2])]
          /\ UNCHANGED <<driver, chosen, left, stage, config_error, succeeded, Installs!fileVars>>
    BY <1>7 DEF Installs!Deliver
  <2>2. n[1] \in Installs!Servers /\ n[2] \in {"working", "installed"}
    BY <2>1
  <2>3. Installs!Applied(rows[b][n[1]], n[2]) \in Installs!Terminal
          \cup {"absent", "queued", "working"}
    BY <2>2 DEF Installs!Applied, Installs!Terminal
  <2> QED
    BY <2>1, <2>2, <2>3
<1>8. CASE Installs!Quit
  BY <1>8 DEF Installs!Quit, Drivers, Stages
<1>9. CASE UNCHANGED Installs!vars
  BY <1>9 DEF Installs!vars, Installs!batchVars
<1> QED
  BY <1>1, <1>2, <1>4, <1>5, <1>6, <1>7, <1>8, <1>9 DEF Installs!Next, Installs!Drive, Works

(***************************************************************************)
(* The rows.                                                               *)
(***************************************************************************)
\* How many servers of the batch are done with; what is left is the rest of the batch.
Done(b) == Len(chosen[b]) - Len(left[b])

\* What is left of a batch are the last of the chosen.
Progress(b) ==
    /\ Len(left[b]) <= Len(chosen[b])
    /\ \A i \in DOMAIN left[b] : left[b][i] = chosen[b][Done(b) + i]

Row(b, i)  == rows[b][chosen[b][i]]
In(b, i)   == chosen[b][i] \in succeeded[b]
Told(b, i) == <<chosen[b][i], "installed">> \in notices[b]

\* Before the driver comes to a server its row is queued and no task tells it anything.
Untouched(b, i) ==
    /\ Row(b, i) = "queued" /\ ~In(b, i)
    /\ ~Told(b, i) /\ <<chosen[b][i], "working">> \notin notices[b]

\* After that its row has ended and says whether it is installed.
Settled(b, i) == Row(b, i) \in Installs!Terminal /\ (Row(b, i) = "installed" <=> In(b, i))

\* Meanwhile "installed" is only told, or shown, when the install has succeeded.
UnderWay(b) ==
    LET i == Done(b) + 1 IN
    /\ ~In(b, i) /\ Row(b, i) \in {"queued", "working", "installed"}
    /\ Row(b, i) = "installed" \/ Told(b, i) => stage[b] = "ok"
    /\ stage[b] = "queued" => Untouched(b, i)

\* A batch that has not begun, one that runs, and one that has ended.
NotBegun(b) ==
    driver[b] = "none" => stage[b] = "queued" /\ notices[b] = {} /\ succeeded[b] = {}

Running(b) ==
    driver[b] = "installing" =>
        /\ Progress(b)
        /\ \A i \in 1 .. Done(b) : Settled(b, i) /\ Row(b, i) # "fatal"
        /\ \A i \in Done(b) + 2 .. Len(chosen[b]) : Untouched(b, i)
        /\ IF left[b] = << >> THEN stage[b] = "queued" ELSE UnderWay(b)

Ended(b) ==
    driver[b] \in Installs!Merging \cup {"collect", "read", "finished"} =>
        /\ \A i \in DOMAIN chosen[b] : Settled(b, i)
        /\ \A i, j \in DOMAIN chosen[b] :
              i < j /\ Row(b, i) = "fatal" => Row(b, j) = "fatal"

\* The invariant of a batch.
BatchInv(b) ==
    NotBegun(b) /\ Running(b) /\ Ended(b) /\ succeeded[b] \subseteq Installs!ChosenBy(b)

\* That of all.
RowsInv == \A b \in Installs!Batches : BatchInv(b)

\* It holds at the start.
LEMMA RowsInvInit == Installs!Init => RowsInv
<1> SUFFICES ASSUME Installs!Init, NEW b \in Installs!Batches PROVE BatchInv(b)
  BY DEF RowsInv
<1>1. driver[b] = "none" /\ stage[b] = "queued" /\ notices[b] = {} /\ succeeded[b] = {}
  BY DEF Installs!Init
<1> QED
  BY <1>1 DEF BatchInv, NotBegun, Running, Ended, Installs!Merging

\* A batch that a step leaves alone stays as it is.
LEMMA BatchRests ==
    ASSUME NEW b \in Installs!Batches, BatchInv(b),
           driver'[b] = driver[b], chosen'[b] = chosen[b], left'[b] = left[b],
           stage'[b] = stage[b], rows'[b] = rows[b], notices'[b] = notices[b],
           succeeded'[b] = succeeded[b]
    PROVE  BatchInv(b)'
<1>1. Done(b)' = Done(b) /\ (Progress(b) => Progress(b)')
  BY DEF Done, Progress
<1>2. \A i : Row(b, i)' = Row(b, i) /\ In(b, i)' = In(b, i) /\ Told(b, i)' = Told(b, i)
  BY DEF Row, In, Told
<1>3. \A i : Settled(b, i) => Settled(b, i)'
  BY <1>2 DEF Settled
<1>4. \A i : Untouched(b, i) => Untouched(b, i)'
  BY <1>2 DEF Untouched
<1>5. UnderWay(b) => UnderWay(b)'
  BY <1>1, <1>2, <1>4 DEF UnderWay
<1>6. Running(b)'
  BY <1>1, <1>2, <1>3, <1>4, <1>5 DEF BatchInv, Running
<1>7. Ended(b)'
  BY <1>2, <1>3 DEF BatchInv, Ended, Installs!Merging
<1> QED
  BY <1>6, <1>7 DEF BatchInv, NotBegun, Installs!ChosenBy

\* What an installing batch has before it.
LEMMA Ahead ==
    ASSUME BatchTypes, NEW b \in Installs!Batches, Progress(b)
    PROVE  /\ Done(b) \in Nat /\ Len(chosen[b]) \in Nat /\ DOMAIN chosen[b] = 1 .. Len(chosen[b])
           /\ left[b] # << >> => /\ Done(b) + 1 \in DOMAIN chosen[b]
                                 /\ Installs!Current(b) = chosen[b][Done(b) + 1]
                                 /\ Installs!Current(b) \in Installs!Servers
           /\ left[b] = << >> => Done(b) = Len(chosen[b])
<1>1. chosen[b] \in Selections \cup {<< >>} /\ left[b] \in Seq(Installs!Servers)
  BY DEF BatchTypes
<1>2. /\ chosen[b] \in Seq(Installs!Servers) /\ Len(chosen[b]) \in Nat
      /\ DOMAIN chosen[b] = 1 .. Len(chosen[b])
  BY <1>1, Picked
<1>3. Len(left[b]) \in Nat /\ Len(left[b]) <= Len(chosen[b])
  BY <1>1 DEF Progress
<1>4. ASSUME left[b] # << >>
      PROVE  Done(b) + 1 \in DOMAIN chosen[b] /\ Installs!Current(b) = chosen[b][Done(b) + 1]
             /\ Installs!Current(b) \in Installs!Servers
  <2>1. Len(left[b]) > 0 /\ 1 \in DOMAIN left[b] /\ Installs!Current(b) = left[b][1]
          /\ left[b][1] \in Installs!Servers
    BY <1>1, <1>4 DEF Installs!Current
  <2>2. left[b][1] = chosen[b][Done(b) + 1]
    BY <2>1 DEF Progress
  <2>3. Done(b) + 1 \in 1 .. Len(chosen[b])
    <3>1. \A m, n \in Nat : m <= n /\ m > 0 => n - m + 1 \in 1 .. n
      OBVIOUS
    <3>2. Len(chosen[b]) \in Nat /\ Len(left[b]) > 0
      BY <2>1, <1>2
    <3> QED
      BY <3>1, <3>2, <1>3, Zenon DEF Done
  <2> QED
    BY <2>1, <2>2, <2>3, <1>2
<1>5. left[b] = << >> => Done(b) = Len(chosen[b])
  BY <1>2 DEF Done
<1>6. Done(b) \in Nat
  BY <1>2, <1>3 DEF Done
<1> QED
  BY <1>2, <1>4, <1>5, <1>6

\* A batch is confirmed.
LEMMA RowsConfirm ==
    ASSUME BatchTypes, RowsInv, NEW b \in Installs!Batches, NEW selection \in Selections,
           Installs!Confirm(b, selection) \/ Installs!CannotInstall(b, selection)
    PROVE  RowsInv'
<1> SUFFICES ASSUME NEW c \in Installs!Batches PROVE BatchInv(c)'
  BY DEF RowsInv, Installs!Batches
<1>1. BatchInv(c) /\ BatchInv(b) /\ driver[b] = "none"
  BY DEF RowsInv, Installs!Confirm, Installs!CannotInstall, Installs!Fresh
<1>2. CASE c # b
  BY <1>1, <1>2, BatchRests DEF Installs!Confirm, Installs!CannotInstall, BatchTypes
<1>3. CASE c = b
  <2>1. /\ selection \in Seq(Installs!Servers) /\ Len(selection) \in Nat
        /\ DOMAIN selection = 1 .. Len(selection)
        /\ \A i \in DOMAIN selection : selection[i] \in Installs!Servers
    BY Picked
  <2>2. succeeded'[b] = {} /\ notices'[b] = {} /\ chosen'[b] = selection /\ stage'[b] = "queued"
    BY <1>1 DEF BatchInv, NotBegun, Installs!Confirm, Installs!CannotInstall, BatchTypes
  <2>3. CASE Installs!Confirm(b, selection)
    <3>1. /\ driver'[b] = "installing" /\ left'[b] = selection
          /\ \A i \in DOMAIN selection : rows'[b][selection[i]] = "queued"
      BY <2>1, <2>3 DEF Installs!Confirm, BatchTypes
    <3>2. Done(b)' = 0
      BY <2>1, <2>2, <3>1 DEF Done
    <3>3. \A i \in DOMAIN selection : Untouched(b, i)'
      BY <2>2, <3>1 DEF Untouched, Row, In, Told
    <3>4. Progress(b)'
      BY <2>1, <2>2, <3>1, <3>2 DEF Progress
    <3>5. selection # << >> => UnderWay(b)'
      <4>1. selection # << >> => 1 \in DOMAIN selection
        BY <2>1
      <4> QED
        BY <4>1, <2>2, <3>2, <3>3 DEF UnderWay, Untouched
    <3>6. Running(b)'
      BY <2>1, <2>2, <3>1, <3>2, <3>3, <3>4, <3>5 DEF Running
    <3> QED
      BY <1>3, <2>2, <3>1, <3>6 DEF BatchInv, NotBegun, Ended, Installs!Merging
  <2>4. CASE Installs!CannotInstall(b, selection)
    <3>1. /\ driver'[b] = "finished"
          /\ \A i \in DOMAIN selection : rows'[b][selection[i]] = "failed"
      BY <2>1, <2>4 DEF Installs!CannotInstall, BatchTypes
    <3>2. \A i \in DOMAIN selection : Settled(b, i)' /\ Row(b, i)' # "fatal"
      BY <2>2, <3>1 DEF Settled, Row, In, Installs!Terminal
    <3> QED
      BY <1>3, <2>2, <3>1, <3>2 DEF BatchInv, NotBegun, Running, Ended
  <2> QED
    BY <2>3, <2>4
<1> QED
  BY <1>2, <1>3

\* An install goes from stage to stage.
LEMMA RowsStage ==
    ASSUME BatchTypes, RowsInv, NEW b \in Installs!Batches, driver[b] = "installing",
             left[b] # << >>,
           stage[b] # "ok", UNCHANGED Installs!installVars,
           NEW where \in Stages \ {"queued"}, Installs!Go(b, where),
           NEW K \in SUBSET {"working", "installed"},
           notices' = [notices EXCEPT ![b] = @ \cup ({Installs!Current(b)} \X K)],
           "installed" \in K => where = "ok"
    PROVE  RowsInv'
<1> SUFFICES ASSUME NEW c \in Installs!Batches PROVE BatchInv(c)'
  BY DEF RowsInv, Installs!Batches
<1>1. BatchInv(c) /\ BatchInv(b)
  BY DEF RowsInv
<1>2. CASE c # b
  BY <1>1, <1>2, BatchRests DEF Installs!Go, BatchTypes, Installs!installVars
<1>3. CASE c = b
  <2>1. /\ driver'[b] = driver[b] /\ chosen'[b] = chosen[b] /\ left'[b] = left[b]
        /\ rows'[b] = rows[b] /\ succeeded'[b] = succeeded[b] /\ stage'[b] = where
        /\ notices'[b] = notices[b] \cup ({Installs!Current(b)} \X K)
    BY DEF Installs!installVars, Installs!Go, BatchTypes
  <2> DEFINE d == Done(b)
  <2>2. Running(b) /\ Progress(b) /\ UnderWay(b)
    BY <1>1 DEF BatchInv, Running
  <2>3. /\ d \in Nat /\ Len(chosen[b]) \in Nat /\ DOMAIN chosen[b] = 1 .. Len(chosen[b])
        /\ d + 1 \in DOMAIN chosen[b] /\ Installs!Current(b) = chosen[b][d + 1]
    BY <2>2, Ahead
  <2>4. d' = d /\ Progress(b)'
    BY <2>1, <2>2 DEF Done, Progress
  <2>5. \A i \in 1 .. d : Settled(b, i)' /\ Row(b, i)' # "fatal"
    BY <1>1, <2>1 DEF BatchInv, Running, Settled, Row, In
  <2>6. \A i \in d + 2 .. Len(chosen[b]) : Untouched(b, i)'
    <3> SUFFICES ASSUME NEW i \in d + 2 .. Len(chosen[b]) PROVE Untouched(b, i)'
      OBVIOUS
    <3>1. Untouched(b, i)
      BY <1>1 DEF BatchInv, Running
    <3>2. chosen[b][i] # Installs!Current(b)
      <4>1. chosen[b] \in Selections \cup {<< >>}
        BY DEF BatchTypes
      <4>2. i \in DOMAIN chosen[b] /\ i # d + 1
        BY <2>3
      <4> HIDE DEF d
      <4> QED
        BY <4>1, <4>2, <2>3, Picked
    <3> QED
      BY <3>1, <3>2, <2>1 DEF Untouched, Row, In, Told
  <2>7. UnderWay(b)'
    <3>1. ~In(b, d + 1) /\ Row(b, d + 1) \in {"queued", "working"} /\ ~Told(b, d + 1)
      BY <2>2 DEF UnderWay
    <3>2. ~In(b, d + 1)' /\ Row(b, d + 1)' \in {"queued", "working"}
      BY <2>1, <2>4, <3>1 DEF In, Row
    <3>3. Told(b, d + 1)' => where = "ok"
      BY <2>1, <2>4, <3>1 DEF Told
    <3> QED
      BY <2>1, <2>4, <3>2, <3>3 DEF UnderWay
  <2>8. Running(b)'
    BY <2>1, <2>4, <2>5, <2>6, <2>7 DEF Running
  <2>9. succeeded'[b] \subseteq Installs!ChosenBy(b)'
    BY <1>1, <2>1 DEF BatchInv, Installs!ChosenBy
  <2> QED
    BY <1>3, <2>1, <2>8, <2>9 DEF BatchInv, NotBegun, Ended, Installs!Merging
<1> QED
  BY <1>2, <1>3

\* The task of a notification runs: it moves no row that has ended.
LEMMA RowsDeliver ==
    ASSUME BatchTypes, RowsInv, NEW b \in Installs!Batches, Installs!Deliver(b)
    PROVE  RowsInv'
<1> SUFFICES ASSUME NEW c \in Installs!Batches PROVE BatchInv(c)'
  BY DEF RowsInv, Installs!Batches
<1>1. BatchInv(c) /\ BatchInv(b)
  BY DEF RowsInv
<1>2. PICK n \in notices[b] :
        /\ notices' = [notices EXCEPT ![b] = @ \ {n}]
        /\ rows' = [rows EXCEPT ![b][n[1]] = Installs!Applied(@, n[2])]
        /\ UNCHANGED <<driver, chosen, left, stage, config_error, succeeded, Installs!fileVars>>
  BY DEF Installs!Deliver
<1>3. CASE c # b
  BY <1>1, <1>2, <1>3, BatchRests DEF BatchTypes
<1>4. CASE c = b
  <2>1. /\ driver'[b] = driver[b] /\ chosen'[b] = chosen[b] /\ left'[b] = left[b]
        /\ stage'[b] = stage[b] /\ succeeded'[b] = succeeded[b] /\ notices'[b] = notices[b] \ {n}
    BY <1>2 DEF BatchTypes
  <2>2. n = <<n[1], n[2]>> /\ n[2] \in {"working", "installed"}
    BY DEF BatchTypes
  <2>3. ASSUME NEW i \in DOMAIN chosen[b]
        PROVE  /\ chosen[b][i] # n[1] => Row(b, i)' = Row(b, i)
               /\ chosen[b][i] = n[1] => Row(b, i)' = Installs!Applied(Row(b, i), n[2])
    <3>1. chosen[b][i] \in Installs!Servers
      BY Picked DEF BatchTypes
    <3> QED
      BY <1>2, <2>1, <3>1 DEF Row, BatchTypes
  <2>4. \A i : In(b, i)' = In(b, i) /\ (Told(b, i)' => Told(b, i))
    BY <2>1 DEF In, Told
  <2>5. ASSUME NEW i \in DOMAIN chosen[b], Settled(b, i)
        PROVE  Settled(b, i)' /\ Row(b, i)' = Row(b, i)
    BY <2>3, <2>4, <2>5 DEF Settled, Installs!Applied
  <2>6. ASSUME NEW i \in DOMAIN chosen[b], Untouched(b, i)
        PROVE  Untouched(b, i)'
    <3>1. chosen[b][i] # n[1]
      BY <2>2, <2>6 DEF Untouched, Told
    <3> QED
      BY <2>1, <2>3, <2>4, <2>6, <3>1 DEF Untouched
  <2>7. NotBegun(b)'
    BY <1>1, <2>1 DEF BatchInv, NotBegun
  <2>8. Ended(b)'
    BY <1>1, <2>1, <2>5 DEF BatchInv, Ended, Installs!Merging
  <2>9. ASSUME driver[b] = "installing"
        PROVE  Running(b)'
    <3>1. Progress(b) /\ Done(b)' = Done(b) /\ Progress(b)'
      BY <1>1, <2>1, <2>9 DEF BatchInv, Running, Progress, Done
    <3>2. Done(b) \in Nat /\ Len(chosen[b]) \in Nat /\ DOMAIN chosen[b] = 1 .. Len(chosen[b])
      BY <3>1, Ahead
    <3>3. \A i \in 1 .. Done(b) : Settled(b, i)' /\ Row(b, i)' # "fatal"
      <4>1. Done(b) <= Len(chosen[b])
        BY <3>1, <3>2 DEF Progress, Done, BatchTypes
      <4> SUFFICES ASSUME NEW i \in 1 .. Done(b)
                   PROVE  Settled(b, i)' /\ Row(b, i)' # "fatal"
        OBVIOUS
      <4>2. Settled(b, i) /\ Row(b, i) # "fatal"
        BY <1>1, <2>9 DEF BatchInv, Running
      <4>3. i \in DOMAIN chosen[b]
        BY <4>1, <3>2
      <4> QED
        BY <2>5, <4>2, <4>3
    <3>4. \A i \in Done(b) + 2 .. Len(chosen[b]) : Untouched(b, i)'
      <4> SUFFICES ASSUME NEW i \in Done(b) + 2 .. Len(chosen[b]) PROVE Untouched(b, i)'
        OBVIOUS
      <4>1. Untouched(b, i)
        BY <1>1, <2>9 DEF BatchInv, Running
      <4>2. i \in DOMAIN chosen[b]
        BY <3>2
      <4> QED
        BY <2>6, <4>1, <4>2
    <3>5. CASE left[b] = << >>
      <4>1. stage[b] = "queued"
        BY <1>1, <2>9, <3>5 DEF BatchInv, Running
      <4> QED
        BY <2>1, <3>1, <3>3, <3>4, <3>5, <4>1 DEF Running
    <3>6. CASE left[b] # << >>
      <4>0. PICK i : i = Done(b) + 1
        OBVIOUS
      <4>1. UnderWay(b) /\ i \in DOMAIN chosen[b]
        BY <4>0, <1>1, <2>9, <3>1, <3>6, Ahead DEF BatchInv, Running
      <4>2. /\ ~In(b, i) /\ Row(b, i) \in {"queued", "working", "installed"}
            /\ Row(b, i) = "installed" \/ Told(b, i) => stage[b] = "ok"
            /\ stage[b] = "queued" => Untouched(b, i)
        BY <4>0, <4>1 DEF UnderWay
      <4>3. chosen[b][i] = n[1] /\ n[2] = "installed" => Told(b, i)
        BY <2>2 DEF Told
      <4>4. /\ ~In(b, i)' /\ Row(b, i)' \in {"queued", "working", "installed"}
            /\ Row(b, i)' = "installed" \/ Told(b, i)' => stage[b] = "ok"
        BY <4>1, <4>2, <4>3, <2>2, <2>3, <2>4 DEF Installs!Applied
      <4>5. stage[b] = "queued" => Untouched(b, i)'
        BY <4>1, <4>2, <2>6
      <4>6. UnderWay(b)'
        BY <4>0, <4>4, <4>5, <3>1, <2>1 DEF UnderWay
      <4> QED
        BY <2>1, <3>1, <3>3, <3>4, <3>6, <4>6 DEF Running
    <3> QED
      BY <3>5, <3>6
  <2>10. Running(b)'
    BY <2>1, <2>9 DEF Running
  <2> QED
    BY <1>1, <1>4, <2>1, <2>7, <2>8, <2>10 DEF BatchInv, Installs!ChosenBy
<1> QED
  BY <1>3, <1>4

\* The places of a batch: behind the driver, at it, and before it.
LEMMA Places ==
    ASSUME NEW d \in Nat, NEW n \in Nat, d + 1 \in 1 .. n, NEW i
    PROVE  /\ i \in 1 .. n => /\ i <= d => i \in 1 .. d /\ ~(i > d) /\ i # d + 1
                              /\ i > d <=> i = d + 1 \/ i > d + 1
                              /\ i > d + 1 => i \in d + 2 .. n /\ i # d + 1
                              /\ i <= d \/ i > d
           /\ i \in 1 .. d + 1 => i \in 1 .. n /\ (i <= d \/ i = d + 1)
           /\ i \in d + 2 .. n => i \in 1 .. n /\ i > d + 1 /\ i # d + 1
<1>1. i \in 1 .. n => /\ i <= d => i \in 1 .. d /\ ~(i > d) /\ i # d + 1
                      /\ i > d + 1 => i \in d + 2 .. n /\ i # d + 1
                      /\ i <= d \/ i > d
  OBVIOUS
<1>2. i \in 1 .. n => (i > d <=> i = d + 1 \/ i > d + 1)
  OBVIOUS
<1>3. i \in 1 .. d + 1 => i \in 1 .. n /\ (i <= d \/ i = d + 1)
  OBVIOUS
<1>4. i \in d + 2 .. n => i \in 1 .. n /\ i > d + 1 /\ i # d + 1
  OBVIOUS
<1> QED
  BY <1>1, <1>2, <1>3, <1>4

\* Where the driver stands, and what that says of the other servers of the batch.
LEMMA AtWork ==
    ASSUME BatchTypes, RowsInv, NEW b \in Installs!Batches, driver[b] = "installing",
             left[b] # << >>
    PROVE  /\ Progress(b) /\ UnderWay(b)
           /\ Done(b) \in Nat /\ Len(chosen[b]) \in Nat /\ DOMAIN chosen[b] = 1 .. Len(chosen[b])
           /\ Done(b) + 1 \in DOMAIN chosen[b] /\ Installs!Current(b) = chosen[b][Done(b) + 1]
           /\ Installs!Current(b) \in Installs!Servers
           /\ \A i \in DOMAIN chosen[b] :
                 /\ i <= Done(b) => Settled(b, i) /\ Row(b, i) # "fatal"
                 /\ i > Done(b) + 1 => Untouched(b, i)
                 /\ chosen[b][i] = Installs!Current(b) => i = Done(b) + 1
<1>1. Running(b) /\ Progress(b) /\ UnderWay(b)
  BY DEF RowsInv, BatchInv, Running
<1>2. /\ Done(b) \in Nat /\ Len(chosen[b]) \in Nat /\ DOMAIN chosen[b] = 1 .. Len(chosen[b])
      /\ Done(b) + 1 \in DOMAIN chosen[b] /\ Installs!Current(b) = chosen[b][Done(b) + 1]
      /\ Installs!Current(b) \in Installs!Servers
  BY <1>1, Ahead
<1>3. ASSUME NEW i \in DOMAIN chosen[b]
      PROVE  /\ i <= Done(b) => Settled(b, i) /\ Row(b, i) # "fatal"
             /\ i > Done(b) + 1 => Untouched(b, i)
  <2>1. i \in 1 .. Len(chosen[b]) /\ Done(b) + 1 \in 1 .. Len(chosen[b])
    BY <1>2
  <2>3. /\ i <= Done(b) => i \in 1 .. Done(b)
        /\ i > Done(b) + 1 => i \in Done(b) + 2 .. Len(chosen[b])
    BY <1>2, <2>1, Places
  <2> QED
    BY <1>1, <2>3 DEF Running
<1>4. \A i \in DOMAIN chosen[b] : chosen[b][i] = Installs!Current(b) => i = Done(b) + 1
  <2>1. chosen[b] \in Selections \cup {<< >>}
    BY DEF BatchTypes
  <2> QED
    BY <1>2, <2>1, Picked
<1> QED
  BY <1>1, <1>2, <1>3, <1>4

\* The end of an install is written to its row.
LEMMA RowsSettle ==
    ASSUME BatchTypes, RowsInv, NEW b \in Installs!Batches, driver[b] = "installing",
             left[b] # << >>,
           UNCHANGED <<driver, chosen, notices>>, Installs!Advance(b),
           NEW status \in {"installed", "failed"},
           rows' = [rows EXCEPT ![b][Installs!Current(b)] = status],
           succeeded'
             = [succeeded EXCEPT ![b] = @ \cup IF status = "installed" THEN {Installs!Current(b)}
                                                         ELSE {}]
    PROVE  RowsInv'
<1> SUFFICES ASSUME NEW c \in Installs!Batches PROVE BatchInv(c)'
  BY DEF RowsInv, Installs!Batches
<1>1. BatchInv(c) /\ BatchInv(b)
  BY DEF RowsInv
<1>2. CASE c # b
  BY <1>1, <1>2, BatchRests DEF Installs!Advance, Installs!Go, BatchTypes
<1>3. CASE c = b
  <2>1. /\ driver'[b] = driver[b] /\ chosen'[b] = chosen[b] /\ left'[b] = Tail(left[b])
        /\ stage'[b] = "queued" /\ notices'[b] = notices[b]
        /\ succeeded'[b] = succeeded[b] \cup IF status = "installed"
             THEN {Installs!Current(b)} ELSE {}
    BY DEF Installs!Advance, Installs!Go, BatchTypes
  <2>0. PICK d, n : d = Done(b) /\ n = Len(chosen[b])
    OBVIOUS
  <2>2. /\ d \in Nat /\ n \in Nat /\ DOMAIN chosen[b] = 1 .. n
        /\ d + 1 \in 1 .. n /\ Installs!Current(b) = chosen[b][d + 1]
        /\ Installs!Current(b) \in Installs!Servers /\ Progress(b) /\ UnderWay(b)
        /\ \A i \in 1 .. n :
                 /\ i <= d => Settled(b, i) /\ Row(b, i) # "fatal"
                 /\ i > d + 1 => Untouched(b, i)
                 /\ chosen[b][i] = Installs!Current(b) => i = d + 1
    BY <2>0, AtWork, Zenon
  <2>A. /\ \A i \in 1 .. d + 1 : i \in 1 .. n /\ (i <= d \/ i = d + 1)
        /\ \A i \in d + 2 .. n : i \in 1 .. n /\ i > d + 1 /\ i # d + 1
        /\ \A i \in 1 .. n : i <= d => i # d + 1
    BY <2>2, Places
  <2>3. /\ left[b] \in Seq(Installs!Servers) /\ Len(left[b]) \in Nat /\ Len(left[b]) > 0
        /\ Len(Tail(left[b])) = Len(left[b]) - 1
        /\ DOMAIN Tail(left[b]) = 1 .. Len(left[b]) - 1
        /\ \A i \in 1 .. Len(left[b]) - 1 : Tail(left[b])[i] = left[b][i + 1]
    BY DEF BatchTypes
  <2>4. Done(b)' = d + 1
    <3>1. \A m, l \in Nat : m - (l - 1) = (m - l) + 1
      OBVIOUS
    <3> QED
      <4>1. d \in Nat /\ n \in Nat /\ Len(left[b]) \in Nat
        BY <2>2, <2>3
      <4>2. Done(b)' = n - (Len(left[b]) - 1) /\ d = n - Len(left[b])
        BY <2>0, <2>1, <2>3, Zenon DEF Done
      <4> QED
        BY <4>1, <4>2, <3>1
  <2>5. Progress(b)'
    <3>1. Len(left[b]) - 1 <= n
      BY <2>0, <2>2, <2>3 DEF Progress
    <3>2. \A i \in 1 .. Len(left[b]) - 1 : Tail(left[b])[i] = chosen[b][d + 1 + i]
      <4> SUFFICES ASSUME NEW i \in 1 .. Len(left[b]) - 1
                   PROVE  Tail(left[b])[i] = chosen[b][d + 1 + i]
        OBVIOUS
      <4>1. i + 1 \in 1 .. Len(left[b]) /\ d + (i + 1) = d + 1 + i
        <5>1. ASSUME NEW m \in Nat, NEW k \in 1 .. m - 1, NEW e \in Nat
              PROVE  k + 1 \in 1 .. m /\ e + (k + 1) = e + 1 + k
          OBVIOUS
        <5>2. d \in Nat
          BY <2>2
        <5> QED
          BY <5>1, <5>2, <2>3
      <4>2. left[b][i + 1] = chosen[b][d + (i + 1)]
        BY <4>1, <2>0, <2>2, <2>3 DEF Progress
      <4> QED
        BY <4>1, <4>2, <2>3
    <3> QED
      BY <3>1, <3>2, <2>0, <2>1, <2>3, <2>4 DEF Progress
  <2>6. ASSUME NEW i \in 1 .. n
        PROVE  /\ Row(b, i)' = IF i = d + 1 THEN status ELSE Row(b, i)
               /\ In(b, i)' <=> IF i = d + 1 THEN status = "installed" ELSE In(b, i)
               /\ Told(b, i)' <=> Told(b, i)
    <3>1. chosen[b][i] \in Installs!Servers /\ (chosen[b][i] = Installs!Current(b) <=> i = d + 1)
      BY <2>2, Picked DEF BatchTypes
    <3>2. Row(b, i)' = IF i = d + 1 THEN status ELSE Row(b, i)
      BY <2>1, <3>1 DEF Row, BatchTypes
    <3>3. i = d + 1 => ~In(b, i)
      BY <2>0, <2>2 DEF UnderWay
    <3> QED
      BY <2>1, <3>1, <3>2, <3>3 DEF In, Told
  <2>7. \A i \in 1 .. d + 1 : Settled(b, i)' /\ Row(b, i)' # "fatal"
    <3> SUFFICES ASSUME NEW i \in 1 .. d + 1
                 PROVE  Settled(b, i)' /\ Row(b, i)' # "fatal"
      OBVIOUS
    <3>1. i \in 1 .. n /\ (i = d + 1 \/ i <= d)
      BY <2>A
    <3>2. i <= d => i # d + 1
      BY <2>A, <3>1
    <3> QED
      BY <3>1, <3>2, <2>2, <2>6 DEF Settled, Installs!Terminal
  <2>8. \A i \in d + 2 .. n : Untouched(b, i)'
    <3> SUFFICES ASSUME NEW i \in d + 2 .. n PROVE Untouched(b, i)'
      OBVIOUS
    <3>1. i \in 1 .. n /\ i > d + 1 /\ i # d + 1
      BY <2>A
    <3> QED
      BY <3>1, <2>1, <2>2, <2>6 DEF Untouched
  <2>9. left'[b] # << >> => UnderWay(b)'
    <3> SUFFICES ASSUME left'[b] # << >> PROVE UnderWay(b)'
      OBVIOUS
    <3>1. Len(left[b]) - 1 >= 1
      BY <2>1, <2>3
    <3>2. d = n - Len(left[b])
      BY <2>0 DEF Done
    <3>3. d + 2 \in d + 2 .. n
      BY <3>1, <3>2, <2>2, <2>3, SMTT(30)
    <3>4. Untouched(b, d + 2)'
      BY <3>3, <2>8
    <3>5. (Done(b) + 1)' = d + 2
      BY <2>2, <2>4
    <3> QED
      BY <2>1, <3>4, <3>5 DEF UnderWay, Untouched
  <2>10. Running(b)'
    <3>1. (Done(b) + 2)' = d + 3 /\ d + 3 .. n \subseteq d + 2 .. n
      BY <2>2, <2>4
    <3> QED
      BY <3>1, <2>0, <2>1, <2>4, <2>5, <2>7, <2>8, <2>9 DEF Running
  <2>11. succeeded'[b] \subseteq Installs!ChosenBy(b)'
    BY <1>1, <2>1, <2>2 DEF BatchInv, Installs!ChosenBy
  <2> QED
    BY <1>3, <2>1, <2>10, <2>11 DEF BatchInv, NotBegun, Ended, Installs!Merging
<1> QED
  BY <1>2, <1>3

\* A mismatch ends the batch.
LEMMA RowsMismatch ==
    ASSUME BatchTypes, RowsInv, NEW b \in Installs!Batches, Installs!SettleMismatch(b)
    PROVE  RowsInv'
<1> SUFFICES ASSUME NEW c \in Installs!Batches PROVE BatchInv(c)'
  BY DEF RowsInv, Installs!Batches
<1>1. BatchInv(c) /\ BatchInv(b)
  BY DEF RowsInv
<1>2. driver[b] = "installing" /\ left[b] # << >>
  BY DEF Installs!SettleMismatch, Installs!Installing
<1>3. CASE c # b
  BY <1>1, <1>3, BatchRests DEF Installs!SettleMismatch, Installs!Go, BatchTypes
<1>4. CASE c = b
  <2>1. /\ driver'[b] = "collect" /\ chosen'[b] = chosen[b] /\ succeeded'[b] = succeeded[b]
        /\ \A s \in Installs!Servers : rows'[b][s] = IF s = Installs!Current(b)
             \/ rows[b][s] = "queued" THEN "fatal"
                                                     ELSE rows[b][s]
    BY DEF Installs!SettleMismatch, BatchTypes
  <2>2. /\ Done(b) \in Nat /\ DOMAIN chosen[b] = 1 .. Len(chosen[b]) /\ Len(chosen[b]) \in Nat
        /\ Installs!Current(b) = chosen[b][Done(b) + 1] /\ UnderWay(b)
        /\ \A i \in DOMAIN chosen[b] :
                 /\ i <= Done(b) => Settled(b, i) /\ Row(b, i) # "fatal"
                 /\ i > Done(b) + 1 => Untouched(b, i)
                 /\ chosen[b][i] = Installs!Current(b) => i = Done(b) + 1
    BY <1>2, AtWork
  <2>3. ASSUME NEW i \in DOMAIN chosen[b]
        PROVE  /\ i <= Done(b) => Row(b, i)' = Row(b, i) /\ Settled(b, i)
               /\ i > Done(b) => Row(b, i)' = "fatal" /\ ~In(b, i)
               /\ In(b, i)' = In(b, i) /\ i \in Nat
    <3>1. i \in Nat /\ (i <= Done(b) \/ i = Done(b) + 1 \/ i > Done(b) + 1)
          /\ ~(i <= Done(b) /\ i = Done(b) + 1) /\ ~(i <= Done(b) /\ i > Done(b))
      BY <2>2
    <3>2. chosen[b][i] \in Installs!Servers
      BY Picked DEF BatchTypes
    <3>3. In(b, i)' = In(b, i)
      BY <2>1 DEF In
    <3>4. Row(b, i)' = IF chosen[b][i] = Installs!Current(b) \/ Row(b, i) = "queued"
            THEN "fatal" ELSE Row(b, i)
      BY <2>1, <3>2 DEF Row
    <3>5. CASE i <= Done(b)
      <4>1. Settled(b, i) /\ Row(b, i) # "queued" /\ chosen[b][i] # Installs!Current(b)
        BY <2>2, <3>1, <3>5 DEF Settled, Installs!Terminal
      <4> QED
        BY <4>1, <3>1, <3>3, <3>4, <3>5
    <3>6. CASE i = Done(b) + 1
      <4>1. chosen[b][i] = Installs!Current(b) /\ ~In(b, i)
        BY <2>2, <3>6 DEF UnderWay
      <4> QED
        BY <4>1, <3>1, <3>3, <3>4, <3>6
    <3>7. CASE i > Done(b) + 1
      <4>1. Row(b, i) = "queued" /\ ~In(b, i)
        BY <2>2, <3>7 DEF Untouched
      <4>2. ~(i <= Done(b))
        BY <3>1, <3>7, <2>2
      <4> QED
        BY <4>1, <4>2, <3>1, <3>3, <3>4
    <3> QED
      BY <3>1, <3>5, <3>6, <3>7
  <2>4. ASSUME NEW i \in DOMAIN chosen[b] PROVE Settled(b, i)'
    <3>1. i <= Done(b) \/ i > Done(b)
      BY <2>2
    <3> QED
      BY <3>1, <2>3 DEF Settled, Installs!Terminal
  <2>5. ASSUME NEW i \in DOMAIN chosen[b], NEW j \in DOMAIN chosen[b], i < j, Row(b, i)' = "fatal"
        PROVE  Row(b, j)' = "fatal"
    <3>1. ~(i <= Done(b))
      BY <2>2, <2>3, <2>5
    <3>2. j > Done(b)
      BY <3>1, <2>2, <2>5
    <3> QED
      BY <3>2, <2>3
  <2>6. Ended(b)'
    BY <2>1, <2>4, <2>5 DEF Ended
  <2> QED
    BY <1>1, <1>4, <2>1, <2>6 DEF BatchInv, NotBegun, Running, Installs!ChosenBy
<1> QED
  BY <1>3, <1>4

\* Steps of the merge leave the rows alone.
LEMMA RowsMerge ==
    ASSUME BatchTypes, RowsInv, NEW b \in Installs!Batches,
           Installs!InstallsEnd(b) \/ Installs!Collect(b) \/ Installs!Read(b)
             \/ Installs!Open(b) \/ Installs!Write(b) \/ Installs!Rename(b)
           \/ Installs!MergeFails(b)
    PROVE  RowsInv'
<1> SUFFICES ASSUME NEW c \in Installs!Batches PROVE BatchInv(c)'
  BY DEF RowsInv, Installs!Batches
<1>1. BatchInv(c) /\ BatchInv(b)
  BY DEF RowsInv
<1>2. UNCHANGED <<chosen, left, stage, rows, notices, succeeded>>
  BY DEF Installs!InstallsEnd, Installs!Collect, Installs!Read, Installs!Open, Installs!Write,
     Installs!Rename, Installs!MergeFails, Installs!batchVars
<1>3. /\ c # b => driver'[c] = driver[c]
      /\ driver'[b] \in Installs!Merging \cup {"collect", "read", "finished"}
      /\ \/ driver[b] \in Installs!Merging \cup {"collect", "read"}
         \/ driver[b] = "installing" /\ left[b] = << >>
  <2>0. driver \in [Installs!Batches -> Drivers]
    BY DEF BatchTypes
  <2>1. CASE Installs!InstallsEnd(b)
    BY <2>0, <2>1 DEF Installs!InstallsEnd
  <2>2. CASE ~Installs!InstallsEnd(b)
    <3>1. PICK d \in Installs!Merging \cup {"read", "finished"} :
            driver' = [driver EXCEPT ![b] = d]
      BY <2>2 DEF Installs!Collect, Installs!Read, Installs!Open, Installs!Write, Installs!Rename,
         Installs!MergeFails, Installs!Merging
    <3>2. driver[b] \in Installs!Merging \cup {"collect", "read"}
      BY <2>2 DEF Installs!Collect, Installs!Read, Installs!Open, Installs!Write, Installs!Rename,
         Installs!MergeFails, Installs!Merging
    <3>3. driver'[b] = d /\ (c # b => driver'[c] = driver[c])
      BY <2>0, <3>1
    <3> QED
      BY <3>1, <3>2, <3>3 DEF Installs!Merging
  <2> QED
    BY <2>1, <2>2
<1>4. CASE c # b
  BY <1>1, <1>2, <1>3, <1>4, BatchRests
<1>5. CASE c = b
  <2>1. \A i : Settled(b, i)' = Settled(b, i) /\ Row(b, i)' = Row(b, i)
    BY <1>2 DEF Settled, Row, In
  <2>2. /\ \A i \in DOMAIN chosen[b] : Settled(b, i)
        /\ \A i, j \in DOMAIN chosen[b] : i < j /\ Row(b, i) = "fatal" => Row(b, j) = "fatal"
    <3>1. CASE driver[b] = "installing" /\ left[b] = << >>
      <4>1. /\ Progress(b)
            /\ \A i \in 1 .. Done(b) : Settled(b, i) /\ Row(b, i) # "fatal"
        BY <1>1, <3>1 DEF BatchInv, Running
      <4>2. DOMAIN chosen[b] = 1 .. Done(b)
        BY <3>1, <4>1, Ahead
      <4> QED
        BY <4>1, <4>2, Zenon
    <3>2. CASE driver[b] \in Installs!Merging \cup {"collect", "read"}
      BY <1>1, <3>2 DEF BatchInv, Ended
    <3> QED
      BY <1>3, <3>1, <3>2
  <2>3. Ended(b)'
    BY <2>1, <2>2, <1>2 DEF Ended
  <2> QED
    BY <1>1, <1>2, <1>3, <1>5, <2>3 DEF BatchInv, NotBegun, Running, Installs!Merging,
       Installs!ChosenBy
<1> QED
  BY <1>4, <1>5

\* The process ends.
LEMMA RowsQuit == ASSUME BatchTypes, RowsInv, Installs!Quit PROVE RowsInv'
<1> SUFFICES ASSUME NEW c \in Installs!Batches PROVE BatchInv(c)'
  BY DEF RowsInv, Installs!Batches
<1>1. BatchInv(c)
  BY DEF RowsInv
<1>2. /\ stage'[c] = "queued" /\ notices'[c] = {} /\ UNCHANGED <<chosen, rows, succeeded>>
      /\ driver'[c] = IF driver[c] \in {"none", "finished"} THEN driver[c] ELSE "killed"
  BY DEF Installs!Quit
<1>3. \A i : Settled(c, i)' = Settled(c, i) /\ Row(c, i)' = Row(c, i)
  BY <1>2 DEF Settled, Row, In
<1>4. Ended(c)'
  BY <1>1, <1>2, <1>3 DEF BatchInv, Ended, Installs!Merging
<1> QED
  BY <1>1, <1>2, <1>4 DEF BatchInv, NotBegun, Running, Installs!ChosenBy

\* Every step keeps the invariant of the rows.
LEMMA RowsInvStep == BatchTypes /\ RowsInv /\ [Installs!Next]_(Installs!vars) => RowsInv'
<1> SUFFICES ASSUME BatchTypes, RowsInv, [Installs!Next]_(Installs!vars) PROVE RowsInv'
  OBVIOUS
<1>1. ASSUME NEW b \in Installs!Batches, Works(b) PROVE RowsInv'
  BY <1>1, AStage, RowsStage
<1>2. ASSUME NEW b \in Installs!Batches, Installs!SettleInstalled(b) PROVE RowsInv'
  BY <1>2, RowsSettle DEF Installs!SettleInstalled, Installs!Installing
<1>3. ASSUME NEW b \in Installs!Batches, Installs!SettleFailed(b) PROVE RowsInv'
  <2>1. succeeded = [succeeded EXCEPT ![b] = @ \cup {}]
    BY DEF BatchTypes
  <2> QED
    BY <1>3, <2>1, RowsSettle DEF Installs!SettleFailed, Installs!Installing
<1>4. CASE UNCHANGED Installs!vars
  BY <1>4, BatchRests DEF Installs!vars, Installs!batchVars, RowsInv
<1> QED
  BY <1>1, <1>2, <1>3, <1>4, RowsConfirm, RowsDeliver, RowsMismatch, RowsMerge, RowsQuit
  DEF Installs!Next, Installs!Drive, Works

(***************************************************************************)
(* The files.                                                              *)
(***************************************************************************)
FileTypes ==
    /\ content \in [Installs!Inodes -> SUBSET (Installs!Servers \cup Others \cup {Broken})]
    /\ lsp_toml \in Installs!Inodes \cup {NoFile} /\ tmp \in Installs!Inodes \cup {NoFile}
    /\ handle \in [Installs!Batches -> Installs!Inodes \cup {NoFile}]
    /\ merged \in [Installs!Batches -> SUBSET (Installs!Servers \cup Others)]
    /\ overlapped \in BOOLEAN
    /\ \A b \in Installs!Batches : driver[b] \notin {"write", "rename"} => handle[b] = NoFile

\* There is an inode left for a batch that has no file open: the others and lsp.toml cannot
\* use up one more inode than there are batches.
LEMMA NewInodeIsNew ==
    ASSUME NEW b \in Installs!Batches, handle[b] = NoFile
    PROVE  /\ Installs!NewInode \in Installs!Inodes /\ Installs!NewInode # lsp_toml
           /\ \A c \in Installs!Batches : handle[c] # Installs!NewInode
<1>1. \E i \in Installs!Inodes : i # lsp_toml /\ \A c \in Installs!Batches : handle[c] # i
  <2> SUFFICES ASSUME \A i \in Installs!Inodes : i = lsp_toml \/ \E c \in Installs!Batches :
                        handle[c] = i
               PROVE  FALSE
    OBVIOUS
  <2> DEFINE used == [c \in Installs!Batches |->
                        LET u == IF c = b THEN lsp_toml ELSE handle[c]
                        IN  IF u \in Installs!Inodes THEN u ELSE 0]
  <2>1. used \in Surjection(Installs!Batches, Installs!Inodes)
    <3>1. used \in [Installs!Batches -> Installs!Inodes]
      BY FilesAssumption DEF Installs!Inodes
    <3>2. ASSUME NEW i \in Installs!Inodes PROVE \E c \in Installs!Batches : used[c] = i
      <4>1. CASE i = lsp_toml
        BY <4>1
      <4>2. ASSUME NEW c \in Installs!Batches, handle[c] = i PROVE used[c] = i
        BY <4>2, FilesAssumption DEF Installs!Inodes
      <4> QED
        BY <4>1, <4>2
    <3> HIDE DEF used
    <3> QED
      BY <3>1, <3>2 DEF Surjection
  <2>2. /\ IsFiniteSet(Installs!Batches) /\ Cardinality(Installs!Batches) = MaxBatches
        /\ Cardinality(Installs!Inodes) = MaxBatches + 1
    <3>1. 0 \in Int /\ 1 \in Int /\ MaxBatches \in Int /\ ~(1 > MaxBatches) /\ ~(0 > MaxBatches)
      BY FilesAssumption
    <3>2. /\ IsFiniteSet(1 .. MaxBatches) /\ Cardinality(1 .. MaxBatches) = MaxBatches - 1 + 1
          /\ Cardinality(0 .. MaxBatches) = MaxBatches - 0 + 1
      BY <3>1, FS_Interval
    <3> QED
      BY <3>1, <3>2 DEF Installs!Batches, Installs!Inodes
  <2>3. Cardinality(Installs!Inodes) <= Cardinality(Installs!Batches)
    <3> HIDE DEF used
    <3> QED
      BY <2>1, <2>2, FS_Surjection
  <2> QED
    BY <2>2, <2>3, FilesAssumption
<1> QED
  BY <1>1, Zenon DEF Installs!NewInode

\* The files have their types at the start.
LEMMA FileTypesInit == Installs!Init => FileTypes
<1> SUFFICES ASSUME Installs!Init PROVE FileTypes
  OBVIOUS
<1>1. 0 \in Installs!Inodes
  BY FilesAssumption DEF Installs!Inodes
<1>2. lsp_toml \in Installs!Inodes \cup {NoFile} /\ tmp = NoFile
  BY <1>1 DEF Installs!Init
<1>3. content \in [Installs!Inodes -> SUBSET (Installs!Servers \cup Others \cup {Broken})]
  BY DEF Installs!Init
<1> QED
  BY <1>2, <1>3 DEF Installs!Init, FileTypes

\* Every step keeps them.
LEMMA FileTypesStep == BatchTypes /\ FileTypes /\ [Installs!Next]_(Installs!vars) => FileTypes'
<1> SUFFICES ASSUME BatchTypes, FileTypes, [Installs!Next]_(Installs!vars) PROVE FileTypes'
  OBVIOUS
<1>0. driver \in [Installs!Batches -> Drivers]
  BY DEF BatchTypes
<1>1. ASSUME UNCHANGED Installs!fileVars,
             \A c \in Installs!Batches : driver'[c] \notin {"write", "rename"}
                                           => driver[c] \notin {"write", "rename"}
      PROVE  FileTypes'
  BY <1>1 DEF FileTypes, Installs!fileVars, Installs!Batches, Installs!Inodes
<1>2. ASSUME NEW b \in Installs!Batches, UNCHANGED Installs!fileVars,
               driver[b] \in {"none", "installing"},
             \A c \in Installs!Batches : c # b => driver'[c] = driver[c]
      PROVE  FileTypes'
  BY <1>1, <1>2
<1>3. ASSUME NEW b \in Installs!Batches, NEW selection \in Selections,
             Installs!Confirm(b, selection) \/ Installs!CannotInstall(b, selection)
      PROVE  FileTypes'
  <2>1. UNCHANGED Installs!fileVars /\ driver[b] = "none"
    BY <1>3 DEF Installs!Confirm, Installs!CannotInstall, Installs!Fresh
  <2>2. \A c \in Installs!Batches : c # b => driver'[c] = driver[c]
    BY <1>0, <1>3 DEF Installs!Confirm, Installs!CannotInstall
  <2> QED
    BY <1>2, <2>1, <2>2
<1>4. ASSUME NEW b \in Installs!Batches, Works(b) PROVE FileTypes'
  BY <1>1, <1>4, AStage DEF Installs!installVars
<1>5. ASSUME NEW b \in Installs!Batches, Installs!Deliver(b) \/ Installs!SettleInstalled(b)
               \/ Installs!SettleFailed(b)
                                         \/ Installs!SettleMismatch(b) \/ Installs!InstallsEnd(b)
      PROVE  FileTypes'
  <2>1. UNCHANGED Installs!fileVars
    BY <1>5 DEF Installs!Deliver, Installs!SettleInstalled, Installs!SettleFailed,
       Installs!SettleMismatch, Installs!InstallsEnd
  <2>2. CASE UNCHANGED driver
    BY <1>1, <2>1, <2>2
  <2>3. CASE ~UNCHANGED driver
    <3>1. /\ driver[b] = "installing" /\ driver' = [driver EXCEPT ![b] = "collect"]
      BY <1>5, <2>3 DEF Installs!Deliver, Installs!SettleInstalled, Installs!SettleFailed,
         Installs!SettleMismatch, Installs!InstallsEnd, Installs!Installing
    <3> QED
      BY <1>0, <1>2, <2>1, <3>1
  <2> QED
    BY <2>2, <2>3
<1>6. ASSUME NEW b \in Installs!Batches, Installs!Collect(b) PROVE FileTypes'
  <2>1. Installs!ChosenBy(b) \subseteq Installs!Servers
    <3>1. chosen[b] \in Selections \cup {<< >>}
      BY DEF BatchTypes
    <3>2. \A i \in DOMAIN chosen[b] : chosen[b][i] \in Installs!Servers
      BY <3>1, Picked
    <3> QED
      BY <3>2 DEF Installs!ChosenBy
  <2>3. \E d \in {"finished", "read"} : driver' = [driver EXCEPT ![b] = d]
    BY <1>6 DEF Installs!Collect
  <2>2. merged' \in [Installs!Batches -> SUBSET (Installs!Servers \cup Others)]
    BY <1>6, <2>1 DEF Installs!Collect, FileTypes
  <2> QED
    BY <1>0, <1>6, <2>2, <2>3 DEF Installs!Collect, FileTypes
<1>7. ASSUME NEW b \in Installs!Batches, Installs!Read(b) PROVE FileTypes'
  <2>1. Installs!Saved \subseteq Installs!Servers \cup Others \cup {Broken}
    BY DEF Installs!Saved, FileTypes
  <2>2. merged' \in [Installs!Batches -> SUBSET (Installs!Servers \cup Others)]
    BY <1>7, <2>1 DEF Installs!Read, FileTypes
  <2>3. overlapped' \in BOOLEAN
    BY <1>7 DEF Installs!Read, FileTypes
  <2>4. \E d \in {"finished", "open"} : driver' = [driver EXCEPT ![b] = d]
    BY <1>7 DEF Installs!Read
  <2>5. driver[b] = "read" /\ UNCHANGED <<content, lsp_toml, tmp, handle>>
    BY <1>7 DEF Installs!Read
  <2> QED
    BY <1>0, <2>2, <2>3, <2>4, <2>5 DEF FileTypes
<1>8. ASSUME NEW b \in Installs!Batches, Installs!Open(b) PROVE FileTypes'
  <2>1. handle[b] = NoFile
    BY <1>8 DEF Installs!Open, FileTypes
  <2>2. tmp' \in Installs!Inodes \cup {NoFile}
    BY <1>8, <2>1, NewInodeIsNew DEF Installs!Open, FileTypes
  <2> QED
    BY <1>0, <1>8, <2>2 DEF Installs!Open, FileTypes
<1>9. ASSUME NEW b \in Installs!Batches, Installs!Write(b) PROVE FileTypes'
  <2>1. content' \in [Installs!Inodes -> SUBSET (Installs!Servers \cup Others \cup {Broken})]
    BY <1>9 DEF Installs!Write, FileTypes
  <2> QED
    BY <1>0, <1>9, <2>1 DEF Installs!Write, FileTypes
<1>10. ASSUME NEW b \in Installs!Batches, Installs!Rename(b) \/ Installs!MergeFails(b)
       PROVE FileTypes'
  BY <1>0, <1>10 DEF Installs!Rename, Installs!MergeFails, FileTypes
<1>11. CASE Installs!Quit
  BY <1>11 DEF Installs!Quit, FileTypes
<1>12. CASE UNCHANGED Installs!vars
  BY <1>1, <1>12 DEF Installs!vars
<1> QED
  BY <1>3, <1>4, <1>5, <1>6, <1>7, <1>8, <1>9, <1>10, <1>11, <1>12
     DEF Installs!Next, Installs!Drive, Works

\* As long as no two merges overlap: the temporary file is the one the merge has opened, it is
\* empty until it is written whole, and what is written holds all that lsp.toml holds.
FileInv(b) ==
    /\ driver[b] \in {"write", "rename"} => tmp = handle[b] /\ tmp # NoFile
    /\ driver[b] = "write" => content[handle[b]] = {}
    /\ driver[b] = "rename" => content[handle[b]] = merged[b]
    /\ driver[b] \in Installs!Merging => Installs!Saved \subseteq merged[b]
    /\ driver[b] \in Installs!Merging \cup {"read"} => succeeded[b] \subseteq merged[b]
    /\ driver[b] = "finished" /\ ~config_error[b] => succeeded[b] \subseteq Installs!Saved

\* The invariant of the files.
FilesInv ==
    ~overlapped =>
        /\ Others \subseteq Installs!Saved
        /\ tmp # NoFile => tmp # lsp_toml
        /\ \A b, c \in Installs!Batches : driver[b] \in Installs!Merging
             /\ driver[c] \in Installs!Merging => b = c
        /\ \A b \in Installs!Batches : FileInv(b)

\* It holds at the start.
LEMMA FilesInvInit == Installs!Init => FilesInv
<1> SUFFICES ASSUME Installs!Init PROVE FilesInv
  OBVIOUS
<1>1. Others \subseteq Installs!Saved
  BY FilesAssumption DEF Installs!Init, Installs!Saved, Installs!Inodes
<1>2. tmp = NoFile /\ \A b \in Installs!Batches : driver[b] = "none"
  BY DEF Installs!Init
<1> QED
  BY <1>1, <1>2 DEF FilesInv, FileInv, Installs!Merging

\* A step that leaves the files alone: each batch is left alone, or stands outside the merge
\* with its servers saved or a warning, or before it with its servers in hand.
LEMMA FilesRest ==
    ASSUME FilesInv, UNCHANGED <<content, lsp_toml, overlapped>>,
           \/ tmp' = tmp
           \/ tmp' = NoFile /\ \A c \in Installs!Batches : driver'[c] \notin Installs!Merging,
           \A c \in Installs!Batches :
              \/ /\ driver'[c] = driver[c] /\ handle'[c] = handle[c] /\ merged'[c] = merged[c]
                 /\ config_error'[c] = config_error[c]
                 /\ \/ succeeded'[c] = succeeded[c]
                    \/ driver[c] \notin Installs!Merging \cup {"read", "finished"}
              \/ driver'[c] \notin Installs!Merging \cup {"read", "finished"}
              \/ driver'[c] = "finished" /\ (config_error'[c] \/ succeeded'[c] = {})
              \/ driver'[c] = "read" /\ succeeded'[c] \subseteq merged'[c]
    PROVE  FilesInv'
<1> SUFFICES ASSUME ~overlapped PROVE FilesInv'
  BY DEF FilesInv
<1>1. /\ Others \subseteq Installs!Saved
      /\ tmp # NoFile => tmp # lsp_toml
      /\ \A b, c \in Installs!Batches : driver[b] \in Installs!Merging
           /\ driver[c] \in Installs!Merging => b = c
      /\ \A b \in Installs!Batches : FileInv(b)
  BY DEF FilesInv
<1>2. Installs!Saved' = Installs!Saved
  BY DEF Installs!Saved
<1>3. \A c \in Installs!Batches : driver'[c] \in Installs!Merging => driver[c] \in Installs!Merging
  BY DEF Installs!Merging
<1>4. ASSUME NEW c \in Installs!Batches PROVE FileInv(c)'
  <2>1. CASE /\ driver'[c] = driver[c] /\ handle'[c] = handle[c] /\ merged'[c] = merged[c]
             /\ config_error'[c] = config_error[c]
             /\ \/ succeeded'[c] = succeeded[c]
                \/ driver[c] \notin Installs!Merging \cup {"read", "finished"}
    BY <1>1, <1>2, <2>1 DEF FileInv, Installs!Merging
  <2>2. CASE \/ driver'[c] \notin Installs!Merging \cup {"read", "finished"}
             \/ driver'[c] = "finished" /\ (config_error'[c] \/ succeeded'[c] = {})
             \/ driver'[c] = "read" /\ succeeded'[c] \subseteq merged'[c]
    BY <2>2 DEF FileInv, Installs!Merging
  <2> QED
    BY <2>1, <2>2
<1> QED
  BY <1>1, <1>2, <1>3, <1>4 DEF FilesInv

\* A batch of which the files know nothing is left alone.
LEMMA FilesOfTheBatch ==
    ASSUME BatchTypes, FilesInv, NEW b \in Installs!Batches, UNCHANGED Installs!fileVars,
             UNCHANGED config_error,
           driver[b] \in {"none", "installing"},
           \A c \in Installs!Batches : c # b
             => driver'[c] = driver[c] /\ succeeded'[c] = succeeded[c],
           \/ driver'[b] \in {"installing", "collect"}
           \/ driver'[b] = "finished" /\ succeeded'[b] = {}
    PROVE  FilesInv'
  BY FilesRest DEF Installs!fileVars, Installs!Merging

\* Every step before the merge leaves the files alone.
LEMMA FilesBefore ==
    ASSUME BatchTypes, RowsInv, FilesInv, NEW b \in Installs!Batches,
           \/ \E selection \in Selections : Installs!Confirm(b, selection)
                \/ Installs!CannotInstall(b, selection)
           \/ Works(b) \/ Installs!SettleInstalled(b) \/ Installs!SettleFailed(b)
                \/ Installs!SettleMismatch(b)
           \/ Installs!InstallsEnd(b) \/ Installs!Deliver(b)
    PROVE  FilesInv'
<1>0. driver \in [Installs!Batches -> Drivers]
        /\ succeeded \in [Installs!Batches -> SUBSET Installs!Servers]
  BY DEF BatchTypes
<1>1. ASSUME NEW selection \in Selections, Installs!Confirm(b, selection)
               \/ Installs!CannotInstall(b, selection)
      PROVE  FilesInv'
  <2>1. driver[b] = "none" /\ UNCHANGED <<Installs!fileVars, config_error, succeeded>>
    BY <1>1 DEF Installs!Confirm, Installs!CannotInstall, Installs!Fresh
  <2>2. succeeded[b] = {}
    BY <2>1 DEF RowsInv, BatchInv, NotBegun
  <2>3. \E d \in {"installing", "finished"} : driver' = [driver EXCEPT ![b] = d]
    BY <1>1 DEF Installs!Confirm, Installs!CannotInstall
  <2> QED
    BY <1>0, <2>1, <2>2, <2>3, FilesOfTheBatch
<1>2. CASE Works(b)
  <2>1. UNCHANGED Installs!installVars /\ driver[b] = "installing"
    BY <1>2, AStage
  <2> QED
    BY <2>1, FilesOfTheBatch DEF Installs!installVars
<1>3. CASE Installs!SettleInstalled(b) \/ Installs!SettleFailed(b)
             \/ Installs!SettleMismatch(b) \/ Installs!InstallsEnd(b)
  <2>1. UNCHANGED <<Installs!fileVars, config_error>> /\ driver[b] = "installing"
    BY <1>3 DEF Installs!SettleInstalled, Installs!SettleFailed, Installs!SettleMismatch,
       Installs!InstallsEnd, Installs!Installing, Installs!batchVars
  <2>2. UNCHANGED driver \/ driver' = [driver EXCEPT ![b] = "collect"]
    BY <1>3 DEF Installs!SettleInstalled, Installs!SettleFailed, Installs!SettleMismatch,
       Installs!InstallsEnd
  <2>3. \A c \in Installs!Batches : c # b => succeeded'[c] = succeeded[c]
    BY <1>0, <1>3 DEF Installs!SettleInstalled, Installs!SettleFailed, Installs!SettleMismatch,
       Installs!InstallsEnd, Installs!batchVars
  <2> QED
    BY <1>0, <2>1, <2>2, <2>3, FilesOfTheBatch
<1>4. CASE Installs!Deliver(b)
  <2>1. UNCHANGED <<driver, config_error, succeeded, Installs!fileVars>>
    BY <1>4 DEF Installs!Deliver
  <2> QED
    BY <2>1, FilesRest DEF Installs!fileVars
<1> QED
  BY <1>1, <1>2, <1>3, <1>4

\* A batch is merged: what it has in hand are the servers that were installed.
LEMMA FilesCollect ==
    ASSUME BatchTypes, FileTypes, RowsInv, FilesInv, NEW b \in Installs!Batches,
             Installs!Collect(b)
    PROVE  FilesInv'
<1>1. /\ \A i \in DOMAIN chosen[b] : Row(b, i) = "installed" <=> In(b, i)
      /\ succeeded[b] \subseteq Installs!ChosenBy(b)
  BY DEF RowsInv, BatchInv, Ended, Settled, Installs!Collect
<1>2. succeeded[b] \subseteq {s \in Installs!ChosenBy(b) : rows[b][s] = "installed"}
  BY <1>1 DEF Row, In, Installs!ChosenBy
<1>3. /\ UNCHANGED <<content, lsp_toml, overlapped, tmp, handle, config_error, succeeded>>
      /\ \A c \in Installs!Batches \ {b} : driver'[c] = driver[c]
  BY DEF Installs!Collect, BatchTypes, Installs!batchVars
<1>4. /\ merged'[b] = {s \in Installs!ChosenBy(b) : rows[b][s] = "installed"}
      /\ \A c \in Installs!Batches \ {b} : merged'[c] = merged[c]
  BY DEF Installs!Collect, FileTypes
<1>5. driver'[b] = IF merged'[b] = {} THEN "finished" ELSE "read"
  BY DEF Installs!Collect, BatchTypes
<1>6. \/ driver'[b] = "finished" /\ succeeded'[b] = {}
      \/ driver'[b] = "read" /\ succeeded'[b] \subseteq merged'[b]
  BY <1>2, <1>3, <1>4, <1>5
<1> QED
  BY <1>3, <1>4, <1>6, FilesRest

\* What it writes it has read: all of lsp.toml, and its own servers.
LEMMA FilesRead ==
    ASSUME BatchTypes, FileTypes, FilesInv, NEW b \in Installs!Batches, Installs!Read(b)
    PROVE  FilesInv'
<1>1. /\ UNCHANGED <<content, lsp_toml, tmp, handle, succeeded>> /\ driver[b] = "read"
      /\ \A c \in Installs!Batches \ {b} : /\ driver'[c] = driver[c] /\ merged'[c] = merged[c]
                                           /\ config_error'[c] = config_error[c]
  BY DEF Installs!Read, BatchTypes, FileTypes
<1>2. CASE Broken \in Installs!Saved
  <2>1. driver'[b] = "finished" /\ config_error'[b] /\ UNCHANGED overlapped
    BY <1>2 DEF Installs!Read, BatchTypes
  <2> QED
    BY <1>1, <2>1, FilesRest
<1>3. CASE Broken \notin Installs!Saved
  <2>1. /\ driver'[b] = "open" /\ merged'[b] = merged[b] \cup Installs!Saved
        /\ overlapped' = (overlapped \/ \E c \in Installs!Batches : driver[c] \in Installs!Merging)
        /\ UNCHANGED config_error
    BY <1>3 DEF Installs!Read, BatchTypes, FileTypes
  <2> SUFFICES ASSUME ~overlapped' PROVE FilesInv'
    BY DEF FilesInv
  <2>2. /\ Others \subseteq Installs!Saved /\ (tmp # NoFile => tmp # lsp_toml)
        /\ \A c \in Installs!Batches : FileInv(c) /\ driver[c] \notin Installs!Merging
    BY <2>1 DEF FilesInv
  <2>3. Installs!Saved' = Installs!Saved
    BY <1>1 DEF Installs!Saved
  <2>4. \A c \in Installs!Batches \ {b} : FileInv(c)' /\ driver'[c] \notin Installs!Merging
    BY <1>1, <2>1, <2>2, <2>3 DEF FileInv, Installs!Merging
  <2>5. FileInv(b)'
    <3>1. succeeded[b] \subseteq merged[b]
      BY <1>1, <2>2 DEF FileInv
    <3> QED
      BY <1>1, <2>1, <2>3, <3>1 DEF FileInv, Installs!Merging
  <2> QED
    BY <1>1, <2>2, <2>3, <2>4, <2>5 DEF FilesInv
<1> QED
  BY <1>2, <1>3

\* The merge under way, when no two overlap: the others are not in it.
LEMMA OneMerge ==
    ASSUME FilesInv, ~overlapped, NEW b \in Installs!Batches, driver[b] \in Installs!Merging
    PROVE  /\ Others \subseteq Installs!Saved /\ Installs!Saved \subseteq merged[b]
                /\ succeeded[b] \subseteq merged[b]
           /\ tmp # NoFile => tmp # lsp_toml
           /\ \A c \in Installs!Batches : FileInv(c)
           /\ \A c \in Installs!Batches \ {b} : driver[c] \notin Installs!Merging
           /\ driver[b] \in {"write", "rename"} => tmp = handle[b] /\ tmp # NoFile
  BY DEF FilesInv, FileInv

\* The temporary file is opened and emptied: it is not lsp.toml.
LEMMA FilesOpen ==
    ASSUME BatchTypes, FileTypes, FilesInv, NEW b \in Installs!Batches, Installs!Open(b)
    PROVE  FilesInv'
<1>1. /\ UNCHANGED <<lsp_toml, merged, overlapped, config_error, succeeded>>
      /\ driver[b] = "open" /\ driver'[b] = "write" /\ handle'[b] = tmp'
      /\ content' = [content EXCEPT ![tmp'] = {}]
           /\ content \in [Installs!Inodes -> SUBSET (Installs!Servers \cup Others \cup {Broken})]
      /\ tmp' = IF tmp = NoFile THEN Installs!NewInode ELSE tmp
      /\ \A c \in Installs!Batches \ {b} : driver'[c] = driver[c] /\ handle'[c] = handle[c]
  BY DEF Installs!Open, BatchTypes, FileTypes, Installs!batchVars
<1> SUFFICES ASSUME ~overlapped PROVE FilesInv'
  BY <1>1 DEF FilesInv
<1>2. /\ Others \subseteq Installs!Saved /\ Installs!Saved \subseteq merged[b]
           /\ succeeded[b] \subseteq merged[b]
      /\ tmp # NoFile => tmp # lsp_toml
      /\ \A c \in Installs!Batches : FileInv(c)
      /\ \A c \in Installs!Batches \ {b} : driver[c] \notin Installs!Merging
  BY <1>1, OneMerge DEF Installs!Merging
<1>3. tmp' \in Installs!Inodes /\ tmp' # NoFile /\ tmp' # lsp_toml
  <2>1. handle[b] = NoFile
    BY <1>1 DEF FileTypes
  <2>2. Installs!NewInode \in Installs!Inodes /\ Installs!NewInode # lsp_toml
    BY <2>1, NewInodeIsNew
  <2>3. NoFile \notin Installs!Inodes
    BY FilesAssumption DEF Installs!Inodes
  <2> QED
    BY <1>1, <1>2, <2>2, <2>3 DEF FileTypes
<1>4. Installs!Saved' = Installs!Saved
  BY <1>1, <1>3 DEF Installs!Saved, FileTypes
<1>5. FileInv(b)'
  BY <1>1, <1>2, <1>3, <1>4 DEF FileInv, Installs!Merging
<1>6. \A c \in Installs!Batches \ {b} : FileInv(c)' /\ driver'[c] \notin Installs!Merging
  BY <1>1, <1>2, <1>4 DEF FileInv, Installs!Merging
<1> QED
  BY <1>1, <1>2, <1>3, <1>4, <1>5, <1>6 DEF FilesInv

\* The temporary file is written: it was empty, and holds what the merge has in hand.
LEMMA FilesWrite ==
    ASSUME BatchTypes, FileTypes, FilesInv, NEW b \in Installs!Batches, Installs!Write(b)
    PROVE  FilesInv'
<1>1. /\ UNCHANGED <<lsp_toml, tmp, handle, merged, overlapped, config_error, succeeded>>
      /\ driver[b] = "write" /\ driver'[b] = "rename"
      /\ \A c \in Installs!Batches \ {b} : driver'[c] = driver[c]
  BY DEF Installs!Write, BatchTypes, Installs!batchVars
<1> SUFFICES ASSUME ~overlapped PROVE FilesInv'
  BY <1>1 DEF FilesInv
<1>2. /\ Others \subseteq Installs!Saved /\ Installs!Saved \subseteq merged[b]
           /\ succeeded[b] \subseteq merged[b]
      /\ tmp # NoFile => tmp # lsp_toml
      /\ \A c \in Installs!Batches : FileInv(c)
      /\ \A c \in Installs!Batches \ {b} : driver[c] \notin Installs!Merging
      /\ tmp = handle[b] /\ tmp # NoFile
  BY <1>1, OneMerge DEF Installs!Merging
<1>3. content[handle[b]] = {} /\ handle[b] \in Installs!Inodes /\ handle[b] # lsp_toml
  BY <1>1, <1>2 DEF FileInv, FileTypes
<1>4. content' = [content EXCEPT ![handle[b]] = merged[b]]
  BY <1>3 DEF Installs!Write
<1>5. Installs!Saved' = Installs!Saved /\ content'[handle[b]] = merged[b]
  BY <1>1, <1>3, <1>4 DEF Installs!Saved, FileTypes
<1>6. FileInv(b)'
  BY <1>1, <1>2, <1>5 DEF FileInv, Installs!Merging
<1>7. \A c \in Installs!Batches \ {b} : FileInv(c)' /\ driver'[c] \notin Installs!Merging
  BY <1>1, <1>2, <1>5 DEF FileInv, Installs!Merging
<1> QED
  BY <1>1, <1>2, <1>5, <1>6, <1>7 DEF FilesInv

\* It takes the name lsp.toml: nothing that was there is lost. Or it does not, with a warning.
LEMMA FilesRename ==
    ASSUME BatchTypes, FileTypes, FilesInv, NEW b \in Installs!Batches, Installs!Rename(b)
    PROVE  FilesInv'
<1>1. /\ UNCHANGED <<content, overlapped, succeeded>> /\ tmp' = NoFile
      /\ driver[b] = "rename" /\ driver'[b] = "finished"
      /\ \A c \in Installs!Batches \ {b} : driver'[c] = driver[c] /\ handle'[c] = handle[c]
                                           /\ merged'[c] = merged[c]
                                                /\ config_error'[c] = config_error[c]
  BY DEF Installs!Rename, BatchTypes, FileTypes
<1> SUFFICES ASSUME ~overlapped PROVE FilesInv'
  BY <1>1 DEF FilesInv
<1>2. /\ Others \subseteq Installs!Saved /\ Installs!Saved \subseteq merged[b]
           /\ succeeded[b] \subseteq merged[b]
      /\ \A c \in Installs!Batches : FileInv(c)
      /\ \A c \in Installs!Batches \ {b} : driver[c] \notin Installs!Merging
      /\ tmp = handle[b] /\ tmp # NoFile /\ content[handle[b]] = merged[b]
  BY <1>1, OneMerge DEF Installs!Merging, FileInv
<1>3. \A c \in Installs!Batches : driver'[c] \notin Installs!Merging
  BY <1>1, <1>2 DEF Installs!Merging
<1>4. CASE lsp_toml' = tmp
  <2>1. Installs!Saved' = merged[b]
    BY <1>1, <1>2, <1>4 DEF Installs!Saved
  <2>2. FileInv(b)'
    BY <1>1, <1>2, <2>1 DEF FileInv, Installs!Merging
  <2>3. \A c \in Installs!Batches \ {b} : FileInv(c)'
    BY <1>1, <1>2, <1>3, <2>1 DEF FileInv, Installs!Merging
  <2> QED
    BY <1>1, <1>2, <1>3, <2>1, <2>2, <2>3 DEF FilesInv
<1>5. CASE UNCHANGED lsp_toml /\ config_error'[b]
  BY <1>1, <1>3, <1>5, FilesRest
<1> QED
  BY <1>4, <1>5 DEF Installs!Rename, BatchTypes

\* A merge that fails leaves a warning, the end of the process nothing.
LEMMA FilesEnd ==
    ASSUME BatchTypes, FileTypes, FilesInv, Installs!Quit \/ \E b \in Installs!Batches :
             Installs!MergeFails(b)
    PROVE  FilesInv'
<1>1. ASSUME NEW b \in Installs!Batches, Installs!MergeFails(b) PROVE FilesInv'
  <2>1. /\ UNCHANGED <<content, lsp_toml, tmp, overlapped, succeeded>>
        /\ driver'[b] = "finished" /\ config_error'[b]
        /\ \A c \in Installs!Batches \ {b} : driver'[c] = driver[c] /\ handle'[c] = handle[c]
                                             /\ merged'[c] = merged[c]
                                                  /\ config_error'[c] = config_error[c]
    BY <1>1 DEF Installs!MergeFails, BatchTypes, FileTypes
  <2> QED
    BY <2>1, FilesRest
<1>2. CASE Installs!Quit
  <2>1. /\ UNCHANGED <<content, lsp_toml, overlapped, succeeded, config_error>> /\ tmp' = NoFile
        /\ \A c \in Installs!Batches : driver'[c] = IF driver[c] \in {"none", "finished"}
             THEN driver[c]
                                                     ELSE "killed"
    BY <1>2 DEF Installs!Quit
  <2>2. \A c \in Installs!Batches : driver'[c] \notin Installs!Merging
    BY <2>1 DEF Installs!Merging
  <2> SUFFICES ASSUME ~overlapped PROVE FilesInv'
    BY <2>1 DEF FilesInv
  <2>3. Others \subseteq Installs!Saved /\ \A c \in Installs!Batches : FileInv(c)
    BY DEF FilesInv
  <2>4. Installs!Saved' = Installs!Saved
    BY <2>1 DEF Installs!Saved
  <2>5. \A c \in Installs!Batches : FileInv(c)'
    BY <2>1, <2>2, <2>3, <2>4 DEF FileInv, Installs!Merging
  <2> QED
    BY <2>1, <2>2, <2>3, <2>4, <2>5 DEF FilesInv
<1> QED
  BY <1>1, <1>2

\* Every step keeps the invariant of the files.
LEMMA FilesInvStep ==
    BatchTypes /\ FileTypes /\ RowsInv /\ FilesInv /\ [Installs!Next]_(Installs!vars) => FilesInv'
<1> SUFFICES ASSUME BatchTypes, FileTypes, RowsInv, FilesInv,
                      [Installs!Next]_(Installs!vars) PROVE FilesInv'
  OBVIOUS
<1>1. CASE UNCHANGED Installs!vars
  BY <1>1, FilesRest DEF Installs!vars, Installs!batchVars, Installs!fileVars
<1> QED
  BY <1>1, FilesBefore, FilesCollect, FilesRead, FilesOpen, FilesWrite, FilesRename, FilesEnd
  DEF Installs!Next, Installs!Drive, Works

\* The invariant of the installer, in all reachable states.
LEMMA Installer == Installs!Spec => [](BatchTypes /\ FileTypes /\ RowsInv /\ FilesInv)
  BY BatchTypesInit, BatchTypesStep, FileTypesInit, FileTypesStep, RowsInvInit, RowsInvStep,
     FilesInvInit, FilesInvStep, PTL DEF Installs!Spec

\* As long as no two merges overlap, the entries the user wrote stay in lsp.toml, and the
\* servers of every batch that ended without a warning are in it.
THEOREM Kept == Installs!Spec => []ConfigIsKept
<1>1. FilesInv => ConfigIsKept
  BY DEF FilesInv, FileInv, ConfigIsKept, Installs!ConfigIsKept
<1> QED
  BY <1>1, Installer, PTL

\* When the screen says "All done", each row has ended and says what became of its
\* server, whatever notifications still arrive, and nothing after a mismatch was installed.
THEOREM TellTheTruth == Installs!Spec => []RowsTellTheTruth
<1>1. BatchTypes /\ RowsInv => RowsTellTheTruth
  <2> SUFFICES ASSUME BatchTypes, RowsInv, NEW b \in Installs!Batches, driver[b] = "finished"
               PROVE  /\ \A s \in Installs!ChosenBy(b) :
                            /\ rows[b][s] \in Installs!Terminal
                            /\ rows[b][s] = "installed" <=> s \in succeeded[b]
                      /\ \A i, j \in DOMAIN chosen[b] :
                            i < j /\ rows[b][chosen[b][i]] = "fatal"
                              => rows[b][chosen[b][j]] = "fatal"
    BY DEF RowsTellTheTruth, Installs!RowsTellTheTruth
  <2> QED
    BY DEF RowsInv, BatchInv, Ended, Settled, Row, In, Installs!ChosenBy
<1> QED
  BY <1>1, Installer, PTL

-----------------------------------------------------------------------------
(***************************************************************************)
(* The types. The invariants above hold most of them; what is missing are  *)
(* the bounds, what is left of a batch, and the cells the router reads: a  *)
(* turn carries what it has read through three steps to the pick, so each  *)
(* layer is shown to name a provider and a model whatever the cells have   *)
(* become meanwhile. (Those of the answers are in AnswersProofs.)          *)
(***************************************************************************)

\* The variables of the permissions have their types.
LEMMA PermissionsTyping == Permissions!Spec => []Permissions!TypeOK
<1>1. Permissions!Init => sessions \in 0 .. MaxSessions
  BY BoundsAssumption DEF Permissions!Init
<1>2. sessions \in 0 .. MaxSessions /\ [Permissions!Next]_(Permissions!vars)
        => (sessions \in 0 .. MaxSessions)'
  <2> SUFFICES ASSUME sessions \in 0 .. MaxSessions, [Permissions!Next]_(Permissions!vars)
               PROVE  sessions' \in 0 .. MaxSessions
    OBVIOUS
  <2>1. CASE Permissions!Start
    BY <2>1, BoundsAssumption DEF Permissions!Start
  <2>2. CASE UNCHANGED sessions
    BY <2>2
  <2>3. Permissions!Start \/ UNCHANGED sessions
    BY DEF Permissions!Next, Permissions!vars, Permissions!AnswerOnce, Permissions!WriteEnds,
       Permissions!Stop, Permissions!HandEdit, Permissions!AskUser, Permissions!AnswerAlways
  <2> QED
    BY <2>1, <2>2, <2>3
<1>3. PInv /\ sessions \in 0 .. MaxSessions => Permissions!TypeOK
  BY DEF PInv, PTypes, Permissions!TypeOK
<1> QED
  BY <1>1, <1>2, <1>3, Permission, PTL DEF Permissions!Spec

\* Those of the parser of fences have theirs.
LEMMA FencesTyping == Fences!Spec => []Fences!TypeOK
<1>1. Fences!Init => finished \in BOOLEAN
  BY DEF Fences!Init
<1>2. finished \in BOOLEAN /\ [Fences!Next]_(Fences!vars) => (finished \in BOOLEAN)'
  BY DEF Fences!Next, Fences!vars, Fences!Push, Fences!Finish
<1>3. FInv /\ finished \in BOOLEAN => Fences!TypeOK
  BY DEF FInv, FTypes, Fences!TypeOK, Fences!Parser, Parsers, Out
<1> QED
  BY <1>1, <1>2, <1>3, FInitially, FStep, PTL DEF Fences!Spec

(***************************************************************************)
(* The installer.                                                          *)
(***************************************************************************)
\* The last of s from the i-th on, and what is left of them after the first.
LEMMA RestOfRest ==
    ASSUME NEW S, NEW s \in Seq(S), NEW i \in DOMAIN s
    PROVE  Tail(SubSeq(s, i, Len(s))) = SubSeq(s, i + 1, Len(s))
<1>1. i \in 1 .. Len(s) /\ Len(s) \in Nat
  OBVIOUS
<1> QED
  BY <1>1

\* What is left of a batch is the end of it.
Rest(b) ==
    /\ \/ left[b] = << >>
       \/ \E i \in DOMAIN chosen[b] : left[b] = SubSeq(chosen[b], i, Len(chosen[b]))
    /\ driver[b] = "none" => left[b] = << >>

\* It is so at the start.
LEMMA RestInit == Installs!Init => \A b \in Installs!Batches : Rest(b)
  BY DEF Installs!Init, Rest

\* And after every step.
LEMMA RestStep ==
    ASSUME BatchTypes, \A b \in Installs!Batches : Rest(b), [Installs!Next]_(Installs!vars)
    PROVE  \A b \in Installs!Batches : Rest(b)'
<1> SUFFICES ASSUME NEW b \in Installs!Batches PROVE Rest(b)'
  OBVIOUS
<1>1. chosen[b] \in Seq(Installs!Servers)
  BY Picked DEF BatchTypes
<1>2. ASSUME UNCHANGED <<left[b], chosen[b]>>, driver'[b] = "none" => driver[b] = "none"
      PROVE  Rest(b)'
  BY <1>2 DEF Rest
<1>3. ASSUME left'[b] = << >> PROVE Rest(b)'
  BY <1>3 DEF Rest
<1>4. ASSUME NEW selection \in Selections, Installs!Confirm(b, selection) PROVE Rest(b)'
  <2>1. left'[b] = selection /\ chosen'[b] = selection /\ driver'[b] = "installing"
    BY <1>4 DEF Installs!Confirm, BatchTypes
  <2>2. selection \in Seq(Installs!Servers)
    BY PickerAssumption
  <2>3. \/ selection = << >>
        \/ 1 \in DOMAIN selection /\ selection = SubSeq(selection, 1, Len(selection))
    BY <2>2
  <2> QED BY <2>1, <2>3 DEF Rest
<1>5. ASSUME NEW selection \in Selections, Installs!CannotInstall(b, selection) PROVE Rest(b)'
  BY <1>3, <1>5 DEF Installs!CannotInstall, Installs!Fresh, Rest
<1>6. ASSUME Installs!SettleInstalled(b) \/ Installs!SettleFailed(b) PROVE Rest(b)'
  <2>1. /\ left[b] # << >> /\ left'[b] = Tail(left[b]) /\ chosen'[b] = chosen[b]
        /\ driver'[b] = "installing"
    BY <1>6 DEF Installs!SettleInstalled, Installs!SettleFailed, Installs!Installing,
       Installs!Advance, BatchTypes
  <2>2. PICK i \in DOMAIN chosen[b] : left[b] = SubSeq(chosen[b], i, Len(chosen[b]))
    BY <2>1 DEF Rest
  <2>3. left'[b] = SubSeq(chosen[b], i + 1, Len(chosen[b]))
    BY <1>1, <2>1, <2>2, RestOfRest
  <2>4. i + 1 \in DOMAIN chosen[b] \/ SubSeq(chosen[b], i + 1, Len(chosen[b])) = << >>
    BY <1>1
  <2> QED BY <2>1, <2>3, <2>4 DEF Rest
<1>7. ASSUME Installs!SettleMismatch(b) \/ Installs!Quit PROVE Rest(b)'
  BY <1>3, <1>7 DEF Installs!SettleMismatch, Installs!Quit, BatchTypes
<1>8. ASSUME \/ Works(b) \/ Installs!Deliver(b) \/ Installs!InstallsEnd(b)
      PROVE  Rest(b)'
  BY <1>2, <1>8
     DEF Works, Installs!Start, Installs!NpmPrints, Installs!NpmInstalls, Installs!NpmFails,
         Installs!FetchFails, Installs!FetchesAnother, Installs!Fetches, Installs!Extracts,
         Installs!ExtractFails, Installs!Deliver, Installs!InstallsEnd, Installs!installVars,
         Installs!batchVars, BatchTypes
<1>9. ASSUME \/ Installs!Collect(b) \/ Installs!Read(b) \/ Installs!Open(b) \/ Installs!Write(b)
             \/ Installs!Rename(b) \/ Installs!MergeFails(b)
      PROVE  Rest(b)'
  BY <1>2, <1>9
     DEF Installs!Collect, Installs!Read, Installs!Open, Installs!Write, Installs!Rename,
         Installs!MergeFails, Installs!batchVars, BatchTypes
<1>10. ASSUME NEW c \in Installs!Batches, c # b,
              \/ \E selection \in Selections :
                    Installs!Confirm(c, selection) \/ Installs!CannotInstall(c, selection)
              \/ Works(c) \/ Installs!Deliver(c) \/ Installs!InstallsEnd(c)
              \/ Installs!SettleInstalled(c) \/ Installs!SettleFailed(c)
              \/ Installs!SettleMismatch(c)
       PROVE  Rest(b)'
  BY <1>2, <1>10
     DEF Works, Installs!Start, Installs!NpmPrints, Installs!NpmInstalls, Installs!NpmFails,
         Installs!FetchFails, Installs!FetchesAnother, Installs!Fetches, Installs!Extracts,
         Installs!ExtractFails, Installs!Deliver, Installs!InstallsEnd, Installs!installVars,
         Installs!batchVars, BatchTypes, Installs!Confirm, Installs!CannotInstall,
         Installs!SettleInstalled, Installs!SettleFailed, Installs!SettleMismatch,
         Installs!Advance
<1>11. ASSUME NEW c \in Installs!Batches, c # b,
              \/ Installs!Collect(c) \/ Installs!Read(c) \/ Installs!Open(c) \/ Installs!Write(c)
              \/ Installs!Rename(c) \/ Installs!MergeFails(c)
       PROVE  Rest(b)'
  BY <1>2, <1>11
     DEF Installs!Collect, Installs!Read, Installs!Open, Installs!Write, Installs!Rename,
         Installs!MergeFails, Installs!batchVars, BatchTypes
<1>12. CASE UNCHANGED Installs!vars
  BY <1>2, <1>12 DEF Installs!vars, Installs!batchVars
<1> QED
  BY <1>4, <1>5, <1>6, <1>7, <1>8, <1>9, <1>10, <1>11, <1>12
     DEF Installs!Next, Installs!Drive, Works

\* Those of the installer have theirs.
LEMMA InstallsTyping == Installs!Spec => []Installs!TypeOK
<1>1. BatchTypes /\ (\A b \in Installs!Batches : Rest(b)) /\ [Installs!Next]_(Installs!vars)
        => (\A b \in Installs!Batches : Rest(b))'
  BY RestStep
<1>2. BatchTypes /\ FileTypes /\ (\A b \in Installs!Batches : Rest(b)) => Installs!TypeOK
  <2> SUFFICES ASSUME BatchTypes, FileTypes, \A b \in Installs!Batches : Rest(b)
               PROVE  Installs!TypeOK
    OBVIOUS
  <2>1. ASSUME NEW b \in Installs!Batches
        PROVE  /\ chosen[b] \in Selections \cup {<< >>}
               /\ left[b] \in {<< >>} \cup {SubSeq(chosen[b], i, Len(chosen[b])) :
                                              i \in DOMAIN chosen[b]}
               /\ notices[b] \subseteq Installs!Servers \X {"working", "installed"}
    BY <2>1 DEF BatchTypes, Rest
  <2> QED BY <2>1 DEF BatchTypes, FileTypes, Installs!TypeOK, Drivers, Stages
<1> QED
  BY <1>1, <1>2, RestInit, Installer, PTL DEF Installs!Spec

(***************************************************************************)
(* The router.                                                             *)
(***************************************************************************)
\* What a turn has read has the types of where it was read.
ReadTypes ==
    /\ turn.phase \in {"active", "model", "rules"} => turn.active \in Routes!Providers
    /\ turn.phase \in {"model", "rules"} => turn.model \in Routes!Models
    /\ turn.phase = "rules" => turn.rules \in RuleFiles

\* The types of the cells.
CellTypes ==
    /\ pool \subseteq Routes!Providers /\ active \in Routes!Providers
    /\ current_model \in Routes!Models /\ rules \in RuleFiles /\ env \in EnvModels
    /\ app_active \in Routes!Providers /\ app_model \in Routes!Models
    /\ switching = Nothing \/ switching \in [model : Routes!Models, picked : BOOLEAN]

\* Those of the turn.
TurnTypes ==
    /\ turn.phase \in {"idle", "parsed", "active", "model", "rules", "picked", "routed"}
    /\ turn.override = Nothing \/ turn.override \in Routes!RoutingOverride
    /\ turn.phase \in {"picked", "routed"} => turn.decision \in Routes!RoutingDecision
    /\ turn.warned \in BOOLEAN
    /\ ReadTypes

\* What a provider offers is a model.
LEMMA OffersModels ==
    ASSUME NEW p \in Routes!Providers
    PROVE  Routes!Offers(p) \subseteq Routes!Models
BY DEF Routes!Models

\* So is what a session begins with.
LEMMA InitialIsModel ==
    ASSUME CellTypes \/ env \in EnvModels, NEW p \in Routes!Providers
    PROVE  Routes!InitialModel(p) \subseteq Routes!Models
BY OffersModels, RoutingAssumption DEF Routes!InitialModel, CellTypes

\* There is a first provider that is connected.
LEMMA FirstConnected ==
    ASSUME pool \in (SUBSET Routes!Providers) \ {{}}
    PROVE  Registered[CHOOSE i \in DOMAIN Registered :
                         /\ Registered[i] \in pool
                         /\ \A j \in 1 .. i - 1 : Registered[j] \notin pool] \in Routes!Providers
<1> DEFINE Those   == {i \in DOMAIN Registered : Registered[i] \in pool}
           First(i) == Registered[i] \in pool /\ \A j \in 1 .. i - 1 : Registered[j] \notin pool
<1>1. PICK n \in Nat : DOMAIN Registered = 1 .. n
  BY RoutingAssumption
<1>2. Those # {} /\ Those \subseteq Nat
  <2>0. pool \subseteq Routes!Providers /\ pool # {}
    OBVIOUS
  <2>1. PICK p \in pool : p \in Routes!Providers
    BY <2>0
  <2>2. PICK i \in DOMAIN Registered : p = Registered[i]
    BY <2>1 DEF Routes!Providers
  <2>3. i \in Those
    BY <2>1, <2>2
  <2> QED BY <1>1, <2>3
<1>3. PICK i \in Those : \A j \in Those : i <= j
  BY <1>2, Least, Zenon
<1>4. First(i)
  <2>1. ASSUME NEW j \in 1 .. i - 1 PROVE Registered[j] \notin pool
    <3>1. j \in 1 .. n /\ ~(i <= j)
      BY <1>1, <1>3
    <3> QED BY <1>1, <1>3, <3>1
  <2> QED BY <1>3, <2>1
<1>5. (CHOOSE k \in DOMAIN Registered : First(k)) \in DOMAIN Registered
  BY <1>3, <1>4
<1> QED BY <1>5 DEF Routes!Providers

\* The cells have their types at the start.
LEMMA CellsInit == ASSUME Routes!Init PROVE CellTypes
<1>1. active \in Routes!Providers
  BY FirstConnected DEF Routes!Init
<1>2. app_model \in Routes!Models /\ current_model = app_model
  BY <1>1, InitialIsModel DEF Routes!Init
<1>3. app_active \in Routes!Providers
  BY <1>1, RoutingAssumption DEF Routes!Init
<1> QED BY <1>1, <1>2, <1>3 DEF Routes!Init, CellTypes

\* And after every step.
LEMMA CellsStep == ASSUME CellTypes, [Routes!Next]_(Routes!vars) PROVE CellTypes'
<1>1. ASSUME NEW p \in Routes!Providers, Routes!Use(p) \/ Routes!Connect(p) PROVE CellTypes'
  <2>1. Routes!InitialModel(p) \subseteq Routes!Models
    BY InitialIsModel
  <2>2. CASE Routes!Use(p)
    BY <2>1, <2>2 DEF Routes!Use, CellTypes
  <2>3. CASE Routes!Connect(p)
    <3>1. CASE active \in pool'
      BY <2>3, <3>1 DEF Routes!Connect, CellTypes
    <3>2. CASE active \notin pool'
      <4>1. /\ active' = p /\ app_active' = p /\ app_model' \in Routes!Models
            /\ switching' = [model |-> app_model', picked |-> FALSE]
            /\ pool' = pool \cup {p} /\ UNCHANGED <<current_model, rules, env>>
        BY <2>1, <2>3, <3>2 DEF Routes!Connect
      <4>2. switching' \in [model : Routes!Models, picked : BOOLEAN]
        BY <4>1
      <4> QED BY <4>1, <4>2 DEF CellTypes
    <3> QED BY <3>1, <3>2
  <2> QED BY <1>1, <2>2, <2>3
<1>2. ASSUME NEW p \in Routes!Providers, NEW m \in Routes!Models, Routes!PickModel(p, m)
      PROVE  CellTypes'
  BY <1>2 DEF Routes!PickModel, CellTypes
<1>3. CASE \/ (\E p \in Routes!Providers : Routes!Disconnect(p))
           \/ Routes!SetModel \/ Routes!RejectModel \/ Routes!ReloadRules
  BY <1>3 DEF Routes!Disconnect, Routes!SetModel, Routes!RejectModel, Routes!ReloadRules,
     Routes!uiVars, Routes!AtRest, CellTypes
<1>4. CASE UNCHANGED Routes!hostVars
  BY <1>4 DEF Routes!hostVars, Routes!uiVars, CellTypes
<1>5. \/ UNCHANGED Routes!hostVars
      \/ \E p \in Routes!Providers : Routes!Use(p) \/ Routes!Connect(p) \/ Routes!Disconnect(p)
      \/ \E p \in Routes!Providers, m \in Routes!Models : Routes!PickModel(p, m)
      \/ Routes!SetModel \/ Routes!RejectModel \/ Routes!ReloadRules
  BY DEF Routes!Next, Routes!Begin, Routes!ReadActive, Routes!ReadModel, Routes!ReadRules,
     Routes!Pick, Routes!Warn, Routes!End, Routes!vars, Routes!hostVars
<1> QED BY <1>1, <1>2, <1>3, <1>4, <1>5

\* A decision is one.
LEMMA RouteIs ==
    ASSUME NEW p \in Routes!Providers, NEW m \in Routes!Models, NEW r \in Routes!Reasons
    PROVE  Routes!RouteTo(p, m, r) \in Routes!RoutingDecision
BY DEF Routes!RouteTo, Routes!RoutingDecision

\* Whatever layer decides, it names a provider and a model.
LEMMA PicksAreDecisions ==
    ASSUME CellTypes, TurnTypes, turn.phase = "rules", NEW d \in Routes!Picks
    PROVE  d \in Routes!RoutingDecision
<1>1. /\ {"override", "modality", "rule", "heuristic", "default"} \subseteq Routes!Reasons
      /\ pool \subseteq Routes!Providers
  BY DEF Routes!Reasons, CellTypes
<1>2. CASE d \in Routes!OverrideLayer
  <2>1. turn.override \in Routes!RoutingOverride
    BY <1>2 DEF Routes!OverrideLayer, TurnTypes
  <2>2. PICK p \in pool \cap {turn.override.provider} :
          d = Routes!RouteTo(p, IF turn.override.model = Nothing THEN DefaultModel[p]
                                ELSE turn.override.model, "override")
    BY <1>2 DEF Routes!OverrideLayer
  <2>3. (IF turn.override.model = Nothing THEN DefaultModel[p] ELSE turn.override.model)
          \in Routes!Models
    BY <1>1, <2>1, <2>2, RoutingAssumption DEF Routes!RoutingOverride
  <2> QED BY <1>1, <2>2, <2>3, RouteIs
<1>3. CASE d \in Routes!ModalityLayer
  <2>1. PICK p \in pool : /\ Routes!Offers(p) \cap SeesImages # {}
                          /\ d = Routes!RouteTo(p, Routes!FirstOf(p, SeesImages), "modality")
    BY <1>3 DEF Routes!ModalityLayer
  <2>2. Routes!FirstOf(p, SeesImages) \in Routes!Models
    BY <1>1, <2>1, FirstIsOne, OffersModels
  <2> QED BY <1>1, <2>1, <2>2, RouteIs
<1>4. CASE d \in Routes!RuleLayer
  <2>1. PICK i \in DOMAIN turn.rules.rules :
          /\ turn.rules.rules[i].provider \in pool
          /\ d = Routes!RouteTo(turn.rules.rules[i].provider, turn.rules.rules[i].model, "rule")
    BY <1>4 DEF Routes!RuleLayer
  <2>2. turn.rules \in RuleFiles
    BY DEF TurnTypes, ReadTypes
  <2>3. turn.rules.rules[i].model \in Routes!Models
    BY <2>2, RoutingAssumption
  <2> QED BY <1>1, <2>1, <2>3, RouteIs
<1>5. CASE d \in Routes!HeuristicLayer
  <2>0. PICK tier : \E p \in Routes!HaveTier(tier) :
          d = Routes!RouteTo(p, Routes!FirstOf(p, Routes!InTier(tier)), "heuristic")
    BY <1>5 DEF Routes!HeuristicLayer
  <2>1. PICK p \in Routes!HaveTier(tier) :
          d = Routes!RouteTo(p, Routes!FirstOf(p, Routes!InTier(tier)), "heuristic")
    BY <2>0
  <2>2. p \in pool /\ Routes!Offers(p) \cap Routes!InTier(tier) # {}
    BY <2>1 DEF Routes!HaveTier
  <2>3. Routes!FirstOf(p, Routes!InTier(tier)) \in Routes!Models
    BY <1>1, <2>2, FirstIsOne, OffersModels
  <2> QED BY <1>1, <2>1, <2>2, <2>3, RouteIs
<1>6. CASE d = Routes!RouteTo(turn.active, turn.model, "default")
  BY <1>1, <1>6, RouteIs DEF TurnTypes, ReadTypes
<1> QED BY <1>2, <1>3, <1>4, <1>5, <1>6, PickIsOfALayer

\* A prefix is no override, or names a provider, and a model or none.
LEMMA PrefixNames ==
    ASSUME CellTypes, NEW msg
    PROVE  Routes!ParsePrefix(msg) = Nothing \/ Routes!ParsePrefix(msg) \in Routes!RoutingOverride
<1> DEFINE hits == {a \in Aliases : a.alias = msg.name /\ a.provider \in pool}
<1>1. ASSUME NEW p \in Routes!Providers, NEW m \in Routes!Models \cup {Nothing}
      PROVE  [provider |-> p, model |-> m] \in Routes!RoutingOverride
  BY DEF Routes!RoutingOverride
<1>2. pool \subseteq Routes!Providers
  BY DEF CellTypes
<1>3. CASE msg.form = "pair" /\ msg.name \in pool /\ msg.model \in Routes!Offers(msg.name)
  <2>1. Routes!ParsePrefix(msg) = [provider |-> msg.name, model |-> msg.model]
    BY <1>3 DEF Routes!ParsePrefix
  <2> QED BY <1>1, <1>2, <1>3, <2>1, OffersModels
<1>4. CASE msg.form = "word" /\ msg.name \in pool
  <2>1. Routes!ParsePrefix(msg) = [provider |-> msg.name, model |-> Nothing]
    BY <1>4 DEF Routes!ParsePrefix
  <2> QED BY <1>1, <1>2, <1>4, <2>1
<1>5. CASE msg.form = "word" /\ msg.name \notin pool /\ (\E a \in hits : hits = {a})
  <2>1. PICK a \in Aliases : a = CHOOSE b \in hits : TRUE
    BY <1>5
  <2>2. Routes!ParsePrefix(msg) = [provider |-> a.provider, model |-> a.model]
    BY <1>5, <2>1 DEF Routes!ParsePrefix
  <2> QED BY <1>1, <2>1, <2>2, RoutingAssumption
<1> QED BY <1>3, <1>4, <1>5 DEF Routes!ParsePrefix

\* The turn has its types after every step.
LEMMA TurnStep ==
    ASSUME Shape, CellTypes, TurnTypes, [Routes!Next]_(Routes!vars) PROVE TurnTypes'
<1>1. CASE UNCHANGED turn
  BY <1>1 DEF TurnTypes, ReadTypes
<1>2. ASSUME NEW msg \in Messages, Routes!Begin(msg) PROVE TurnTypes'
  <2>1. /\ turn'.phase = "parsed" /\ turn'.override = Routes!ParsePrefix(msg)
        /\ turn'.warned = FALSE
    BY <1>2 DEF Routes!Begin, Routes!Idle
  <2> QED BY <2>1, PrefixNames DEF TurnTypes, ReadTypes
<1>3. CASE Routes!ReadActive
  <2>1. /\ turn'.phase = "active" /\ turn'.override = turn.override /\ turn'.warned = turn.warned
        /\ turn'.active = active
    BY <1>3 DEF Routes!ReadActive, Shape
  <2> QED BY <2>1 DEF CellTypes, TurnTypes, ReadTypes
<1>4. CASE Routes!ReadModel
  <2>1. /\ turn.phase = "active" /\ turn'.phase = "model" /\ turn'.override = turn.override
        /\ turn'.warned = turn.warned /\ turn'.active = turn.active
        /\ turn'.model = current_model
    BY <1>4 DEF Routes!ReadModel, Shape
  <2> QED BY <2>1 DEF CellTypes, TurnTypes, ReadTypes
<1>5. CASE Routes!ReadRules
  <2>1. /\ turn.phase = "model" /\ turn'.phase = "rules" /\ turn'.override = turn.override
        /\ turn'.warned = turn.warned /\ turn'.active = turn.active
        /\ turn'.model = turn.model /\ turn'.rules = rules
    BY <1>5 DEF Routes!ReadRules, Shape
  <2> QED BY <2>1 DEF CellTypes, TurnTypes, ReadTypes
<1>6. CASE Routes!Pick
  <2>1. PICK d \in Routes!Picks :
            turn' = [turn EXCEPT !.phase = "picked", !.views = pool, !.decision = d]
    BY <1>6 DEF Routes!Pick
  <2>2. /\ turn'.phase = "picked" /\ turn'.override = turn.override
        /\ turn'.warned = turn.warned /\ turn'.decision = d
    BY <2>1 DEF Shape
  <2>3. d \in Routes!RoutingDecision
    BY <1>6, PicksAreDecisions DEF Routes!Pick
  <2> QED BY <2>2, <2>3 DEF TurnTypes, ReadTypes
<1>7. CASE Routes!Warn
  <2>1. /\ turn.phase = "picked" /\ turn'.phase = "routed" /\ turn'.override = Nothing
        /\ turn'.decision = turn.decision /\ turn'.warned = Routes!LacksVision(turn.decision)
    BY <1>7 DEF Routes!Warn, Routes!Idle
  <2>2. Routes!LacksVision(turn.decision) \in BOOLEAN
    BY DEF Routes!LacksVision
  <2> QED BY <2>1, <2>2 DEF TurnTypes, ReadTypes
<1>8. CASE Routes!End
  BY <1>8 DEF Routes!End, Routes!Idle, TurnTypes, ReadTypes
<1> QED
  BY <1>1, <1>2, <1>3, <1>4, <1>5, <1>6, <1>7, <1>8
     DEF Routes!Next, Routes!vars, Routes!Use, Routes!Connect, Routes!Disconnect,
         Routes!PickModel, Routes!SetModel, Routes!RejectModel, Routes!ReloadRules

\* Those of the router have theirs.
LEMMA RoutesTyping == Routes!Spec => []Routes!TypeOK
<1>1. Routes!Init => RInv /\ CellTypes /\ TurnTypes
  BY Initially, CellsInit DEF Routes!Init, Routes!Idle, TurnTypes, ReadTypes
<1>2. RInv /\ CellTypes /\ TurnTypes /\ [Routes!Next]_(Routes!vars)
        => (RInv /\ CellTypes /\ TurnTypes)'
  BY Step, CellsStep, TurnStep DEF RInv
<1>3. CellTypes /\ TurnTypes => Routes!TypeOK
  BY DEF CellTypes, TurnTypes, Routes!TypeOK
<1> QED
  BY <1>1, <1>2, <1>3, PTL DEF Routes!Spec

=============================================================================
