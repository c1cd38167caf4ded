------------------------ MODULE UserResources_proofs ------------------------
(* Theorems about UserResources: the inductive invariant IInv of the access *)
(* token and of the Duckling configuration, and the safety properties.     *)
EXTENDS UserResources, FiniteSetTheorems, TLAPS

USE DEF walkVars

\* Every page token is one of the offsets of the listing.
LEMMA PageTokensAreOffsets ==
  ASSUME TokenTypeOK
  PROVE  PageTokens \subseteq 0..MaxTokens
<1>1. IsFiniteSet(Ids) /\ Cardinality(Ids) = MaxTokens
  BY AccessTokenAssumption, FS_Interval DEF Ids
<1>2. live \subseteq Ids
  BY DEF TokenTypeOK, Made
<1>3. IsFiniteSet(live) /\ Cardinality(live) <= MaxTokens
  BY <1>1, <1>2, FS_Subset
<1>4. Cardinality(live) \in Nat
  BY <1>3, FS_CardinalityType
<1>5. cursor \in Nat
  BY DEF TokenTypeOK, Ids
<1>6. QED
  BY <1>3, <1>4, <1>5, AccessTokenAssumption DEF PageTokens

\* The invariant holds when Terraform starts.
LEMMA InvInit == Init => IInv
<1> SUFFICES ASSUME Init PROVE IInv
  OBVIOUS
<1> USE DEF Init, AdminInit, TokenInit, DucklingInit
<1>1. TokenTypeOK
  BY DEF TokenTypeOK, Made
<1>2. DucklingTypeOK
  BY DEF DucklingTypeOK, DucklingRequests
<1>3. HandlerInv /\ ApiInv /\ PlanInv /\ OrphanTold /\ SecretMatches
  BY DEF HandlerInv, ApiInv, PlanInv, OrphanTold, SecretMatches
<1>4. QED
  BY <1>1, <1>2, <1>3 DEF IInv, TypeOK

-----------------------------------------------------------------------------
(* The access token.                                                       *)

\* What the invariant says of the token.
TokenPart == TokenTypeOK /\ HandlerInv /\ ApiInv /\ OrphanTold /\ SecretMatches

\* The POST, and its late effect, mint a token that did not exist.
LEMMA MintKeeps ==
  ASSUME TokenPart, NEW i \in Ids, NEW c, NEW by \in {"terraform", "unanswered", "other"},
         c.name \in TokenNames, c.desc \in BOOLEAN, c.ttl \in BOOLEAN,
         user, managed = "token", Mint(i, c, by), past' = past, user' = user,
         managed' = managed
  PROVE  /\ tokens' \in [Ids -> Tokens \cup {None}]
         /\ live' \subseteq Made' /\ Made \subseteq Made' /\ i \in Made'
         /\ past' \subseteq Made'
         /\ ApiInv'
         /\ i \notin Made /\ i \in live'
         /\ tokens'[i].by = by
         /\ tokens'[i].name = c.name
         /\ tokens'[i].desc = (c.desc /\ stores)
         /\ \A j \in live' : j # i => j \in live /\ tokens'[j] = tokens[j]
<1> DEFINE d == c.desc /\ stores
<1> DEFINE t == [name |-> c.name, desc |-> d, ttl |-> c.ttl, by |-> by]
<1>0. d \in BOOLEAN
  BY Zenon
<1> HIDE DEF d
<1>1. t \in Tokens /\ t # None
  BY <1>0, NoneIsNoToken DEF Tokens
<1>2. tokens' = [tokens EXCEPT ![i] = t] /\ i \notin Made /\ live' = live \cup {i}
  BY DEF Mint, d
<1>3. tokens \in [Ids -> Tokens \cup {None}] /\ live \subseteq Made /\ past \subseteq Made
  BY DEF TokenPart, TokenTypeOK
<1> HIDE DEF t
<1>4. tokens' \in [Ids -> Tokens \cup {None}] /\ tokens'[i] = t
      /\ \A j \in Ids : j # i => tokens'[j] = tokens[j]
  BY <1>1, <1>2, <1>3
<1>5. Made' = Made \cup {i}
  BY <1>1, <1>3, <1>4 DEF Made
<1>6. ApiInv'
  BY <1>2, <1>3 DEF TokenPart, ApiInv
<1>7. \A j \in live' : j # i => j \in live /\ tokens'[j] = tokens[j]
  BY <1>2, <1>3, <1>4 DEF Made
<1>8. QED
  BY <1>2, <1>3, <1>4, <1>5, <1>6, <1>7 DEF t, d


\* Actions that touch neither the tokens nor the state.
LEMMA QuietKeeps ==
  ASSUME TokenPart, StartMint \/ StartList \/ StartRevoke \/ EditToken
  PROVE  TokenPart'
<1> USE DEF TokenPart, TokenTypeOK, HandlerInv, ApiInv, OrphanTold, SecretMatches, Made
<1>1. CASE StartMint
  BY <1>1 DEF StartMint, Begin
<1>2. CASE StartList
  BY <1>2 DEF StartList, Begin, tokenVars
<1>3. CASE StartRevoke
  BY <1>3 DEF StartRevoke, Begin, tokenVars
<1>4. CASE EditToken
  BY <1>4 DEF EditToken, EditOnce
<1>5. QED
  BY <1>1, <1>2, <1>3, <1>4

LEMMA LateMintKeeps ==
  ASSUME TokenPart, managed = "token", LateMint
  PROVE  TokenPart'
<1>1. late \in Requests
  BY DEF LateMint, TokenPart, TokenTypeOK
<1>2. CASE user /\ ~NameTaken(late.name) /\ Made # Ids
  <2>1. PICK i \in Ids : Mint(i, late, "unanswered")
    BY <1>2 DEF LateMint
  <2>2. /\ tokens' \in [Ids -> Tokens \cup {None}]
        /\ live' \subseteq Made' /\ Made \subseteq Made'
        /\ past' \subseteq Made'
        /\ ApiInv'
        /\ tokens'[i].by = "unanswered"
        /\ \A j \in live' : j # i => j \in live /\ tokens'[j] = tokens[j]
    BY <1>1, <1>2, <2>1, MintKeeps DEF LateMint, adminVars, Requests
  <2>3. UNCHANGED <<pc, want, held, asked, cursor, seen, items, told>> /\ late' = None
    BY DEF LateMint, adminVars
  <2>4. TokenTypeOK'
    BY <2>2, <2>3 DEF TokenPart, TokenTypeOK
  <2>5. HandlerInv' /\ SecretMatches'
    BY <2>2, <2>3 DEF TokenPart, HandlerInv, SecretMatches
  <2>6. OrphanTold'
    BY <2>2, <2>3 DEF TokenPart, OrphanTold
  <2>7. QED
    BY <2>2, <2>4, <2>5, <2>6 DEF TokenPart
<1>3. CASE ~(user /\ ~NameTaken(late.name) /\ Made # Ids)
  BY <1>3
  DEF LateMint, adminVars, TokenPart, TokenTypeOK, HandlerInv, ApiInv, OrphanTold,
      SecretMatches, Made
<1>4. QED
  BY <1>2, <1>3

\* Whoever else mints a token, it is not Terraform's.
LEMMA OutsideKeeps ==
  ASSUME TokenPart, managed = "token", OutsideToken
  PROVE  TokenPart'
<1>1. UNCHANGED <<managed, pc, want, held, asked, late, cursor, seen, items, told>>
  BY DEF OutsideToken
<1>2. CASE user' = user /\ past' = past /\ user
           /\ \E i \in Ids, n \in TokenNames :
                Mint(i, [name |-> n, desc |-> FALSE, ttl |-> FALSE], "other")
  <2>1. PICK i \in Ids, n \in TokenNames :
          Mint(i, [name |-> n, desc |-> FALSE, ttl |-> FALSE], "other")
    BY <1>2
  <2>2. /\ tokens' \in [Ids -> Tokens \cup {None}]
        /\ live' \subseteq Made' /\ Made \subseteq Made'
        /\ past' \subseteq Made'
        /\ ApiInv'
        /\ tokens'[i].by = "other"
        /\ \A j \in live' : j # i => j \in live /\ tokens'[j] = tokens[j]
    BY <1>1, <1>2, <2>1, MintKeeps
  <2>4. TokenTypeOK'
    BY <1>1, <2>2 DEF TokenPart, TokenTypeOK
  <2>5. HandlerInv' /\ SecretMatches'
    BY <1>1, <2>2 DEF TokenPart, HandlerInv, SecretMatches
  <2>6. OrphanTold'
    BY <1>1, <2>2 DEF TokenPart, OrphanTold
  <2>7. QED
    BY <2>2, <2>4, <2>5, <2>6 DEF TokenPart
<1>3. CASE /\ tokens' = tokens /\ live' \subseteq live
           /\ past' \subseteq Made /\ past' \cap live' = {}
           /\ user' = user \/ live' = {}
  BY <1>1, <1>3
  DEF TokenPart, TokenTypeOK, HandlerInv, ApiInv, OrphanTold, SecretMatches, Made
<1>4. QED
  BY <1>2, <1>3 DEF OutsideToken, TokenPart, TokenTypeOK, ApiInv

\* The answer to the POST: with it the token is in the state, with an error or
\* without.
LEMMA CreateTokenKeeps ==
  ASSUME TokenPart, managed = "token", CreateToken
  PROVE  TokenPart' /\ TokenAsAskedStep
<1>1. /\ UNCHANGED <<managed, user, past, stores, want, cursor, seen, items, told>>
      /\ asked \in Requests /\ held = None /\ pc = "mint" /\ asked' = None
  BY DEF CreateToken, TokenPart, HandlerInv, TokenTypeOK
<1>2. CASE /\ UNCHANGED <<tokens, live, held>> /\ pc' = "idle" /\ late' \in {late, asked}
  BY <1>1, <1>2
  DEF TokenPart, TokenTypeOK, HandlerInv, ApiInv, OrphanTold, SecretMatches, Made,
      TokenAsAskedStep
<1>3. ASSUME NEW i \in Ids, user, late' = late, pc' = "idle",
             NEW by \in {"terraform", "unanswered"}, Mint(i, asked, by),
             \/ by = "unanswered" /\ held' = held
             \/ /\ by = "terraform" /\ held' \in TokenStates
                /\ held'.id = i /\ held'.secret = i
                /\ said' = "ok" => ~(asked.desc /\ ~stores)
      PROVE  TokenPart' /\ TokenAsAskedStep
  <2>1. asked.name \in TokenNames /\ asked.desc \in BOOLEAN /\ asked.ttl \in BOOLEAN
    BY <1>1 DEF Requests
  <2>2. /\ tokens' \in [Ids -> Tokens \cup {None}]
        /\ live' \subseteq Made' /\ Made \subseteq Made' /\ i \in live'
        /\ past' \subseteq Made'
        /\ ApiInv'
        /\ tokens'[i].by = by
        /\ tokens'[i].name = asked.name
        /\ tokens'[i].desc = (asked.desc /\ stores)
        /\ \A j \in live' : j # i => j \in live /\ tokens'[j] = tokens[j]
    BY <1>1, <1>3, <2>1, MintKeeps
  <2>3. TokenTypeOK'
    BY <1>1, <1>3, <2>2 DEF TokenPart, TokenTypeOK
  <2>4. HandlerInv' /\ SecretMatches'
    BY <1>1, <1>3, <2>2 DEF TokenPart, HandlerInv, SecretMatches
  <2>5. OrphanTold'
    BY <1>1, <1>3, <2>2, NoneIsNoToken DEF TokenPart, OrphanTold
  <2>6. (said' = "ok" /\ held' # None) => tokens'[i].desc = asked.desc
    BY <1>1, <1>3, <2>1, <2>2
  <2>7. TokenAsAskedStep
    BY <1>1, <1>3, <2>2, <2>6 DEF TokenAsAskedStep
  <2>8. QED
    BY <2>2, <2>3, <2>4, <2>5, <2>7 DEF TokenPart
<1>4. ASSUME NEW i \in Ids
      PROVE  /\ Minted(i, asked) \in TokenStates /\ Minted(i, asked).id = i
             /\ Minted(i, asked).secret = i
             /\ Undescribed(i, asked) \in TokenStates /\ Undescribed(i, asked).id = i
             /\ Undescribed(i, asked).secret = i
  <2> DEFINE d == asked.desc /\ stores
  <2>1. d \in BOOLEAN
    BY Zenon
  <2>2. /\ Minted(i, asked) = [id |-> i, name |-> asked.name, desc |-> d, ttl |-> asked.ttl,
                 expires |-> asked.ttl, secret |-> i, spell |-> asked.spell, tainted |-> FALSE]
        /\ Undescribed(i, asked) = [Minted(i, asked) EXCEPT !.tainted = TRUE]
    BY Zenon DEF Minted, Undescribed
  <2> HIDE DEF d
  <2>3. i \in Ids \cup {None} /\ asked.name \in TokenNames /\ asked.ttl \in BOOLEAN
        /\ asked.spell \in {0, 1}
    BY <1>1 DEF Requests
  <2>4. Minted(i, asked) \in TokenStates /\ Minted(i, asked).id = i /\ Minted(i, asked).secret = i
    BY <2>1, <2>2, <2>3 DEF TokenStates
  <2>5. QED
    BY <2>2, <2>4 DEF TokenStates
<1>5. CASE /\ ~UserNotFound /\ ~NameTaken(asked.name) /\ UNCHANGED late
           /\ \E i \in Ids :
             \/ /\ Fault /\ Mint(i, asked, "unanswered")
                /\ End("error") /\ UNCHANGED held
             \/ /\ NoFault /\ Mint(i, asked, "terraform")
                /\ IF DescriptionDropped(asked)
                   THEN held' = Undescribed(i, asked) /\ End("error")
                   ELSE held' = Minted(i, asked) /\ End("ok")
  <2>1. PICK i \in Ids :
             \/ /\ Fault /\ Mint(i, asked, "unanswered")
                /\ End("error") /\ UNCHANGED held
             \/ /\ NoFault /\ Mint(i, asked, "terraform")
                /\ IF DescriptionDropped(asked)
                   THEN held' = Undescribed(i, asked) /\ End("error")
                   ELSE held' = Minted(i, asked) /\ End("ok")
    BY <1>5
  <2>2. CASE Mint(i, asked, "unanswered") /\ End("error") /\ UNCHANGED held
    BY <1>3, <1>5, <2>2 DEF End, UserNotFound
  <2>3. CASE /\ Mint(i, asked, "terraform")
             /\ IF DescriptionDropped(asked)
                THEN held' = Undescribed(i, asked) /\ End("error")
                ELSE held' = Minted(i, asked) /\ End("ok")
    BY <1>3, <1>4, <1>5, <2>3 DEF End, UserNotFound, DescriptionDropped
  <2>4. QED
    BY <2>1, <2>2, <2>3
<1>6. QED
  BY <1>2, <1>5 DEF CreateToken, End

\* The walk: what it forgets in silence is not live, what it forgets while it
\* is live is told.
LEMMA FetchTokensKeeps ==
  ASSUME TokenPart, managed = "token", FetchTokens
  PROVE  TokenPart' /\ LossIsToldStep
<1>1. /\ UNCHANGED <<managed, user, tokens, live, past, stores, want, asked, late>>
      /\ held \in TokenStates /\ held # None /\ pc = "list"
      /\ live \subseteq Made /\ told \subseteq Made /\ items \subseteq Made
      /\ tokens \in [Ids -> Tokens \cup {None}]
  BY NoneIsNoToken DEF FetchTokens, TokenPart, TokenTypeOK
<1>2. Page \subseteq live /\ Page \subseteq Made
  BY <1>1 DEF Page
<1>3. ASSUME held' \in TokenStates \cup {None}, told' \subseteq Made, pc' = "idle",
             held' # None => held'.id = held.id /\ held'.secret = held.secret,
             held' = None => held.id \notin live \/ held.id \in told',
             held' = None /\ said' = "ok" => held.id \notin live,
             told \subseteq told',
             cursor' = 0 /\ seen' = {} /\ items' = {}
      PROVE  TokenPart' /\ LossIsToldStep
  <2>1. TokenTypeOK'
    BY <1>1, <1>3 DEF TokenPart, TokenTypeOK, Made
  <2>2. HandlerInv' /\ ApiInv' /\ SecretMatches'
    BY <1>1, <1>3 DEF TokenPart, HandlerInv, ApiInv, SecretMatches, Made
  <2>3. OrphanTold'
    BY <1>1, <1>3 DEF TokenPart, OrphanTold
  <2>4. QED
    BY <1>3, <2>1, <2>2, <2>3 DEF TokenPart, LossIsToldStep
<1>4. CASE UserNotFound /\ held' = None /\ End("ok") /\ WalkOver /\ UNCHANGED told
  BY <1>1, <1>3, <1>4 DEF UserNotFound, End, WalkOver, TokenPart, ApiInv
<1>5. CASE End("error") /\ WalkOver /\ UNCHANGED <<held, told>>
  BY <1>1, <1>3, <1>5 DEF End, WalkOver
<1>6. CASE Verdict(items \cup Page) /\ WalkOver
  <2>1. CASE \E i \in items \cup Page :
               Matches(i) /\ held' = Reported(i) /\ End("ok") /\ UNCHANGED told
    <3>1. PICK i \in items \cup Page :
               Matches(i) /\ held' = Reported(i) /\ End("ok") /\ UNCHANGED told
      BY <2>1
    <3>2. tokens[i] \in Tokens /\ i = held.id /\ i \in Ids
      BY <1>1, <1>2, <3>1 DEF Made, Matches
    <3>3. held' \in TokenStates /\ held'.id = held.id /\ held'.secret = held.secret
      BY <1>1, <3>1, <3>2 DEF Reported, TokenStates, Tokens
    <3>4. held' # None
      BY <3>3, NoneIsNoToken
    <3>5. QED
      BY <1>1, <1>3, <1>6, <3>1, <3>3, <3>4 DEF End, WalkOver
  <2>2. CASE /\ held' = None
             /\ IF Expired(held) THEN End("ok") /\ UNCHANGED told
                                 ELSE End("warning") /\ told' = told \cup {held.id}
    <3>1. Expired(held) => held.id \notin live
      BY DEF Expired, TokenPart, ApiInv
    <3>2. held.id \in Made
      BY <1>1 DEF TokenPart, HandlerInv
    <3>3. QED
      BY <1>1, <1>3, <1>6, <2>2, <3>1, <3>2 DEF End, WalkOver
  <2>3. QED
    BY <1>6, <2>1, <2>2 DEF Verdict
<1>7. ASSUME NEW next \in PageTokens, next # 0, cursor' = next, seen' = seen \cup {next},
             items' = items \cup Page, UNCHANGED <<pc, said, held, told>>
      PROVE  TokenPart' /\ LossIsToldStep
  <2>1. next \in Ids
    BY <1>7, PageTokensAreOffsets, AccessTokenAssumption DEF TokenPart, Ids
  <2>2. TokenTypeOK'
    BY <1>1, <1>2, <1>7, <2>1 DEF TokenPart, TokenTypeOK, Made
  <2>3. HandlerInv' /\ ApiInv' /\ SecretMatches' /\ OrphanTold' /\ LossIsToldStep
    BY <1>1, <1>7
    DEF TokenPart, HandlerInv, ApiInv, SecretMatches, OrphanTold, LossIsToldStep, Made
  <2>4. QED
    BY <2>2, <2>3 DEF TokenPart
<1>8. QED
  BY <1>4, <1>5, <1>6, <1>7 DEF FetchTokens

\* The handlers that are one step, and Delete.
LEMMA RecordSpellingKeeps ==
  ASSUME TokenPart, RecordSpelling
  PROVE  TokenPart'
<1>1. held \in TokenStates /\ want \in Requests
  BY DEF RecordSpelling, TokenPart, TokenTypeOK
<1>2. held' \in TokenStates /\ held'.id = held.id /\ held'.secret = held.secret /\ held' # None
  BY <1>1, NoneIsNoToken DEF RecordSpelling, TokenStates, Requests
<1>3. QED
  BY <1>2
  DEF RecordSpelling, End, TokenPart, TokenTypeOK, HandlerInv, ApiInv, OrphanTold,
      SecretMatches, Made

LEMMA DeleteTokenKeeps ==
  ASSUME TokenPart, DeleteToken
  PROVE  TokenPart'
  BY DEF DeleteToken, End, TokenPart, TokenTypeOK, HandlerInv, ApiInv, OrphanTold,
         SecretMatches, Made

LEMMA ImportTokenKeeps ==
  ASSUME TokenPart, ImportToken
  PROVE  TokenPart'
<1>1. PICK i \in live, s \in {0, 1} :
       held' = [id |-> i, name |-> tokens[i].name, desc |-> tokens[i].desc,
                ttl |-> FALSE, expires |-> tokens[i].ttl, secret |-> None,
                spell |-> s, tainted |-> FALSE]
  BY DEF ImportToken
<1>2. i \in Ids /\ i \in Made /\ tokens[i] \in Tokens
  BY DEF TokenPart, TokenTypeOK, Made
<1>3. /\ tokens[i].name \in TokenNames /\ tokens[i].desc \in BOOLEAN
      /\ tokens[i].ttl \in BOOLEAN /\ None \in Ids \cup {None}
  BY <1>2 DEF Tokens
<1>3a. held' \in TokenStates /\ held'.id = i /\ held'.secret = None
  BY <1>1, <1>2, <1>3 DEF TokenStates
<1>3b. held' # None
  BY <1>3a, NoneIsNoToken
<1>4. QED
  BY <1>2, <1>3a, <1>3b
  DEF ImportToken, EditOnce, End, TokenPart, TokenTypeOK, HandlerInv, ApiInv, OrphanTold,
      SecretMatches, Made

LEMMA TokenNextKeeps ==
  ASSUME IInv, managed = "token", TokenNext, UNCHANGED ducklingVars
  PROVE  IInv'
<1>1. TokenPart
  BY DEF IInv, TypeOK, TokenPart
<1>2. TokenPart'
  BY <1>1, QuietKeeps, LateMintKeeps, OutsideKeeps, CreateTokenKeeps, FetchTokensKeeps,
     RecordSpellingKeeps, DeleteTokenKeeps, ImportTokenKeeps DEF TokenNext
<1>3. pc' = "put" <=> pc = "put"
  BY <1>1
  DEF TokenNext, StartMint, CreateToken, StartList, FetchTokens, RecordSpelling, Verdict,
      StartRevoke, DeleteToken, ImportToken, EditToken, LateMint, OutsideToken, Begin,
      End, EditOnce, adminVars
<1>4. DucklingTypeOK' /\ PlanInv'
  BY <1>3 DEF IInv, TypeOK, DucklingTypeOK, PlanInv, ducklingVars
<1>5. QED
  BY <1>2, <1>4 DEF IInv, TypeOK, TokenPart

-----------------------------------------------------------------------------
(* The Duckling configuration.                                             *)

\* What the invariant says of the Duckling configuration.
DucklingPart == DucklingTypeOK /\ HandlerInv /\ PlanInv

\* What a plan has of the configuration.
LEMMA PlanOfConfiguration ==
  ASSUME DucklingPart, pc = "put"
  PROVE  /\ dplan \in Plans /\ dwant \in DucklingRequests
         /\ dplan.size = dwant.size /\ dplan.flock = dwant.flock
         /\ dplan.cool = PlannedCooldown(dwant, dheld)
         /\ dwant.cool # None => dplan.cool = dwant.cool
         /\ dplan.cool = None <=> dwant.size = Pulse
         /\ dwant.size = Pulse => dwant.cool = None
<1>1. /\ dplan \in Plans /\ dwant \in DucklingRequests
      /\ dplan = [dwant EXCEPT !.cool = PlannedCooldown(dwant, dheld)]
  BY DucklingAssumption DEF DucklingPart, DucklingTypeOK, PlanInv
<1>2. dwant \in Settings /\ (dwant.size = Pulse => dwant.cool = None)
  BY <1>1 DEF DucklingRequests
<1>3. /\ dplan.size = dwant.size /\ dplan.flock = dwant.flock
      /\ dplan.cool = PlannedCooldown(dwant, dheld)
  BY <1>1, <1>2 DEF Settings
<1>4. dwant.cool # None => PlannedCooldown(dwant, dheld) = dwant.cool
  BY DEF PlannedCooldown
<1>5. PlannedCooldown(dwant, dheld) = None <=> dwant.size = Pulse
  BY <1>2, DucklingAssumption DEF PlannedCooldown
<1>6. QED
  BY <1>1, <1>2, <1>3, <1>4, <1>5

\* What is sent and what is recorded are configurations.
LEMMA BodyIsRequest ==
  ASSUME NEW p \in Plans
  PROVE  Body(p) \in DucklingRequests
  BY DucklingAssumption DEF Body, Plans, Settings, DucklingRequests

LEMMA ShownIsSetting ==
  ASSUME NEW s \in Settings
  PROVE  /\ Shown(s) \in Settings /\ Shown(s).size = s.size /\ Shown(s).flock = s.flock
         /\ Shown(s).cool = IF s.size # Pulse /\ s.cool = None THEN Default ELSE s.cool
  BY DEF Shown, Settings, Cooldowns

\* What an answered PUT records.
LEMMA AnswerRecorded ==
  ASSUME NEW p \in Plans,
         NEW answer \in {Shown(Body(p)), [Body(p) EXCEPT !.cool = None]}
  PROVE  /\ AfterPut(p, answer) \in Settings
         /\ AfterPut(p, answer).size = p.size /\ AfterPut(p, answer).flock = p.flock
         /\ p.cool # Unknown /\ (p.size = Pulse <=> p.cool = None)
              => AfterPut(p, answer).cool = p.cool
<1>1. Body(p) \in Settings /\ Body(p).size = p.size /\ Body(p).flock = p.flock
      /\ Body(p).cool = IF p.cool = Unknown \/ p.size = Pulse THEN None ELSE p.cool
  BY DucklingAssumption DEF Body, Plans, Settings
<1>2. answer \in Settings /\ answer.size = p.size /\ answer.flock = p.flock
      /\ (answer.cool = None \/ p.cool = Unknown \/ p.cool = None \/ p.size = Pulse
          \/ answer.cool = p.cool)
  BY <1>1, ShownIsSetting DEF Settings
<1>3. p.cool \in Cooldowns \cup {None, Unknown}
  BY DEF Plans
<1>4. QED
  BY <1>2, <1>3, DucklingAssumption DEF AfterPut, Settings

\* The plan is made from the configuration and the state.
LEMMA StartPutKeeps ==
  ASSUME DucklingPart, StartPut, UNCHANGED tokenVars
  PROVE  DucklingPart'
<1>1. dwant \in DucklingRequests /\ dheld \in Settings \cup {None}
  BY DEF StartPut, DucklingPart, DucklingTypeOK
<1>2. PlannedCooldown(dwant, dheld) \in Cooldowns \cup {None, Unknown}
  BY <1>1 DEF PlannedCooldown, DucklingRequests, Settings
<1>3. dplan' \in Plans /\ dplan' # None
  BY <1>1, <1>2, DucklingAssumption DEF StartPut, Plans, DucklingRequests, Settings
<1>4. pc' = "put" /\ UNCHANGED <<dwant, dheld, stored, respelled, dlate>> /\ dwant # None
  BY DEF StartPut, Begin
<1>5. DucklingTypeOK' /\ HandlerInv'
  BY <1>3, <1>4 DEF DucklingPart, DucklingTypeOK, HandlerInv, Made, tokenVars
<1>6. PlanInv'
  BY <1>4 DEF StartPut, PlanInv, PlannedCooldown
<1>7. QED
  BY <1>5, <1>6 DEF DucklingPart

\* What a PUT writes is as asked, as planned, and keeps what is not managed.
LEMMA PutKeeps ==
  ASSUME DucklingPart, PutDuckling
  PROVE  /\ UNCHANGED tokenVars => DucklingPart'
         /\ UnsetKeepsLiveStep /\ PlanKeptStep /\ DucklingAsAskedStep
<1>1. /\ dplan \in Plans /\ dwant \in DucklingRequests /\ pc = "put"
      /\ dplan.size = dwant.size /\ dplan.flock = dwant.flock
      /\ dplan.cool = PlannedCooldown(dwant, dheld)
      /\ dwant.cool # None => dplan.cool = dwant.cool
      /\ dplan.cool = None <=> dwant.size = Pulse
      /\ dwant.size = Pulse => dwant.cool = None
  BY PlanOfConfiguration DEF PutDuckling
<1>2. /\ Body(dplan) \in DucklingRequests /\ Body(dplan) \in Settings
      /\ Body(dplan).size = dplan.size /\ Body(dplan).flock = dplan.flock
      /\ Body(dplan).cool = IF dplan.cool = Unknown \/ dplan.size = Pulse THEN None
                            ELSE dplan.cool
  BY <1>1, BodyIsRequest DEF DucklingRequests, Body
<1>3. /\ pc' = "idle" /\ dplan' = None
      /\ UNCHANGED <<dwant, limited, fresh>>
      /\ stored' \in {stored, Body(dplan)}
      /\ dlate' \in {dlate, Body(dplan)}
      /\ respelled' \in {respelled, FALSE}
  BY DEF PutDuckling, End
<1>4. \/ said' = "error" /\ dheld' = dheld
      \/ /\ stored' = Body(dplan)
         /\ \E answer \in Answers : dheld' = AfterPut(dplan, answer)
  BY DEF PutDuckling, End
<1>5. dheld' \in Settings \cup {None} /\ PlanKeptStep
  BY <1>1, <1>3, <1>4, AnswerRecorded
  DEF Answers, DucklingPart, DucklingTypeOK, PlanKeptStep
<1>6. UNCHANGED tokenVars => DucklingPart'
  BY <1>1, <1>2, <1>3, <1>5
  DEF DucklingPart, DucklingTypeOK, HandlerInv, PlanInv, Made, tokenVars
<1>7. DucklingAsAskedStep
  BY <1>1, <1>2, <1>4, DucklingAssumption
  DEF DucklingAsAskedStep, DucklingRequests, Settings
<1>8. UnsetKeepsLiveStep
  <2> SUFFICES ASSUME stored' = Body(dplan), fresh, dheld # None,
                      dwant.cool = None, dwant.size = dheld.size, dwant.size # Pulse
               PROVE  Shown(stored').cool = Shown(stored).cool
    BY <1>3 DEF UnsetKeepsLiveStep
  <2>1. dheld = Shown(stored) /\ stored \in Settings
    BY <1>1 DEF DucklingPart, PlanInv, DucklingTypeOK
  <2>2. dheld.cool \in Cooldowns
    BY <2>1, ShownIsSetting DEF Settings, Cooldowns
  <2>3. dplan.cool = dheld.cool
    BY <1>1, <2>2, DucklingAssumption DEF PlannedCooldown
  <2>4. stored'.cool = dheld.cool /\ stored' \in Settings
    BY <1>1, <1>2, <2>2, <2>3, DucklingAssumption
  <2>5. QED
    BY <2>1, <2>2, <2>4, ShownIsSetting, DucklingAssumption
<1>9. QED
  BY <1>5, <1>6, <1>7, <1>8

\* The other handlers, and what happens outside.
LEMMA DucklingOthersKeep ==
  ASSUME DucklingPart, managed = "duckling", live = {}, UNCHANGED tokenVars,
         ReadDuckling \/ DeleteDuckling \/ ImportDuckling \/ EditDuckling
           \/ LatePut \/ OutsideDuckling
  PROVE  DucklingPart'
<1>0. stored \in Settings /\ Shown(stored) \in Settings /\ Shown(stored) # None
  <2>1. Shown(stored) \in Settings /\ stored \in Settings
    BY ShownIsSetting DEF DucklingPart, DucklingTypeOK
  <2>2. QED
    BY <2>1, DucklingAssumption DEF Settings, Plans
<1> USE DEF DucklingPart, DucklingTypeOK, HandlerInv, PlanInv, Made, tokenVars
<1>1. CASE ReadDuckling
  BY <1>0, <1>1 DEF ReadDuckling, End
<1>2. CASE DeleteDuckling
  BY <1>2 DEF DeleteDuckling, End
<1>3. CASE ImportDuckling
  BY <1>0, <1>3 DEF ImportDuckling, Spellings, EditOnce, End
<1>4. CASE EditDuckling
  BY <1>4 DEF EditDuckling, Spellings, EditOnce
<1>5. CASE LatePut
  BY <1>5 DEF LatePut, adminVars, DucklingRequests
<1>6. CASE OutsideDuckling
  BY <1>0, <1>6 DEF OutsideDuckling, DucklingRequests, Settings, Sizes
<1>7. QED
  BY <1>1, <1>2, <1>3, <1>4, <1>5, <1>6

LEMMA DucklingNextKeeps ==
  ASSUME IInv, managed = "duckling", DucklingNext, UNCHANGED tokenVars
  PROVE  IInv'
<1>1. DucklingPart /\ live = {}
  BY DEF IInv, TypeOK, DucklingPart, ApiInv
<1>2. DucklingPart'
  BY <1>1, StartPutKeeps, PutKeeps, DucklingOthersKeep DEF DucklingNext
<1>3. /\ pc' \in {"list", "revoke"} => pc' = pc
      /\ managed' = managed
  BY DEF DucklingNext, StartPut, PutDuckling, ReadDuckling, DeleteDuckling, ImportDuckling,
         EditDuckling, LatePut, OutsideDuckling, Begin, End, EditOnce, adminVars
<1>4. TokenTypeOK' /\ ApiInv' /\ OrphanTold' /\ SecretMatches'
  BY <1>1, <1>3
  DEF IInv, TypeOK, TokenTypeOK, ApiInv, OrphanTold, SecretMatches, tokenVars, Made
<1>5. QED
  BY <1>2, <1>4 DEF IInv, TypeOK, DucklingPart

-----------------------------------------------------------------------------
(* Theorems.                                                               *)

\* The inductive invariant: where the handlers stand, what the state knows of
\* the tokens, and what a plan was made from.
THEOREM Invariant == Spec => []IInv
<1>1. IInv /\ [Next]_vars => IInv'
  <2> SUFFICES ASSUME IInv, [Next]_vars PROVE IInv'
    OBVIOUS
  <2>1. CASE UNCHANGED vars
    BY <2>1
    DEF vars, adminVars, tokenVars, ducklingVars, IInv, TypeOK, TokenTypeOK,
        DucklingTypeOK, HandlerInv, ApiInv, PlanInv, OrphanTold, SecretMatches, Made
  <2>2. QED
    BY <2>1, TokenNextKeeps, DucklingNextKeeps DEF Next, Either
<1>2. QED
  BY <1>1, InvInit, PTL DEF Spec

\* Type correctness.
THEOREM TypeCorrect == Spec => []TypeOK
<1>1. IInv => TypeOK
  BY DEF IInv
<1>2. QED
  BY <1>1, Invariant, PTL

\* No live token whose POST was answered is lost without a word, and the secret
\* in the state is that of the token in the state.
THEOREM CredentialsAccounted == Spec => []TokensAccounted
<1>1. IInv => TokensAccounted
  BY DEF IInv, TokensAccounted
<1>2. QED
  BY <1>1, Invariant, PTL

\* Only these steps of the token change its state while it is refreshed or
\* made.
LEMMA TokenSteps ==
  ASSUME IInv, [Next]_vars
  PROVE  /\ pc = "list" /\ held # None /\ held' = None => LossIsToldStep
         /\ pc = "mint" /\ held' # None => TokenAsAskedStep
<1>1. TokenPart /\ (pc = "mint" => held = None)
  BY DEF IInv, TypeOK, TokenPart, HandlerInv
<1>2. CASE managed = "token" /\ TokenNext
  <2>1. CASE FetchTokens
    BY <1>1, <1>2, <2>1, FetchTokensKeeps DEF FetchTokens
  <2>2. CASE CreateToken
    BY <1>1, <1>2, <2>2, CreateTokenKeeps DEF CreateToken
  <2>3. CASE ~FetchTokens /\ ~CreateToken
    BY <1>1, <1>2, <2>3
    DEF TokenNext, StartMint, StartList, RecordSpelling, StartRevoke, DeleteToken,
        ImportToken, EditToken, LateMint, OutsideToken, Begin, EditOnce, tokenVars
  <2>4. QED
    BY <2>1, <2>2, <2>3
<1>3. CASE UNCHANGED held
  BY <1>1, <1>3 DEF TokenAsAskedStep
<1>4. QED
  BY <1>2, <1>3 DEF Next, Either, vars, tokenVars

\* A refresh that reports nothing forgets no live token.
THEOREM LossTold == Spec => LossIsTold
<1>1. IInv /\ [Next]_vars => [LossIsToldStep]_tokenVars
  BY TokenSteps DEF LossIsToldStep
<1>2. QED
  BY <1>1, Invariant, PTL DEF Spec, LossIsTold

\* A Create without an error leaves a live token as it was asked for.
LEMMA MintedAsAsked == Spec => TokenAsAsked
<1>1. IInv /\ [Next]_vars => [TokenAsAskedStep]_tokenVars
  BY TokenSteps DEF TokenAsAskedStep
<1>2. QED
  BY <1>1, Invariant, PTL DEF Spec, TokenAsAsked

\* Only the PUT ends a handler that puts.
LEMMA PutSteps ==
  ASSUME IInv, [Next]_vars, pc = "put", pc' = "idle"
  PROVE  UnsetKeepsLiveStep /\ PlanKeptStep /\ DucklingAsAskedStep
<1>1. DucklingPart
  BY DEF IInv, TypeOK, DucklingPart
<1>2. PutDuckling
  BY DEF Next, Either, vars, TokenNext, DucklingNext, StartMint, CreateToken, StartList,
         FetchTokens, RecordSpelling, StartRevoke, DeleteToken, ImportToken, EditToken,
         LateMint, OutsideToken, StartPut, ReadDuckling, DeleteDuckling, ImportDuckling,
         EditDuckling, LatePut, OutsideDuckling, Begin, EditOnce, adminVars
<1>3. QED
  BY <1>1, <1>2, PutKeeps

\* A cooldown that is not managed stays as it is.
THEOREM UnmanagedKept == Spec => UnsetKeepsLive
<1>1. IInv /\ [Next]_vars => [UnsetKeepsLiveStep]_<<pc, ducklingVars>>
  BY PutSteps DEF UnsetKeepsLiveStep
<1>2. QED
  BY <1>1, Invariant, PTL DEF Spec, UnsetKeepsLive

\* The state has what was planned.
LEMMA PlansKept == Spec => PlanKept
<1>1. IInv /\ [Next]_vars => [PlanKeptStep]_<<pc, ducklingVars>>
  BY PutSteps DEF PlanKeptStep
<1>2. QED
  BY <1>1, Invariant, PTL DEF Spec, PlanKept

\* MotherDuck stores what is configured.
LEMMA PutAsAsked == Spec => DucklingAsAsked
<1>1. IInv /\ [Next]_vars => [DucklingAsAskedStep]_<<pc, ducklingVars>>
  BY PutSteps DEF DucklingAsAskedStep
<1>2. QED
  BY <1>1, Invariant, PTL DEF Spec, DucklingAsAsked

\* An apply that reports no error did what was asked and what was planned.
THEOREM AppliesDoAsAsked == Spec => AppliedAsAsked
  BY MintedAsAsked, PlansKept, PutAsAsked DEF AppliedAsAsked
=============================================================================
