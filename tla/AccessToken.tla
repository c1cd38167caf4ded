---------------------------- MODULE AccessToken ----------------------------
(***************************************************************************)
(* The motherduck_access_token resource of one user                        *)
(* (internal/resources/rest_resources.go) and ListTokens, which it reads   *)
(* its token with.                                                         *)
(*                                                                         *)
(* A token's secret is answered once, to the POST that mints it.  A token  *)
(* has an ID that the API assigns and a name that is unique among the      *)
(* user's live tokens.  There is no request for one token: Read walks the  *)
(* listing, whose pages, should the API ever cut it, shift as tokens come  *)
(* and go, and whose page tokens may be anything.  A token that is missing *)
(* leaves the state, and the next apply mints another.                     *)
(***************************************************************************)
EXTENDS AdminUser

CONSTANTS
  TokenNames,  \* names of tokens, which differ in nothing else
  FirstName,   \* the one that is configured at first
  MaxTokens,   \* bound on the tokens there will have been
  PageSize     \* tokens on a page of the listing

ASSUME AccessTokenAssumption ==
  /\ FirstName \in TokenNames
  /\ MaxTokens \in Nat /\ PageSize \in Nat \ {0}

Ids == 1..MaxTokens
Requests == [name : TokenNames, desc : BOOLEAN, ttl : BOOLEAN, spell : {0, 1}]
Tokens == [name : TokenNames, desc : BOOLEAN, ttl : BOOLEAN,
           by : {"terraform", "unanswered", "other"}]
TokenStates == [id : Ids, name : TokenNames, desc : BOOLEAN, ttl : BOOLEAN,
                expires : BOOLEAN, secret : Ids \cup {None}, spell : {0, 1},
                tainted : BOOLEAN]

ASSUME NoneIsNoToken == None \notin Ids \cup Requests \cup Tokens \cup TokenStates

VARIABLES
  tokens,   \* every token there has been, by ID; None for those to come
  live,     \* the IDs of those that are neither revoked nor expired
  past,     \* the IDs of those whose time of expiry is past
  stores,   \* the region stores descriptions
  erratic,  \* the API may answer with any page token at all
  want,     \* the token in the configuration, or None
  held,     \* the token in Terraform's state, or None
  asked,    \* Create: the plan
  late,     \* a POST that may be carried out after Create gave up, or None
  cursor,   \* collectPages: the page token of the next page
  seen,     \* collectPages: page tokens met so far
  items,    \* ListTokens: the IDs collected
  told      \* the IDs that a refresh removed from the state with a warning

tokenVars == <<tokens, live, past, stores, erratic, want, held, asked, late,
               cursor, seen, items, told>>
walkVars == <<cursor, seen, items>>

Made == {i \in Ids : tokens[i] # None}
NameTaken(n) == \E i \in live : tokens[i].name = n

-----------------------------------------------------------------------------
(* Decisions; Slip marks a plausible mistake no action uses.               *)

\* Slip: a change of a description that MotherDuck reported replaces nothing.
SlipTokenReplaces(c, s) == c.name # s.name \/ c.ttl # s.ttl
\* The plan modifiers: a configured description that differs replaces the
\* token, one that is left out keeps what is reported.
TokenReplaces(c, s) == c.name # s.name \/ c.ttl # s.ttl \/ (c.desc /\ ~s.desc)

\* setTokenModelFromREST: what the answer to the POST makes of the plan.
Minted(i, c) == [id |-> i, name |-> c.name, desc |-> c.desc /\ stores, ttl |-> c.ttl,
                 expires |-> c.ttl, secret |-> i, spell |-> c.spell, tainted |-> FALSE]

\* Slip: the answer is taken to have the description that was sent.
SlipDescriptionDropped(c) == FALSE
\* Create: the answer lacks the description that was requested.
DescriptionDropped(c) == c.desc /\ ~stores

\* Slip: an error that is met before the state is set leaves nothing there.
SlipUndescribed(i, c) == None
\* Create: the state is set before the description is compared, so that the
\* error taints the token instead of losing it.
Undescribed(i, c) == [Minted(i, c) EXCEPT !.tainted = TRUE]

\* Slip: the token of the name is the resource's.
SlipMatches(i) == tokens[i].name = held.name
\* Read: the token of the ID is the resource's.
Matches(i) == i = held.id

\* setTokenModelFromREST for a listed token; the secret is the one in the state.
Reported(i) == [held EXCEPT !.id = i, !.name = tokens[i].name, !.desc = tokens[i].desc,
                            !.expires = tokens[i].ttl]

\* Slip: a token without a known expiry is taken for one that has expired.
SlipExpired(s) == ~s.expires \/ s.id \in past
\* accessTokenExpired: the recorded time is known and past.
Expired(s) == s.expires /\ s.id \in past

\* Slip: a repeated page token is followed.
SlipLooping(next) == FALSE
\* collectPages: a page token met before is a pagination loop.
Looping(next) == next \in seen

-----------------------------------------------------------------------------
(* The listing.                                                            *)

Offset(i) == Cardinality({j \in live : j < i})
Page == {i \in live : cursor <= Offset(i) /\ Offset(i) < cursor + PageSize}

\* The page token of the next page, 0 for none.  The API hands out none today.
PageTokens == {IF Cardinality(live) > cursor + PageSize THEN cursor + PageSize ELSE 0}
              \cup IF erratic THEN 0..MaxTokens ELSE {}

-----------------------------------------------------------------------------
(* Handlers.                                                               *)

Mint(i, c, by) ==
  /\ i \in Ids \ Made /\ i - 1 \in Made \cup {0}
  /\ tokens' = [tokens EXCEPT ![i] = [name |-> c.name, desc |-> c.desc /\ stores,
                                      ttl |-> c.ttl, by |-> by]]
  /\ live' = live \cup {i}

StartMint ==
  /\ want # None /\ held = None /\ Made # Ids
  /\ Begin("mint")
  /\ asked' = want
  /\ UNCHANGED <<managed, user, faults, edits, outside, tokens, live, past,
                 stores, erratic, want, held, late, walkVars, told>>

\* The POST is refused, fails and is never carried out, is carried out without
\* an answer, perhaps late, or is answered.
CreateToken ==
  /\ pc = "mint"
  /\ asked' = None
  /\ \/ /\ UserNotFound \/ NameTaken(asked.name) \/ Made = Ids
        /\ NoFault /\ End("error") /\ UNCHANGED <<tokens, live, held, late>>
     \/ /\ Fault /\ End("error")
        /\ late' \in {late, asked}
        /\ UNCHANGED <<tokens, live, held>>
     \/ /\ ~UserNotFound /\ ~NameTaken(asked.name)
        /\ UNCHANGED late
        /\ \E i \in Ids :
             \/ /\ Fault /\ Mint(i, asked, "unanswered")
                /\ End("error") /\ UNCHANGED held
             \/ /\ NoFault /\ Mint(i, asked, "terraform")
                /\ IF DescriptionDropped(asked)
                   THEN held' = Undescribed(i, asked) /\ End("error")
                   ELSE held' = Minted(i, asked) /\ End("ok")
  /\ UNCHANGED <<managed, user, edits, outside, past, stores, erratic, want, walkVars,
                 told>>

\* Read.
StartList ==
  /\ held # None
  /\ Begin("list")
  /\ UNCHANGED <<managed, user, faults, edits, outside, tokenVars>>

WalkOver == cursor' = 0 /\ seen' = {} /\ items' = {}

\* Read after the last page, with the tokens all collected: the resource's
\* token is recorded, or leaves the state with a warning unless it expired.
Verdict(all) ==
  \/ \E i \in all : /\ Matches(i)
                    /\ held' = Reported(i) /\ End("ok") /\ UNCHANGED told
  \/ /\ \A i \in all : ~Matches(i)
     /\ held' = None
     /\ IF Expired(held) THEN End("ok") /\ UNCHANGED told
                         ELSE End("warning") /\ told' = told \cup {held.id}

\* collectPages: one page and the page token of the next.
FetchTokens ==
  /\ pc = "list"
  /\ \/ /\ UserNotFound
        /\ NoFault /\ held' = None /\ End("ok") /\ WalkOver /\ UNCHANGED told
     \/ Fault /\ End("error") /\ WalkOver /\ UNCHANGED <<held, told>>
     \/ /\ ~UserNotFound
        /\ NoFault
        /\ \E next \in PageTokens :
             \/ next = 0 /\ Verdict(items \cup Page) /\ WalkOver
             \/ /\ next # 0 /\ Looping(next)
                /\ End("error") /\ WalkOver /\ UNCHANGED <<held, told>>
             \/ /\ next # 0 /\ ~Looping(next)
                /\ cursor' = next /\ seen' = seen \cup {next}
                /\ items' = items \cup Page
                /\ UNCHANGED <<pc, said, held, told>>
  /\ UNCHANGED <<managed, user, edits, outside, tokens, live, past, stores,
                 erratic, want, asked, late>>

\* Update: a username in another letter case, without a request.
RecordSpelling ==
  /\ pc = "idle" /\ want # None /\ held # None
  /\ ~held.tainted /\ ~TokenReplaces(want, held) /\ want.spell # held.spell
  /\ held' = [held EXCEPT !.spell = want.spell]
  /\ End("ok")
  /\ UNCHANGED <<managed, user, faults, edits, outside, tokens, live, past,
                 stores, erratic, want, asked, late, walkVars, told>>

\* The resource is no longer configured, or is replaced.
StartRevoke ==
  /\ held # None
  /\ IF want = None THEN TRUE ELSE held.tainted \/ TokenReplaces(want, held)
  /\ Begin("revoke")
  /\ UNCHANGED <<managed, user, faults, edits, outside, tokenVars>>

\* Delete: a token that is not found is revoked already.
DeleteToken ==
  /\ pc = "revoke"
  /\ \/ NoFault /\ live' = live \ {held.id} /\ held' = None /\ End("ok")
     \/ Fault /\ live' \in {live, live \ {held.id}} /\ End("error") /\ UNCHANGED held
  /\ UNCHANGED <<managed, user, edits, outside, tokens, past, stores, erratic, want,
                 asked, late, walkVars, told>>

\* ImportState and the Read that follows; neither knows the secret or the TTL.
ImportToken ==
  /\ EditOnce /\ held = None
  /\ \E i \in live, s \in {0, 1} :
       held' = [id |-> i, name |-> tokens[i].name, desc |-> tokens[i].desc,
                ttl |-> FALSE, expires |-> tokens[i].ttl, secret |-> None,
                spell |-> s, tainted |-> FALSE]
  /\ End("ok")
  /\ UNCHANGED <<managed, user, faults, outside, tokens, live, past, stores,
                 erratic, want, asked, late, walkVars, told>>

-----------------------------------------------------------------------------
(* The practitioner, the API and everybody else.                           *)

EditToken ==
  /\ EditOnce
  /\ want' \in Requests \cup {None}
  /\ want' # want
  /\ UNCHANGED <<managed, user, pc, said, faults, outside, tokens, live, past,
                 stores, erratic, held, asked, late, walkVars, told>>

\* The API carries out the POST that Create gave up, or refuses it.
LateMint ==
  /\ late # None
  /\ late' = None
  /\ IF user /\ ~NameTaken(late.name) /\ Made # Ids
     THEN \E i \in Ids : Mint(i, late, "unanswered")
     ELSE UNCHANGED <<tokens, live>>
  /\ UNCHANGED <<adminVars, past, stores, erratic, want, held, asked, walkVars, told>>

\* Somebody mints or revokes a token, a token expires, the region is updated,
\* or the user is deleted or comes back.
OutsideToken ==
  /\ OutsideOnce
  /\ \/ /\ user
        /\ \E i \in Ids, n \in TokenNames :
             /\ ~NameTaken(n)
             /\ Mint(i, [name |-> n, desc |-> FALSE, ttl |-> FALSE], "other")
        /\ UNCHANGED <<user, past, stores>>
     \/ \E i \in live : live' = live \ {i} /\ UNCHANGED <<user, tokens, past, stores>>
     \/ \E i \in live : /\ tokens[i].ttl
                        /\ live' = live \ {i} /\ past' = past \cup {i}
                        /\ UNCHANGED <<user, tokens, stores>>
     \/ ~stores /\ stores' = TRUE /\ UNCHANGED <<user, tokens, live, past>>
     \/ /\ user' = ~user
        /\ live' = {}
        /\ UNCHANGED <<tokens, past, stores>>
  /\ UNCHANGED <<managed, pc, said, faults, edits, erratic, want, held, asked, late,
                 walkVars, told>>

TokenInit ==
  /\ tokens = [i \in Ids |-> None]
  /\ live = {} /\ past = {}
  /\ stores \in IF managed = "token" THEN BOOLEAN ELSE {TRUE}
  /\ erratic \in IF managed = "token" THEN BOOLEAN ELSE {FALSE}
  /\ want \in IF managed = "token" THEN {r \in Requests : r.name = FirstName /\ r.spell = 0} ELSE {None}
  /\ held = None /\ asked = None /\ late = None
  /\ cursor = 0 /\ seen = {} /\ items = {}
  /\ told = {}

TokenHandler == CreateToken \/ FetchTokens \/ DeleteToken

TokenNext ==
  \/ StartMint \/ CreateToken \/ StartList \/ FetchTokens \/ RecordSpelling
  \/ StartRevoke \/ DeleteToken \/ ImportToken \/ EditToken \/ LateMint
  \/ OutsideToken

-----------------------------------------------------------------------------
(* Properties.                                                             *)

TokenTypeOK ==
  /\ tokens \in [Ids -> Tokens \cup {None}]
  /\ live \subseteq Made /\ past \subseteq Made /\ told \subseteq Made
  /\ want \in Requests \cup {None}
  /\ held \in TokenStates \cup {None}
  /\ asked \in Requests \cup {None}
  /\ late \in Requests \cup {None}
  /\ pc \in {"list", "revoke"} => held # None
  /\ cursor \in seen \cup {0} /\ seen \subseteq Ids /\ items \subseteq Made

\* A live token whose POST was answered is the one in the state, or a warning
\* said that it left the state: no error of Create and no page that shifts
\* leaves a credential behind that nobody was told of.
OrphanTold ==
  \A i \in live :
    tokens[i].by = "terraform" => (held # None /\ held.id = i) \/ i \in told

\* The secret in the state opens the token in the state, never the one that
\* somebody else minted under its name.
SecretMatches == held # None => held.secret \in {None, held.id}

\* One step's share of LossIsTold.
LossIsToldStep ==
  held # None /\ held' = None /\ said' = "ok" /\ pc = "list" => held.id \notin live

\* A refresh that says nothing forgets no live token, whatever the pages hide.
LossIsTold == [][LossIsToldStep]_tokenVars

\* One step's share of TokenAsAsked.
TokenAsAskedStep ==
  pc = "mint" /\ held' # None /\ said' = "ok" =>
    /\ held'.id \in live'
    /\ tokens'[held'.id].name = asked.name
    /\ tokens'[held'.id].desc = asked.desc
    /\ held'.secret = held'.id

\* A Create that reports no error leaves, undisturbed, a live token as it was
\* asked for, the description included.
TokenAsAsked == [][TokenAsAskedStep]_tokenVars

\* A walk ends, even if the API answers with page tokens that go in circles.
WalkEnds == pc = "list" ~> pc # "list"

\* The token is as configured.
TokenSettled ==
  IF want = None THEN held = None
  ELSE /\ held # None
       /\ held.id \in live /\ ~held.tainted
       /\ tokens[held.id].name = want.name /\ held.spell = want.spell
       /\ want.desc => tokens[held.id].desc
       /\ held.ttl = want.ttl

\* What is configured can be had: the user is there, the region stores what is
\* asked for, the name is not taken by another token, the pages are in order.
TokenFeasible ==
  want # None =>
    /\ user
    /\ ~erratic
    /\ want.desc => stores
    /\ \A i \in live : tokens[i].name = want.name => held # None /\ held.id = i
    /\ Made # Ids \/ TokenSettled

\* Repeated applies settle.
TokenConverges == <>[](managed = "token" /\ TokenFeasible) => <>[]TokenSettled
=============================================================================
