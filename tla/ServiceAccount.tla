--------------------------- MODULE ServiceAccount ---------------------------
(***************************************************************************)
(* The motherduck_service_account resource for one username               *)
(* (internal/resources/rest_resources.go) and the user listing it relies   *)
(* on (ListUsers in internal/client/rest/client.go).                       *)
(*                                                                         *)
(* The API has no lookup by username.  A handler walks the organization's  *)
(* user listing page by page, by offset, while other people create and     *)
(* delete users, so a page boundary can skip a user or repeat one.  What   *)
(* it concludes decides whether Terraform forgets an account or deletes a  *)
(* user with everything it owns.                                           *)
(*                                                                         *)
(* Each request is one step that reads or changes the API's users, as      *)
(* RestContract allows: POST takes effect once at most, possibly after its *)
(* handler gave up, and DELETE any number of times, possibly late.         *)
(***************************************************************************)
EXTENDS Integers, FiniteSets

CONSTANTS
  Ids,          \* user IDs, in the order the API lists them; never reused
  Named,        \* the IDs that users with the resource's username will have
  Services,     \* the IDs that are service accounts; the others are humans
  None,         \* no user
  PageSize,     \* users on a page
  StrayTokens,  \* page tokens the API may answer with although it should not
  MaxCalls      \* bound on the handlers Terraform calls

ASSUME IdsAssumption ==
  /\ Ids \subseteq Nat
  /\ IsFiniteSet(Ids)
  /\ Named \subseteq Ids
  /\ Services \subseteq Ids
  /\ None \notin Ids

ASSUME PagingAssumption ==
  /\ PageSize \in Nat \ {0}
  /\ StrayTokens \subseteq 0..Cardinality(Ids)
  /\ MaxCalls \in Nat

VARIABLES
  users,     \* the organization's users
  born,      \* every user there has ever been
  filters,   \* whether the API honours is_service_account
  recorded,  \* the account is in Terraform's state
  op,        \* the handler that runs
  pc,        \* where it stands
  call,      \* its number; 0 before the first
  since,     \* born when each handler started
  calm,      \* since it started, users has not changed and the API has answered
             \* with the page tokens it should
  pass,      \* findUser: the listing it walks
  cursor,    \* collectPages: offset of the next page
  seen,      \* collectPages: page tokens met so far
  items,     \* ListUsers: the users collected, each once
  found,     \* findUser: its result
  posts,     \* handlers whose POST is on its way to the API
  dels,      \* handlers whose DELETE the API may still carry out
  answered,  \* the API has carried out this handler's POST or DELETE
  victims    \* users removed by a DELETE whose handler started after them

apiVars  == <<users, born>>
walkVars == <<pass, cursor, seen, items>>
wireVars == <<posts, dels, answered, victims>>
vars == <<apiVars, filters, recorded, op, pc, call, since, calm, walkVars,
          found, wireVars>>

Ops == {"create", "read", "import", "delete"}
PCs == {"idle", "post", "list", "match", "verdict", "probe", "delete"}

Live(i) == i \in users

\* The organization starts with any users, at most one of them of that name.
Init ==
  /\ users \in {s \in SUBSET Ids : \A i, j \in s \cap Named : i = j}
  /\ born = users
  /\ filters \in BOOLEAN
  /\ recorded = FALSE
  /\ op = "none"
  /\ pc = "idle"
  /\ call = 0
  /\ since = [c \in 1..MaxCalls |-> {}]
  /\ calm = TRUE
  /\ pass = "service"
  /\ cursor = 0
  /\ seen = {}
  /\ items = {}
  /\ found = None
  /\ posts = {}
  /\ dels = {}
  /\ answered = FALSE
  /\ victims = {}

-----------------------------------------------------------------------------
(* The listing of the API.                                                 *)

\* GET /v1/users with the filter of the current pass.
Listing ==
  {i \in users : filters => (i \in Services <=> pass = "service")}

Offset(i) == Cardinality({j \in Listing : j < i})

Page == {i \in Listing : cursor <= Offset(i) /\ Offset(i) < cursor + PageSize}

\* The page token of the next page, 0 for none, and what the API may answer.
NextToken == IF Cardinality(Listing) > cursor + PageSize
             THEN cursor + PageSize ELSE 0
Tokens == {NextToken} \cup StrayTokens

-----------------------------------------------------------------------------
(* Decisions; Slip marks a plausible mistake no action uses.               *)

\* Slip: a listing that ends early is taken for the whole listing.
SlipLastPage(token) == token = 0 \/ items # {}
\* collectPages: only an empty token ends the walk.
LastPage(token) == token = 0

\* Slip: the token is taken for a step from the page at hand.
SlipNextCursor(token) == cursor + token
\* collectPages: the token names the next page by itself.
NextCursor(token) == token

\* Slip: a repeated page token is followed.
SlipLooping(token) == FALSE
\* collectPages: a token met before is a pagination loop.
Looping(token) == token \in seen

\* Slip: the filter of the request is trusted.
SlipMayDelete(i) == pass = "service" \/ i \in Services
\* Delete: only a user the API calls a service account is deleted.
MayDelete(i) == i \in Services

\* Slip: a user the listing does not have is gone.
SlipConfirmedGone == TRUE
\* confirmUserGone: NOT_FOUND from GET /v1/users/{username}/instances.
ConfirmedGone == users \cap Named = {}

\* Slip: a username that is taken counts as created.
SlipCreated == answered \/ users \cap Named # {}
\* Create: the POST succeeded.
Created == answered

-----------------------------------------------------------------------------
(* Handlers.                                                               *)

\* The handler is over; with ok, the state is as r says.
End(r) ==
  /\ op' = "none"
  /\ pc' = "idle"
  /\ recorded' = r
  /\ pass' = "service"
  /\ cursor' = 0
  /\ seen' = {}
  /\ items' = {}
  /\ found' = None
  /\ answered' = FALSE
  /\ calm' = TRUE
  /\ UNCHANGED <<apiVars, filters, call, since, posts, dels, victims>>

\* Terraform calls a handler.  Create sends its POST.
Begin(o) ==
  /\ op = "none"
  /\ recorded <=> o \in {"read", "delete"}
  /\ op' = o
  /\ call < MaxCalls
  /\ call' = call + 1
  /\ since' = [since EXCEPT ![call + 1] = born]
  /\ calm' = TRUE
  /\ IF o = "create"
       THEN pc' = "post" /\ posts' = posts \cup {call + 1}
       ELSE pc' = "list" /\ UNCHANGED posts
  /\ UNCHANGED <<apiVars, filters, recorded, walkVars, found, dels,
                 answered, victims>>

\* Create: the POST is answered with the new account.
CreateDone ==
  /\ pc = "post"
  /\ Created
  /\ End(TRUE)

\* A request fails, by a transport error or by the API's answer: the handler
\* reports an error and leaves the state alone.
Fails ==
  /\ pc \in {"post", "list", "probe", "delete"}
  /\ End(recorded)

\* collectPages: one page and its token.
FetchPage ==
  /\ pc = "list"
  /\ \E token \in Tokens :
       /\ \/ /\ LastPage(token)
             /\ pc' = "match"
             /\ UNCHANGED <<cursor, seen>>
          \/ /\ ~LastPage(token) /\ ~Looping(token)
             /\ cursor' = NextCursor(token)
             /\ seen' = seen \cup {token}
             /\ UNCHANGED pc
       /\ calm' = (calm /\ token = NextToken)
  /\ items' = items \cup Page
  /\ UNCHANGED <<apiVars, filters, recorded, op, call, since, pass,
                 found, wireVars>>

\* collectPages: pagination loop detected.
PagesLoop ==
  /\ pc = "list"
  /\ \E token \in Tokens : ~LastPage(token) /\ Looping(token)
  /\ End(recorded)

\* findUser: a user of that name is in the listing; the first one is taken.
Match ==
  /\ pc = "match"
  /\ found' \in items \cap Named
  /\ pc' = "verdict"
  /\ UNCHANGED <<apiVars, filters, recorded, op, call, since, calm,
                 walkVars, wireVars>>

\* findUser: no match among the service accounts, so the humans come next;
\* no match there either, so the caller probes for the name.
NoMatch ==
  /\ pc = "match"
  /\ items \cap Named = {}
  /\ IF pass = "service"
       THEN /\ pass' = "human"
            /\ pc' = "list"
            /\ cursor' = 0
            /\ seen' = {}
            /\ items' = {}
       ELSE /\ pc' = "probe"
            /\ UNCHANGED walkVars
  /\ UNCHANGED <<apiVars, filters, recorded, op, call, since, calm, found,
                 wireVars>>

\* Read, and Read after an import: a service account is kept or taken into
\* the state, a human is refused.
ReadVerdict ==
  /\ pc = "verdict"
  /\ op \in {"read", "import"}
  /\ End(recorded \/ found \in Services)

\* Delete: the account is a service account and the DELETE goes out.
DeleteVerified ==
  /\ pc = "verdict"
  /\ op = "delete"
  /\ MayDelete(found)
  /\ dels' = dels \cup {call}
  /\ pc' = "delete"
  /\ UNCHANGED <<apiVars, filters, recorded, op, call, since, calm,
                 walkVars, found, posts, answered, victims>>

\* Delete: the name belongs to a human.
DeleteRefused ==
  /\ pc = "verdict"
  /\ op = "delete"
  /\ ~MayDelete(found)
  /\ End(recorded)

\* Read and Delete: the probe says the user is gone.
Gone ==
  /\ pc = "probe"
  /\ ConfirmedGone
  /\ End(FALSE)

\* Read and Delete: the user exists although no page had it.
Unconfirmed ==
  /\ pc = "probe"
  /\ ~ConfirmedGone
  /\ End(recorded)

\* Delete: the DELETE is answered, by success or by NOT_FOUND.
DeleteDone ==
  /\ pc = "delete"
  /\ answered
  /\ End(FALSE)

-----------------------------------------------------------------------------
(* The API and its other users.                                            *)

\* A user appears; usernames are unique in the organization.
Appears(i) ==
  /\ i \notin born
  /\ i \in Named => users \cap Named = {}
  /\ users' = users \cup {i}
  /\ born' = born \cup {i}

\* The API carries out a POST.
ProcessPost(c) ==
  /\ c \in posts
  /\ posts' = posts \ {c}
  /\ \E i \in Named \cap Services : Appears(i)
  /\ answered' = (answered \/ (pc = "post" /\ call = c))
  /\ calm' = FALSE
  /\ UNCHANGED <<filters, recorded, op, pc, call, since, walkVars, found,
                 dels, victims>>

\* A POST is lost, or refused because the name is taken.
DropPost(c) ==
  /\ c \in posts
  /\ posts' = posts \ {c}
  /\ UNCHANGED <<apiVars, filters, recorded, op, pc, call, since, calm,
                 walkVars, found, dels, answered, victims>>

\* The API carries out one copy of a DELETE.
ProcessDelete(c) ==
  /\ c \in dels
  /\ users' = users \ Named
  /\ victims' = victims \cup (users \cap Named \cap since[c])
  /\ answered' = (answered \/ (pc = "delete" /\ call = c))
  /\ calm' = FALSE
  /\ UNCHANGED <<born, filters, recorded, op, pc, call, since, walkVars,
                 found, posts, dels>>

\* No copy of a DELETE is left.
DropDelete(c) ==
  /\ c \in dels
  /\ dels' = dels \ {c}
  /\ UNCHANGED <<apiVars, filters, recorded, op, pc, call, since, calm,
                 walkVars, found, posts, answered, victims>>

\* Someone else creates or deletes a user.
Elsewhere ==
  /\ \/ \E i \in Ids : Appears(i)
     \/ \E i \in users : users' = users \ {i} /\ UNCHANGED born
  /\ calm' = FALSE
  /\ UNCHANGED <<filters, recorded, op, pc, call, since, walkVars, found,
                 wireVars>>

Handler == \/ CreateDone \/ Fails \/ FetchPage \/ PagesLoop \/ Match
           \/ NoMatch \/ ReadVerdict \/ DeleteVerified \/ DeleteRefused
           \/ Gone \/ Unconfirmed \/ DeleteDone

Next ==
  \/ \E o \in Ops : Begin(o)
  \/ Handler
  \/ \E c \in posts : ProcessPost(c) \/ DropPost(c)
  \/ \E c \in dels : ProcessDelete(c) \/ DropDelete(c)
  \/ Elsewhere

Spec == Init /\ [][Next]_vars

\* Requests return, so a handler keeps moving.
FairSpec == Spec /\ WF_vars(Handler)

-----------------------------------------------------------------------------
(* Properties.                                                             *)

\* Every variable has its type; the cursor is one the API handed out.
TypeOK ==
  /\ users \in SUBSET Ids
  /\ born \in SUBSET Ids
  /\ filters \in BOOLEAN
  /\ recorded \in BOOLEAN
  /\ op \in Ops \cup {"none"}
  /\ pc \in PCs
  /\ call \in 0..MaxCalls
  /\ since \in [1..MaxCalls -> SUBSET Ids]
  /\ calm \in BOOLEAN
  /\ pass \in {"service", "human"}
  /\ cursor \in {0} \cup seen
  /\ seen \in SUBSET (0..Cardinality(Ids))
  /\ items \in SUBSET Ids
  /\ found \in Ids \cup {None}
  /\ posts \in SUBSET (1..MaxCalls)
  /\ dels \in SUBSET (1..MaxCalls)
  /\ answered \in BOOLEAN
  /\ victims \in SUBSET Ids

\* One step's share of ForgetsOnlyGone.
ForgetsOnlyGoneStep ==
  (recorded /\ ~recorded') => users \cap Named \cap since[call] = {}

\* When Read or Delete takes the account out of the state, no user of that
\* name who was there when the handler started is there any more: a live
\* account that a shifting page hid is never forgotten.
ForgetsOnlyGone == [][ForgetsOnlyGoneStep]_vars

\* No human user who was there when Delete started is ever removed by its
\* DELETE, however late that arrives, whatever the pages skipped, and whether
\* or not the API filters.
HumansSpared == victims \subseteq Services

\* When nobody else creates or deletes users, the walk is exact: the probe is
\* reached only if the name is free, and the verdict is about its holder.
CalmWalkIsExact ==
  calm => /\ pc = "probe" => users \cap Named = {}
          /\ pc = "verdict" => found \in users

\* One step's share of NoTakeover.
NoTakeoverStep ==
  (op = "create" /\ recorded') => users \cap Named \cap since[call] = {}

\* Create never takes over an account that was there before it started.
NoTakeover == [][NoTakeoverStep]_vars

\* A walk ends, even if the API answers with page tokens that go in circles.
WalkEnds == op # "none" ~> op = "none"

-----------------------------------------------------------------------------
(* The inductive invariant behind the safety properties.                   *)

\* The users who have the resource's name, and those a handler started after.
Holders == users \cap Named
Known(c) == Holders \cap since[c]

\* Usernames are unique and IDs are not reused.
ApiInv ==
  /\ \A i, j \in Holders : i = j
  /\ users \subseteq born
  /\ \A c \in 1..MaxCalls : since[c] \subseteq born

\* Which handler is where, and which has sent what.
HandlerInv ==
  /\ op = "none" <=> pc = "idle"
  /\ op = "create" <=> pc = "post"
  /\ pc = "delete" => op = "delete"
  /\ op = "none" => ~answered /\ items = {} /\ found = None
  /\ op # "none" => call > 0
  /\ op = "create" => ~recorded
  /\ \A c \in posts \cup dels : c <= call

\* What a handler may conclude.  Once a page or the verdict has shown it a
\* service account of the name, no human of that name it started after is
\* left, and none can come back; once its POST or DELETE has been carried out,
\* no user of that name it started after is left at all.
KnowledgeInv ==
  /\ op # "none" /\ (items \cup {found}) \cap Named \cap Services # {}
       => Known(call) \subseteq Services
  /\ found # None => found \in Named
  /\ pc \in {"verdict", "delete"} => found # None
  /\ \A c \in dels : Known(c) \subseteq Services
  /\ op # "none" /\ answered => Known(call) = {}

\* What a walk of calm users has collected: the listing up to the cursor, and
\* after the last page all of it.  The second listing is walked only if the
\* name is not in the first one, which two listings together exhaust.
WalkInv ==
  /\ op = "none" => pass = "service" /\ cursor = 0
  /\ calm => /\ pc = "list" => items = {i \in Listing : Offset(i) < cursor}
             /\ pc = "match" => items = Listing
             /\ pc \in {"list", "match"} /\ pass = "human"
                  => {i \in users : filters => i \in Services} \cap Named = {}
             /\ CalmWalkIsExact

IInv ==
  TypeOK /\ ApiInv /\ HandlerInv /\ KnowledgeInv /\ HumansSpared /\ WalkInv
=============================================================================
