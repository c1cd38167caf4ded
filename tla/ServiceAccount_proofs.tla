------------------------ MODULE ServiceAccount_proofs ------------------------
(* Proofs about ServiceAccount, for every organization and page size.      *)
EXTENDS ServiceAccount, FiniteSetTheorems, TLAPS

USE DEF apiVars, walkVars, wireVars

\* Page tokens are offsets into the listing, which has no more than the users
\* there can be.
LEMMA TokensAreOffsets ==
  ASSUME TypeOK
  PROVE  Tokens \subseteq 0..Cardinality(Ids)
<1>1. IsFiniteSet(Ids) /\ Cardinality(Ids) \in Nat
  BY IdsAssumption, FS_CardinalityType
<1>2. Listing \in SUBSET Ids
  BY DEF Listing, TypeOK
<1>3. IsFiniteSet(Listing) /\ Cardinality(Listing) <= Cardinality(Ids)
  BY <1>1, <1>2, FS_Subset
<1>4. Cardinality(Listing) \in Nat
  BY <1>3, FS_CardinalityType
<1>5. cursor + PageSize \in Nat
  BY <1>1, PagingAssumption DEF TypeOK
<1>6. NextToken \in 0..Cardinality(Ids)
  BY <1>1, <1>3, <1>4, <1>5 DEF NextToken
<1>7. QED
  BY <1>6, PagingAssumption DEF Tokens

\* The handlers' last steps all end them; only four may change the state.
LEMMA Ends ==
  ASSUME TypeOK,
         CreateDone \/ Fails \/ PagesLoop \/ ReadVerdict \/ DeleteRefused
           \/ Gone \/ Unconfirmed \/ DeleteDone
  PROVE  /\ \E r \in BOOLEAN : End(r)
         /\ recorded /\ ~recorded' => Gone \/ DeleteDone
         /\ ~recorded /\ recorded' => CreateDone \/ ReadVerdict
<1>1. recorded \in BOOLEAN /\ (recorded \/ found \in Services) \in BOOLEAN
  BY DEF TypeOK
<1>2. CASE CreateDone
  BY <1>1, <1>2 DEF CreateDone, End
<1>3. CASE Fails
  BY <1>1, <1>3 DEF Fails, End
<1>4. CASE PagesLoop
  BY <1>1, <1>4 DEF PagesLoop, End
<1>5. CASE ReadVerdict
  BY <1>1, <1>5 DEF ReadVerdict, End
<1>6. CASE DeleteRefused
  BY <1>1, <1>6 DEF DeleteRefused, End
<1>7. CASE Gone
  BY <1>1, <1>7 DEF Gone, End
<1>8. CASE Unconfirmed
  BY <1>1, <1>8 DEF Unconfirmed, End
<1>9. CASE DeleteDone
  BY <1>1, <1>9 DEF DeleteDone, End
<1>10. QED
  BY <1>2, <1>3, <1>4, <1>5, <1>6, <1>7, <1>8, <1>9

\* The invariant holds when Terraform starts.
LEMMA InvInit == Init => IInv
<1> SUFFICES ASSUME Init PROVE IInv
  OBVIOUS
<1>1. 0 \in 0..Cardinality(Ids)
  BY IdsAssumption, FS_CardinalityType
<1>2. 0 \in 0..MaxCalls
  BY PagingAssumption
<1>3. TypeOK
  BY <1>1, <1>2 DEF Init, TypeOK, PCs
<1>4. ApiInv /\ HandlerInv /\ HumansSpared /\ WalkInv
  BY DEF Init, ApiInv, HandlerInv, HumansSpared, Holders, WalkInv, CalmWalkIsExact
<1>5. KnowledgeInv
  BY DEF Init, KnowledgeInv
<1>6. QED
  BY <1>3, <1>4, <1>5 DEF IInv

\* Variables keep their types.
LEMMA TypeNext == IInv /\ [Next]_vars => TypeOK'
<1> SUFFICES ASSUME IInv, [Next]_vars PROVE TypeOK'
  OBVIOUS
<1> USE PagingAssumption, IdsAssumption DEF TypeOK, PCs, Ops
<1>0. TypeOK /\ HandlerInv
  BY DEF IInv
<1>1. 0 \in 0..Cardinality(Ids)
  BY FS_CardinalityType
<1>2. ASSUME NEW r \in BOOLEAN, End(r)
      PROVE  TypeOK'
  BY <1>0, <1>1, <1>2 DEF End
<1>3. ASSUME NEW o \in Ops, Begin(o)
      PROVE  TypeOK'
  <2>1. call + 1 \in 1..MaxCalls
    BY <1>0, <1>3 DEF Begin
  <2>2. since' \in [1..MaxCalls -> SUBSET Ids]
    BY <1>0, <1>3, <2>1 DEF Begin
  <2>3. posts' \in SUBSET (1..MaxCalls)
    BY <1>0, <1>3, <2>1 DEF Begin
  <2>4. QED
    BY <1>0, <1>3, <2>1, <2>2, <2>3 DEF Begin
<1>4. CASE FetchPage
  <2>1. Page \in SUBSET Ids
    BY <1>0 DEF Page, Listing
  <2>2. PICK token \in Tokens :
          /\ \/ LastPage(token) /\ pc' = "match" /\ UNCHANGED <<cursor, seen>>
             \/ cursor' = token /\ seen' = seen \cup {token} /\ UNCHANGED pc
          /\ calm' = (calm /\ token = NextToken)
    BY <1>4 DEF FetchPage, NextCursor
  <2>3. token \in 0..Cardinality(Ids)
    BY <1>0, TokensAreOffsets
  <2>4. QED
    BY <1>0, <1>4, <2>1, <2>2, <2>3 DEF FetchPage
<1>5. CASE Match \/ NoMatch
  BY <1>0, <1>1, <1>5 DEF Match, NoMatch
<1>6. CASE DeleteVerified
  BY <1>0, <1>6 DEF DeleteVerified, HandlerInv
<1>7. ASSUME NEW c \in posts, ProcessPost(c) \/ DropPost(c)
      PROVE  TypeOK'
  <2>1. users' \in SUBSET Ids /\ born' \in SUBSET Ids
    BY <1>0, <1>7 DEF ProcessPost, DropPost, Appears
  <2>2. QED
    BY <1>0, <1>7, <2>1 DEF ProcessPost, DropPost
<1>8. ASSUME NEW c \in dels, ProcessDelete(c) \/ DropDelete(c)
      PROVE  TypeOK'
  BY <1>0, <1>8 DEF ProcessDelete, DropDelete
<1>9. CASE Elsewhere
  <2>1. users' \in SUBSET Ids /\ born' \in SUBSET Ids
    BY <1>0, <1>9 DEF Elsewhere, Appears
  <2>2. QED
    BY <1>0, <1>9, <2>1 DEF Elsewhere
<1>10. CASE UNCHANGED vars
  BY <1>0, <1>10 DEF vars
<1>11. QED
  BY <1>0, <1>2, <1>3, <1>4, <1>5, <1>6, <1>7, <1>8, <1>9, <1>10, Ends
  DEF Next, Handler

\* Unique usernames and fresh IDs stay so.
LEMMA ApiNext == IInv /\ [Next]_vars => ApiInv'
<1> SUFFICES ASSUME IInv, [Next]_vars PROVE ApiInv'
  OBVIOUS
<1> USE DEF ApiInv, Holders
<1>0. TypeOK /\ ApiInv
  BY DEF IInv
<1>1. CASE UNCHANGED <<users, born, since>>
  BY <1>0, <1>1
<1>2. ASSUME NEW o \in Ops, Begin(o)
      PROVE  ApiInv'
  BY <1>0, <1>2 DEF Begin, TypeOK
<1>3. ASSUME NEW i, Appears(i), UNCHANGED since
      PROVE  ApiInv'
  BY <1>0, <1>3 DEF Appears
<1>4. CASE users' \subseteq users /\ UNCHANGED <<born, since>>
  BY <1>0, <1>4
<1>5. CASE Handler
  <2>1. UNCHANGED <<users, born, since>>
    BY <1>0, <1>5, Ends
    DEF Handler, FetchPage, Match, NoMatch, DeleteVerified, End
  <2>2. QED
    BY <1>1, <2>1
<1>6. ASSUME NEW c \in posts, ProcessPost(c) \/ DropPost(c)
      PROVE  ApiInv'
  BY <1>1, <1>3, <1>6 DEF ProcessPost, DropPost
<1>7. ASSUME NEW c \in dels, ProcessDelete(c) \/ DropDelete(c)
      PROVE  ApiInv'
  BY <1>1, <1>4, <1>7 DEF ProcessDelete, DropDelete
<1>8. CASE Elsewhere
  BY <1>3, <1>4, <1>8 DEF Elsewhere
<1>9. QED
  BY <1>1, <1>2, <1>5, <1>6, <1>7, <1>8 DEF Next, vars

\* Handlers stay where they belong, and requests belong to handlers.
LEMMA HandlerNext == IInv /\ [Next]_vars => HandlerInv'
<1> SUFFICES ASSUME IInv, [Next]_vars PROVE HandlerInv'
  OBVIOUS
<1> USE DEF HandlerInv
<1>0. TypeOK /\ HandlerInv
  BY DEF IInv
<1>1. ASSUME NEW r \in BOOLEAN, End(r)
      PROVE  HandlerInv'
  BY <1>0, <1>1 DEF End
<1>2. ASSUME NEW o \in Ops, Begin(o)
      PROVE  HandlerInv'
  <2>1. call \in Nat /\ call' = call + 1 /\ call' > 0
    BY <1>0, <1>2, PagingAssumption DEF Begin, TypeOK
  <2>2. \A c \in posts' \cup dels' : c <= call'
    <3>1. dels' = dels /\ posts' \subseteq posts \cup {call + 1}
      BY <1>2 DEF Begin
    <3>2. \A c \in posts \cup dels : c \in Int /\ c <= call
      BY <1>0, PagingAssumption DEF TypeOK
    <3>3. QED
      BY <2>1, <3>1, <3>2
  <2>3. QED
    BY <1>0, <1>2, <2>1, <2>2 DEF Begin, Ops
<1>3. CASE FetchPage \/ Match \/ NoMatch
  BY <1>0, <1>3 DEF FetchPage, Match, NoMatch
<1>4. CASE DeleteVerified
  BY <1>0, <1>4 DEF DeleteVerified, TypeOK
<1>5. ASSUME NEW c \in posts, ProcessPost(c) \/ DropPost(c)
      PROVE  HandlerInv'
  <2>1. \A d \in posts' \cup dels' : d <= call'
    BY <1>0, <1>5 DEF ProcessPost, DropPost
  <2>2. QED
    <3>1. op = "none" => ~answered'
      BY <1>0, <1>5 DEF ProcessPost, DropPost
    <3>2. UNCHANGED <<op, pc, call, recorded, items, found>>
      BY <1>5 DEF ProcessPost, DropPost
    <3>3. QED
      BY <1>0, <2>1, <3>1, <3>2
<1>6. ASSUME NEW c \in dels, ProcessDelete(c) \/ DropDelete(c)
      PROVE  HandlerInv'
  <2>1. \A d \in posts' \cup dels' : d <= call'
    BY <1>0, <1>6 DEF ProcessDelete, DropDelete
  <2>2. QED
    <3>1. op = "none" => ~answered'
      BY <1>0, <1>6 DEF ProcessDelete, DropDelete
    <3>2. UNCHANGED <<op, pc, call, recorded, items, found>>
      BY <1>6 DEF ProcessDelete, DropDelete
    <3>3. QED
      BY <1>0, <2>1, <3>1, <3>2
<1>7. CASE Elsewhere
  BY <1>0, <1>7 DEF Elsewhere
<1>8. CASE UNCHANGED vars
  BY <1>0, <1>8 DEF vars
<1>9. QED
  BY <1>0, <1>1, <1>2, <1>3, <1>4, <1>5, <1>6, <1>7, <1>8, Ends
  DEF Next, Handler

\* A user who appears is known to no handler, and ends no knowledge.
LEMMA NewcomersAreUnknown ==
  ASSUME ApiInv, NEW i, Appears(i), UNCHANGED since,
         NEW c \in 1..MaxCalls
  PROVE  Known(c)' \subseteq Known(c)
BY DEF ApiInv, Appears, Known, Holders

\* What handlers know stays true.
LEMMA KnowledgeNext == IInv /\ [Next]_vars => KnowledgeInv'
<1> SUFFICES ASSUME IInv, [Next]_vars PROVE KnowledgeInv'
  OBVIOUS
<1> USE DEF KnowledgeInv
<1>0. TypeOK /\ ApiInv /\ HandlerInv /\ KnowledgeInv
  BY DEF IInv
<1>1. ASSUME NEW r \in BOOLEAN, End(r)
      PROVE  KnowledgeInv'
  BY <1>0, <1>1 DEF End, Known, Holders, TypeOK
<1>2. ASSUME NEW o \in Ops, Begin(o)
      PROVE  KnowledgeInv'
  <2>1. ~answered /\ ~answered' /\ op = "none"
    BY <1>0, <1>2 DEF Begin, HandlerInv
  <2>2. \A c \in dels : Known(c)' = Known(c)
    BY <1>0, <1>2 DEF Begin, HandlerInv, TypeOK, Known, Holders
  <2>3. pc' \notin {"verdict", "delete"} /\ UNCHANGED <<found, dels>>
    BY <1>2 DEF Begin
  <2>4. items = {} /\ found = None
    BY <1>0, <2>1 DEF HandlerInv
  <2>5. QED
    BY <1>0, <2>1, <2>2, <2>3, <2>4, IdsAssumption, <1>2 DEF Begin
<1>3. CASE FetchPage
  BY <1>0, <1>3 DEF FetchPage, ApiInv, Known, Holders, Page, Listing
<1>4. CASE Match
  <2>1. \A c : Known(c)' = Known(c)
    BY <1>4 DEF Match, Known, Holders
  <2>2. QED
    <3>1. found' \in items \cap Named /\ found' # None
      BY <1>4, IdsAssumption DEF Match
    <3>2. (items' \cup {found'}) \cap Named \cap Services
            \subseteq items \cap Named \cap Services
      BY <1>4, <3>1 DEF Match
    <3>3. op = "none" => pc = "idle"
      BY <1>0 DEF HandlerInv
    <3>4. QED
      BY <1>0, <1>4, <2>1, <3>1, <3>2, <3>3 DEF Match
<1>4a. CASE NoMatch
  <2>1. \A c : Known(c)' = Known(c)
    BY <1>4a DEF NoMatch, Known, Holders
  <2>2. QED
    BY <1>0, <1>4a, <2>1 DEF NoMatch, HandlerInv
<1>5. CASE DeleteVerified
  BY <1>0, <1>5 DEF DeleteVerified, MayDelete, HandlerInv, Known, Holders
<1>6. ASSUME UNCHANGED <<op, pc, call, since, items, found, dels>>,
             \A c \in 1..MaxCalls : Known(c)' \subseteq Known(c),
             op # "none" /\ answered' => answered \/ Known(call)' = {}
      PROVE  KnowledgeInv'
  BY <1>0, <1>6 DEF HandlerInv, TypeOK
<1>7. ASSUME NEW c \in posts, ProcessPost(c) \/ DropPost(c)
      PROVE  KnowledgeInv'
  <2>1. CASE ProcessPost(c)
    <3>1. PICK i \in Named \cap Services : Appears(i)
      BY <2>1 DEF ProcessPost
    <3>2. \A d \in 1..MaxCalls : Known(d)' \subseteq Known(d)
      BY <1>0, <2>1, <3>1, NewcomersAreUnknown DEF ProcessPost
    <3>3. Known(call) = {}
      BY <3>1 DEF Appears, Known, Holders
    <3>4. Known(call)' = {} \/ op = "none"
      BY <1>0, <2>1, <3>2, <3>3 DEF ProcessPost, HandlerInv, TypeOK
    <3>5. QED
      BY <1>6, <2>1, <3>2, <3>4 DEF ProcessPost
  <2>2. CASE DropPost(c)
    BY <1>0, <2>2 DEF DropPost, Known, Holders
  <2>3. QED
    BY <1>7, <2>1, <2>2
<1>8. ASSUME NEW c \in dels, ProcessDelete(c) \/ DropDelete(c)
      PROVE  KnowledgeInv'
  <2>1. CASE ProcessDelete(c)
    <3>1. \A d \in 1..MaxCalls : Known(d)' = {}
      BY <2>1 DEF ProcessDelete, Known, Holders
    <3>2. Known(call)' = {}
      BY <2>1 DEF ProcessDelete, Known, Holders
    <3>3. QED
      BY <1>6, <2>1, <3>1, <3>2 DEF ProcessDelete
  <2>2. CASE DropDelete(c)
    BY <1>0, <2>2 DEF DropDelete, Known, Holders
  <2>3. QED
    BY <1>8, <2>1, <2>2
<1>9. CASE Elsewhere
  <2>1. \A c \in 1..MaxCalls : Known(c)' \subseteq Known(c)
    <3>1. CASE \E i \in Ids : Appears(i)
      BY <1>0, <1>9, <3>1, NewcomersAreUnknown DEF Elsewhere
    <3>2. CASE \E i \in users : users' = users \ {i}
      BY <1>9, <3>2 DEF Elsewhere, Known, Holders
    <3>3. QED
      BY <1>9, <3>1, <3>2 DEF Elsewhere
  <2>2. QED
    BY <1>6, <1>9, <2>1 DEF Elsewhere
<1>10. CASE UNCHANGED vars
  BY <1>0, <1>10 DEF vars, Known, Holders
<1>11. QED
  BY <1>0, <1>1, <1>2, <1>3, <1>4, <1>4a, <1>5, <1>7, <1>8, <1>9, <1>10, Ends
  DEF Next, Handler

\* A DELETE removes no human it should have known.
LEMMA SparedNext == IInv /\ [Next]_vars => HumansSpared'
<1> SUFFICES ASSUME IInv, [Next]_vars PROVE HumansSpared'
  OBVIOUS
<1> USE DEF HumansSpared
<1>0. TypeOK /\ KnowledgeInv /\ HumansSpared
  BY DEF IInv
<1>1. ASSUME NEW c \in dels, ProcessDelete(c)
      PROVE  HumansSpared'
  BY <1>0, <1>1 DEF ProcessDelete, KnowledgeInv, Known, Holders
<1>2. CASE Handler
  BY <1>0, <1>2, Ends
  DEF Handler, End, FetchPage, Match, NoMatch, DeleteVerified
<1>3. QED
  BY <1>0, <1>1, <1>2
  DEF Next, Begin, ProcessPost, DropPost, DropDelete, Elsewhere, vars

LEMMA CountsAreNat ==
  ASSUME NEW S \in SUBSET Ids
  PROVE  Cardinality(S) \in Nat
  BY IdsAssumption, FS_Subset, FS_CardinalityType

\* An offset counts the users before its own, so it stays below the number of
\* all, and the first users of a listing are a prefix, a page longer each time.
LEMMA OffsetsAreBelow ==
  ASSUME TypeOK, NEW i \in Listing
  PROVE  Offset(i) \in Nat /\ Offset(i) < Cardinality(Listing)
<1>1. IsFiniteSet(Listing)
  <2>1. Listing \in SUBSET Ids
    BY DEF Listing, TypeOK
  <2>2. QED
    BY <2>1, IdsAssumption, FS_Subset
<1>2. /\ IsFiniteSet(Listing \ {i})
      /\ Cardinality(Listing \ {i}) = Cardinality(Listing) - 1
  BY <1>1, FS_RemoveElement
<1>3. i \in Nat
  BY IdsAssumption DEF Listing, TypeOK
<1>4. {j \in Listing : j < i} \in SUBSET (Listing \ {i})
  BY <1>3
<1>5. /\ IsFiniteSet({j \in Listing : j < i})
      /\ Cardinality({j \in Listing : j < i}) <= Cardinality(Listing \ {i})
  BY <1>2, <1>4, FS_Subset
<1>6. Cardinality(Listing) \in Nat /\ Offset(i) \in Nat
  BY <1>1, <1>5, FS_CardinalityType DEF Offset
<1>7. QED
  BY <1>2, <1>5, <1>6 DEF Offset

LEMMA PagesExtendThePrefix ==
  ASSUME TypeOK, cursor \in Nat
  PROVE  {i \in Listing : Offset(i) < cursor} \cup Page
           = {i \in Listing : Offset(i) < cursor + PageSize}
  BY OffsetsAreBelow, PagingAssumption DEF Page

\* A page of a walk that nothing disturbs, answered with the token that is due.
LEMMA CalmPage ==
  ASSUME IInv, FetchPage, calm'
  PROVE  /\ calm /\ Listing' = Listing /\ UNCHANGED <<users, filters, pass, op>>
         /\ \/ /\ pc' = "match" /\ items' = Listing
            \/ /\ pc' = "list"
               /\ items' = {i \in Listing : Offset(i) < cursor'}
<1> DEFINE Prefix(n) == {i \in Listing : Offset(i) < n}
<1>1. TypeOK /\ WalkInv
  BY DEF IInv
<1>2. /\ calm /\ UNCHANGED <<users, filters, pass, op>> /\ pc = "list"
      /\ items' = items \cup Page
      /\ \/ LastPage(NextToken) /\ pc' = "match"
         \/ ~LastPage(NextToken) /\ cursor' = NextCursor(NextToken) /\ pc' = "list"
  BY <1>1 DEF FetchPage, TypeOK
<1>3. cursor \in Nat /\ Cardinality(Listing) \in Nat
  <2>1. IsFiniteSet(Ids) /\ Listing \in SUBSET Ids
    BY <1>1, IdsAssumption DEF TypeOK, Listing
  <2>2. IsFiniteSet(Listing)
    BY <2>1, FS_Subset
  <2>3. Cardinality(Ids) \in Nat /\ Cardinality(Listing) \in Nat
    BY <2>1, <2>2, FS_CardinalityType
  <2>4. QED
    BY <1>1, <2>3 DEF TypeOK
<1>4. items' = Prefix(cursor + PageSize)
  BY <1>1, <1>2, <1>3, PagesExtendThePrefix DEF WalkInv
<1>5. CASE LastPage(NextToken)
  <2>1. Cardinality(Listing) <= cursor + PageSize
    BY <1>3, <1>5, PagingAssumption DEF LastPage, NextToken
  <2>2. Prefix(cursor + PageSize) = Listing
    BY <1>1, <1>3, <2>1, OffsetsAreBelow, PagingAssumption
  <2>3. QED
    BY <1>2, <1>4, <1>5, <2>2 DEF Listing
<1>6. CASE ~LastPage(NextToken)
  <2>1. cursor' = cursor + PageSize
    BY <1>2, <1>6 DEF LastPage, NextToken, NextCursor
  <2>2. QED
    BY <1>2, <1>4, <1>6, <2>1 DEF Listing
<1>7. QED
  BY <1>5, <1>6

\* Nothing but a page moves the walk while the users stay calm.
LEMMA WalkNext == IInv /\ [Next]_vars => WalkInv'
<1> SUFFICES ASSUME IInv, [Next]_vars PROVE WalkInv'
  OBVIOUS
<1>0. TypeOK /\ HandlerInv /\ WalkInv
  BY DEF IInv
<1>1. ASSUME NEW r \in BOOLEAN, End(r)
      PROVE  WalkInv'
  BY <1>1 DEF End, WalkInv, CalmWalkIsExact
<1>2. ASSUME NEW o \in Ops, Begin(o)
      PROVE  WalkInv'
  <2>1. /\ pass' = "service" /\ cursor' = 0 /\ items' = {} /\ op' # "none"
        /\ pc' \in {"post", "list"} /\ users' = users /\ filters' = filters
    BY <1>0, <1>2 DEF Begin, WalkInv, HandlerInv, Ops
  <2>2. Listing' = {i \in users : filters => i \in Services}
    BY <2>1 DEF Listing
  <2>3. \A i \in Listing' : {j \in Listing' : j < i} \in SUBSET Ids
    BY <1>0, <2>2 DEF TypeOK
  <2>4. \A i \in Listing' : ~((Offset(i))' < cursor')
    BY <2>1, <2>3, CountsAreNat DEF Offset
  <2>5. QED
    BY <2>1, <2>4 DEF WalkInv, CalmWalkIsExact
<1>3. CASE FetchPage
  <2>1. op # "none" /\ op' = op /\ pc = "list"
    BY <1>0, <1>3 DEF FetchPage, HandlerInv
  <2>2. CASE calm'
    <3>1. /\ calm /\ Listing' = Listing /\ UNCHANGED <<users, filters, pass>>
          /\ \/ pc' = "match" /\ items' = Listing
             \/ pc' = "list" /\ items' = {i \in Listing : Offset(i) < cursor'}
      BY <1>3, <2>2, CalmPage
    <3>2. \A i : (Offset(i))' = Offset(i)
      BY <3>1 DEF Offset
    <3>3. QED
      BY <1>0, <2>1, <3>1, <3>2 DEF WalkInv, CalmWalkIsExact
  <2>3. QED
    BY <2>1, <2>2 DEF WalkInv
<1>4. CASE Match
  <2>1. Listing \subseteq users
    BY DEF Listing
  <2>2. QED
    BY <1>0, <1>4, <2>1 DEF Match, WalkInv, CalmWalkIsExact, HandlerInv
<1>5. CASE NoMatch
  <2>1. /\ pc = "match" /\ items \cap Named = {} /\ op # "none"
        /\ UNCHANGED <<users, filters, op, calm>>
    BY <1>0, <1>5 DEF NoMatch, HandlerInv
  <2>2. CASE pass = "service"
    <3>1. /\ pass' = "human" /\ pc' = "list" /\ cursor' = 0 /\ items' = {}
      BY <1>5, <2>2 DEF NoMatch
    <3>2. Listing = {i \in users : filters => i \in Services}
      BY <2>2 DEF Listing
    <3>3. calm => {i \in users : filters => i \in Services} \cap Named = {}
      BY <1>0, <2>1, <3>2 DEF WalkInv
    <3>4. \A i \in Listing' : ~((Offset(i))' < cursor')
      <4>1. \A i \in Listing' : {j \in Listing' : j < i} \in SUBSET Ids
        BY <1>0, <2>1 DEF Listing, TypeOK
      <4>2. QED
        BY <3>1, <4>1, CountsAreNat DEF Offset
    <3>5. QED
      BY <2>1, <3>1, <3>3, <3>4 DEF WalkInv, CalmWalkIsExact
  <2>3. CASE pass # "service"
    <3>1. pass = "human" /\ pc' = "probe" /\ UNCHANGED walkVars
      BY <1>0, <1>5, <2>3 DEF NoMatch, TypeOK
    <3>2. Listing = {i \in users : filters => i \notin Services}
      BY <3>1 DEF Listing
    <3>3. calm => users \cap Named = {}
      BY <1>0, <2>1, <3>1, <3>2 DEF WalkInv
    <3>4. QED
      BY <2>1, <3>1, <3>3 DEF WalkInv, CalmWalkIsExact
  <2>4. QED
    BY <2>2, <2>3
<1>6. CASE DeleteVerified
  BY <1>0, <1>6 DEF DeleteVerified, WalkInv, CalmWalkIsExact, HandlerInv
<1>7. CASE \/ \E c \in posts : ProcessPost(c)
           \/ \E c \in dels : ProcessDelete(c)
           \/ Elsewhere
  BY <1>0, <1>7 DEF ProcessPost, ProcessDelete, Elsewhere, WalkInv
<1>8. CASE \/ \E c \in posts : DropPost(c)
           \/ \E c \in dels : DropDelete(c)
           \/ UNCHANGED vars
  BY <1>0, <1>8
  DEF DropPost, DropDelete, vars, WalkInv, CalmWalkIsExact, Listing, Offset
<1>9. QED
  BY <1>0, <1>1, <1>2, <1>3, <1>4, <1>5, <1>6, <1>7, <1>8, Ends
  DEF Next, Handler

\* The inductive invariant: what a handler has seen or sent bounds who can
\* still hold the name.
THEOREM Invariant == Spec => []IInv
<1>1. IInv /\ [Next]_vars => IInv'
  BY TypeNext, ApiNext, HandlerNext, KnowledgeNext, SparedNext, WalkNext DEF IInv
<1>2. QED
  BY <1>1, InvInit, PTL DEF Spec

\* Type correctness.
THEOREM TypeCorrect == Spec => []TypeOK
<1>1. IInv => TypeOK
  BY DEF IInv
<1>2. QED
  BY <1>1, Invariant, PTL

\* No human who was there when Delete started falls to its DELETE.
THEOREM NoHumanDeleted == Spec => []HumansSpared
<1>1. IInv => HumansSpared
  BY DEF IInv
<1>2. QED
  BY <1>1, Invariant, PTL

\* The walk of users that nobody disturbs ends with the holder of the name, or
\* with the probe only if there is none, whatever the pages and the filter.
THEOREM CalmWalksAreExact == Spec => []CalmWalkIsExact
<1>1. IInv => CalmWalkIsExact
  BY DEF IInv, WalkInv, CalmWalkIsExact
<1>2. QED
  BY <1>1, Invariant, PTL

\* Only End changes the state, so only the handlers' last steps do.
LEMMA StateChanges ==
  ASSUME IInv, [Next]_vars, recorded' # recorded
  PROVE  CreateDone \/ ReadVerdict \/ Gone \/ DeleteDone
<1>1. TypeOK
  BY DEF IInv
<1>2. CASE Handler
  BY <1>1, <1>2, Ends
  DEF TypeOK, Handler, FetchPage, Match, NoMatch, DeleteVerified, CreateDone,
      Fails, PagesLoop, ReadVerdict, DeleteRefused, Unconfirmed, End
<1>3. QED
  BY <1>2
  DEF Next, Begin, ProcessPost, DropPost, ProcessDelete, DropDelete, Elsewhere,
      vars

\* A user who was there when Read or Delete started, and still is, is never
\* taken out of the state.
THEOREM NeverForgotten == Spec => ForgetsOnlyGone
<1>1. IInv /\ [Next]_vars => [ForgetsOnlyGoneStep]_vars
  <2> SUFFICES ASSUME IInv, [Next]_vars, recorded, ~recorded'
               PROVE  Known(call) = {}
    BY DEF ForgetsOnlyGoneStep, Known, Holders
  <2>1. Gone \/ DeleteDone
    BY StateChanges DEF CreateDone, ReadVerdict, End
  <2>2. CASE Gone
    BY <2>2 DEF Gone, ConfirmedGone, Known, Holders
  <2>3. CASE DeleteDone
    BY <2>3 DEF DeleteDone, IInv, HandlerInv, KnowledgeInv
  <2>4. QED
    BY <2>1, <2>2, <2>3
<1>2. QED
  BY <1>1, Invariant, PTL DEF Spec, ForgetsOnlyGone

\* Create records only an account that appeared after it started.
THEOREM CreatesItsOwn == Spec => NoTakeover
<1>1. IInv /\ [Next]_vars => [NoTakeoverStep]_vars
  <2> SUFFICES ASSUME IInv, [Next]_vars, op = "create", recorded',
                      ~UNCHANGED vars
               PROVE  Known(call) = {}
    BY DEF NoTakeoverStep, Known, Holders
  <2>1. CASE recorded
    BY <2>1 DEF IInv, HandlerInv
  <2>2. CASE ~recorded
    BY <2>2, StateChanges
    DEF IInv, HandlerInv, KnowledgeInv, CreateDone, Created, ReadVerdict, Gone,
        DeleteDone, End
  <2>3. QED
    BY <2>1, <2>2
<1>2. QED
  BY <1>1, Invariant, PTL DEF Spec, NoTakeover
=============================================================================
