------------------------- MODULE CatalogObject_proofs -------------------------
(* Proofs of the safety of CatalogObject: every key holds what its name    *)
(* says, the text a handler works with names the object in the state, and  *)
(* a Delete has a reason for what it drops.                                *)
EXTENDS CatalogObject, TLAPS

-----------------------------------------------------------------------------
(* Names and bodies.                                                       *)

LEMMA KindsAre == Kinds \subseteq AllKinds
  BY CatalogObjectAssumption

\* A name is a word and two letter cases, a key the word and one of them.
LEMMA NameFacts ==
  ASSUME NEW n \in Names
  PROVE  /\ n[1] \in Words /\ n[2] \in {0, 1} /\ n[3] \in {0, 1}
         /\ Key(n) \in Keys
         /\ Key(n)[1] = n[1]
         /\ Key(n)[2] = IF DuckDBNames(kind) THEN n[2] ELSE 0
<1>1. n[1] \in Words /\ n[2] \in {0, 1} /\ n[3] \in {0, 1}
  BY DEF Names
<1>2. QED
  BY <1>1 DEF Key, Keys

\* Two names have one key if they are equal where the kind tells them apart.
LEMMA KeyFacts ==
  ASSUME NEW n \in Names, NEW m \in Names
  PROVE  Key(n) = Key(m) <=> n[1] = m[1] /\ (DuckDBNames(kind) => n[2] = m[2])
  BY NameFacts DEF Key

LEMMA ConfigFacts ==
  ASSUME kind \in Kinds, NEW c \in ConfigsOf(kind)
  PROVE  /\ c \in Models
         /\ kind # "iceberg" => c.body \in Bodies
         /\ kind = "role" => PlainName(c.name)
<1>1. kind \in AllKinds
  BY KindsAre
<1>2. CASE kind = "share"
  <2>1. ConfigsOf(kind) = ShareConfigs
    BY <1>2, Zenon DEF ConfigsOf
  <2>2. c \in [name : Names, body : {First, Second}]
    BY <2>1 DEF ShareConfigs
  <2>3. c \in Models /\ c.body \in Bodies
    BY <2>2 DEF Models, Bodies
  <2>4. QED
    BY <1>2, <2>3
<1>3. CASE kind = "database"
  <2>1. ConfigsOf(kind) = DatabaseConfigs
    BY <1>3, Zenon DEF ConfigsOf
  <2>2. c \in [name : Names, body : {First, Second}]
    BY <2>1 DEF DatabaseConfigs
  <2>3. c \in Models /\ c.body \in Bodies
    BY <2>2 DEF Models, Bodies
  <2>4. QED
    BY <1>3, <2>3
<1>4. CASE kind = "iceberg"
  <2>1. ConfigsOf(kind) = IcebergConfigs
    BY <1>4, Zenon DEF ConfigsOf
  <2>2. QED
    BY <1>4, <2>1 DEF IcebergConfigs, Models
<1>5. CASE kind = "role"
  <2>1. ConfigsOf(kind) = RoleConfigs
    BY <1>5, Zenon DEF ConfigsOf
  <2>2. c \in [name : {n \in Names : n[2] = 0 /\ n[3] = 0}, body : {First}]
    BY <2>1 DEF RoleConfigs
  <2>3. c.name \in Names /\ PlainName(c.name)
    BY <2>2 DEF PlainName
  <2>4. c \in Models /\ c.body \in Bodies
    BY <2>2, <2>3 DEF Models, Bodies
  <2>5. QED
    BY <2>3, <2>4
<1>6. CASE kind \in {"schema", "share_grant", "role_grant"}
  <2>1. ConfigsOf(kind) = [name : Names, body : {First}]
    BY <1>6, Zenon DEF ConfigsOf
  <2>2. c \in Models /\ c.body \in Bodies
    BY <2>1 DEF Models, Bodies
  <2>3. QED
    BY <1>6, <2>2
<1>7. CASE kind \in {"table", "view", "secret", "secure_view"}
  <2>1. ConfigsOf(kind) = [name : Names, body : Bodies]
    BY <1>7, Zenon DEF ConfigsOf
  <2>2. QED
    BY <1>7, <2>1 DEF Models
<1>8. QED
  BY <1>1, <1>2, <1>3, <1>4, <1>5, <1>6, <1>7 DEF AllKinds

\* A body in the catalog is one that MotherDuck reports.
LEMMA CanonicalFacts ==
  ASSUME NEW b \in Bodies
  PROVE  Canonical(b) \in Bodies
  BY DEF Canonical, Bodies

\* What a read makes of a state concerns neither its name nor its taint.
LEMMA ReadingFacts ==
  ASSUME kind \in Kinds, NEW r \in Records, NEW o \in Objects
  PROVE  /\ Reading(r, o) \in Records
         /\ Reading(r, o).name = r.name
         /\ Reading(r, o).tainted = r.tainted
<1>1. kind \in AllKinds /\ o.body \in Bodies
  BY KindsAre DEF Objects
<1>2. CASE kind = "table"
  <2>1. Reading(r, o) = ReadTable(r, o)
    BY <1>2, Zenon DEF Reading
  <2>2. QED
    BY <1>1, <2>1 DEF ReadTable, Records
<1>3. CASE kind = "view"
  <2>1. Reading(r, o) = ReadView(r, o)
    BY <1>3, Zenon DEF Reading
  <2>2. QED
    BY <1>1, <2>1 DEF ReadView, Records
<1>4. CASE kind = "secret"
  <2>1. Reading(r, o) = ReadSecret(r, o)
    BY <1>4, Zenon DEF Reading
  <2>2. QED
    BY <1>1, <2>1 DEF ReadSecret, Records
<1>5. CASE kind = "share"
  <2>1. Reading(r, o) = ReadShare(r, o)
    BY <1>5, Zenon DEF Reading
  <2>2. QED
    BY <1>1, <2>1 DEF ReadShare, Records
<1>6. CASE kind = "secure_view"
  <2>1. Reading(r, o) = ReadSecureView(r, o)
    BY <1>6, Zenon DEF Reading
  <2>2. QED
    BY <1>1, <2>1 DEF ReadSecureView, Records
<1>7. CASE kind = "database"
  <2>1. Reading(r, o) = ReadDatabase(r, o)
    BY <1>7, Zenon DEF Reading
  <2>2. QED
    BY <1>1, <2>1 DEF ReadDatabase, Records
<1>8. CASE kind \in {"schema", "share_grant", "role", "role_grant", "iceberg"}
  <2>1. Reading(r, o) = r
    BY <1>8, Zenon DEF Reading
  <2>2. QED
    BY <2>1
<1>9. QED
  BY <1>1, <1>2, <1>3, <1>4, <1>5, <1>6, <1>7, <1>8 DEF AllKinds

\* The plan of a name that is neither rejected nor a replacement is another
\* spelling of it; a replacement has another key.
LEMMA ReplacesFacts ==
  ASSUME kind \in Kinds, NEW n \in Names, NEW m \in Names
  PROVE  /\ ~NameRejected(n, m) /\ ~NameReplaces(n, m) => SameName(n, m)
         /\ NameReplaces(n, m) /\ (kind = "role" => PlainName(n) /\ PlainName(m))
              => Key(n) # Key(m)
<1>1. kind \in AllKinds
  BY KindsAre
<1>2. /\ Key(n) = Key(m) <=> n[1] = m[1] /\ (DuckDBNames(kind) => n[2] = m[2])
      /\ n = <<n[1], n[2], n[3]>> /\ m = <<m[1], m[2], m[3]>>
  BY KeyFacts DEF Names
<1>3. CASE kind \in {"schema", "table", "view", "secret", "secure_view"}
  <2>1. DuckDBNames(kind)
    BY <1>3 DEF DuckDBNames
  <2>2. NameReplaces(n, m) = CatalogReplaces(n, m)
    BY <1>3, <2>1, Zenon DEF NameReplaces
  <2>3. QED
    BY <1>2, <1>3, <2>1, <2>2 DEF CatalogReplaces, CatalogNamesEqual, SameName
<1>4. CASE kind \in {"share", "share_grant", "role_grant"}
  <2>1. ~DuckDBNames(kind)
    BY <1>4 DEF DuckDBNames
  <2>2. NameReplaces(n, m) = IdentifierReplaces(n, m)
    BY <1>4, <2>1, Zenon DEF NameReplaces
  <2>3. QED
    BY <1>2, <1>4, <2>1, <2>2 DEF IdentifierReplaces, EqualFold, SameName
<1>5. CASE kind = "role"
  <2>1. ~DuckDBNames(kind)
    BY <1>5 DEF DuckDBNames
  <2>2. NameReplaces(n, m) = TextReplaces(n, m)
    BY <1>5, <2>1, Zenon DEF NameReplaces
  <2>3. QED
    BY <1>2, <1>5, <2>1, <2>2 DEF TextReplaces, PlainName, SameName
<1>6. CASE kind \in {"database", "iceberg"}
  <2>1. ~DuckDBNames(kind)
    BY <1>6 DEF DuckDBNames
  <2>2. NameReplaces(n, m) = DatabaseReplaces(n, m)
    BY <1>6, <2>1, Zenon DEF NameReplaces
  <2>3. QED
    BY <1>2, <1>6, <2>1, <2>2
    DEF DatabaseReplaces, NameRejected, DatabaseRejects, EqualFold,
        CatalogNamesEqual, SameName
<1>7. QED
  BY <1>1, <1>3, <1>4, <1>5, <1>6 DEF AllKinds

-----------------------------------------------------------------------------
(* What the catalog queries find.                                          *)

\* A query finds the object its statements act on if there is one and, but for
\* a secret, only if there is one.
LEMMA FoundFacts ==
  ASSUME TypeOK, CatalogInv, NEW n \in Names
  PROVE  /\ Found(n) \subseteq Objects
         /\ live[Key(n)] # None => Found(n) # {}
         /\ kind # "secret" /\ Found(n) # {} => live[Key(n)] # None
<1>1. kind \in AllKinds /\ live \in [Keys -> Objects \cup {None}]
  BY KindsAre DEF TypeOK
<1>2. Rows(n) \subseteq Objects
  BY <1>1 DEF Rows
<1>3. /\ Key(n) \in Keys /\ Key(n)[1] = n[1]
      /\ Key(n)[2] = IF DuckDBNames(kind) THEN n[2] ELSE 0
  BY NameFacts
<1>4. live[Key(n)] # None => live[Key(n)] \in Rows(n)
  BY <1>3 DEF Rows
<1>5. \A o \in Rows(n) : \E key \in Keys : key[1] = n[1] /\ o = live[key] /\ Key(o.name) = key
  BY DEF Rows, CatalogInv
<1>6. \A o \in Rows(n) : o.name \in Names /\ Key(o.name) \in Keys
  BY <1>2, NameFacts DEF Objects
<1>7. live[Key(n)] # None /\ DuckDBNames(kind) => CatalogNamesEqual(live[Key(n)].name, n)
  <2>1. ASSUME live[Key(n)] # None, DuckDBNames(kind)
        PROVE  CatalogNamesEqual(live[Key(n)].name, n)
    <3>1. live[Key(n)].name \in Names /\ Key(live[Key(n)].name) = Key(n)
      BY <1>1, <1>3, <2>1 DEF CatalogInv, Objects
    <3>2. QED
      BY <2>1, <3>1, KeyFacts DEF CatalogNamesEqual
  <2>2. QED
    BY <2>1
<1>8. CASE kind = "secret"
  <2>0. DuckDBNames(kind)
    BY <1>8 DEF DuckDBNames
  <2>1. Found(n) = SecretByName(Rows(n), n)
    BY <1>8, <2>0, Zenon DEF Found
  <2>2. QED
    BY <1>2, <1>4, <1>8, <2>1 DEF SecretByName
<1>9. CASE DuckDBNames(kind) /\ kind # "secret"
  <2>1. Found(n) = MatchCatalogRow(Rows(n), n)
    BY <1>9, Zenon DEF Found
  <2>2. ASSUME NEW o \in Rows(n), CatalogNamesEqual(o.name, n)
        PROVE  live[Key(n)] # None
    <3>1. PICK key \in Keys : key[1] = n[1] /\ o = live[key] /\ Key(o.name) = key
      BY <1>5
    <3>2. key = Key(n)
      BY <1>6, <1>9, <2>2, <3>1, KeyFacts DEF CatalogNamesEqual
    <3>3. QED
      BY <1>2, <3>1, <3>2, NoneIsNoObject
  <2>3. QED
    BY <1>2, <1>4, <1>7, <1>9, <2>1, <2>2 DEF MatchCatalogRow
<1>10. CASE ~DuckDBNames(kind)
  <2>1. kind # "secret"
    BY <1>10 DEF DuckDBNames
  <2>2. Found(n) = Rows(n)
    BY <1>10, <2>1, Zenon DEF Found
  <2>3. ASSUME NEW o \in Rows(n)
        PROVE  live[Key(n)] # None
    <3>1. PICK key \in Keys : key[1] = n[1] /\ o = live[key] /\ Key(o.name) = key
      BY <1>5
    <3>2. o.name \in Names /\ Key(o.name)[1] = o.name[1]
      BY <1>6, NameFacts
    <3>3. key = Key(n)
      BY <1>10, <3>1, <3>2, KeyFacts
    <3>4. QED
      BY <1>2, <3>1, <3>3, NoneIsNoObject
  <2>4. QED
    BY <1>2, <1>4, <2>2, <2>3
<1>11. QED
  BY <1>8, <1>9, <1>10

LEMMA SeesFacts ==
  ASSUME TypeOK, CatalogInv, NEW n \in Names
  PROVE  /\ Sees(n) \subseteq Objects
         /\ Sees(n) = {} => live[Key(n)] = None
         /\ kind # "secret" /\ Sees(n) # {} => live[Key(n)] # None
<1>1. Key(n) \in Keys
  BY NameFacts
<1>2. QED
  BY <1>1, FoundFacts DEF Sees, CatalogInv

-----------------------------------------------------------------------------
(* What a handler does to the surroundings, and how it ends.               *)

LEMMA SameWrite ==
  ASSUME kind' = kind
  PROVE  WriteOf' = WriteOf
  BY DEF WriteOf, SchemaCreate, TableCreate, ViewWrite, SecretWrite, ShareCreate,
         ShareGrantCreate, SecureViewWrite, RoleCreate, RoleGrantCreate,
         DatabaseCreate, Write

\* The part of the invariant that is about the surroundings.
World ==
  /\ kind \in Kinds
  /\ parent \in BOOLEAN
  /\ outside \in 0..MaxOutside
  /\ live \in [Keys -> Objects \cup {None}]
  /\ config \in ConfigsOf(kind) \cup {None}
  /\ said \in {"ok", "warning", "error"}
  /\ CatalogInv

\* The part that is about the state between two handlers.
State ==
  /\ tf \in Records \cup {None}
  /\ tf # None /\ kind = "secure_view" => ~tf.tainted
  /\ tf # None /\ kind = "role" => PlainName(tf.name)

LEMMA Parts ==
  ASSUME IInv
  PROVE  /\ World /\ TypeOK /\ CatalogInv /\ HandlerInv /\ OrphansUnanswered
         /\ pc # "readNew" => State
         /\ tf # None => tf \in Records /\ tf.name \in Names /\ Key(tf.name) \in Keys
         /\ plan # None => /\ plan \in Models /\ plan.name \in Names
                           /\ Key(plan.name) \in Keys
                           /\ kind # "iceberg" => plan.body \in Bodies
         /\ config # None => config \in Models /\ config.name \in Names
                             /\ (kind = "role" => PlainName(config.name))
<1>1. TypeOK /\ CatalogInv /\ HandlerInv /\ OrphansUnanswered
  BY DEF IInv
<1>2. World /\ (pc # "readNew" => State)
  BY <1>1 DEF TypeOK, World, HandlerInv, State
<1>3. tf # None => tf \in Records /\ tf.name \in Names
  BY <1>1 DEF TypeOK, Records
<1>4. plan # None => /\ plan \in Models /\ plan.name \in Names
                     /\ kind # "iceberg" => plan.body \in Bodies
  <2>1. plan # None => plan \in Models /\ (kind # "iceberg" => plan.body \in Bodies)
    BY <1>1, ConfigFacts DEF TypeOK
  <2>2. QED
    BY <2>1 DEF Models
<1>5. config # None => config \in Models /\ (kind = "role" => PlainName(config.name))
  BY <1>1, ConfigFacts DEF TypeOK
<1>6. config # None => config.name \in Names
  BY <1>5 DEF Models
<1>7. QED
  BY <1>1, <1>2, <1>3, <1>4, <1>5, <1>6, NameFacts

\* Once a handler has ended, nothing else is left to show.
LEMMA Rests ==
  ASSUME World', State', OrphansUnanswered', pc' = "idle", plan' = None
  PROVE  IInv'
<1>1. TypeOK' /\ CatalogInv'
  BY DEF World, State, TypeOK
<1>2. HandlerInv'
  BY DEF State, HandlerInv
<1>3. QED
  BY <1>1, <1>2 DEF IInv

\* A handler that writes nothing.
LEMMA Unwritten ==
  ASSUME IInv, UNCHANGED <<kind, parent, live, config, outside, misled>>,
         said' \in {"ok", "warning", "error"}
  PROVE  /\ World'
         /\ (tf # None => tf' # None /\ Key(tf'.name) = Key(tf.name))
              => OrphansUnanswered'
<1>1. World /\ OrphansUnanswered
  BY Parts
<1>2. WriteOf' = WriteOf
  BY SameWrite
<1>3. CatalogInv'
  BY <1>1, <1>2 DEF World, CatalogInv, Key, DuckDBNames
<1>4. World'
  BY <1>1, <1>3 DEF World
<1>5. ASSUME tf # None => tf' # None /\ Key(tf'.name) = Key(tf.name)
      PROVE  OrphansUnanswered'
  BY <1>1, <1>5 DEF OrphansUnanswered, Key, DuckDBNames
<1>6. QED
  BY <1>4, <1>5

\* A statement that leaves o under a key.
LEMMA Overwritten ==
  ASSUME IInv, NEW key \in Keys, NEW o \in Objects \cup {None},
         o # None => Reachable /\ Key(o.name) = key,
         live' = [live EXCEPT ![key] = o],
         UNCHANGED <<kind, parent, config, outside>>,
         said' \in {"ok", "warning", "error"}
  PROVE  /\ World'
         /\ live'[key] = o
         /\ \A k \in Keys : k # key => live'[k] = live[k]
<1>1. World
  BY Parts
<1>2. WriteOf' = WriteOf
  BY SameWrite
<1>3. /\ live' \in [Keys -> Objects \cup {None}] /\ live'[key] = o
      /\ \A k \in Keys : k # key => live'[k] = live[k]
  BY <1>1 DEF World
<1>4. CatalogInv'
  BY <1>1, <1>2, <1>3 DEF World, CatalogInv, Key, DuckDBNames, Reachable
<1>5. QED
  BY <1>1, <1>3, <1>4 DEF World

\* The records that a handler leaves.
LEMMA RecordFacts ==
  ASSUME NEW p \in Models, NEW seen \in Bodies \cup {None}
  PROVE  /\ Recorded(p, seen) \in Records
         /\ Recorded(p, seen).name = p.name
         /\ ~Recorded(p, seen).tainted
         /\ Tainted(p) \in Records
         /\ Tainted(p).name = p.name
  BY DEF Recorded, Tainted, Records, Models

LEMMA ReadIntoFacts ==
  ASSUME kind \in Kinds, NEW p \in Models, NEW o \in Objects
  PROVE  /\ ReadInto(p, o) \in Records
         /\ ReadInto(p, o).name = p.name
         /\ ~ReadInto(p, o).tainted
<1>1. o.body \in Bodies \cup {None}
  BY DEF Objects
<1>2. Recorded(p, None) \in Records /\ Recorded(p, None).name = p.name
      /\ ~Recorded(p, None).tainted
  BY RecordFacts
<1>3. QED
  BY <1>1, <1>2, RecordFacts, ReadingFacts DEF ReadInto

LEMMA InvInit == Init => IInv
<1> SUFFICES ASSUME Init PROVE IInv
  OBVIOUS
<1>1. outside \in 0..MaxOutside
  BY CatalogObjectAssumption DEF Init
<1>2. TypeOK
  BY <1>1 DEF Init, TypeOK
<1>3. CatalogInv /\ HandlerInv /\ OrphansUnanswered
  BY DEF Init, CatalogInv, HandlerInv, OrphansUnanswered
<1>4. QED
  BY <1>2, <1>3 DEF IInv

-----------------------------------------------------------------------------
(* Create and Read.                                                        *)

LEMMA StartCreateKeeps ==
  ASSUME IInv, StartCreate
  PROVE  IInv'
<1>1. /\ World /\ tf = None /\ tf' = None /\ pc' = "create" /\ said' = "ok"
      /\ config # None /\ plan' = config /\ config' = config
      /\ UNCHANGED <<kind, parent, live, outside, misled>>
  BY Parts DEF StartCreate, worldVars, budgets
<1>2. World' /\ OrphansUnanswered'
  BY <1>1, Unwritten
<1>3. config \in Models /\ (kind = "role" => PlainName(config.name))
  BY <1>1, Parts
<1>4. TypeOK'
  BY <1>1, <1>2, <1>3 DEF World, TypeOK
<1>5. HandlerInv'
  BY <1>1, <1>3 DEF HandlerInv
<1>6. QED
  BY <1>2, <1>4, <1>5 DEF IInv, World

\* An object that a statement for the model makes.
LEMMA CreatedFacts ==
  ASSUME plan \in Models, NEW who \in {"terraform", "unanswered"}
  PROVE  /\ CreatedBy(who) \in Objects
         /\ CreatedBy(who).name = plan.name
         /\ CreatedBy(who).by = who
         /\ CreatedBy(who) # None
<1>1. plan.body = None \/ Canonical(plan.body) \in Bodies
  BY CanonicalFacts DEF Models
<1>2. First \in Bodies /\ plan.name \in Names
  BY DEF Bodies, Models
<1>3. CreatedBy(who) \in Objects
  BY <1>1, <1>2 DEF CreatedBy, Objects
<1>4. QED
  BY <1>3, NoneIsNoObject DEF CreatedBy

LEMMA CreateKeeps ==
  ASSUME IInv, Create
  PROVE  IInv'
<1> DEFINE key == Key(plan.name)
<1>1. /\ World /\ OrphansUnanswered /\ tf = None /\ plan \in Models
      /\ plan.name \in Names /\ key \in Keys /\ plan # None
      /\ plan \in ConfigsOf(kind)
      /\ kind = "role" => PlainName(plan.name)
  <2>1. World /\ OrphansUnanswered /\ TypeOK /\ HandlerInv
    BY Parts
  <2>2. plan # None /\ tf = None /\ plan \in ConfigsOf(kind)
    BY <2>1 DEF TypeOK, HandlerInv, Create
  <2>3. QED
    BY <2>1, <2>2, Parts DEF HandlerInv
<1>2. /\ UNCHANGED <<kind, parent, config, outside, misled, stale>>
      /\ \/ End("error", None) /\ live' = live
         \/ /\ Reachable
            /\ \/ live' = live \/ live' = [live EXCEPT ![key] = CreatedBy("unanswered")]
            /\ End("error", None)
         \/ /\ Reachable
            /\ \/ live[key] # None /\ live' = live
               \/ live[key] = None /\ live' = [live EXCEPT ![key] = CreatedBy("terraform")]
            /\ \/ pc' = "readNew" /\ tf' = Kept(plan) /\ UNCHANGED <<plan, said>>
               \/ End("ok", Recorded(plan, None))
  BY DEF Create
<1>3. /\ CreatedBy("unanswered") \in Objects /\ CreatedBy("terraform") \in Objects
      /\ CreatedBy("unanswered").name = plan.name /\ CreatedBy("terraform").name = plan.name
      /\ CreatedBy("unanswered").by = "unanswered"
      /\ CreatedBy("unanswered") # None
  BY <1>1, CreatedFacts
<1>4. said' \in {"ok", "warning", "error"}
  BY <1>1, <1>2 DEF End, World
<1>5. CASE /\ End("error", None)
           /\ \/ live' = live
              \/ Reachable /\ live' = [live EXCEPT ![key] = CreatedBy("unanswered")]
  <2>1. tf' = None /\ pc' = "idle" /\ plan' = None
    BY <1>5 DEF End
  <2>2. World' /\ OrphansUnanswered'
    <3>1. CASE live' = live
      BY <1>1, <1>2, <1>4, <3>1, Unwritten
    <3>2. CASE Reachable /\ live' = [live EXCEPT ![key] = CreatedBy("unanswered")]
      <4>1. /\ World' /\ live'[key] = CreatedBy("unanswered")
            /\ \A k \in Keys : k # key => live'[k] = live[k]
        BY <1>1, <1>2, <1>3, <1>4, <3>2, Overwritten
      <4>2. OrphansUnanswered'
        BY <1>1, <1>2, <1>3, <4>1 DEF OrphansUnanswered
      <4>3. QED
        BY <4>1, <4>2
    <3>3. QED
      BY <1>5, <3>1, <3>2
  <2>3. State'
    BY <2>1 DEF State
  <2>4. QED
    BY <2>1, <2>2, <2>3, Rests
<1>6. CASE /\ Reachable
           /\ \/ live[key] # None /\ live' = live
              \/ live[key] = None /\ live' = [live EXCEPT ![key] = CreatedBy("terraform")]
           /\ \/ pc' = "readNew" /\ tf' = Kept(plan) /\ UNCHANGED <<plan, said>>
              \/ End("ok", Recorded(plan, None))
  <2>1. tf' = Kept(plan) \/ tf' = Recorded(plan, None)
    BY <1>6 DEF End
  <2>2. tf' \in Records /\ tf' # None /\ tf'.name = plan.name
    BY <1>1, <2>1, RecordFacts, NoneIsNoObject DEF Kept
  <2>3. World' /\ OrphansUnanswered'
    <3>1. CASE live' = live
      BY <1>1, <1>2, <1>4, <3>1, Unwritten
    <3>2. CASE live' = [live EXCEPT ![key] = CreatedBy("terraform")]
      <4>1. World' /\ \A k \in Keys : k # key => live'[k] = live[k]
        BY <1>1, <1>2, <1>3, <1>4, <1>6, <3>2, Overwritten
      <4>2. (Key(tf.name))' = key
        BY <1>2, <2>2 DEF Key, DuckDBNames
      <4>3. OrphansUnanswered'
        BY <1>1, <1>2, <2>2, <4>1, <4>2 DEF OrphansUnanswered
      <4>4. QED
        BY <4>1, <4>3
    <3>3. QED
      BY <1>6, <3>1, <3>2
  <2>4. CASE pc' = "readNew" /\ UNCHANGED <<plan, said>>
    <3>1. TypeOK'
      BY <1>1, <1>2, <2>2, <2>3, <2>4 DEF World, TypeOK
    <3>2. HandlerInv'
      BY <1>1, <1>2, <2>2, <2>4 DEF HandlerInv
    <3>3. QED
      BY <2>3, <3>1, <3>2 DEF IInv, World
  <2>5. CASE End("ok", Recorded(plan, None))
    <3>1. tf' = Recorded(plan, None) /\ pc' = "idle" /\ plan' = None
      BY <2>5 DEF End
    <3>2. State'
      BY <1>1, <1>2, <2>2, <3>1, RecordFacts DEF State
    <3>3. QED
      BY <2>3, <3>1, <3>2, Rests
  <2>6. QED
    BY <1>6, <2>4, <2>5
<1>7. QED
  BY <1>2, <1>5, <1>6

\* A handler that writes nothing and ends with a record under the same name.
LEMMA EndsUnwritten ==
  ASSUME IInv, UNCHANGED <<kind, parent, live, config, outside, misled>>,
         NEW v \in {"ok", "warning", "error"}, NEW t \in Records \cup {None},
         End(v, t), State',
         tf # None => t # None /\ Key(t.name) = Key(tf.name)
  PROVE  IInv'
<1>1. tf' = t /\ said' = v /\ pc' = "idle" /\ plan' = None
  BY DEF End
<1>2. World' /\ OrphansUnanswered'
  BY <1>1, Unwritten
<1>3. QED
  BY <1>1, <1>2, Rests

LEMMA ReadNewKeeps ==
  ASSUME IInv, ReadNew
  PROVE  IInv'
<1>1. /\ World /\ TypeOK /\ CatalogInv /\ plan # None /\ plan \in Models
      /\ plan.name \in Names /\ tf # None /\ tf \in Records /\ tf.name = plan.name
      /\ kind = "role" => PlainName(tf.name)
  <2>1. World /\ TypeOK /\ CatalogInv /\ HandlerInv
    BY Parts
  <2>2. plan # None /\ tf # None
    BY <2>1 DEF TypeOK, ReadNew
  <2>3. QED
    BY <2>1, <2>2, Parts DEF HandlerInv, ReadNew
<1>2. UNCHANGED <<kind, parent, live, config, outside, misled>>
  BY DEF ReadNew, worldVars
<1>3. /\ Recorded(plan, None) \in Records /\ Recorded(plan, None).name = plan.name
      /\ ~Recorded(plan, None).tainted
  BY <1>1, RecordFacts
<1>4. CASE Missed
  <2>1. CASE WriteOf.missed = "error"
    <3>1. End("error", tf)
      BY <1>4, <2>1 DEF Missed
    <3>2. kind # "secure_view"
      <4>1. CASE kind = "secure_view"
        <5>1. WriteOf = SecureViewWrite
          BY <4>1, Zenon DEF WriteOf
        <5>2. WriteOf.missed = "warning"
          BY <5>1 DEF SecureViewWrite, Write
        <5>3. QED
          BY <2>1, <5>2
      <4>2. QED
        BY <4>1
    <3>3. State'
      BY <1>1, <1>2, <3>1, <3>2 DEF End, State
    <3>4. QED
      BY <1>1, <1>2, <3>1, <3>3, EndsUnwritten
  <2>2. CASE WriteOf.missed # "error"
    <3>1. End("warning", Recorded(plan, None))
      BY <1>4, <2>2 DEF Missed
    <3>2. State'
      BY <1>1, <1>2, <1>3, <3>1 DEF End, State
    <3>3. QED
      BY <1>1, <1>2, <1>3, <3>1, <3>2, EndsUnwritten, NoneIsNoObject
  <2>3. QED
    BY <2>1, <2>2
<1>5. ASSUME NEW o \in Sees(plan.name), End("ok", ReadInto(plan, o))
      PROVE  IInv'
  <2>1. o \in Objects
    BY <1>1, <1>5, SeesFacts
  <2>2. /\ ReadInto(plan, o) \in Records /\ ReadInto(plan, o).name = plan.name
        /\ ~ReadInto(plan, o).tainted
    BY <1>1, <2>1, ReadIntoFacts DEF World
  <2>3. State'
    BY <1>1, <1>2, <1>5, <2>2 DEF End, State
  <2>4. QED
    BY <1>1, <1>2, <1>5, <2>2, <2>3, EndsUnwritten, NoneIsNoObject
<1>6. QED
  BY <1>4, <1>5 DEF ReadNew

LEMMA RefreshKeeps ==
  ASSUME IInv, Refresh
  PROVE  IInv'
<1>1. /\ World /\ State /\ TypeOK /\ CatalogInv /\ OrphansUnanswered
      /\ tf # None /\ tf \in Records /\ tf.name \in Names /\ Key(tf.name) \in Keys
      /\ plan = None /\ pc = "idle"
  <2>1. World /\ State /\ TypeOK /\ CatalogInv /\ OrphansUnanswered
    BY Parts DEF Refresh
  <2>2. tf # None /\ pc = "idle" /\ plan = None
    BY <2>1 DEF Refresh, TypeOK
  <2>3. QED
    BY <2>1, <2>2, Parts
<1>2. /\ UNCHANGED <<kind, parent, live, config, outside, misled>>
      /\ \/ End("error", tf)
         \/ Sees(tf.name) = {} /\ End("ok", None)
         \/ /\ kind \in {"table", "view"} /\ pc' = "readMore" /\ said' = "ok"
            /\ UNCHANGED <<plan, tf>>
         \/ \E o \in Sees(tf.name) : End("ok", Reading(tf, o))
  BY DEF Refresh, worldVars, Forgets
<1>3. CASE End("error", tf)
  <2>1. State'
    BY <1>1, <1>2, <1>3 DEF State, End
  <2>2. QED
    BY <1>1, <1>2, <1>3, <2>1, EndsUnwritten
<1>4. CASE Sees(tf.name) = {} /\ End("ok", None)
  <2>1. live[Key(tf.name)] = None
    BY <1>1, <1>4, SeesFacts
  <2>2. tf' = None /\ pc' = "idle" /\ plan' = None /\ said' = "ok"
    BY <1>4 DEF End
  <2>3. World' /\ State'
    BY <1>2, <2>2, Unwritten DEF State
  <2>4. OrphansUnanswered'
    BY <1>1, <1>2, <2>1 DEF OrphansUnanswered
  <2>5. QED
    BY <2>2, <2>3, <2>4, Rests
<1>5. CASE /\ kind \in {"table", "view"} /\ pc' = "readMore" /\ said' = "ok"
           /\ UNCHANGED <<plan, tf>>
  <2>1. World' /\ OrphansUnanswered'
    BY <1>1, <1>2, <1>5, Unwritten DEF Key, DuckDBNames
  <2>2. TypeOK'
    BY <1>1, <1>2, <1>5, <2>1 DEF World, TypeOK
  <2>3. HandlerInv'
    BY <1>1, <1>2, <1>5 DEF State, HandlerInv
  <2>4. QED
    BY <2>1, <2>2, <2>3 DEF IInv, World
<1>6. ASSUME NEW o \in Sees(tf.name), End("ok", Reading(tf, o))
      PROVE  IInv'
  <2>1. o \in Objects
    BY <1>1, SeesFacts
  <2>2. /\ Reading(tf, o) \in Records /\ Reading(tf, o).name = tf.name
        /\ Reading(tf, o).tainted = tf.tainted
    BY <1>1, <2>1, ReadingFacts DEF World
  <2>3. State'
    BY <1>1, <1>2, <1>6, <2>2 DEF End, State
  <2>4. QED
    BY <1>1, <1>2, <1>6, <2>2, <2>3, EndsUnwritten, NoneIsNoObject
<1>7. QED
  BY <1>2, <1>3, <1>4, <1>5, <1>6

LEMMA ReadMoreKeeps ==
  ASSUME IInv, ReadMore
  PROVE  IInv'
<1>1. /\ World /\ State /\ TypeOK /\ CatalogInv
      /\ tf # None /\ tf \in Records /\ tf.name \in Names
  <2>1. World /\ State /\ TypeOK /\ CatalogInv
    BY Parts DEF ReadMore
  <2>2. tf # None
    BY <2>1 DEF ReadMore, TypeOK
  <2>3. QED
    BY <2>1, <2>2, Parts
<1>2. /\ UNCHANGED <<kind, parent, live, config, outside, misled>>
      /\ \/ End("error", tf)
         \/ End("ok", IF kind = "table" THEN [tf EXCEPT !.body = None] ELSE tf)
         \/ \E o \in Sees(tf.name) : End("ok", Reading(tf, o))
  BY DEF ReadMore, worldVars
<1>3. CASE End("error", tf)
  <2>1. State'
    BY <1>1, <1>2, <1>3 DEF State, End
  <2>2. QED
    BY <1>1, <1>2, <1>3, <2>1, EndsUnwritten
<1>4. CASE End("ok", IF kind = "table" THEN [tf EXCEPT !.body = None] ELSE tf)
  <2> DEFINE t == IF kind = "table" THEN [tf EXCEPT !.body = None] ELSE tf
  <2>1. t \in Records /\ t.name = tf.name /\ t.tainted = tf.tainted /\ End("ok", t)
    BY <1>1, <1>4 DEF Records
  <2> HIDE DEF t
  <2>2. State'
    BY <1>1, <1>2, <2>1 DEF End, State
  <2>3. QED
    BY <1>1, <1>2, <2>1, <2>2, EndsUnwritten, NoneIsNoObject
<1>5. ASSUME NEW o \in Sees(tf.name), End("ok", Reading(tf, o))
      PROVE  IInv'
  <2>1. o \in Objects
    BY <1>1, SeesFacts
  <2>2. /\ Reading(tf, o) \in Records /\ Reading(tf, o).name = tf.name
        /\ Reading(tf, o).tainted = tf.tainted
    BY <1>1, <2>1, ReadingFacts DEF World
  <2>3. State'
    BY <1>1, <1>2, <1>5, <2>2 DEF End, State
  <2>4. QED
    BY <1>1, <1>2, <1>5, <2>2, <2>3, EndsUnwritten, NoneIsNoObject
<1>6. QED
  BY <1>2, <1>3, <1>4, <1>5

-----------------------------------------------------------------------------
(* ModifyPlan and Update.                                                  *)

LEMMA StartUpdateKeeps ==
  ASSUME IInv, StartUpdate
  PROVE  IInv'
<1>1. /\ World /\ State /\ TypeOK /\ CatalogInv
      /\ tf # None /\ tf \in Records /\ tf.name \in Names
      /\ config # None /\ config \in ConfigsOf(kind) /\ config.name \in Names
      /\ kind = "role" => PlainName(config.name)
  <2>1. World /\ State /\ TypeOK /\ CatalogInv
    BY Parts DEF StartUpdate
  <2>2. tf # None /\ config # None
    BY DEF StartUpdate
  <2>3. QED
    BY <2>1, <2>2, Parts DEF World
<1>2. /\ UNCHANGED <<kind, parent, live, config, outside, misled>>
      /\ \/ End("error", tf)
         \/ /\ ~NameRejected(config.name, tf.name) /\ ~Replaces(config, tf)
            /\ pc' = "update" /\ plan' = config /\ said' = "ok" /\ UNCHANGED tf
  BY DEF StartUpdate, worldVars
<1>3. CASE End("error", tf)
  <2>1. State'
    BY <1>1, <1>2, <1>3 DEF State, End
  <2>2. QED
    BY <1>1, <1>2, <1>3, <2>1, EndsUnwritten
<1>4. CASE /\ ~NameRejected(config.name, tf.name) /\ ~Replaces(config, tf)
           /\ pc' = "update" /\ plan' = config /\ said' = "ok" /\ UNCHANGED tf
  <2>1. World' /\ OrphansUnanswered'
    BY <1>1, <1>2, <1>4, Unwritten DEF Key, DuckDBNames
  <2>2. TypeOK'
    BY <1>1, <1>2, <1>4, <2>1 DEF World, TypeOK
  <2>3. SameName(config.name, tf.name)
    BY <1>1, <1>4, ReplacesFacts DEF World, Replaces
  <2>4. (SameName(plan.name, tf.name))'
    BY <1>2, <1>4, <2>3 DEF SameName, Key, DuckDBNames, CatalogNamesEqual
  <2>5. HandlerInv'
    BY <1>1, <1>2, <1>4, <2>4 DEF State, HandlerInv
  <2>6. QED
    BY <2>1, <2>2, <2>5 DEF IInv, World
<1>5. QED
  BY <1>2, <1>3, <1>4

\* What an update in progress has.
LEMMA UpdateFacts ==
  ASSUME IInv, pc \in {"update", "readBack"}
  PROVE  /\ World /\ State /\ TypeOK /\ CatalogInv /\ OrphansUnanswered
         /\ tf # None /\ tf \in Records /\ tf.name \in Names
         /\ plan # None /\ plan \in Models /\ plan.name \in Names
         /\ plan \in ConfigsOf(kind)
         /\ Key(plan.name) \in Keys /\ Key(plan.name) = Key(tf.name)
         /\ SameName(plan.name, tf.name)
         /\ kind # "iceberg" => plan.body \in Bodies
         /\ kind = "role" => PlainName(plan.name)
         /\ \A seen \in Bodies \cup {None} :
              /\ Recorded(plan, seen) \in Records /\ ~Recorded(plan, seen).tainted
              /\ Recorded(plan, seen).name = plan.name
         /\ tf.seen \in Bodies \cup {None}
<1>1. World /\ State /\ TypeOK /\ CatalogInv /\ OrphansUnanswered /\ HandlerInv
  BY Parts
<1>2. tf # None /\ plan # None /\ plan \in ConfigsOf(kind)
  BY <1>1 DEF TypeOK
<1>3. SameName(plan.name, tf.name) /\ (kind = "role" => PlainName(plan.name))
  BY <1>1, <1>2 DEF HandlerInv
<1>4. /\ tf \in Records /\ tf.name \in Names /\ plan \in Models /\ plan.name \in Names
      /\ Key(plan.name) \in Keys
      /\ kind # "iceberg" => plan.body \in Bodies
  BY <1>2, Parts
<1>5. tf.seen \in Bodies \cup {None}
  BY <1>4 DEF Records
<1>6. \A seen \in Bodies \cup {None} :
        /\ Recorded(plan, seen) \in Records /\ ~Recorded(plan, seen).tainted
        /\ Recorded(plan, seen).name = plan.name
  BY <1>4, RecordFacts
<1>7. Key(plan.name) = Key(tf.name)
  BY <1>3 DEF SameName
<1>8. QED
  BY <1>1, <1>2, <1>3, <1>4, <1>5, <1>6, <1>7

LEMMA UpdateNameKeeps ==
  ASSUME IInv, UpdateName
  PROVE  IInv'
<1>1. /\ World /\ State /\ tf # None /\ tf \in Records
      /\ plan # None /\ plan \in ConfigsOf(kind)
      /\ Key(plan.name) = Key(tf.name) /\ SameName(plan.name, tf.name)
      /\ kind = "role" => PlainName(plan.name)
      /\ Recorded(plan, tf.seen) \in Records /\ ~Recorded(plan, tf.seen).tainted
      /\ Recorded(plan, tf.seen).name = plan.name
  BY UpdateFacts DEF UpdateName
<1>2. /\ UNCHANGED <<kind, parent, live, config, outside, misled>>
      /\ \/ End("error", tf)
         \/ End("ok", Recorded(plan, tf.seen))
         \/ pc' = "readBack" /\ UNCHANGED <<plan, said, tf>>
  BY DEF UpdateName, worldVars
<1>3. CASE End("error", tf)
  <2>1. State'
    BY <1>1, <1>2, <1>3 DEF State, End
  <2>2. QED
    BY <1>1, <1>2, <1>3, <2>1, EndsUnwritten
<1>4. CASE End("ok", Recorded(plan, tf.seen))
  <2>1. State'
    BY <1>1, <1>2, <1>4 DEF State, End
  <2>2. QED
    BY <1>1, <1>2, <1>4, <2>1, EndsUnwritten, NoneIsNoObject
<1>5. CASE pc' = "readBack" /\ UNCHANGED <<plan, said, tf>>
  <2>1. World' /\ OrphansUnanswered'
    BY <1>1, <1>2, <1>5, Unwritten DEF Key, DuckDBNames, World
  <2>2. TypeOK'
    BY <1>1, <1>2, <1>5, <2>1 DEF World, TypeOK
  <2>3. (SameName(plan.name, tf.name))'
    BY <1>1, <1>2, <1>5 DEF SameName, Key, DuckDBNames, CatalogNamesEqual
  <2>4. HandlerInv'
    BY <1>1, <1>2, <1>5, <2>3 DEF State, HandlerInv
  <2>5. QED
    BY <2>1, <2>2, <2>4 DEF IInv, World
<1>6. QED
  BY <1>2, <1>3, <1>4, <1>5

\* What the write of Update leaves of the object, and the state before the
\* read-back.
LEMMA WrittenFacts ==
  ASSUME IInv, pc = "update", Updates(plan, tf), NEW o \in Objects
  PROVE  /\ [o EXCEPT !.body = Written(o)] \in Objects
         /\ [o EXCEPT !.body = Written(o)].name = o.name
         /\ [o EXCEPT !.body = Written(o)].by = o.by
         /\ Saved \in Records
         /\ Saved.name \in {plan.name, tf.name}
         /\ kind = "secure_view" \/ kind = "role" => Saved = tf
<1>1. /\ tf \in Records /\ tf # None /\ plan \in Models
      /\ kind # "iceberg" => plan.body \in Bodies
      /\ tf.seen \in Bodies \cup {None}
      /\ \A seen \in Bodies \cup {None} :
           /\ Recorded(plan, seen) \in Records
           /\ Recorded(plan, seen).name = plan.name
  BY UpdateFacts
<1>2. kind = "iceberg" => plan.body \in Bodies
  <2>1. CASE kind = "iceberg"
    <3>1. Updates(plan, tf) = DatabaseUpdates(plan, tf)
      BY <2>1, Zenon DEF Updates
    <3>2. plan.body # None
      BY <3>1 DEF DatabaseUpdates
    <3>3. QED
      BY <1>1, <3>2 DEF Models
  <2>2. QED
    BY <2>1
<1>3. o.body \in Bodies /\ First \in Bodies /\ Second \in Bodies
  BY DEF Objects, Bodies
<1>4. Written(o) \in Bodies
  BY <1>1, <1>2, <1>3, CanonicalFacts DEF Written, IcebergAltered
<1>5. /\ [o EXCEPT !.body = Written(o)] \in Objects
      /\ [o EXCEPT !.body = Written(o)].name = o.name
      /\ [o EXCEPT !.body = Written(o)].by = o.by
  BY <1>4 DEF Objects
<1>6. SavedSeen \in Bodies \cup {None}
  BY <1>1 DEF SavedSeen
<1>7. /\ Saved \in Records /\ Saved.name \in {plan.name, tf.name}
      /\ kind = "secure_view" \/ kind = "role" => Saved = tf
  BY <1>1, <1>6 DEF Saved
<1>8. QED
  BY <1>5, <1>7

LEMMA UpdateKeeps ==
  ASSUME IInv, Update
  PROVE  IInv'
<1> DEFINE key == Key(plan.name)
<1>1. /\ World /\ State /\ OrphansUnanswered /\ tf # None /\ tf \in Records
      /\ tf.name \in Names /\ plan # None /\ plan \in ConfigsOf(kind)
      /\ plan \in Models /\ plan.name \in Names
      /\ key \in Keys /\ key = Key(tf.name) /\ SameName(plan.name, tf.name)
      /\ kind = "role" => PlainName(plan.name)
  BY UpdateFacts DEF Update
<1>2. /\ UNCHANGED <<kind, parent, config, outside, misled>>
      /\ \/ live' = live /\ End("error", tf)
         \/ /\ Reachable /\ (live[key] = None => OrReplace)
            /\ live' = [live EXCEPT ![key] =
                 IF @ = None THEN CreatedBy("terraform")
                 ELSE [@ EXCEPT !.body = Written(live[key])]]
            /\ \/ End("error", tf)
               \/ pc' = "readBack" /\ tf' = Saved /\ UNCHANGED <<plan, said>>
  BY DEF Update
<1>3. CASE live' = live /\ End("error", tf)
  <2>1. State'
    BY <1>1, <1>2, <1>3 DEF State, End
  <2>2. QED
    BY <1>1, <1>2, <1>3, <2>1, EndsUnwritten
<1>4. CASE /\ Reachable
           /\ live' = [live EXCEPT ![key] =
                IF @ = None THEN CreatedBy("terraform")
                ELSE [@ EXCEPT !.body = Written(live[key])]]
           /\ \/ End("error", tf)
              \/ pc' = "readBack" /\ tf' = Saved /\ UNCHANGED <<plan, said>>
  <2> DEFINE o == IF live[key] = None THEN CreatedBy("terraform")
                  ELSE [live[key] EXCEPT !.body = Written(live[key])]
  <2>1. pc = "update" /\ Updates(plan, tf)
    BY DEF Update
  <2>2. o \in Objects /\ o # None /\ Key(o.name) = key
    <3>1. CASE live[key] = None
      BY <1>1, <3>1, CreatedFacts
    <3>2. CASE live[key] # None
      <4>1. live[key] \in Objects /\ Key(live[key].name) = key
        BY <1>1, <3>2 DEF World, CatalogInv
      <4>2. QED
        BY <2>1, <3>2, <4>1, WrittenFacts, NoneIsNoObject
    <3>3. QED
      BY <3>1, <3>2
  <2>3. live' = [live EXCEPT ![key] = o]
    BY <1>4
  <2>4. said' \in {"ok", "warning", "error"} /\ (tf' = tf \/ tf' = Saved)
    BY <1>1, <1>4 DEF End, World
  <2> HIDE DEF o
  <2>5. /\ World'
        /\ \A k \in Keys : k # key => live'[k] = live[k]
    BY <1>1, <1>2, <1>4, <2>2, <2>3, <2>4, Overwritten
  <2>6. /\ tf' \in Records /\ tf' # None
        /\ tf'.name \in {plan.name, tf.name}
        /\ kind = "secure_view" \/ kind = "role" => tf' = tf
    BY <1>1, <2>1, <2>2, <2>4, WrittenFacts, NoneIsNoObject
  <2>7. (Key(tf.name))' = key
    BY <1>1, <1>2, <2>6 DEF Key, DuckDBNames
  <2>8. OrphansUnanswered'
    BY <1>1, <1>2, <2>5, <2>6, <2>7 DEF OrphansUnanswered
  <2>9. State'
    BY <1>1, <1>2, <2>6 DEF State
  <2>10. CASE End("error", tf)
    BY <2>5, <2>8, <2>9, <2>10, Rests DEF End
  <2>11. CASE pc' = "readBack" /\ UNCHANGED <<plan, said>>
    <3>1. TypeOK'
      BY <1>1, <1>2, <2>5, <2>6, <2>11 DEF World, TypeOK
    <3>2. (SameName(plan.name, tf.name))'
      BY <1>1, <1>2, <2>6, <2>11 DEF SameName, Key, DuckDBNames, CatalogNamesEqual
    <3>3. HandlerInv'
      BY <1>1, <1>2, <2>6, <2>9, <2>11, <3>2 DEF State, HandlerInv
    <3>4. QED
      BY <2>5, <2>8, <3>1, <3>3 DEF IInv, World
  <2>12. QED
    BY <1>4, <2>10, <2>11
<1>5. QED
  BY <1>2, <1>3, <1>4

LEMMA ReadBackKeeps ==
  ASSUME IInv, ReadBack
  PROVE  IInv'
<1>1. /\ World /\ State /\ TypeOK /\ CatalogInv /\ tf # None /\ tf \in Records
      /\ plan # None /\ plan \in Models /\ plan.name \in Names
      /\ Key(plan.name) = Key(tf.name)
      /\ kind = "role" => PlainName(plan.name)
      /\ Recorded(plan, tf.seen) \in Records /\ ~Recorded(plan, tf.seen).tainted
      /\ Recorded(plan, tf.seen).name = plan.name
  BY UpdateFacts DEF ReadBack
<1>2. /\ UNCHANGED <<kind, parent, live, config, outside, misled>>
      /\ \/ End(WriteOf.missed, Recorded(plan, tf.seen))
         \/ End(WriteOf.missed, tf)
         \/ \E o \in Sees(plan.name) : End("ok", ReadInto(plan, o))
  BY DEF ReadBack, worldVars
<1>3. WriteOf.missed \in {"ok", "warning", "error"}
  BY <1>1, KindsAre
  DEF World, AllKinds, WriteOf, SchemaCreate, TableCreate, ViewWrite, SecretWrite,
      ShareCreate, ShareGrantCreate, SecureViewWrite, RoleCreate, RoleGrantCreate,
      DatabaseCreate, Write
<1>4. CASE End(WriteOf.missed, Recorded(plan, tf.seen))
  <2>1. State'
    BY <1>1, <1>2, <1>4 DEF State, End
  <2>2. QED
    BY <1>1, <1>2, <1>3, <1>4, <2>1, EndsUnwritten, NoneIsNoObject
<1>5. CASE End(WriteOf.missed, tf)
  <2>1. State'
    BY <1>1, <1>2, <1>5 DEF State, End
  <2>2. QED
    BY <1>1, <1>2, <1>3, <1>5, <2>1, EndsUnwritten
<1>6. ASSUME NEW o \in Sees(plan.name), End("ok", ReadInto(plan, o))
      PROVE  IInv'
  <2>1. o \in Objects
    BY <1>1, SeesFacts
  <2>2. /\ ReadInto(plan, o) \in Records /\ ReadInto(plan, o).name = plan.name
        /\ ~ReadInto(plan, o).tainted
    BY <1>1, <2>1, ReadIntoFacts DEF World
  <2>3. State'
    BY <1>1, <1>2, <1>6, <2>2 DEF End, State
  <2>4. QED
    BY <1>1, <1>2, <1>6, <2>2, <2>3, EndsUnwritten, NoneIsNoObject
<1>7. QED
  BY <1>2, <1>4, <1>5, <1>6

-----------------------------------------------------------------------------
(* Delete and ImportState.                                                 *)

\* What a plan decides depends on the type, the configuration and the state.
LEMMA SameDecision ==
  ASSUME UNCHANGED <<kind, config, tf>>
  PROVE  (Replaces(config, tf))' = Replaces(config, tf)
  BY DEF Replaces, NameReplaces, DuckDBNames, TableReplaces, ColumnsEquivalent,
         IcebergReplaces, Canonical

LEMMA StartDeleteKeeps ==
  ASSUME IInv, StartDelete
  PROVE  IInv'
<1>1. /\ World /\ State /\ TypeOK /\ tf # None /\ tf \in Records
      /\ plan = None /\ Key(tf.name) \in Keys
  <2>1. World /\ State /\ TypeOK
    BY Parts DEF StartDelete
  <2>2. tf # None /\ plan = None
    BY <2>1 DEF StartDelete, TypeOK
  <2>3. QED
    BY <2>1, <2>2, Parts
<1>2. /\ UNCHANGED <<kind, parent, live, config, outside, misled, tf, plan>>
      /\ pc' = "delete" /\ said' = "ok" /\ stale' = ~UpToDate
      /\ config # None => tf.tainted \/ Replaces(config, tf)
  BY DEF StartDelete, worldVars, budgets
<1>3. World' /\ OrphansUnanswered'
  BY <1>1, <1>2, Unwritten DEF Key, DuckDBNames
<1>4. TypeOK'
  BY <1>1, <1>2, <1>3 DEF World, TypeOK
<1>5. kind = "table" /\ ~stale' /\ Own # None => Canonical(tf.body) = Own.body
  <2>1. CASE kind = "table" /\ UpToDate
    <3>1. Knows(tf, Own)
      BY <2>1 DEF UpToDate
    <3>2. HasBody(kind)
      BY <2>1 DEF HasBody
    <3>3. Knows(tf, Own) = (Canonical(tf.body) = Own.body)
      BY <2>1, <3>2, Zenon DEF Knows
    <3>4. QED
      BY <3>1, <3>3
  <2>2. QED
    BY <1>2, <2>1
<1>6. Own' = Own
  BY <1>2 DEF Own, Key, DuckDBNames
<1>7. (Canonical(tf.body))' = Canonical(tf.body)
  BY <1>2 DEF Canonical
<1>8. (Replaces(config, tf))' = Replaces(config, tf)
  BY <1>2, SameDecision
<1>9. HandlerInv'
  BY <1>1, <1>2, <1>5, <1>6, <1>7, <1>8 DEF State, HandlerInv
<1>10. QED
  BY <1>3, <1>4, <1>9 DEF IInv, World

LEMMA DeleteKeeps ==
  ASSUME IInv, Delete
  PROVE  IInv'
<1> DEFINE key == Key(tf.name)
<1>1. /\ World /\ State /\ TypeOK /\ CatalogInv /\ HandlerInv /\ OrphansUnanswered
      /\ tf # None /\ tf \in Records /\ key \in Keys /\ plan = None
  <2>1. /\ World /\ State /\ TypeOK /\ CatalogInv /\ HandlerInv /\ OrphansUnanswered
    BY Parts DEF Delete
  <2>2. tf # None /\ plan = None
    BY <2>1 DEF Delete, TypeOK
  <2>3. QED
    BY <2>1, <2>2, Parts
<1>2. /\ UNCHANGED <<kind, parent, config, outside, stale>>
      /\ \/ End("error", tf) /\ UNCHANGED <<live, misled>>
         \/ End("ok", None) /\ misled' = misled \cup {key} /\ UNCHANGED live
         \/ ~Reachable /\ End("ok", None) /\ UNCHANGED <<live, misled>>
         \/ /\ Reachable /\ live' = [live EXCEPT ![key] = None] /\ UNCHANGED misled
            /\ End("ok", None) \/ End("error", tf) \/ UNCHANGED <<opVars, tf>>
  BY DEF Delete
<1>3. CASE End("error", tf) /\ UNCHANGED <<live, misled>>
  <2>1. State'
    BY <1>1, <1>2, <1>3 DEF State, End
  <2>2. QED
    BY <1>1, <1>2, <1>3, <2>1, EndsUnwritten
<1>4. CASE /\ End("ok", None) /\ UNCHANGED live
           /\ \/ misled' = misled \cup {key}
              \/ ~Reachable /\ UNCHANGED misled
  <2>1. tf' = None /\ pc' = "idle" /\ plan' = None /\ said' = "ok"
    BY <1>4 DEF End
  <2>2. WriteOf' = WriteOf
    BY <1>2, SameWrite
  <2>3. CatalogInv'
    BY <1>1, <1>2, <1>4, <2>2 DEF CatalogInv, Key, DuckDBNames
  <2>4. World' /\ State'
    BY <1>1, <1>2, <1>4, <2>1, <2>3 DEF World, State
  <2>5. OrphansUnanswered'
    BY <1>1, <1>4, <2>1 DEF OrphansUnanswered, CatalogInv, Reachable, World
  <2>6. QED
    BY <2>1, <2>4, <2>5, Rests
<1>5. CASE /\ Reachable /\ live' = [live EXCEPT ![key] = None] /\ UNCHANGED misled
           /\ End("ok", None) \/ End("error", tf) \/ UNCHANGED <<opVars, tf>>
  <2>1. said' \in {"ok", "warning", "error"} /\ (tf' = None \/ tf' = tf) /\ plan' = None
    BY <1>1, <1>5 DEF End, opVars, World
  <2>2. World' /\ live'[key] = None /\ \A k \in Keys : k # key => live'[k] = live[k]
    BY <1>1, <1>2, <1>5, <2>1, Overwritten
  <2>3. State'
    BY <1>1, <1>2, <2>1 DEF State
  <2>4. OrphansUnanswered'
    BY <1>1, <1>5, <2>2 DEF OrphansUnanswered
  <2>5. CASE pc' = "idle"
    BY <2>1, <2>2, <2>3, <2>4, <2>5, Rests
  <2>6. CASE UNCHANGED <<opVars, tf>>
    <3>1. pc' = "delete" /\ tf' = tf /\ plan' = plan /\ said' = said
      BY <2>6 DEF opVars, Delete
    <3>2. TypeOK'
      BY <1>1, <2>2, <2>3, <3>1 DEF World, State, TypeOK
    <3>3. Own' = None
      BY <1>2, <2>2, <3>1 DEF Own, Key, DuckDBNames
    <3>4. (Replaces(config, tf))' = Replaces(config, tf)
      BY <1>2, <3>1, SameDecision
    <3>5. config # None => tf.tainted \/ Replaces(config, tf)
      BY <1>1 DEF HandlerInv, Delete
    <3>6. HandlerInv'
      BY <1>1, <1>2, <2>3, <3>1, <3>3, <3>4, <3>5 DEF State, HandlerInv
    <3>7. QED
      BY <2>2, <2>4, <3>2, <3>6 DEF IInv, World
  <2>7. QED
    BY <1>5, <2>5, <2>6 DEF End
<1>6. QED
  BY <1>2, <1>3, <1>4, <1>5

LEMMA ImportKeeps ==
  ASSUME IInv, Import
  PROVE  IInv'
<1>1. World /\ TypeOK /\ CatalogInv /\ pc = "idle" /\ plan = None /\ tf = None
  <2>1. World /\ TypeOK /\ CatalogInv
    BY Parts
  <2>2. QED
    BY <2>1 DEF Import, TypeOK
<1>2. PICK n \in Names :
        /\ kind = "role" => n[2] = 0 /\ n[3] = 0
        /\ \E o \in Sees(n) :
             tf' = Reading(Recorded([name |-> n, body |-> IF HasBody(kind) THEN None
                                                          ELSE First], None), o)
  BY DEF Import
<1> DEFINE p == [name |-> n, body |-> IF HasBody(kind) THEN None ELSE First]
<1>3. PICK o \in Sees(n) : tf' = Reading(Recorded(p, None), o)
  BY <1>2
<1>4. p \in Models /\ p.name = n
  BY DEF Models, Bodies
<1> HIDE DEF p
<1>5. /\ Recorded(p, None) \in Records /\ Recorded(p, None).name = n
      /\ ~Recorded(p, None).tainted
  BY <1>4, RecordFacts
<1>6. o \in Objects
  BY <1>1, SeesFacts
<1>7. tf' \in Records /\ tf'.name = n /\ ~tf'.tainted
  BY <1>1, <1>3, <1>5, <1>6, ReadingFacts DEF World
<1>8. /\ UNCHANGED <<kind, parent, live, config, outside, misled>>
      /\ pc' = "idle" /\ plan' = None /\ said' = "ok"
  BY <1>1 DEF Import, worldVars
<1>9. World' /\ OrphansUnanswered'
  BY <1>1, <1>8, Unwritten
<1>10. State'
  BY <1>2, <1>7, <1>8 DEF State, PlainName
<1>11. QED
  BY <1>8, <1>9, <1>10, Rests

-----------------------------------------------------------------------------
(* The practitioner and everybody else.                                    *)

LEMMA EditKeeps ==
  ASSUME IInv, Edit
  PROVE  IInv'
<1>1. World /\ State /\ TypeOK /\ OrphansUnanswered /\ pc = "idle" /\ plan = None
  <2>1. World /\ State /\ TypeOK /\ OrphansUnanswered
    BY Parts DEF Edit
  <2>2. QED
    BY <2>1 DEF Edit, TypeOK
<1>2. /\ UNCHANGED <<kind, parent, live, outside, misled, tf, pc, plan, said>>
      /\ config' \in ConfigsOf(kind) \cup {None}
  BY DEF Edit, worldVars, opVars
<1>3. WriteOf' = WriteOf
  BY <1>2, SameWrite
<1>4. CatalogInv'
  BY <1>1, <1>2, <1>3 DEF World, CatalogInv, Key, DuckDBNames
<1>5. World' /\ State'
  BY <1>1, <1>2, <1>4 DEF World, State
<1>6. OrphansUnanswered'
  BY <1>1, <1>2 DEF OrphansUnanswered, Key, DuckDBNames
<1>7. QED
  BY <1>1, <1>2, <1>5, <1>6, Rests

\* Nobody else makes an object that Terraform would call its own.
LEMMA OutsideFacts ==
  ASSUME IInv, Outside
  PROVE  /\ live' \in [Keys -> Objects \cup {None}]
         /\ \A key \in Keys :
              live'[key] # None =>
                /\ Key(live'[key].name) = key
                /\ WriteOf.needs => parent'
                /\ live'[key].by = "terraform" =>
                     live[key] # None /\ live[key].by = "terraform"
<1>1. World
  BY Parts
<1>2. live \in [Keys -> Objects \cup {None}]
  BY <1>1 DEF World
<1>3. CASE parent /\ UNCHANGED parent /\
           \E key \in Keys :
             \/ \E o \in Foreign(key) : live' = [live EXCEPT ![key] = o]
             \/ live' = [live EXCEPT ![key] = None]
             \/ /\ live[key] # None
                /\ \E b \in {First, Second} : live' = [live EXCEPT ![key].body = b]
  <2>1. PICK key \in Keys :
             \/ \E o \in Foreign(key) : live' = [live EXCEPT ![key] = o]
             \/ live' = [live EXCEPT ![key] = None]
             \/ /\ live[key] # None
                /\ \E b \in {First, Second} : live' = [live EXCEPT ![key].body = b]
    BY <1>3
  <2>2. parent' = TRUE
    BY <1>3
  <2>3. CASE \E o \in Foreign(key) : live' = [live EXCEPT ![key] = o]
    <3>1. PICK o \in Foreign(key) : live' = [live EXCEPT ![key] = o]
      BY <2>3
    <3>2. o \in Objects /\ o.by = "other" /\ Key(o.name) = key
      BY <3>1 DEF Foreign
    <3>3. QED
      BY <1>1, <1>2, <2>2, <3>1, <3>2 DEF World, CatalogInv
  <2>4. CASE live' = [live EXCEPT ![key] = None]
    BY <1>1, <1>2, <2>2, <2>4 DEF World, CatalogInv
  <2>5. CASE /\ live[key] # None
             /\ \E b \in {First, Second} : live' = [live EXCEPT ![key].body = b]
    <3>1. PICK b \in {First, Second} : live' = [live EXCEPT ![key].body = b]
      BY <2>5
    <3> DEFINE o == [live[key] EXCEPT !.body = b]
    <3>2. live[key] \in Objects /\ b \in Bodies
      BY <1>2, <2>5 DEF Bodies
    <3>3. o \in Objects /\ o.name = live[key].name /\ o.by = live[key].by
      BY <3>2 DEF Objects
    <3>4. live' = [live EXCEPT ![key] = o]
      BY <3>1
    <3> HIDE DEF o
    <3>5. QED
      BY <1>1, <1>2, <2>2, <2>5, <3>3, <3>4 DEF World, CatalogInv
  <2>6. QED
    BY <2>1, <2>3, <2>4, <2>5
<1>4. CASE live' = [key \in Keys |-> None]
  BY <1>4
<1>5. QED
  BY <1>3, <1>4 DEF Outside

LEMMA OutsideKeeps ==
  ASSUME IInv, Outside
  PROVE  IInv'
<1>1. World /\ TypeOK /\ HandlerInv /\ OrphansUnanswered
  BY Parts
<1>2. /\ UNCHANGED <<kind, config, tf, pc, plan, said, misled>>
      /\ stale' = TRUE /\ outside' = outside + 1 /\ outside < MaxOutside
  BY DEF Outside, opVars
<1>3. outside' \in 0..MaxOutside
  BY <1>1, <1>2, CatalogObjectAssumption DEF World
<1>4. parent' \in BOOLEAN
  BY <1>1 DEF World, Outside
<1>5. WriteOf' = WriteOf
  BY <1>2, SameWrite
<1>6. CatalogInv'
  BY <1>2, <1>5, OutsideFacts DEF CatalogInv, Key, DuckDBNames
<1>7. TypeOK'
  BY <1>1, <1>2, <1>3, <1>4, OutsideFacts DEF TypeOK
<1>8. OrphansUnanswered'
  BY <1>1, <1>2, OutsideFacts DEF OrphansUnanswered, Key, DuckDBNames
<1>9. (Replaces(config, tf))' = Replaces(config, tf)
  BY <1>2, SameDecision
<1>10. (SameName(plan.name, tf.name))' = SameName(plan.name, tf.name)
  BY <1>2 DEF SameName, Key, DuckDBNames, CatalogNamesEqual
<1>11. HandlerInv'
  BY <1>1, <1>2, <1>9, <1>10 DEF HandlerInv
<1>12. QED
  BY <1>6, <1>7, <1>8, <1>11 DEF IInv

LEMMA StutterKeeps ==
  ASSUME IInv, UNCHANGED vars
  PROVE  IInv'
<1>1. UNCHANGED <<kind, parent, live, config, tf, pc, plan, said, stale, misled, outside>>
  BY DEF vars, worldVars, opVars, budgets
<1>2. TypeOK /\ CatalogInv /\ HandlerInv /\ OrphansUnanswered
  BY DEF IInv
<1>3. TypeOK'
  BY <1>1, <1>2 DEF TypeOK
<1>4. WriteOf' = WriteOf
  BY <1>1, SameWrite
<1>5. CatalogInv' /\ OrphansUnanswered'
  BY <1>1, <1>2, <1>4 DEF CatalogInv, OrphansUnanswered, Key, DuckDBNames
<1>6. (Replaces(config, tf))' = Replaces(config, tf)
  BY <1>1, SameDecision
<1>7. (SameName(plan.name, tf.name))' = SameName(plan.name, tf.name)
  BY <1>1 DEF SameName, Key, DuckDBNames, CatalogNamesEqual
<1>8. Own' = Own /\ (Canonical(tf.body))' = Canonical(tf.body)
  BY <1>1 DEF Own, Key, DuckDBNames, Canonical
<1>9. HandlerInv'
  BY <1>1, <1>2, <1>6, <1>7, <1>8 DEF HandlerInv
<1>10. QED
  BY <1>3, <1>5, <1>9 DEF IInv

LEMMA InvNext == IInv /\ [Next]_vars => IInv'
<1> SUFFICES ASSUME IInv, [Next]_vars PROVE IInv'
  OBVIOUS
<1>1. CASE StartCreate \/ Create \/ ReadNew \/ Refresh \/ ReadMore
  BY <1>1, StartCreateKeeps, CreateKeeps, ReadNewKeeps, RefreshKeeps, ReadMoreKeeps
<1>2. CASE StartUpdate \/ UpdateName \/ Update \/ ReadBack
  BY <1>2, StartUpdateKeeps, UpdateNameKeeps, UpdateKeeps, ReadBackKeeps
<1>3. CASE StartDelete \/ Delete \/ Import \/ Edit \/ Outside \/ UNCHANGED vars
  BY <1>3, StartDeleteKeeps, DeleteKeeps, ImportKeeps, EditKeeps, OutsideKeeps,
     StutterKeeps
<1>4. QED
  BY <1>1, <1>2, <1>3 DEF Next

-----------------------------------------------------------------------------
(* The theorems.                                                           *)

\* Every state of an execution satisfies the invariant.
THEOREM Invariant == Spec => []IInv
  BY InvInit, InvNext, PTL DEF Spec

\* Every variable has its type, and a handler its model while it needs it.
THEOREM TypeCorrect == Spec => []TypeOK
<1>1. IInv => TypeOK
  BY DEF IInv
<1>2. QED
  BY <1>1, Invariant, PTL

\* An object that Terraform made is in its state, unless its create had no
\* answer or a Delete took another not-found error for its own.
THEOREM OrphansAreUnanswered == Spec => []OrphansUnanswered
<1>1. IInv => OrphansUnanswered
  BY DEF IInv
<1>2. QED
  BY <1>1, Invariant, PTL

\* Only a Delete removes an object.
LEMMA OnlyDeleteDrops ==
  ASSUME IInv, Next, NEW key \in Keys, live[key] # None, live'[key] = None,
         outside' = outside
  PROVE  Delete /\ Reachable /\ key = Key(tf.name)
<1>1. World
  BY Parts
<1>2. live \in [Keys -> Objects \cup {None}]
  BY <1>1 DEF World
<1>3. ~Outside
  <2>1. outside \in Int
    BY <1>1, CatalogObjectAssumption DEF World
  <2>2. Outside => outside' = outside + 1
    BY DEF Outside
  <2>3. QED
    BY <2>1, <2>2
<1>4. ~Create
  <2>1. SUFFICES ASSUME Create PROVE FALSE
    OBVIOUS
  <2>2. plan \in Models
    BY <2>1, Parts DEF Create, TypeOK
  <2>3. CreatedBy("terraform") # None /\ CreatedBy("unanswered") # None
    BY <2>2, CreatedFacts
  <2>4. \/ live' = live
        \/ live' = [live EXCEPT ![Key(plan.name)] = CreatedBy("terraform")]
        \/ live' = [live EXCEPT ![Key(plan.name)] = CreatedBy("unanswered")]
    BY <2>1 DEF Create
  <2>5. QED
    BY <1>2, <2>3, <2>4
<1>5. ~Update
  <2>1. SUFFICES ASSUME Update PROVE FALSE
    OBVIOUS
  <2>2. pc = "update" /\ Updates(plan, tf)
    BY <2>1 DEF Update
  <2>3. live[key] \in Objects
    BY <1>2
  <2>4. [live[key] EXCEPT !.body = Written(live[key])] # None
    BY <2>2, <2>3, WrittenFacts, NoneIsNoObject
  <2>5. \/ live' = live
        \/ live' = [live EXCEPT ![Key(plan.name)] =
             IF @ = None THEN CreatedBy("terraform")
             ELSE [@ EXCEPT !.body = Written(live[Key(plan.name)])]]
    BY <2>1 DEF Update
  <2>6. QED
    BY <1>2, <2>4, <2>5
<1>6. Delete
  <2>1. live' # live
    OBVIOUS
  <2>2. QED
    BY <1>3, <1>4, <1>5, <2>1
    DEF Next, StartCreate, ReadNew, Refresh, ReadMore, StartUpdate, UpdateName,
        ReadBack, StartDelete, Import, Edit, worldVars
<1>7. Reachable /\ live' = [live EXCEPT ![Key(tf.name)] = None]
  BY <1>6 DEF Delete
<1>8. key = Key(tf.name)
  BY <1>2, <1>7
<1>9. QED
  BY <1>6, <1>7, <1>8

\* A Delete drops an object only if it is no longer configured, was left by a
\* failed create, has another name or is another object altogether.
THEOREM DropsAreJustified == Spec => DropsJustified
<1>1. ASSUME IInv, Next, NEW key \in Keys, live[key] # None, live'[key] = None,
             outside' = outside, config # None,
             ~(tf.tainted /\ kind # "secure_view"),
             ~NamesAnother(config.name, tf.name),
             ~(kind = "table" /\ (stale \/ live[key].body # Canonical(config.body)))
      PROVE  kind = "iceberg" /\ ~SameCatalog(config.body, tf.body)
  <2>1. Delete /\ key = Key(tf.name)
    BY <1>1, OnlyDeleteDrops
  <2>2. World /\ State /\ HandlerInv /\ tf # None /\ TypeOK
    BY <1>1, <2>1, Parts DEF Delete, TypeOK
  <2>3. /\ tf.name \in Names /\ config.name \in Names
        /\ kind = "role" => PlainName(config.name) /\ PlainName(tf.name)
    BY <1>1, <2>2, Parts DEF State
  <2>4. ~tf.tainted
    BY <1>1, <2>2 DEF State
  <2>5. Replaces(config, tf)
    BY <1>1, <2>1, <2>2, <2>4 DEF HandlerInv, Delete
  <2>6. ~NameReplaces(config.name, tf.name)
    BY <1>1, <2>2, <2>3, ReplacesFacts DEF NamesAnother, World
  <2>7. kind # "table"
    <3>1. SUFFICES ASSUME kind = "table" PROVE FALSE
      OBVIOUS
    <3>2. ~ColumnsEquivalent(config.body, tf.body)
      BY <2>5, <2>6, <3>1 DEF Replaces, TableReplaces
    <3>3. live[key] \in Objects
      BY <1>1, <2>2 DEF World
    <3>4. Canonical(tf.body) = live[key].body /\ live[key].body = Canonical(config.body)
      BY <1>1, <2>1, <2>2, <3>1 DEF HandlerInv, Own, Delete
    <3>5. tf.body = None
      BY <3>2, <3>4 DEF ColumnsEquivalent
    <3>6. live[key].body = None
      BY <3>1, <3>4, <3>5, CatalogObjectAssumption DEF Canonical
    <3>7. QED
      BY <3>3, <3>6, CatalogObjectAssumption DEF Objects, Bodies
  <2>8. QED
    BY <2>5, <2>6, <2>7 DEF Replaces, IcebergReplaces
<1>2. ASSUME IInv, [Next]_vars
      PROVE  [\A key \in Keys :
                live[key] # None /\ live'[key] = None /\ outside' = outside =>
                  \/ config = None
                  \/ tf.tainted /\ kind # "secure_view"
                  \/ NamesAnother(config.name, tf.name)
                  \/ kind = "table" /\ (stale \/ live[key].body # Canonical(config.body))
                  \/ kind = "iceberg" /\ ~SameCatalog(config.body, tf.body)]_vars
  BY <1>1, <1>2
<1>3. QED
  BY <1>2, Invariant, PTL DEF Spec, DropsJustified


\* A refresh that keeps the resource found the object under its key.
LEMMA RefreshFinds ==
  ASSUME IInv, Refresh, said' = "ok", tf' # None, kind # "secret"
  PROVE  Own # None
<1>1. TypeOK /\ CatalogInv /\ tf.name \in Names
  BY Parts DEF Refresh
<1>2. Sees(tf.name) # {}
  BY DEF Refresh, End
<1>3. QED
  BY <1>1, <1>2, SeesFacts DEF Own

\* The name in the state changes to that of the plan of an update only.
LEMMA NameStays ==
  ASSUME IInv, Next, tf # None, tf' # None, outside' = outside
  PROVE  \/ tf'.name = tf.name
         \/ pc \in {"update", "readBack"} /\ tf'.name = plan.name
<1>1. World /\ TypeOK /\ CatalogInv /\ HandlerInv /\ tf \in Records /\ tf.name \in Names
  BY Parts
<1>2. ~StartCreate /\ ~Create /\ ~Import
  BY <1>1 DEF StartCreate, Create, Import, HandlerInv
<1>3. ~Outside
  <2>1. outside \in Int
    BY <1>1, CatalogObjectAssumption DEF World
  <2>2. Outside => outside' = outside + 1
    BY DEF Outside
  <2>3. QED
    BY <2>1, <2>2
<1>4. CASE StartUpdate \/ StartDelete \/ Edit
  <2>1. tf' = tf
    BY <1>4 DEF StartUpdate, StartDelete, Edit, End
  <2>2. QED
    BY <2>1
<1>5. CASE Delete
  <2>1. tf' = tf
    BY <1>5 DEF Delete, End
  <2>2. QED
    BY <2>1
<1>6. \A o \in Sees(tf.name) : Reading(tf, o).name = tf.name
  BY <1>1, SeesFacts, ReadingFacts DEF World
<1>7. CASE Refresh
  <2>1. tf' = tf \/ \E o \in Sees(tf.name) : tf' = Reading(tf, o)
    BY <1>7 DEF Refresh, End
  <2>2. QED
    BY <1>6, <2>1
<1>8. CASE ReadMore
  <2>1. \/ tf' = tf
        \/ tf' = [tf EXCEPT !.body = None]
        \/ \E o \in Sees(tf.name) : tf' = Reading(tf, o)
    BY <1>8 DEF ReadMore, End
  <2>2. [tf EXCEPT !.body = None].name = tf.name
    BY <1>1 DEF Records
  <2>3. QED
    BY <1>6, <2>1, <2>2
<1>9. plan # None => \A o \in Sees(plan.name) : ReadInto(plan, o).name = plan.name
  BY <1>1, Parts, SeesFacts, ReadIntoFacts DEF World
<1>10. \A p, seen : Recorded(p, seen).name = p.name
  BY DEF Recorded
<1>11. CASE ReadNew
  <2>1. plan # None /\ tf.name = plan.name
    BY <1>1, <1>11 DEF ReadNew, TypeOK, HandlerInv
  <2>2. \/ tf' = tf
        \/ tf' = Recorded(plan, None)
        \/ \E o \in Sees(plan.name) : tf' = ReadInto(plan, o)
    BY <1>11 DEF ReadNew, Missed, End
  <2>3. QED
    BY <1>9, <1>10, <2>1, <2>2
<1>12. CASE UpdateName
  <2>1. pc = "update" /\ (tf' = tf \/ tf' = Recorded(plan, tf.seen))
    BY <1>12 DEF UpdateName, End
  <2>2. QED
    BY <1>10, <2>1
<1>13. CASE Update
  <2>1. pc = "update" /\ (tf' = tf \/ tf' = Saved)
    BY <1>13 DEF Update, End
  <2>2. Saved = tf \/ Saved.name = plan.name
    BY <1>10 DEF Saved
  <2>3. QED
    BY <2>1, <2>2
<1>14. CASE ReadBack
  <2>1. /\ pc = "readBack" /\ plan # None
        /\ \/ tf' = tf
           \/ tf' = Recorded(plan, tf.seen)
           \/ \E o \in Sees(plan.name) : tf' = ReadInto(plan, o)
    BY <1>1, <1>14 DEF ReadBack, End, TypeOK
  <2>2. QED
    BY <1>9, <1>10, <2>1
<1>15. QED
  BY <1>2, <1>3, <1>4, <1>5, <1>7, <1>8, <1>11, <1>12, <1>13, <1>14 DEF Next

\* Terraform does not rename an object.
LEMMA ObjectKeepsName ==
  ASSUME IInv, Next, tf # None, outside' = outside,
         NEW key \in Keys, live[key] # None, live'[key] # None
  PROVE  live'[key].name = live[key].name /\ kind' = kind
<1>1. World /\ TypeOK /\ HandlerInv
  BY Parts
<1>2. live \in [Keys -> Objects \cup {None}] /\ live[key] \in Objects
  BY <1>1 DEF World
<1>3. ~Create
  BY <1>1 DEF Create, HandlerInv
<1>4. ~Outside
  <2>1. outside \in Int
    BY <1>1, CatalogObjectAssumption DEF World
  <2>2. Outside => outside' = outside + 1
    BY DEF Outside
  <2>3. QED
    BY <2>1, <2>2
<1>5. CASE Update
  <2>1. /\ pc = "update" /\ Updates(plan, tf) /\ kind' = kind
        /\ \/ live' = live
           \/ live' = [live EXCEPT ![Key(plan.name)] =
                IF @ = None THEN CreatedBy("terraform")
                ELSE [@ EXCEPT !.body = Written(live[Key(plan.name)])]]
    BY <1>5 DEF Update
  <2>2. [live[key] EXCEPT !.body = Written(live[key])].name = live[key].name
    BY <1>2, <2>1, WrittenFacts
  <2>3. live'[key] \in {live[key], [live[key] EXCEPT !.body = Written(live[key])]}
    BY <1>2, <2>1
  <2>4. QED
    BY <2>1, <2>2, <2>3
<1>6. CASE Delete
  <2>1. kind' = kind /\ (live' = live \/ live' = [live EXCEPT ![Key(tf.name)] = None])
    BY <1>6 DEF Delete
  <2>2. QED
    BY <1>2, <2>1
<1>7. CASE ~Update /\ ~Delete
  <2>1. live' = live /\ kind' = kind
    BY <1>3, <1>4, <1>7
    DEF Next, StartCreate, ReadNew, Refresh, ReadMore, StartUpdate, UpdateName,
        ReadBack, StartDelete, Import, Edit, worldVars
  <2>2. QED
    BY <2>1
<1>8. QED
  BY <1>5, <1>6, <1>7

\* A refresh keeps the resource for the object that its statements act on, and
\* no update leaves a spelling in the state that a database cannot be attached
\* by: a name is the same for the provider, for a query and for a statement.
THEOREM NamesAreAgreed == Spec => NamesAgree
<1>1. ASSUME IInv, [Next]_vars
      PROVE  [Refresh /\ said' = "ok" /\ tf' # None /\ kind # "secret" => Own # None]_vars
  BY <1>1, RefreshFinds
<1>2. ASSUME IInv, Next, kind \in {"database", "iceberg"}, tf # None, tf' # None,
             Own # None, Own' # None, outside' = outside,
             CatalogNamesEqual(Own.name, tf.name)
      PROVE  CatalogNamesEqual(Own.name, tf.name)'
  <2> DEFINE key == Key(tf.name)
  <2>1. HandlerInv /\ key \in Keys
    BY <1>2, Parts
  <2>2. \/ tf'.name = tf.name
        \/ pc \in {"update", "readBack"} /\ tf'.name = plan.name
    BY <1>2, NameStays
  <2>3. SameName(tf'.name, tf.name)
    BY <2>1, <2>2 DEF HandlerInv, SameName, CatalogNamesEqual
  <2>4. CatalogNamesEqual(tf'.name, tf.name) /\ Key(tf'.name) = key
    BY <1>2, <2>3 DEF SameName
  <2>5. kind' = kind
    <3>1. QED
      BY <1>2
      DEF Next, StartCreate, Create, ReadNew, Refresh, ReadMore, StartUpdate,
          UpdateName, Update, ReadBack, StartDelete, Delete, Import, Edit, Outside,
          worldVars
  <2>6. Own = live[key] /\ Own' = live'[key]
    BY <2>4, <2>5 DEF Own, Key, DuckDBNames
  <2>7. live'[key].name = live[key].name
    BY <1>2, <2>1, <2>6, ObjectKeepsName
  <2>8. QED
    BY <1>2, <2>4, <2>6, <2>7 DEF CatalogNamesEqual
<1>3. ASSUME IInv, [Next]_vars
      PROVE  [/\ kind \in {"database", "iceberg"} /\ tf # None /\ tf' # None
              /\ Own # None /\ Own' # None /\ outside' = outside
              /\ CatalogNamesEqual(Own.name, tf.name)
              => CatalogNamesEqual(Own.name, tf.name)']_vars
  BY <1>2, <1>3
<1>4. QED
  BY <1>1, <1>3, Invariant, PTL DEF Spec, NamesAgree, RefreshSeesOwn, SpellingAttaches


-----------------------------------------------------------------------------
(* A write is applied or told.                                             *)

BodyKinds == {"table", "view", "secret", "share", "secure_view", "database"}
BareKinds == {"schema", "share_grant", "role", "role_grant"}

\* What a write leaves, the state knows and an update compares, type by type.
LEMMA FulfilsFacts ==
  ASSUME NEW p, NEW o
  PROVE  /\ kind = "iceberg"
              => (Fulfils(p, o)
                    <=> (p.body # None /\ SameCatalog(p.body, o.body) => p.body = o.body))
         /\ kind \in BodyKinds => (Fulfils(p, o) <=> Canonical(p.body) = o.body)
         /\ kind \in BareKinds => Fulfils(p, o)
<1>1. CASE kind = "iceberg"
  <2>0. HasBody(kind)
    BY <1>1 DEF HasBody
  <2>1. Fulfils(p, o)
          <=> (p.body # None /\ SameCatalog(p.body, o.body) => p.body = o.body)
    BY <1>1, <2>0, Zenon DEF Fulfils
  <2>2. QED
    BY <1>1, <2>1 DEF BodyKinds, BareKinds
<1>2. CASE kind \in BodyKinds
  <2>1. kind # "iceberg" /\ HasBody(kind)
    BY <1>2 DEF BodyKinds, HasBody
  <2>2. Fulfils(p, o) <=> Canonical(p.body) = o.body
    BY <2>1, Zenon DEF Fulfils
  <2>3. QED
    BY <1>2, <2>1, <2>2 DEF BodyKinds, BareKinds
<1>3. CASE kind \in BareKinds
  <2>1. kind # "iceberg" /\ ~HasBody(kind)
    BY <1>3 DEF BareKinds, HasBody
  <2>2. Fulfils(p, o)
    BY <2>1, Zenon DEF Fulfils
  <2>3. QED
    BY <1>3, <2>1, <2>2 DEF BodyKinds, BareKinds
<1>4. QED
  BY <1>1, <1>2, <1>3

LEMMA KnowsFacts ==
  ASSUME NEW r, NEW o
  PROVE  /\ kind = "secret" => (Knows(r, o) <=> r.seen = o.body)
         /\ kind = "iceberg"
              => (Knows(r, o)
                    <=> (r.body # None /\ SameCatalog(r.body, o.body) => r.body = o.body))
         /\ kind \in BodyKinds /\ kind # "secret"
              => (Knows(r, o) <=> Canonical(r.body) = o.body)
         /\ kind \in BareKinds => Knows(r, o)
<1>1. CASE kind = "secret"
  <2>0. HasBody(kind)
    BY <1>1 DEF HasBody
  <2>1. Knows(r, o) <=> r.seen = o.body
    BY <1>1, <2>0, Zenon DEF Knows
  <2>2. QED
    BY <1>1, <2>1 DEF BareKinds
<1>2. CASE kind = "iceberg"
  <2>0. HasBody(kind)
    BY <1>2 DEF HasBody
  <2>1. Knows(r, o)
          <=> (r.body # None /\ SameCatalog(r.body, o.body) => r.body = o.body)
    BY <1>2, <2>0, Zenon DEF Knows
  <2>2. QED
    BY <1>2, <2>1 DEF BodyKinds, BareKinds
<1>3. CASE kind \in BodyKinds /\ kind # "secret"
  <2>1. kind \notin {"secret", "iceberg"} /\ HasBody(kind) /\ kind # "iceberg"
    BY <1>3 DEF BodyKinds, HasBody
  <2>2. Knows(r, o) <=> Canonical(r.body) = o.body
    BY <2>1, Zenon DEF Knows
  <2>3. QED
    BY <1>3, <2>1, <2>2 DEF BodyKinds, BareKinds
<1>4. CASE kind \in BareKinds
  <2>1. kind # "secret" /\ kind # "iceberg" /\ ~HasBody(kind) /\ kind \notin BodyKinds
    BY <1>4 DEF BodyKinds, BareKinds, HasBody
  <2>2. Knows(r, o)
    BY <2>1, Zenon DEF Knows
  <2>3. QED
    BY <1>4, <2>1, <2>2
<1>5. QED
  BY <1>1, <1>2, <1>3, <1>4

LEMMA UpdatesFacts ==
  ASSUME NEW c, NEW r
  PROVE  /\ kind = "secret" => Updates(c, r)
         /\ kind \in {"view", "secure_view", "share"}
              => (Updates(c, r) <=> c.body # r.body)
         /\ kind \in {"database", "iceberg"}
              => (Updates(c, r) <=> c.body # r.body /\ c.body # None)
         /\ kind \in BareKinds \cup {"table"} => ~Updates(c, r)
<1>1. CASE kind = "secret"
  <2>1. Updates(c, r)
    BY <1>1, Zenon DEF Updates, SecretUpdates
  <2>2. QED
    BY <1>1, <2>1 DEF BareKinds
<1>2. CASE kind \in {"view", "secure_view", "share"}
  <2>1. Updates(c, r) <=> c.body # r.body
    <3>1. CASE kind = "view"
      BY <3>1, Zenon DEF Updates, ViewUpdates
    <3>2. CASE kind = "secure_view"
      BY <3>2, Zenon DEF Updates, SecureViewUpdates
    <3>3. CASE kind = "share"
      BY <3>3, Zenon DEF Updates, ShareUpdates
    <3>4. QED
      BY <1>2, <3>1, <3>2, <3>3
  <2>2. QED
    BY <1>2, <2>1 DEF BareKinds
<1>3. CASE kind \in {"database", "iceberg"}
  <2>1. Updates(c, r) <=> c.body # r.body /\ c.body # None
    BY <1>3, Zenon DEF Updates, DatabaseUpdates
  <2>2. QED
    BY <1>3, <2>1 DEF BareKinds
<1>4. CASE kind \in BareKinds \cup {"table"}
  <2>1. kind \in {"schema", "table", "share_grant", "role", "role_grant"}
    BY <1>4 DEF BareKinds
  <2>2. ~Updates(c, r)
    BY <2>1, Zenon DEF Updates
  <2>3. QED
    BY <2>1, <2>2
<1>5. QED
  BY <1>1, <1>2, <1>3, <1>4

\* Which writes are read back, and that a read-back that fails is told.
LEMMA WriteFacts ==
  ASSUME kind \in Kinds
  PROVE  /\ kind \in {"schema", "table", "share_grant"} <=> ~WriteOf.reads
         /\ kind \notin {"schema", "table", "share_grant"} => WriteOf.missed # "ok"
  BY KindsAre
  DEF AllKinds, WriteOf, SchemaCreate, TableCreate, ViewWrite, SecretWrite,
      ShareCreate, ShareGrantCreate, SecureViewWrite, RoleCreate, RoleGrantCreate,
      DatabaseCreate, Write

LEMMA TypeNames ==
  ASSUME kind \in Kinds
  PROVE  kind \in BodyKinds \cup BareKinds \cup {"iceberg"}
  BY KindsAre DEF AllKinds, BodyKinds, BareKinds

\* A query for the text of an object that is there finds that object.
LEMMA SeesOwn ==
  ASSUME TypeOK, CatalogInv, NEW n \in Names, live[Key(n)] # None, NEW o \in Sees(n)
  PROVE  o = live[Key(n)] /\ o \in Objects
<1>1. kind \in AllKinds /\ live \in [Keys -> Objects \cup {None}]
  BY KindsAre DEF TypeOK
<1>2. o \in Found(n) /\ o \in Objects
  BY SeesFacts DEF Sees
<1>3. /\ Key(n) \in Keys /\ Key(n)[1] = n[1]
      /\ Key(n)[2] = IF DuckDBNames(kind) THEN n[2] ELSE 0
  BY NameFacts
<1>4. live[Key(n)] \in Rows(n) /\ live[Key(n)] \in Objects
  BY <1>1, <1>3 DEF Rows
<1>5. ASSUME o \in Rows(n), DuckDBNames(kind) => CatalogNamesEqual(o.name, n)
      PROVE  o = live[Key(n)]
  <2>1. PICK key \in Keys : key[1] = n[1] /\ o = live[key] /\ Key(o.name) = key
    BY <1>2, <1>5, NoneIsNoObject DEF Rows, CatalogInv
  <2>2. o.name \in Names
    BY <1>2 DEF Objects
  <2>3. o.name[1] = n[1]
    BY <2>1, <2>2, NameFacts
  <2>4. key = Key(n)
    BY <1>5, <2>1, <2>2, <2>3, KeyFacts DEF CatalogNamesEqual
  <2>5. QED
    BY <2>1, <2>4
<1>6. DuckDBNames(kind) => CatalogNamesEqual(live[Key(n)].name, n)
  <2>1. live[Key(n)].name \in Names /\ Key(live[Key(n)].name) = Key(n)
    BY <1>1, <1>3, <1>4 DEF CatalogInv, Objects
  <2>2. QED
    BY <2>1, KeyFacts DEF CatalogNamesEqual
<1>7. CASE kind = "secret"
  <2>1. DuckDBNames(kind)
    BY <1>7 DEF DuckDBNames
  <2>2. Found(n) = SecretByName(Rows(n), n)
    BY <1>7, <2>1, Zenon DEF Found
  <2>3. o \in Rows(n) /\ CatalogNamesEqual(o.name, n)
    BY <1>2, <1>4, <1>6, <2>1, <2>2 DEF SecretByName
  <2>4. QED
    BY <1>2, <1>5, <2>3
<1>8. CASE DuckDBNames(kind) /\ kind # "secret"
  <2>1. Found(n) = MatchCatalogRow(Rows(n), n)
    BY <1>8, Zenon DEF Found
  <2>2. QED
    BY <1>2, <1>5, <2>1 DEF MatchCatalogRow
<1>9. CASE ~DuckDBNames(kind)
  <2>1. kind # "secret"
    BY <1>9 DEF DuckDBNames
  <2>2. Found(n) = Rows(n)
    BY <1>9, <2>1, Zenon DEF Found
  <2>3. QED
    BY <1>2, <1>5, <1>9, <2>2
<1>10. QED
  BY <1>7, <1>8, <1>9

\* The body of a share or a database that can be configured has one spelling.
LEMMA PlainBodies ==
  ASSUME kind \in {"share", "database"}, NEW p \in ConfigsOf(kind)
  PROVE  Canonical(p.body) = p.body
<1>1. p \in [name : Names, body : {First, Second}]
  <2>1. CASE kind = "share"
    BY <2>1, Zenon DEF ConfigsOf, ShareConfigs
  <2>2. CASE kind = "database"
    BY <2>2, Zenon DEF ConfigsOf, DatabaseConfigs
  <2>3. QED
    BY <2>1, <2>2
<1>2. p.body \in {First, Second}
  BY <1>1
<1>3. QED
  BY <1>2, CatalogObjectAssumption DEF Canonical

\* A read-back of what the model asked for records the model.
LEMMA ReadsBack ==
  ASSUME kind \in Kinds, kind # "table", NEW p \in ConfigsOf(kind), NEW o \in Objects,
         Fulfils(p, o)
  PROVE  ReadInto(p, o).body = p.body /\ Knows(ReadInto(p, o), o)
<1>1. p \in Models /\ (kind # "iceberg" => p.body \in Bodies)
  BY ConfigFacts
<1> DEFINE r == Recorded(p, None)
<1>2. /\ r \in Records /\ r.body = p.body /\ r.seen = None
      /\ Recorded(p, o.body).body = p.body
  BY <1>1, RecordFacts DEF Recorded
<1> HIDE DEF r
<1>3. CASE kind = "view"
  <2>1. ReadInto(p, o) = Recorded(p, o.body)
    BY <1>3 DEF ReadInto
  <2>2. QED
    BY <1>2, <1>3, <2>1, FulfilsFacts, KnowsFacts DEF BodyKinds
<1>4. CASE kind # "view"
  <2>0. ReadInto(p, o) = Reading(r, o)
    BY <1>4 DEF ReadInto, r
  <2>1. CASE kind = "secret"
    <3>1. Reading(r, o) = [r EXCEPT !.seen = o.body]
      BY <2>1, Zenon DEF Reading, ReadSecret
    <3>2. Reading(r, o).body = p.body /\ Reading(r, o).seen = o.body
      BY <1>2, <3>1 DEF Records
    <3>3. QED
      BY <2>0, <2>1, <3>2, KnowsFacts
  <2>2. CASE kind \in {"share", "database"}
    <3>1. Reading(r, o) = [r EXCEPT !.body = o.body]
      <4>1. CASE kind = "share"
        BY <4>1, Zenon DEF Reading, ReadShare
      <4>2. CASE kind = "database"
        BY <4>2, Zenon DEF Reading, ReadDatabase
      <4>3. QED
        BY <2>2, <4>1, <4>2
    <3>2. Reading(r, o).body = o.body
      BY <1>2, <3>1 DEF Records
    <3>3. Canonical(p.body) = o.body /\ Canonical(p.body) = p.body
      BY <2>2, FulfilsFacts, PlainBodies DEF BodyKinds
    <3>4. QED
      BY <2>0, <2>2, <3>2, <3>3, KnowsFacts DEF BodyKinds
  <2>3. CASE kind = "secure_view"
    <3>1. Reading(r, o) = ReadSecureView(r, o)
      BY <2>3, Zenon DEF Reading
    <3>2. Canonical(p.body) = o.body /\ p.body \in Bodies
      BY <1>1, <2>3, FulfilsFacts DEF BodyKinds
    <3>3. p.body # None
      BY <3>2, CatalogObjectAssumption DEF Bodies
    <3>4. Reading(r, o) = r
      BY <1>2, <3>1, <3>2, <3>3 DEF ReadSecureView
    <3>5. QED
      BY <1>2, <2>0, <2>3, <3>2, <3>4, KnowsFacts DEF BodyKinds
  <2>4. CASE kind \in BareKinds \cup {"iceberg"}
    <3>1. kind \in {"schema", "share_grant", "role", "role_grant", "iceberg"}
      BY <2>4 DEF BareKinds
    <3>2. Reading(r, o) = r
      BY <3>1, Zenon DEF Reading
    <3>3. QED
      BY <1>2, <2>0, <2>4, <3>2, FulfilsFacts, KnowsFacts
  <2>5. QED
    BY <1>4, <2>1, <2>2, <2>3, <2>4, TypeNames DEF BodyKinds
<1>5. QED
  BY <1>3, <1>4

\* A resource is settled if the object under its name is what its record says.
LEMMA SettledAfter ==
  ASSUME kind \in Kinds, UNCHANGED <<kind, parent, config>>, config # None,
         tf' # None, ~tf'.tainted, tf'.name = config.name, tf'.body = config.body,
         Reachable, NEW o \in Objects, live'[Key(config.name)] = o, Knows(tf', o),
         kind = "secret" => o.body = Canonical(config.body)
  PROVE  Settled'
<1>1. Own' = o
  BY DEF Own, Key, DuckDBNames
<1>2. Reachable'
  BY SameWrite DEF Reachable
<1>3. (Knows(tf, Own))' <=> Knows(tf', o)
  BY <1>1, Zenon DEF Knows, Canonical, HasBody, SameCatalog
<1>4. UpToDate'
  BY <1>1, <1>2, <1>3, NoneIsNoObject DEF UpToDate
<1>5. kind' = "secret" => (Own.body = Canonical(config.body))'
  BY <1>1 DEF Canonical
<1>6. QED
  BY <1>4, <1>5 DEF Settled

\* What is to be shown of a write that is going to be read back.
LEMMA FulfilsAfter ==
  ASSUME UNCHANGED <<kind, parent, plan>>, Key(tf'.name) = Key(plan.name),
         Reachable, NEW o \in Objects, live'[Key(plan.name)] = o, Fulfils(plan, o)
  PROVE  (Reachable /\ Own # None /\ Fulfils(plan, Own))'
<1>1. Own' = o
  BY DEF Own, Key, DuckDBNames
<1>2. Reachable'
  BY SameWrite DEF Reachable
<1>3. (Fulfils(plan, Own))' <=> Fulfils(plan, o)
  BY <1>1, Zenon DEF Fulfils, Canonical, HasBody, SameCatalog
<1>4. QED
  BY <1>1, <1>2, <1>3, NoneIsNoObject

\* A handler that has ended, or does not write, has nothing to rely on.
LEMMA AppliesNothing ==
  ASSUME IInv', pc' \in {"idle", "readMore", "delete"}
  PROVE  ApplyInv'
  BY DEF IInv, TypeOK, ApplyInv

LEMMA CreatedFulfils ==
  ASSUME kind \in Kinds, plan \in ConfigsOf(kind), kind = "iceberg" => plan.body # None,
         NEW who
  PROVE  Fulfils(plan, CreatedBy(who))
<1>1. /\ plan \in Models
      /\ kind # "iceberg" => plan.body \in Bodies
  BY ConfigFacts
<1>2. plan.body # None
  BY <1>1, CatalogObjectAssumption DEF Bodies
<1>3. CreatedBy(who).body = Canonical(plan.body)
  BY <1>2 DEF CreatedBy
<1>4. kind = "iceberg" => Canonical(plan.body) = plan.body
  BY DEF Canonical
<1>5. QED
  BY <1>3, <1>4, FulfilsFacts, TypeNames

\* What a create that does not fail does.
LEMMA CreateApplies ==
  ASSUME IInv, ApplyInv, Create, pc' = "readNew" \/ said' = "ok"
  PROVE  /\ UNCHANGED <<kind, parent, config, stale>>
         /\ kind \in Kinds /\ plan = config /\ plan # None /\ plan \in ConfigsOf(kind)
         /\ plan \in Models
         /\ kind # "iceberg" => plan.body \in Bodies
         /\ Reachable
         /\ live'[Key(plan.name)] \in Objects
         /\ Fulfils(plan, live'[Key(plan.name)])
         /\ \/ /\ WriteOf.reads
               /\ pc' = "readNew" /\ tf' = Kept(plan) /\ UNCHANGED <<plan, said>>
            \/ ~WriteOf.reads /\ End("ok", Recorded(plan, None))
<1> DEFINE key == Key(plan.name)
<1>1. /\ World /\ TypeOK /\ plan # None /\ plan \in ConfigsOf(kind) /\ plan \in Models
      /\ kind # "iceberg" => plan.body \in Bodies
      /\ key \in Keys
  BY Parts DEF Create, TypeOK
<1>2. plan = config /\ (kind = "iceberg" => plan.body # None)
  BY <1>1 DEF ApplyInv, Create
<1>3. /\ Reachable
      /\ live[key] # None => Grant
      /\ live' = IF live[key] # None THEN live
                 ELSE [live EXCEPT ![key] = CreatedBy("terraform")]
      /\ \/ /\ WriteOf.reads
            /\ pc' = "readNew" /\ tf' = Kept(plan) /\ UNCHANGED <<plan, said>>
         \/ ~WriteOf.reads /\ End("ok", Recorded(plan, None))
      /\ UNCHANGED <<kind, parent, config, stale>>
  BY DEF Create, End
<1>4. CASE live[key] # None
  <2>1. kind \in BareKinds
    BY <1>3, <1>4 DEF Grant, BareKinds
  <2>2. live'[key] \in Objects
    BY <1>1, <1>3, <1>4 DEF World
  <2>3. QED
    BY <1>1, <1>2, <1>3, <2>1, <2>2, FulfilsFacts DEF World
<1>5. CASE live[key] = None
  <2>1. live'[key] = CreatedBy("terraform")
    BY <1>1, <1>3, <1>5 DEF World
  <2>2. CreatedBy("terraform") \in Objects
    BY <1>1, CreatedFacts
  <2>3. QED
    BY <1>1, <1>2, <1>3, <2>1, <2>2, CreatedFulfils DEF World
<1>6. QED
  BY <1>4, <1>5

LEMMA ApplyCreate ==
  ASSUME IInv, IInv', ApplyInv, Create
  PROVE  ApplyInv'
<1>1. pc' \in {"idle", "readNew"}
  BY DEF Create, End
<1>2. CASE pc' = "idle"
  BY <1>2, AppliesNothing
<1>3. CASE pc' = "readNew"
  <2>1. tf' = Kept(plan) /\ UNCHANGED <<kind, parent, plan, config>> /\ WriteOf.reads
        /\ plan \in Models /\ plan = config /\ Reachable
        /\ live'[Key(plan.name)] \in Objects
        /\ Fulfils(plan, live'[Key(plan.name)])
    BY <1>3, CreateApplies DEF End
  <2>2. tf'.name = plan.name
    BY <2>1, RecordFacts DEF Kept
  <2>3. (Reachable /\ Own # None /\ Fulfils(plan, Own))'
    BY <2>1, <2>2, FulfilsAfter
  <2>4. (WriteOf.reads)'
    BY <2>1, SameWrite
  <2>5. kind = "iceberg" => plan.body # None
    BY DEF ApplyInv, Create
  <2>6. QED
    BY <1>3, <2>1, <2>3, <2>4, <2>5 DEF ApplyInv
<1>4. QED
  BY <1>1, <1>2, <1>3

\* A resource whose create is not read back is settled at once.
LEMMA CreateSettles ==
  ASSUME IInv, ApplyInv, Create, pc' = "idle", said' = "ok"
  PROVE  Settled'
<1>1. /\ UNCHANGED <<kind, parent, config>>
      /\ kind \in Kinds /\ plan = config /\ plan # None /\ plan \in Models
      /\ Reachable
      /\ live'[Key(plan.name)] \in Objects
      /\ Fulfils(plan, live'[Key(plan.name)])
      /\ ~WriteOf.reads /\ End("ok", Recorded(plan, None))
  BY CreateApplies
<1>2. tf' = Recorded(plan, None) /\ tf' \in Records
  BY <1>1, RecordFacts DEF End
<1>3. /\ tf' # None /\ ~tf'.tainted /\ tf'.name = config.name /\ tf'.body = config.body
  BY <1>1, <1>2, NoneIsNoObject DEF Recorded
<1>4. kind \in {"schema", "table", "share_grant"}
  BY <1>1, WriteFacts
<1>5. Knows(tf', live'[Key(plan.name)])
  BY <1>1, <1>3, <1>4, FulfilsFacts, KnowsFacts DEF BodyKinds, BareKinds
<1>6. QED
  BY <1>1, <1>3, <1>4, <1>5, SettledAfter

\* A read-back that finds what was written settles the resource.
LEMMA ReadingBackSettles ==
  ASSUME IInv, ApplyInv, pc \in {"readNew", "readBack"}, ~stale,
         UNCHANGED <<kind, parent, live, config>>,
         NEW o \in Sees(plan.name), tf' = ReadInto(plan, o)
  PROVE  Settled'
<1>1. /\ World /\ TypeOK /\ CatalogInv /\ HandlerInv
      /\ plan # None /\ plan \in ConfigsOf(kind) /\ plan \in Models
      /\ plan.name \in Names /\ Key(plan.name) = Key(tf.name)
  BY Parts DEF TypeOK, HandlerInv, SameName
<1>2. plan = config /\ Reachable /\ Own # None /\ Fulfils(plan, Own) /\ kind # "table"
  <2>1. plan = config /\ Reachable /\ Own # None /\ Fulfils(plan, Own)
    BY <1>1 DEF ApplyInv
  <2>2. pc = "readNew" => WriteOf.reads
    BY DEF ApplyInv
  <2>3. pc = "readBack" => WriteOf.missed # "ok"
    BY DEF ApplyInv
  <2>4. kind = "table" => WriteOf.missed = "ok"
    BY DEF WriteOf, TableCreate, Write
  <2>5. QED
    BY <1>1, <2>1, <2>2, <2>3, <2>4, WriteFacts DEF World
<1>3. o = Own /\ o \in Objects
  BY <1>1, <1>2, SeesOwn DEF Own
<1>4. tf' # None /\ tf'.name = plan.name /\ ~tf'.tainted
  BY <1>1, <1>3, ReadIntoFacts, NoneIsNoObject DEF World
<1>5. tf'.body = plan.body /\ Knows(tf', o)
  BY <1>1, <1>2, <1>3, ReadsBack DEF World
<1>6. kind = "secret" => o.body = Canonical(plan.body)
  BY <1>2, <1>3, FulfilsFacts DEF BodyKinds
<1>7. live'[Key(config.name)] = o
  BY <1>1, <1>2, <1>3 DEF Own
<1>8. QED
  BY <1>1, <1>2, <1>3, <1>4, <1>5, <1>6, <1>7, SettledAfter DEF World

LEMMA ApplyStartUpdate ==
  ASSUME IInv, IInv', StartUpdate
  PROVE  ApplyInv'
<1>1. /\ UNCHANGED <<kind, parent, live, config>>
      /\ stale' = ~UpToDate
      /\ \/ pc' = "idle"
         \/ /\ ~Replaces(config, tf) /\ ~tf.tainted /\ config # None
            /\ pc' = "update" /\ plan' = config /\ UNCHANGED tf
  BY DEF StartUpdate, End, worldVars
<1>2. CASE pc' = "idle"
  BY <1>2, AppliesNothing
<1>3. CASE /\ ~Replaces(config, tf) /\ ~tf.tainted /\ config # None
           /\ pc' = "update" /\ plan' = config /\ UNCHANGED tf
  <2>1. (Replaces(config, tf))' = Replaces(config, tf)
    BY <1>1, <1>3, SameDecision
  <2>2. ~(Replaces(plan, tf))'
    BY <1>1, <1>3, <2>1
    DEF Replaces, NameReplaces, DuckDBNames, TableReplaces, ColumnsEquivalent,
        IcebergReplaces, Canonical
  <2>3. UpToDate' = UpToDate
    <3>1. Own' = Own /\ Reachable' = Reachable
      BY <1>1, <1>3, SameWrite DEF Own, Key, DuckDBNames, Reachable
    <3>2. (Knows(tf, Own))' <=> Knows(tf, Own)
      BY <1>1, <1>3, <3>1, Zenon DEF Knows, Canonical, HasBody, SameCatalog
    <3>3. QED
      BY <3>1, <3>2 DEF UpToDate
  <2>4. QED
    BY <1>1, <1>3, <2>2, <2>3 DEF ApplyInv
<1>4. QED
  BY <1>1, <1>2, <1>3

\* An update that is not stale has the object that the state tells of.
LEMMA UpdateApplies ==
  ASSUME IInv, ApplyInv, pc = "update", ~stale
  PROVE  /\ plan = config /\ plan # None /\ plan \in ConfigsOf(kind) /\ kind \in Kinds
         /\ Reachable /\ Own # None /\ Own \in Objects /\ Knows(tf, Own)
         /\ Own = live[Key(plan.name)] /\ Key(plan.name) = Key(tf.name)
         /\ Key(plan.name) \in Keys
         /\ ~Replaces(plan, tf)
<1>1. /\ World /\ plan # None /\ plan \in ConfigsOf(kind)
      /\ Key(plan.name) \in Keys /\ Key(plan.name) = Key(tf.name)
  BY UpdateFacts
<1>2. plan = config /\ UpToDate /\ ~Replaces(plan, tf)
  BY <1>1 DEF ApplyInv
<1>3. Own = live[Key(plan.name)]
  BY <1>1 DEF Own
<1>4. QED
  BY <1>1, <1>2, <1>3 DEF UpToDate, World

\* Without a statement to send, the object is as the plan asks already.
LEMMA UnsentFulfils ==
  ASSUME IInv, ApplyInv, pc = "update", ~stale, ~Updates(plan, tf)
  PROVE  Fulfils(plan, Own)
<1>1. /\ plan \in ConfigsOf(kind) /\ kind \in Kinds /\ Own \in Objects
      /\ Knows(tf, Own) /\ ~Replaces(plan, tf)
      /\ kind # "iceberg" => plan.body \in Bodies
  BY UpdateApplies, UpdateFacts
<1>2. kind # "iceberg" => plan.body # None
  BY <1>1, CatalogObjectAssumption DEF Bodies
<1>3. CASE kind = "table"
  <2>1. Canonical(plan.body) = Canonical(tf.body)
    BY <1>1, <1>3 DEF Replaces, TableReplaces, ColumnsEquivalent
  <2>2. QED
    BY <1>1, <1>3, <2>1, FulfilsFacts, KnowsFacts DEF BodyKinds
<1>4. CASE kind \in {"view", "secure_view", "share", "database"}
  <2>1. plan.body = tf.body
    BY <1>2, <1>4, UpdatesFacts
  <2>2. kind \in BodyKinds /\ kind # "secret"
    BY <1>4 DEF BodyKinds
  <2>3. QED
    BY <1>1, <2>1, <2>2, FulfilsFacts, KnowsFacts
<1>5. CASE kind = "iceberg"
  <2>1. plan.body = tf.body \/ plan.body = None
    BY <1>5, UpdatesFacts
  <2>2. QED
    BY <1>1, <1>5, <2>1, FulfilsFacts, KnowsFacts
<1>6. CASE kind \in BareKinds
  BY <1>6, FulfilsFacts
<1>7. kind # "secret"
  BY UpdatesFacts
<1>8. QED
  BY <1>1, <1>3, <1>4, <1>5, <1>6, <1>7, TypeNames DEF BodyKinds

LEMMA ApplyUpdateName ==
  ASSUME IInv, IInv', ApplyInv, UpdateName
  PROVE  ApplyInv'
<1>1. /\ UNCHANGED <<kind, parent, live, config, stale>>
      /\ pc = "update" /\ ~Updates(plan, tf)
      /\ \/ pc' = "idle"
         \/ ReadsAnyway /\ pc' = "readBack" /\ UNCHANGED <<plan, tf>>
  BY DEF UpdateName, End, worldVars
<1>2. CASE pc' = "idle"
  BY <1>2, AppliesNothing
<1>3. CASE ReadsAnyway /\ pc' = "readBack" /\ UNCHANGED <<plan, tf>>
  <2>1. World /\ plan # None /\ plan = config
    BY <1>1, UpdateFacts DEF ApplyInv
  <2>2. WriteOf.missed # "ok"
    BY <1>3, <2>1, WriteFacts DEF ReadsAnyway, World
  <2>3. (WriteOf.missed # "ok")'
    BY <1>1, <2>2, SameWrite
  <2>4. ASSUME ~stale
        PROVE  (Reachable /\ Own # None /\ Fulfils(plan, Own))'
    BY <1>1, <1>3, <2>4, UpdateApplies, UnsentFulfils, FulfilsAfter
  <2>5. QED
    BY <1>1, <1>3, <2>1, <2>3, <2>4 DEF ApplyInv
<1>4. QED
  BY <1>1, <1>2, <1>3

\* An update without a statement and without a read-back settles the resource.
LEMMA UpdateNameSettles ==
  ASSUME IInv, ApplyInv, UpdateName, pc' = "idle", said' = "ok", ~stale
  PROVE  Settled'
<1>1. /\ UNCHANGED <<kind, parent, live, config>>
      /\ pc = "update" /\ ~Updates(plan, tf) /\ ~ReadsAnyway
      /\ tf' = Recorded(plan, tf.seen)
  BY DEF UpdateName, End, worldVars
<1>2. /\ plan = config /\ plan # None /\ plan \in ConfigsOf(kind) /\ kind \in Kinds
      /\ Reachable /\ Own # None /\ Own \in Objects
      /\ Own = live[Key(plan.name)]
      /\ Fulfils(plan, Own)
  BY <1>1, UpdateApplies, UnsentFulfils
<1>3. tf' \in Records
  BY <1>1, UpdateFacts
<1>4. /\ tf' # None /\ ~tf'.tainted /\ tf'.name = config.name /\ tf'.body = plan.body
  BY <1>1, <1>2, <1>3, NoneIsNoObject DEF Recorded
<1>5. kind # "secret" /\ kind # "iceberg"
  BY <1>1, UpdatesFacts DEF ReadsAnyway
<1>6. Knows(tf', Own)
  BY <1>2, <1>4, <1>5, FulfilsFacts, KnowsFacts, TypeNames
<1>7. live'[Key(config.name)] = Own
  BY <1>1, <1>2
<1>8. QED
  BY <1>1, <1>2, <1>4, <1>5, <1>6, <1>7, SettledAfter

\* The statement of an update makes the object what the plan asks for.
LEMMA WrittenFulfils ==
  ASSUME IInv, pc = "update", Updates(plan, tf), NEW o \in Objects
  PROVE  Fulfils(plan, [o EXCEPT !.body = Written(o)])
<1> DEFINE w == [o EXCEPT !.body = Written(o)]
<1>1. w.body = Written(o)
  BY DEF Objects
<1> HIDE DEF w
<1>2. kind \in Kinds /\ plan \in Models
  BY UpdateFacts DEF World
<1>3. CASE kind = "iceberg"
  <2>1. w.body = IcebergAltered(plan.body, o.body)
    BY <1>1, <1>3 DEF Written
  <2>2. SameCatalog(plan.body, w.body) => plan.body = w.body
    <3>1. CASE SameCatalog(plan.body, o.body)
      BY <2>1, <3>1 DEF IcebergAltered
    <3>2. CASE ~SameCatalog(plan.body, o.body)
      BY <2>1, <3>2, CatalogObjectAssumption DEF IcebergAltered, SameCatalog
    <3>3. QED
      BY <3>1, <3>2
  <2>3. QED
    BY <1>3, <2>2, FulfilsFacts DEF w
<1>4. CASE kind # "iceberg"
  <2>1. w.body = Canonical(plan.body)
    BY <1>1, <1>4 DEF Written
  <2>2. QED
    BY <1>2, <1>4, <2>1, FulfilsFacts, TypeNames DEF w
<1>5. QED
  BY <1>3, <1>4

LEMMA ApplyUpdate ==
  ASSUME IInv, IInv', ApplyInv, Update
  PROVE  ApplyInv'
<1> DEFINE key == Key(plan.name)
<1>1. /\ UNCHANGED <<kind, parent, config, stale>>
      /\ pc = "update" /\ Updates(plan, tf)
      /\ \/ pc' = "idle"
         \/ /\ live' = [live EXCEPT ![key] =
                 IF @ = None THEN CreatedBy("terraform")
                 ELSE [@ EXCEPT !.body = Written(live[key])]]
            /\ pc' = "readBack" /\ tf' = Saved /\ UNCHANGED plan
  BY DEF Update, End
<1>2. CASE pc' = "idle"
  BY <1>2, AppliesNothing
<1>3. CASE /\ live' = [live EXCEPT ![key] =
                IF @ = None THEN CreatedBy("terraform")
                ELSE [@ EXCEPT !.body = Written(live[key])]]
           /\ pc' = "readBack" /\ tf' = Saved /\ UNCHANGED plan
  <2>1. /\ World /\ plan # None /\ plan = config /\ key = Key(tf.name)
        /\ plan.name \in Names /\ tf.name \in Names
    BY <1>1, UpdateFacts DEF ApplyInv
  <2>2. kind \notin {"schema", "table", "share_grant"}
    BY <1>1, UpdatesFacts DEF BareKinds
  <2>3. (WriteOf.missed # "ok")'
    BY <1>1, <2>1, <2>2, WriteFacts, SameWrite DEF World
  <2>4. ASSUME ~stale
        PROVE  (Reachable /\ Own # None /\ Fulfils(plan, Own))'
    <3>1. /\ Reachable /\ live[key] # None /\ live[key] \in Objects /\ key \in Keys
      BY <1>1, <2>4, UpdateApplies
    <3>2. live'[key] = [live[key] EXCEPT !.body = Written(live[key])]
      BY <1>3, <2>1, <3>1 DEF World
    <3>3. live'[key] \in Objects /\ Fulfils(plan, live'[key])
      BY <1>1, <3>1, <3>2, WrittenFacts, WrittenFulfils
    <3>4. Key(tf'.name) = key
      <4>1. Saved.name \in {plan.name, tf.name}
        BY <1>1, <3>1, WrittenFacts
      <4>2. QED
        BY <1>3, <2>1, <4>1
    <3>5. QED
      BY <1>1, <1>3, <3>1, <3>3, <3>4, FulfilsAfter
  <2>5. QED
    BY <1>1, <1>3, <2>1, <2>3, <2>4 DEF ApplyInv
<1>4. QED
  BY <1>1, <1>2, <1>3

LEMMA ApplyOutside ==
  ASSUME IInv, ApplyInv, Outside
  PROVE  ApplyInv'
<1>1. UNCHANGED <<kind, config, tf, pc, plan>> /\ stale' = TRUE
  BY DEF Outside, opVars
<1>2. (Replaces(plan, tf))' = Replaces(plan, tf)
  BY <1>1
  DEF Replaces, NameReplaces, DuckDBNames, TableReplaces, ColumnsEquivalent,
      IcebergReplaces, Canonical
<1>3. WriteOf' = WriteOf
  BY <1>1, SameWrite
<1>4. QED
  BY <1>1, <1>2, <1>3 DEF ApplyInv

LEMMA ApplyStutter ==
  ASSUME ApplyInv, UNCHANGED vars
  PROVE  ApplyInv'
<1>1. UNCHANGED <<kind, parent, live, config, tf, pc, plan, stale>>
  BY DEF vars, worldVars, opVars
<1>2. (Replaces(plan, tf))' = Replaces(plan, tf)
  BY <1>1
  DEF Replaces, NameReplaces, DuckDBNames, TableReplaces, ColumnsEquivalent,
      IcebergReplaces, Canonical
<1>3. WriteOf' = WriteOf /\ Reachable' = Reachable /\ Own' = Own
  BY <1>1, SameWrite DEF Reachable, Own, Key, DuckDBNames
<1>4. (Knows(tf, Own))' <=> Knows(tf, Own)
  BY <1>1, <1>3, Zenon DEF Knows, Canonical, HasBody, SameCatalog
<1>5. (Fulfils(plan, Own))' <=> Fulfils(plan, Own)
  BY <1>1, <1>3, Zenon DEF Fulfils, Canonical, HasBody, SameCatalog
<1>6. QED
  BY <1>1, <1>2, <1>3, <1>4, <1>5 DEF ApplyInv, UpToDate

LEMMA ApplyInit == Init => ApplyInv
  BY DEF Init, ApplyInv

LEMMA ApplyNext == IInv /\ ApplyInv /\ [Next]_vars => ApplyInv'
<1> SUFFICES ASSUME IInv, ApplyInv, [Next]_vars PROVE ApplyInv'
  OBVIOUS
<1>1. IInv'
  BY InvNext
<1>2. CASE StartCreate
  BY <1>2 DEF StartCreate, ApplyInv, worldVars
<1>3. CASE Create \/ StartUpdate \/ UpdateName \/ Update
  BY <1>1, <1>3, ApplyCreate, ApplyStartUpdate, ApplyUpdateName, ApplyUpdate
<1>4. CASE \/ ReadNew \/ Refresh \/ ReadMore \/ ReadBack \/ StartDelete \/ Delete
           \/ Import \/ Edit
  <2>1. pc' \in {"idle", "readMore", "delete"}
    BY <1>4
    DEF ReadNew, Missed, Refresh, ReadMore, ReadBack, StartDelete, Delete, Import,
        Edit, End, opVars
  <2>2. QED
    BY <1>1, <2>1, AppliesNothing
<1>5. CASE Outside \/ UNCHANGED vars
  BY <1>5, ApplyOutside, ApplyStutter
<1>6. QED
  BY <1>2, <1>3, <1>4, <1>5 DEF Next

LEMMA ApplyInvariant == Spec => []ApplyInv
  BY Invariant, ApplyInit, ApplyNext, PTL DEF Spec

\* A write that reports neither an error nor a warning, from a state that was up
\* to date and with nobody else at work, leaves the object as configured and as
\* the state says.
THEOREM WritesAreAppliedOrTold == Spec => AppliedOrTold
<1>1. ASSUME IInv, ApplyInv, Next, pc \in {"create", "readNew", "update", "readBack"},
             pc' = "idle", said' = "ok", ~stale'
      PROVE  Settled'
  <2>1. CASE Create
    BY <1>1, <2>1, CreateSettles
  <2>2. CASE UpdateName
    <3>1. ~stale
      BY <1>1, <2>2 DEF UpdateName
    <3>2. QED
      BY <1>1, <2>2, <3>1, UpdateNameSettles
  <2>3. CASE ReadNew \/ ReadBack
    <3>1. /\ pc \in {"readNew", "readBack"}
          /\ UNCHANGED <<kind, parent, live, config, stale>>
          /\ \/ said' = WriteOf.missed /\ pc = "readBack"
             \/ said' \in {"error", "warning"}
             \/ \E o \in Sees(plan.name) : tf' = ReadInto(plan, o)
      BY <2>3 DEF ReadNew, Missed, ReadBack, End, worldVars
    <3>2. \E o \in Sees(plan.name) : tf' = ReadInto(plan, o)
      BY <1>1, <3>1 DEF ApplyInv
    <3>3. QED
      BY <1>1, <3>1, <3>2, ReadingBackSettles
  <2>4. ~Update
    BY <1>1 DEF Update, End
  <2>5. QED
    BY <1>1, <2>1, <2>2, <2>3, <2>4
    DEF Next, StartCreate, Refresh, ReadMore, StartUpdate, StartDelete, Delete, Import,
        Edit, Outside, opVars
<1>2. ASSUME IInv, ApplyInv, [Next]_vars
      PROVE  [/\ pc \in {"create", "readNew", "update", "readBack"} /\ pc' = "idle"
              /\ said' = "ok" /\ ~stale'
              => Settled']_vars
  BY <1>1, <1>2
<1>3. QED
  BY <1>2, Invariant, ApplyInvariant, PTL DEF Spec, AppliedOrTold

-----------------------------------------------------------------------------
(* The handlers implement ManagedObject.                                   *)

LEMMA ManagedInit == Init => Managed!Init
<1> SUFFICES ASSUME Init PROVE Managed!Init
  OBVIOUS
<1>1. Present = {} /\ Strays = {}
  BY DEF Init, Present, Strays
<1>2. Held = <<>> /\ Doubted = FALSE /\ outside = 0
  BY DEF Init, Held, Doubted
<1>3. Wanted \in BOOLEAN
  BY DEF Wanted
<1>4. QED
  BY <1>1, <1>2, <1>3 DEF Managed!Init

\* What the abstract specification sees of a step.
LEMMA PresentStays ==
  ASSUME UNCHANGED <<live, misled>>
  PROVE  Present' = Present /\ Strays' = Strays
  BY DEF Present, Strays

LEMMA HeldStays ==
  ASSUME kind' = kind, tf # None, tf' # None, Key(tf'.name) = Key(tf.name)
  PROVE  Held' = Held /\ Held = Key(tf.name)
  BY DEF Held, Key, DuckDBNames

\* A handler that writes nothing and leaves the same object in the state does
\* not show, unless it clears a doubt.
LEMMA ManagedUnwritten ==
  ASSUME IInv, UNCHANGED <<kind, live, misled, outside>>,
         \/ tf' = tf
         \/ /\ tf # None /\ tf' # None /\ Key(tf'.name) = Key(tf.name)
            /\ tf'.tainted \in {tf.tainted, FALSE}
  PROVE  Managed!Step
<1>1. CASE tf' = tf
  <2>1. Held' = Held /\ Doubted' = Doubted
    BY <1>1 DEF Held, Doubted, Key, DuckDBNames
  <2>2. QED
    BY <2>1, PresentStays DEF Managed!Step
<1>2. CASE /\ tf # None /\ tf' # None /\ Key(tf'.name) = Key(tf.name)
           /\ tf'.tainted \in {tf.tainted, FALSE}
  <2>1. Held' = Held
    BY <1>2, HeldStays
  <2>2. tf.tainted \in BOOLEAN
    BY <1>2, Parts DEF Records
  <2>3. Doubted' = Doubted \/ (Doubted /\ Doubted' = FALSE)
    BY <1>2, <2>2 DEF Doubted
  <2>4. QED
    BY <2>1, <2>3, PresentStays DEF Managed!Step, Managed!Trust
<1>3. QED
  BY <1>1, <1>2

\* A handler that finds no object to destroy takes it out of the state.
LEMMA ManagedForget ==
  ASSUME UNCHANGED outside, Present' = Present, Strays' = Strays, tf' = None,
         tf # None, Key(tf.name) \notin Present
  PROVE  Managed!Step
<1>1. Held = Key(tf.name) /\ Held' = <<>> /\ Doubted' = FALSE
  BY DEF Held, Doubted
<1>2. QED
  BY <1>1 DEF Managed!Step, Managed!Forget, Managed!LeavesState

\* What a create statement leaves under its key.
LEMMA PresentMade ==
  ASSUME IInv, NEW key \in Keys, NEW o \in Objects, live[key] = None,
         live' = [live EXCEPT ![key] = o], UNCHANGED misled
  PROVE  /\ key \notin Present /\ Present' = Present \cup {key}
         /\ Strays' = IF o.by # "terraform" \/ key \in misled
                      THEN Strays \cup {key} ELSE Strays
<1>1. /\ live'[key] = o /\ o # None
      /\ \A k \in Keys : k # key => live'[k] = live[k]
  BY Parts, NoneIsNoObject DEF World
<1>2. Present' = Present \cup {key}
  BY <1>1 DEF Present
<1>3. Strays' = IF o.by # "terraform" \/ key \in misled
                THEN Strays \cup {key} ELSE Strays
  BY <1>1, <1>2 DEF Present, Strays
<1>4. QED
  BY <1>2, <1>3 DEF Present

LEMMA ManagedCreate ==
  ASSUME IInv, ApplyInv, Create
  PROVE  Managed!Step
<1> DEFINE key == Key(plan.name)
<1>1. /\ tf = None /\ plan # None /\ plan = config
      /\ plan \in Models /\ plan.name \in Names /\ key \in Keys
  <2>1. plan # None /\ tf = None
    BY Parts DEF TypeOK, HandlerInv, Create
  <2>2. QED
    BY <2>1, Parts DEF ApplyInv
<1>2. /\ UNCHANGED <<kind, outside, misled>>
      /\ \/ tf' = None /\ live' = live
         \/ /\ live[key] = None /\ live' = [live EXCEPT ![key] = CreatedBy("unanswered")]
            /\ tf' = None
         \/ /\ live[key] # None /\ live' = live
            /\ tf' = Kept(plan) \/ tf' = Recorded(plan, None)
         \/ /\ live[key] = None /\ live' = [live EXCEPT ![key] = CreatedBy("terraform")]
            /\ tf' = Kept(plan) \/ tf' = Recorded(plan, None)
  BY DEF Create, End
<1>3. /\ CreatedBy("unanswered") \in Objects /\ CreatedBy("terraform") \in Objects
      /\ CreatedBy("unanswered").by = "unanswered"
      /\ CreatedBy("terraform").by = "terraform"
  BY <1>1, CreatedFacts
<1>4. Held = <<>> /\ Wanted = TRUE
  BY <1>1 DEF Held, Wanted
<1>5. (tf' = Kept(plan) \/ tf' = Recorded(plan, None))
        => Held' = key /\ Doubted' \in BOOLEAN
  <2>1. ASSUME tf' = Kept(plan) \/ tf' = Recorded(plan, None)
        PROVE  Held' = key /\ Doubted' \in BOOLEAN
    <3>1. tf' \in Records /\ tf'.name = plan.name /\ tf' # None
      BY <1>1, <2>1, RecordFacts, NoneIsNoObject DEF Kept
    <3>2. QED
      BY <1>2, <3>1 DEF Held, Doubted, Key, DuckDBNames, Records
  <2>2. QED
    BY <2>1
<1>6. CASE tf' = None /\ live' = live
  BY <1>1, <1>2, <1>6, ManagedUnwritten
<1>7. CASE /\ live[key] = None /\ live' = [live EXCEPT ![key] = CreatedBy("unanswered")]
           /\ tf' = None
  <2>1. /\ key \notin Present /\ Present' = Present \cup {key}
        /\ Strays' = Strays \cup {key}
    BY <1>1, <1>2, <1>3, <1>7, PresentMade
  <2>2. Held' = Held /\ Doubted' = Doubted
    BY <1>1, <1>7 DEF Held, Doubted
  <2>3. Managed!Make(key)
    BY <1>2, <1>4, <2>1, <2>2 DEF Managed!Make
  <2>4. QED
    BY <1>1, <2>3 DEF Managed!Step
<1>8. CASE /\ live[key] # None /\ live' = live
           /\ tf' = Kept(plan) \/ tf' = Recorded(plan, None)
  <2>1. Managed!Adopt(key)
    BY <1>2, <1>4, <1>5, <1>8, PresentStays DEF Managed!Adopt
  <2>2. QED
    BY <1>1, <2>1 DEF Managed!Step
<1>9. CASE /\ live[key] = None /\ live' = [live EXCEPT ![key] = CreatedBy("terraform")]
           /\ tf' = Kept(plan) \/ tf' = Recorded(plan, None)
  <2>1. /\ key \notin Present /\ Present' = Present \cup {key}
        /\ Strays' \in {Strays, Strays \cup {key}}
    BY <1>1, <1>2, <1>3, <1>9, PresentMade
  <2>2. Managed!Make(key)
    BY <1>2, <1>4, <1>5, <1>9, <2>1 DEF Managed!Make
  <2>3. QED
    BY <1>1, <2>2 DEF Managed!Step
<1>10. QED
  BY <1>2, <1>6, <1>7, <1>8, <1>9

LEMMA ManagedReadNew ==
  ASSUME IInv, ReadNew
  PROVE  Managed!Step
<1>1. /\ World /\ TypeOK /\ CatalogInv /\ plan \in Models /\ plan.name \in Names
      /\ tf # None /\ tf.name = plan.name
  BY Parts DEF TypeOK, HandlerInv, ReadNew
<1>2. /\ UNCHANGED <<kind, live, misled, outside>>
      /\ \/ tf' = tf
         \/ tf' = Recorded(plan, None)
         \/ \E o \in Sees(plan.name) : tf' = ReadInto(plan, o)
  BY DEF ReadNew, Missed, End, worldVars
<1>3. ASSUME NEW o \in Sees(plan.name), tf' = ReadInto(plan, o)
      PROVE  tf' \in Records /\ tf'.name = plan.name /\ tf'.tainted = FALSE
  <2>1. o \in Objects
    BY <1>1, SeesFacts
  <2>2. QED
    BY <1>1, <1>3, <2>1, ReadIntoFacts DEF World, Records
<1>4. /\ Recorded(plan, None) \in Records /\ Recorded(plan, None).name = plan.name
      /\ Recorded(plan, None).tainted = FALSE
  BY <1>1, RecordFacts DEF Recorded
<1>5. tf' = tf \/ (tf' \in Records /\ tf'.name = plan.name /\ tf'.tainted = FALSE)
  BY <1>2, <1>3, <1>4
<1>6. QED
  BY <1>1, <1>2, <1>5, ManagedUnwritten, NoneIsNoObject

LEMMA ManagedRead ==
  ASSUME IInv, Refresh \/ ReadMore
  PROVE  Managed!Step
<1>1. /\ World /\ TypeOK /\ CatalogInv
      /\ tf # None /\ tf \in Records /\ tf.name \in Names /\ Key(tf.name) \in Keys
  BY Parts DEF TypeOK, Refresh, ReadMore
<1>2. /\ UNCHANGED <<kind, live, misled, outside>>
      /\ \/ tf' \in {tf, [tf EXCEPT !.body = None]}
         \/ Sees(tf.name) = {} /\ tf' = None
         \/ \E o \in Sees(tf.name) : tf' = Reading(tf, o)
  BY DEF Refresh, ReadMore, End, worldVars, Forgets
<1>3. CASE tf' \in {tf, [tf EXCEPT !.body = None]}
  <2>1. tf' \in Records /\ tf'.name = tf.name /\ tf'.tainted = tf.tainted
    BY <1>1, <1>3 DEF Records
  <2>2. QED
    BY <1>1, <1>2, <2>1, ManagedUnwritten, NoneIsNoObject
<1>4. CASE Sees(tf.name) = {} /\ tf' = None
  <2>1. Key(tf.name) \notin Present
    BY <1>1, <1>4, SeesFacts DEF Present
  <2>2. QED
    BY <1>1, <1>2, <1>4, <2>1, PresentStays, ManagedForget
<1>5. ASSUME NEW o \in Sees(tf.name), tf' = Reading(tf, o)
      PROVE  Managed!Step
  <2>1. o \in Objects
    BY <1>1, SeesFacts
  <2>2. tf' \in Records /\ tf'.name = tf.name /\ tf'.tainted = tf.tainted
    BY <1>1, <1>5, <2>1, ReadingFacts DEF World
  <2>3. QED
    BY <1>1, <1>2, <2>2, ManagedUnwritten, NoneIsNoObject
<1>6. QED
  BY <1>2, <1>3, <1>4, <1>5

\* An update that sends nothing and the read-back of one that does.
LEMMA ManagedUnsent ==
  ASSUME IInv, UpdateName \/ ReadBack
  PROVE  Managed!Step
<1>1. /\ World /\ TypeOK /\ CatalogInv /\ tf # None
      /\ plan \in Models /\ plan.name \in Names /\ Key(plan.name) = Key(tf.name)
      /\ Recorded(plan, tf.seen) \in Records
      /\ Recorded(plan, tf.seen).name = plan.name
      /\ Recorded(plan, tf.seen).tainted = FALSE
  BY UpdateFacts DEF UpdateName, ReadBack, Recorded
<1>2. /\ UNCHANGED <<kind, live, misled, outside>>
      /\ \/ tf' = tf
         \/ tf' = Recorded(plan, tf.seen)
         \/ \E o \in Sees(plan.name) : tf' = ReadInto(plan, o)
  BY DEF UpdateName, ReadBack, End, worldVars
<1>3. ASSUME NEW o \in Sees(plan.name), tf' = ReadInto(plan, o)
      PROVE  tf' \in Records /\ tf'.name = plan.name /\ tf'.tainted = FALSE
  <2>1. o \in Objects
    BY <1>1, SeesFacts
  <2>2. QED
    BY <1>1, <1>3, <2>1, ReadIntoFacts DEF World, Records
<1>4. tf' = tf \/ (tf' \in Records /\ tf'.name = plan.name /\ tf'.tainted = FALSE)
  BY <1>1, <1>2, <1>3
<1>5. QED
  BY <1>1, <1>2, <1>4, ManagedUnwritten, NoneIsNoObject

LEMMA ManagedUpdate ==
  ASSUME IInv, ApplyInv, Update
  PROVE  Managed!Step
<1> DEFINE key == Key(tf.name)
<1>1. /\ World /\ tf # None /\ key \in Keys /\ plan # None /\ plan \in Models
      /\ plan.name \in Names /\ Key(plan.name) = key
      /\ pc = "update" /\ Updates(plan, tf)
      /\ plan = config /\ ~Replaces(plan, tf) /\ ~tf.tainted
  BY UpdateFacts DEF Update, ApplyInv
<1>2. /\ UNCHANGED <<kind, outside, misled>>
      /\ tf' = tf \/ tf' = Saved
      /\ \/ live' = live /\ tf' = tf
         \/ /\ live[key] = None
            /\ live' = [live EXCEPT ![key] = CreatedBy("terraform")]
         \/ /\ live[key] # None
            /\ live' = [live EXCEPT ![key] =
                          [live[key] EXCEPT !.body = Written(live[key])]]
  BY <1>1 DEF Update, End
<1>3. tf' # None /\ Key(tf'.name) = key /\ tf'.tainted \in {tf.tainted, FALSE}
  <2>1. CreatedBy("terraform") \in Objects
    BY <1>1, CreatedFacts
  <2>2. Saved \in Records /\ Saved.name \in {plan.name, tf.name}
    BY <1>1, <2>1, WrittenFacts
  <2>3. Saved.tainted \in {tf.tainted, FALSE}
    BY DEF Saved, Recorded
  <2>4. QED
    BY <1>1, <1>2, <2>2, <2>3, NoneIsNoObject
<1>4. Held' = Held /\ Held = key
  BY <1>1, <1>2, <1>3, HeldStays
<1>5. Doubted = FALSE /\ Doubted' = FALSE
  BY <1>1, <1>3 DEF Doubted
<1>6. CASE live' = live /\ tf' = tf
  BY <1>2, <1>6, ManagedUnwritten
<1>7. CASE live[key] = None /\ live' = [live EXCEPT ![key] = CreatedBy("terraform")]
  <2>1. CreatedBy("terraform") \in Objects
    BY <1>1, CreatedFacts
  <2>2. /\ key \notin Present /\ Present' = Present \cup {key}
        /\ Strays' \in {Strays, Strays \cup {key}}
    BY <1>1, <1>2, <1>7, <2>1, PresentMade
  <2>3. Wanted
    BY <1>1 DEF Wanted
  <2>4. key # <<>>
    <3>1. key[2] \in {0, 1} /\ key = <<key[1], key[2]>>
      BY <1>1 DEF Keys
    <3>2. DOMAIN key = 1..2 /\ DOMAIN <<>> = {}
      BY <3>1
    <3>3. QED
      BY <3>2
  <2>5. Managed!Restore
    BY <1>2, <1>4, <1>5, <2>2, <2>3, <2>4 DEF Managed!Restore
  <2>6. QED
    BY <2>5 DEF Managed!Step
<1>8. CASE /\ live[key] # None
           /\ live' = [live EXCEPT ![key] =
                         [live[key] EXCEPT !.body = Written(live[key])]]
  <2> DEFINE o == [live[key] EXCEPT !.body = Written(live[key])]
  <2>1. live[key] \in Objects
    BY <1>1, <1>8 DEF World
  <2>2. o \in Objects /\ o.by = live[key].by /\ o # None
    BY <1>1, <2>1, WrittenFacts, NoneIsNoObject
  <2>3. live'[key] = o /\ \A k \in Keys : k # key => live'[k] = live[k]
    BY <1>1, <1>8 DEF World
  <2> HIDE DEF o
  <2>4. Present' = Present
    BY <1>8, <2>2, <2>3 DEF Present
  <2>5. Strays' = Strays
    BY <1>2, <2>2, <2>3, <2>4 DEF Present, Strays
  <2>6. QED
    BY <1>2, <1>4, <1>5, <2>4, <2>5 DEF Managed!Step
<1>9. QED
  BY <1>2, <1>6, <1>7, <1>8

LEMMA ManagedDelete ==
  ASSUME IInv, Delete
  PROVE  Managed!Step
<1> DEFINE key == Key(tf.name)
<1>1. World /\ TypeOK /\ CatalogInv /\ tf # None /\ tf \in Records /\ key \in Keys
  BY Parts DEF Delete, TypeOK
<1>2. /\ UNCHANGED <<kind, outside>>
      /\ \/ tf' = tf /\ UNCHANGED <<live, misled>>
         \/ tf' = None /\ UNCHANGED live /\ misled' = misled \cup {key}
         \/ ~Reachable /\ tf' = None /\ UNCHANGED <<live, misled>>
         \/ /\ live' = [live EXCEPT ![key] = None] /\ UNCHANGED misled
            /\ tf' = None \/ tf' = tf
  BY DEF Delete, End
<1>3. Held = key /\ (~Wanted \/ Doubted)
  <2>1. config # None => tf.tainted \/ Replaces(config, tf)
    BY Parts DEF HandlerInv, Delete
  <2>2. QED
    BY <1>1, <2>1 DEF Held, Wanted, Doubted
<1>4. /\ tf' = None => Held' = <<>> /\ Doubted' = FALSE
      /\ tf' = tf => Held' = Held /\ Doubted' = Doubted
  BY <1>2 DEF Held, Doubted, Key, DuckDBNames
<1>5. key \in Present <=> live[key] # None
  BY <1>1 DEF Present
<1>6. CASE tf' = tf /\ UNCHANGED <<live, misled>>
  BY <1>2, <1>6, ManagedUnwritten
<1>7. CASE tf' = None /\ UNCHANGED live /\ misled' = misled \cup {key}
  <2>1. Present' = Present
    BY <1>7 DEF Present
  <2>2. CASE live[key] = None
    <3>1. Strays' = Strays
      BY <1>7, <2>1, <2>2 DEF Present, Strays
    <3>2. QED
      BY <1>1, <1>2, <1>5, <1>7, <2>1, <2>2, <3>1, ManagedForget
  <2>3. CASE live[key] # None
    <3>1. Strays' = Strays \cup {key}
      BY <1>1, <1>7, <2>1, <2>3 DEF Present, Strays
    <3>2. Managed!GiveUp
      BY <1>2, <1>3, <1>4, <1>5, <1>7, <2>1, <2>3, <3>1
      DEF Managed!GiveUp, Managed!LeavesState
    <3>3. QED
      BY <3>2 DEF Managed!Step
  <2>4. QED
    BY <2>2, <2>3
<1>8. CASE ~Reachable /\ tf' = None /\ UNCHANGED <<live, misled>>
  <2>1. live[key] = None
    BY <1>1, <1>8 DEF CatalogInv, Reachable
  <2>2. QED
    BY <1>1, <1>2, <1>5, <1>8, <2>1, PresentStays, ManagedForget
<1>9. CASE /\ live' = [live EXCEPT ![key] = None] /\ UNCHANGED misled
           /\ tf' = None \/ tf' = tf
  <2>1. live'[key] = None /\ \A k \in Keys : k # key => live'[k] = live[k]
    BY <1>1, <1>9 DEF World
  <2>2. Present' = Present \ {key} /\ Strays' = Strays \ {key}
    BY <1>9, <2>1 DEF Present, Strays
  <2>3. CASE live[key] # None
    <3>1. Managed!Destroy
      BY <1>2, <1>3, <1>4, <1>5, <1>9, <2>2, <2>3
      DEF Managed!Destroy, Managed!LeavesState
    <3>2. QED
      BY <3>1 DEF Managed!Step
  <2>4. CASE live[key] = None
    <3>1. Present' = Present /\ Strays' = Strays
      BY <1>5, <2>2, <2>4 DEF Strays
    <3>2. CASE tf' = None
      BY <1>1, <1>2, <1>5, <2>4, <3>1, <3>2, ManagedForget
    <3>3. CASE tf' = tf
      BY <1>2, <1>4, <3>1, <3>3 DEF Managed!Step
    <3>4. QED
      BY <1>9, <3>2, <3>3
  <2>5. QED
    BY <2>3, <2>4
<1>10. QED
  BY <1>2, <1>6, <1>7, <1>8, <1>9

LEMMA ManagedImport ==
  ASSUME IInv, Import
  PROVE  Managed!Step
<1>1. World /\ TypeOK /\ CatalogInv /\ tf = None
  BY Parts DEF Import
<1>2. PICK n \in Names : \E o \in Sees(n) :
        tf' = Reading(Recorded([name |-> n, body |-> IF HasBody(kind) THEN None
                                                     ELSE First], None), o)
  BY DEF Import
<1> DEFINE p == [name |-> n, body |-> IF HasBody(kind) THEN None ELSE First]
<1>3. PICK o \in Sees(n) : tf' = Reading(Recorded(p, None), o)
  BY <1>2
<1>4. p \in Models /\ p.name = n
  BY DEF Models, Bodies
<1> HIDE DEF p
<1>5. Recorded(p, None) \in Records /\ Recorded(p, None).name = n /\ o \in Objects
  BY <1>1, <1>4, RecordFacts, SeesFacts
<1>6. tf' \in Records /\ tf'.name = n /\ tf' # None
  BY <1>1, <1>3, <1>5, ReadingFacts, NoneIsNoObject DEF World
<1>7. UNCHANGED <<kind, live, misled, outside>>
  BY DEF Import, worldVars
<1>8. Held = <<>> /\ Held' = Key(n) /\ Key(n) \in Keys /\ Doubted' \in BOOLEAN
  BY <1>1, <1>6, <1>7, NameFacts DEF Held, Doubted, Key, DuckDBNames
<1>9. Managed!Adopt(Key(n))
  BY <1>7, <1>8, PresentStays DEF Managed!Adopt
<1>10. QED
  BY <1>8, <1>9 DEF Managed!Step

LEMMA ManagedOutside ==
  ASSUME IInv, Outside
  PROVE  Managed!Step
<1>1. /\ UNCHANGED <<kind, tf, misled>> /\ outside' = outside + 1
  BY DEF Outside
<1>2. Held' = Held /\ Doubted' = Doubted
  BY <1>1 DEF Held, Doubted, Key, DuckDBNames
<1>3. Present' \subseteq Keys /\ Strays' \subseteq Present'
  BY DEF Present, Strays
<1>4. Present' \ Strays' \subseteq Present \ Strays
  BY <1>1, OutsideFacts DEF Present, Strays
<1>5. Managed!Meddle
  BY <1>1, <1>2, <1>3, <1>4 DEF Managed!Meddle
<1>6. QED
  BY <1>5 DEF Managed!Step

LEMMA ManagedNext ==
  ASSUME IInv, ApplyInv, [Next]_vars
  PROVE  Managed!Next
<1>1. Managed!Step
  <2>1. CASE Create \/ ReadNew
    BY <2>1, ManagedCreate, ManagedReadNew
  <2>2. CASE Refresh \/ ReadMore
    BY <2>2, ManagedRead
  <2>3. CASE UpdateName \/ ReadBack
    BY <2>3, ManagedUnsent
  <2>4. CASE Update \/ Delete
    BY <2>4, ManagedUpdate, ManagedDelete
  <2>5. CASE StartCreate \/ StartUpdate \/ StartDelete \/ Edit \/ UNCHANGED vars
    <3>1. UNCHANGED <<kind, live, misled, outside>>
      BY <2>5 DEF StartCreate, StartUpdate, StartDelete, Edit, worldVars, budgets, vars
    <3>2. tf' = tf
      BY <2>5 DEF StartCreate, StartUpdate, StartDelete, Edit, End, vars
    <3>3. QED
      BY <3>1, <3>2, ManagedUnwritten
  <2>6. CASE Import \/ Outside
    BY <2>6, ManagedImport, ManagedOutside
  <2>7. QED
    BY <2>1, <2>2, <2>3, <2>4, <2>5, <2>6 DEF Next
<1>2. Wanted' \in BOOLEAN
  BY DEF Wanted
<1>3. QED
  BY <1>1, <1>2 DEF Managed!Next

\* Whatever fails and whoever interferes, the handlers of every type of catalog
\* object keep to ManagedObject, for any set of names.
THEOREM CatalogIsManaged == Spec => ImplementsManaged
<1>1. IInv /\ ApplyInv /\ [Next]_vars => [Managed!Next]_(Managed!vars)
  BY ManagedNext
<1>2. QED
  BY <1>1, ManagedInit, Invariant, ApplyInvariant, PTL
  DEF Spec, ImplementsManaged, Managed!Spec
=============================================================================
