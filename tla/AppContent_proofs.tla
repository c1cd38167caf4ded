-------------------------- MODULE AppContent_proofs --------------------------
(* Proofs of the safety of AppContent: an invariant that says what a       *)
(* handler knows of its model, which statements it has still to send and   *)
(* why, and how far the state sees the last version.                       *)
EXTENDS AppContent, SequenceTheorems, TLAPS

-----------------------------------------------------------------------------
(* What the operators return.                                              *)

LEMMA KindsAre == Kinds \subseteq {"dive", "guide", "flight"}
  BY AppContentAssumption

\* A reading has what the object has, but for what the session cannot tell.
LEMMA ReadingFacts ==
  ASSUME TypeOK, NEW i \in Ids, Alive(i), NEW prior
  PROVE  /\ Reading(i, prior) \in Records
         /\ Reading(i, prior).text = live[i].text
         /\ Reading(i, prior).note = live[i].note
         /\ Reading(i, prior).api = live[i].api
         /\ Reading(i, prior).api \in Apis
         /\ Reading(i, prior) # None
<1>1. live[i] \in Fields /\ live[i].api \in Apis
  BY DEF TypeOK, Alive
<1>2. live[i] \in Records
  BY <1>1 DEF Fields, Records
<1>3. CASE kind = "dive"
  <2>1. Reading(i, prior) = ReadDive(i)
    BY <1>3, Zenon DEF Reading
  <2>2. QED
    BY <1>1, <1>2, <2>1, NoneIsNoContent DEF ReadDive, Records
<1>4. CASE kind = "guide"
  <2>1. Reading(i, prior) = ReadGuide(i)
    BY <1>4, Zenon DEF Reading
  <2>2. QED
    BY <1>1, <1>2, <2>1, NoneIsNoContent DEF ReadGuide
<1>5. CASE kind = "flight"
  <2>1. Reading(i, prior) = ReadFlight(i, prior)
    BY <1>5, Zenon DEF Reading
  <2>2. QED
    BY <1>1, <1>2, <2>1, NoneIsNoContent DEF ReadFlight, Records
<1>6. QED
  BY <1>3, <1>4, <1>5, KindsAre DEF TypeOK

\* The object a create statement makes.
LEMMA CreatedFacts ==
  ASSUME TypeOK, plan \in Configs
  PROVE  /\ Created \in Fields
         /\ Created.api \in Apis
         /\ kind = "dive" => Created.note = None
<1>1. default \in 0..MaxOutside + 1 /\ default \in Apis
  BY AppContentAssumption DEF TypeOK, Apis
<1>2. /\ CreatedDive(plan) \in Fields /\ CreatedDive(plan).api \in Apis
      /\ CreatedDive(plan).note = None
  BY <1>1 DEF CreatedDive, Fields, Configs
<1>3. CreatedGuide(plan) \in Fields /\ CreatedGuide(plan).api \in Apis
  BY <1>2 DEF CreatedGuide, Fields, Configs
<1>4. CreatedFlight(plan) \in Fields /\ CreatedFlight(plan).api \in Apis
  BY <1>2 DEF CreatedFlight, Fields, Configs
<1>5. kind = "dive" => Created = CreatedDive(plan)
  BY Zenon DEF Created
<1>6. kind = "guide" => Created = CreatedGuide(plan)
  BY Zenon DEF Created
<1>7. kind = "flight" => Created = CreatedFlight(plan)
  BY Zenon DEF Created
<1>8. QED
  BY <1>2, <1>3, <1>4, <1>5, <1>6, <1>7, KindsAre DEF TypeOK

\* What a statement writes.
LEMMA WrittenFacts ==
  ASSUME TypeOK, NEW p \in Records, NEW r \in Records, NEW o \in Fields,
         p.api \in Apis \cup {0}, o.api \in Apis,
         NEW s \in {"meta", "append", "access", "call"},
         s = "access" => p.aud # None
  PROVE  /\ Written(s, p, r, o) \in Fields
         /\ Written(s, p, r, o).api \in Apis
         /\ s \in {"meta", "access"} =>
              /\ Written(s, p, r, o).text = o.text
              /\ Written(s, p, r, o).note = o.note
              /\ Written(s, p, r, o).api = o.api
         /\ s = "call" => Written(s, p, r, o).api = o.api
         /\ s = "append" =>
              /\ Written(s, p, r, o).text = p.text
              /\ Written(s, p, r, o).note = p.note
              /\ p.api # 0 => Written(s, p, r, o).api = p.api
              /\ kind # "dive" => Written(s, p, r, o).api = o.api
<1>1. default \in 0..MaxOutside + 1 /\ default \in Apis
  BY AppContentAssumption DEF TypeOK, Apis
<1>2. CASE s = "meta"
  <2>1. Written(s, p, r, o) = [o EXCEPT !.desc = p.desc]
    BY <1>2, Zenon DEF Written
  <2>2. QED
    BY <1>2, <2>1 DEF Fields, Records
<1>3. CASE s = "append"
  <2>1. Written(s, p, r, o)
          = [o EXCEPT !.text = p.text, !.note = p.note,
                      !.api = IF p.api = 0 THEN default ELSE p.api]
    BY <1>3, Zenon DEF Written
  <2>2. QED
    BY <1>1, <1>3, <2>1 DEF Fields, Records, Apis
<1>4. CASE s = "access"
  <2>1. Written(s, p, r, o) = [o EXCEPT !.aud = p.aud]
    BY <1>4, Zenon DEF Written
  <2>2. QED
    BY <1>4, <2>1 DEF Fields, Records
<1>5. CASE s = "call"
  <2>1. Written(s, p, r, o) = UpdatedFlight(p, r, o)
    BY <1>5, Zenon DEF Written
  <2>2. QED
    BY <1>5, <2>1 DEF UpdatedFlight, AccessChanged, Fields, Records
<1>6. QED
  BY <1>2, <1>3, <1>4, <1>5

-----------------------------------------------------------------------------
(* How a handler ends: the state t that it leaves has to be a good one.    *)

States == [id : 0..MaxIds, tainted : BOOLEAN, rec : Records \cup {None}]

\* The part of the invariant that is about the surroundings.
World ==
  /\ kind \in Kinds
  /\ outside \in 0..MaxOutside
  /\ default \in Apis
  /\ live \in [Ids -> Fields \cup {Unborn, Gone}]
  /\ \A i \in Ids : live[i] \notin {Unborn, Gone} => live[i].api \in Apis
  /\ config \in Configs \cup {None}
  /\ said \in {"ok", "warning", "error"}
  /\ read \subseteq {i \in Ids : live[i] # Unborn} /\ lost \subseteq Ids

\* The part that is about the state, whatever handler runs.
State ==
  /\ tf \in States
  /\ tf.rec # None => tf.rec.api \in Apis
  /\ tf.rec = None => tf = Absent \/ tf.tainted
  /\ tf.id = 0 => tf = Absent
  /\ tf.id # 0 => live[tf.id] # Unborn
  /\ tf.tainted => tf.id \notin read

Sighted == ~excuse /\ Alive(tf.id) /\ tf.rec # None => KnowsVersion(live[tf.id])

\* Once a handler has ended, nothing else is left to show.
LEMMA Rests ==
  ASSUME World', State', Sighted', OrphansUnanswered', pc' = "idle", sent' = {}
  PROVE  IInv'
<1>1. TypeOK'
  BY DEF World, State, States, TypeOK, PCs
<1>2. HandlerInv' /\ TodoInv'
  BY DEF State, HandlerInv, TodoInv, Creating, Following, Updating
<1>3. SightInv'
  BY DEF Sighted, SightInv, Creating, Following
<1>4. QED
  BY <1>1, <1>2, <1>3 DEF IInv

\* Between two handlers, and while one creates or destroys, the state sees.
LEMMA Parts ==
  ASSUME IInv
  PROVE  /\ World /\ State /\ TypeOK /\ HandlerInv /\ TodoInv /\ SightInv
         /\ OrphansUnanswered
         /\ pc \in {"idle", "delete", "note", "status", "readStatus"} => Sighted
         /\ pc \in {"create", "audience", "readNew"} => tf.rec = None
<1>1. TypeOK /\ HandlerInv /\ TodoInv /\ SightInv /\ OrphansUnanswered
  BY DEF IInv
<1>2. World /\ State
  BY <1>1 DEF TypeOK, HandlerInv, World, State, States
<1>3. pc \in {"idle", "delete", "note", "status", "readStatus"} => Sighted
  BY <1>1 DEF HandlerInv, SightInv, Sighted, Updating
<1>4. pc \in {"create", "audience", "readNew"} => tf.rec = None
  BY <1>1 DEF HandlerInv, Absent
<1>5. QED
  BY <1>1, <1>2, <1>3, <1>4

LEMMA InvInit == Init => IInv
<1> SUFFICES ASSUME Init PROVE IInv
  OBVIOUS
<1>1. Absent \in States /\ Absent.rec = None /\ Absent.id = 0 /\ ~Absent.tainted
  BY AppContentAssumption DEF Absent, States
<1>2. default \in Apis /\ outside \in 0..MaxOutside
  BY AppContentAssumption DEF Init, Apis
<1>3. config \in Configs
  BY DEF Init, ConfigsOf
<1>4. TypeOK
  BY <1>1, <1>2, <1>3 DEF Init, TypeOK, States, PCs
<1>5. HandlerInv /\ TodoInv
  BY <1>1 DEF Init, HandlerInv, TodoInv, Creating, Following, Updating
<1>6. SightInv /\ OrphansUnanswered
  BY <1>1 DEF Init, SightInv, OrphansUnanswered, Alive
<1>7. QED
  BY <1>4, <1>5, <1>6 DEF IInv

-----------------------------------------------------------------------------
(* What a handler does to the surroundings.                                *)

Still ==
  /\ UNCHANGED <<kind, default, outside, config, lost>>
  /\ said' \in {"ok", "warning", "error"}
  /\ tf'.id = tf.id

\* A handler that writes nothing, but may read its object into the state.
LEMMA Unwritten ==
  ASSUME IInv, Still, live' = live,
         read' = read \/ (Alive(tf.id) /\ read' = read \cup {tf.id})
  PROVE  /\ World' /\ OrphansUnanswered'
         /\ (Alive(tf.id))' = Alive(tf.id)
         /\ Apis' = Apis
<1>1. World /\ State /\ OrphansUnanswered
  BY Parts
<1>2. Apis' = Apis
  BY DEF Still, Apis
<1>3. \A i : (Alive(i))' = Alive(i)
  BY DEF Alive
<1>4. Alive(tf.id) => tf.id \in Ids /\ live[tf.id] # Unborn
  BY <1>1 DEF State, States, Alive, Ids
<1>5. World'
  BY <1>1, <1>2, <1>4 DEF World, Still
<1>6. OrphansUnanswered'
  BY <1>1, <1>3 DEF OrphansUnanswered, Still
<1>7. (Alive(tf.id))' = Alive(tf.id)
  BY DEF Alive, Still
<1>8. QED
  BY <1>2, <1>5, <1>6, <1>7

\* A handler whose statement makes o of its object.
LEMMA Overwritten ==
  ASSUME IInv, Still, Alive(tf.id), NEW o \in Fields, o.api \in Apis,
         live' = [live EXCEPT ![tf.id] = o], read' = read
  PROVE  /\ World' /\ OrphansUnanswered'
         /\ (Alive(tf.id))'
         /\ live'[tf'.id] = o
         /\ live'[tf.id] # Unborn
         /\ Apis' = Apis
<1>1. World /\ State /\ OrphansUnanswered
  BY Parts
<1>2. Apis' = Apis
  BY DEF Still, Apis
<1>3. tf.id \in Ids /\ live[tf.id] # Unborn /\ o \notin {Unborn, Gone}
  BY <1>1, NoneIsNoContent DEF State, States, Alive, Ids
<1>4. live \in [Ids -> Fields \cup {Unborn, Gone}]
  BY <1>1 DEF World
<1>5. live' \in [Ids -> Fields \cup {Unborn, Gone}] /\ live'[tf.id] = o
  BY <1>3, <1>4
<1>6. \A i \in Ids : i # tf.id => live'[i] = live[i]
  BY <1>3, <1>4
<1>7. World'
  BY <1>1, <1>2, <1>3, <1>5, <1>6 DEF World, Still
<1>8. OrphansUnanswered'
  BY <1>1, <1>6 DEF OrphansUnanswered, Still, Alive
<1>9. (Alive(tf.id))' /\ live'[tf'.id] = o
  BY <1>3, <1>5 DEF Alive, Still, Ids
<1>10. QED
  BY <1>2, <1>3, <1>5, <1>7, <1>8, <1>9

\* The state that takes the fields r.
LEMMA Recording ==
  ASSUME IInv, tf.id # 0, NEW r \in Records, r.api \in Apis', tf' = Recorded(r),
         live'[tf.id] # Unborn
  PROVE  /\ State' /\ tf'.id = tf.id /\ tf'.rec = r /\ r # None /\ ~tf'.tainted
<1>1. tf.id \in 0..MaxIds
  BY Parts DEF State, States
<1>2. tf' = [id |-> tf.id, tainted |-> FALSE, rec |-> r] /\ tf' \in States
  BY <1>1 DEF Recorded, States
<1>3. r # None
  BY NoneIsNoContent
<1>4. QED
  BY <1>2, <1>3 DEF State

\* The state that stays.
LEMMA Keeping ==
  ASSUME IInv, tf' = tf, read' = read, Apis' = Apis, 
         tf.id # 0 => live'[tf.id] # Unborn
  PROVE  State'
  BY Parts DEF State

-----------------------------------------------------------------------------
(* Create.                                                                 *)

LEMMA StartCreateKeeps ==
  ASSUME IInv, StartCreate
  PROVE  IInv'
<1>1. World' /\ State'
  <2>1. World /\ State /\ Absent = tf
    BY Parts DEF StartCreate
  <2>2. tf' = tf /\ said' \in {"ok", "error"}
    BY <2>1 DEF StartCreate, End
  <2>3. QED
    BY <2>1, <2>2 DEF StartCreate, worldVars, World, State, Apis, budgets
<1>2. OrphansUnanswered' /\ tf' = tf
  BY Parts DEF StartCreate, worldVars, End, OrphansUnanswered, Alive
<1>3. tf' = Absent /\ tf'.id = 0 /\ tf'.rec = None /\ ~tf'.tainted
  BY <1>2 DEF StartCreate, Absent
<1>a. ~(Alive(tf.id))'
  BY <1>3 DEF Alive
<1>4. CASE pc' = "idle"
  BY <1>1, <1>2, <1>a, <1>4, Rests, Parts DEF Sighted, StartCreate, End, HandlerInv
<1>5. CASE pc' = "create"
  <2>1. /\ plan' = config' /\ config' # None /\ sent' = {}
    BY <1>5, Parts DEF StartCreate, End, HandlerInv, Updating
  <2>2. HandlerInv' /\ TodoInv'
    BY <1>3, <1>5, <2>1 DEF HandlerInv, TodoInv, Creating, Following, Updating
  <2>3. SightInv'
    BY <1>a DEF SightInv
  <2>4. TypeOK'
    BY <1>1, <1>5 DEF World, State, States, TypeOK, PCs
  <2>5. QED
    BY <1>2, <2>2, <2>3, <2>4 DEF IInv
<1>6. QED
  BY <1>4, <1>5 DEF StartCreate, End

\* A handler that has not read its object yet leaves a state without fields.
LEMMA Unrecorded ==
  ASSUME tf'.rec = None
  PROVE  Sighted'
  BY DEF Sighted

LEMMA CreateStatementKeeps ==
  ASSUME IInv, CreateStatement
  PROVE  IInv'
<1>1. World /\ State /\ TypeOK /\ OrphansUnanswered /\ plan = config
      /\ config \in Configs /\ config # None /\ tf = Absent /\ sent = {}
  <2>1. World /\ State /\ TypeOK /\ OrphansUnanswered /\ HandlerInv
    BY Parts
  <2>2. QED
    BY <2>1 DEF CreateStatement, HandlerInv, World, Creating, Updating
<1>2. Created \in Fields /\ Created.api \in Apis
      /\ (kind = "dive" => Created.note = None)
  BY <1>1, CreatedFacts
<1>3. Absent \in States /\ Absent.rec = None /\ Absent.id = 0 /\ ~Absent.tainted
  BY AppContentAssumption DEF Absent, States
<1>4. Apis' = Apis
  BY DEF CreateStatement, Apis
<1>5. CASE End("error", Absent) /\ UNCHANGED <<live, lost>>
  <2>1. tf' = tf /\ pc' = "idle" /\ sent' = {} /\ said' = "error"
    BY <1>1, <1>5 DEF End
  <2>2. World' /\ State'
    BY <1>1, <1>3, <1>4, <1>5, <2>1 DEF CreateStatement, World, State
  <2>3. OrphansUnanswered'
    BY <1>1, <1>5, <2>1 DEF OrphansUnanswered, Alive
  <2>4. QED
    BY <1>1, <1>3, <2>1, <2>2, <2>3, Unrecorded, Rests
<1>6. ASSUME NEW i \in Ids, live[i] = Unborn,
             live' = [live EXCEPT ![i] = Created],
             \/ lost' = lost \cup {i} /\ End("error", Absent)
             \/ /\ UNCHANGED <<lost, todo, sent, plan, said>>
                /\ tf' = IdKept(i)
                /\ pc' = IF kind = "guide" /\ plan.aud = Wide THEN "audience"
                                                              ELSE "readNew"
      PROVE  IInv'
  <2>1. live \in [Ids -> Fields \cup {Unborn, Gone}]
    BY <1>1 DEF World
  <2>2. live'[i] = Created /\ \A j \in Ids : j # i => live'[j] = live[j]
    BY <1>6, <2>1
  <2>3. live' \in [Ids -> Fields \cup {Unborn, Gone}]
    BY <1>2, <1>6, <2>1
  <2>4. Created \notin {Unborn, Gone}
    BY <1>2, NoneIsNoContent
  <2>5. said' \in {"ok", "warning", "error"} /\ lost' \subseteq Ids
    BY <1>1, <1>6 DEF World, End
  <2>6. World'
    BY <1>1, <1>2, <1>4, <2>2, <2>3, <2>4, <2>5 DEF CreateStatement, World
  <2>7. CASE lost' = lost \cup {i} /\ End("error", Absent)
    <3>1. tf' = tf /\ pc' = "idle" /\ sent' = {}
      BY <1>1, <2>7 DEF End
    <3>2. State'
      BY <1>1, <1>3, <3>1 DEF State
    <3>3. OrphansUnanswered'
      BY <1>1, <2>2, <2>7, <3>1 DEF OrphansUnanswered, Alive
    <3>4. QED
      BY <1>1, <1>3, <2>6, <3>1, <3>2, <3>3, Unrecorded, Rests
  <2>8. CASE /\ UNCHANGED <<lost, todo, sent, plan, said>>
             /\ tf' = IdKept(i)
             /\ pc' = IF kind = "guide" /\ plan.aud = Wide THEN "audience"
                                                           ELSE "readNew"
    <3>1. tf' = [id |-> i, tainted |-> TRUE, rec |-> None] /\ i \in 1..MaxIds
      BY <2>8 DEF IdKept, Absent, Ids
    <3>2. tf' \in States /\ tf'.id = i /\ tf'.id # 0 /\ tf'.tainted /\ tf'.rec = None
      BY <3>1, AppContentAssumption DEF States
    <3>3. i \notin read'
      BY <1>1, <1>6 DEF World, CreateStatement
    <3>4. State'
      BY <2>2, <2>4, <3>2, <3>3 DEF State
    <3>5. OrphansUnanswered'
      BY <1>1, <1>3, <2>2, <2>8, <3>2 DEF OrphansUnanswered, Alive
    <3>6. /\ pc' \in {"audience", "readNew"} /\ config' = config /\ plan' = plan
          /\ sent' = sent /\ kind' = kind
          /\ (pc' = "audience" => plan'.aud = Wide)
      BY <2>8 DEF CreateStatement
    <3>7. TypeOK'
      BY <2>6, <3>4, <3>6 DEF World, State, States, TypeOK, PCs
    <3>8. HandlerInv' /\ TodoInv'
      BY <1>1, <3>2, <3>3, <3>6
      DEF HandlerInv, TodoInv, Creating, Following, Updating
    <3>9. SightInv'
      BY <1>2, <2>2, <3>2, <3>6 DEF SightInv, Creating, Following
    <3>10. QED
      BY <3>5, <3>7, <3>8, <3>9 DEF IInv
  <2>9. QED
    BY <1>6, <2>7, <2>8
<1>7. QED
  BY <1>5, <1>6 DEF CreateStatement

\* A handler that still creates its object, or ends with an error in it.
LEMMA AudienceKeeps ==
  ASSUME IInv, Audience
  PROVE  IInv'
<1>1. /\ World /\ State /\ TypeOK /\ HandlerInv /\ SightInv
      /\ tf.id # 0 /\ tf.tainted /\ tf.rec = None /\ plan = config /\ config # None
      /\ plan.aud = Wide /\ sent = {}
  <2>1. World /\ State /\ TypeOK /\ HandlerInv /\ SightInv
    BY Parts
  <2>2. QED
    BY <2>1 DEF Audience, HandlerInv, Creating, Updating
<1>2. /\ tf' = tf /\ Still /\ read' = read
      /\ \/ pc' = "idle" /\ sent' = {}
         \/ pc' = "readNew" /\ UNCHANGED <<sent, plan>>
  <2>1. \/ End("error", tf)
        \/ pc' = "readNew" /\ UNCHANGED <<tf, todo, sent, plan, said>>
    BY DEF Audience
  <2>2. /\ tf' = tf /\ said' \in {"ok", "warning", "error"}
        /\ \/ pc' = "idle" /\ sent' = {}
           \/ pc' = "readNew" /\ UNCHANGED <<sent, plan>>
    BY <1>1, <2>1 DEF End, World
  <2>3. UNCHANGED <<kind, default, outside, config, lost, read>>
    BY DEF Audience, ghostVars
  <2>4. QED
    BY <2>2, <2>3 DEF Still
<1>3. /\ World' /\ OrphansUnanswered' /\ Apis' = Apis
      /\ tf.id # 0 => live'[tf.id] # Unborn
      /\ (Alive(tf.id))' /\ kind = "dive" => live'[tf'.id].note = None
  <2>1. CASE live' = live
    <3>1. live'[tf.id] # Unborn
      BY <1>1, <2>1 DEF State
    <3>2. kind = "dive" /\ Alive(tf.id) => live[tf.id].note = None
      BY <1>1 DEF SightInv, Audience, Creating
    <3>3. QED
      BY <1>2, <2>1, <3>1, <3>2, Unwritten
  <2>2. CASE ~Refuses("access", plan) /\ live' = [live EXCEPT ![tf.id].aud = plan.aud]
    <3> DEFINE o == [live[tf.id] EXCEPT !.aud = Wide]
    <3>1. Alive(tf.id) /\ tf.id \in Ids
      BY <1>1, <2>2 DEF Refuses, Alive, State, States, Ids
    <3>2. live[tf.id] \in Fields /\ live[tf.id].api \in Apis
      BY <1>1, <3>1 DEF World, Alive
    <3>3. o \in Fields /\ o.api \in Apis /\ o.note = live[tf.id].note
      BY <3>2 DEF Fields
    <3>4. live' = [live EXCEPT ![tf.id] = o]
      BY <1>1, <2>2
    <3>5. kind = "dive" => live[tf.id].note = None
      BY <1>1, <3>1 DEF SightInv, Audience, Creating
    <3> HIDE DEF o
    <3>6. QED
      BY <1>2, <3>1, <3>3, <3>4, <3>5, Overwritten
  <2>3. QED
    BY <2>1, <2>2 DEF Audience
<1>4. State'
  BY <1>2, <1>3, Keeping
<1>5. CASE pc' = "idle"
  BY <1>1, <1>2, <1>3, <1>4, <1>5, Unrecorded, Rests
<1>6. CASE pc' = "readNew" /\ UNCHANGED <<sent, plan>>
  <2>1. TypeOK'
    BY <1>3, <1>4, <1>6 DEF World, State, States, TypeOK, PCs
  <2>2. config' = config /\ kind' = kind
    BY <1>2 DEF Still
  <2>3. HandlerInv' /\ TodoInv'
    BY <1>1, <1>2, <1>4, <1>6, <2>2
    DEF State, HandlerInv, TodoInv, Creating, Following, Updating
  <2>4. SightInv'
    BY <1>1, <1>2, <1>3, <1>6, <2>2 DEF SightInv, Creating, Following
  <2>5. QED
    BY <1>3, <2>1, <2>3, <2>4 DEF IInv
<1>7. QED
  BY <1>2, <1>5, <1>6

\* What holds while the follow-up statements of a Dive's Create run.
LEMMA FollowFacts ==
  ASSUME IInv, pc \in Following
  PROVE  /\ kind = "dive" /\ config \in Configs /\ config # None
         /\ tf.id \in Ids /\ tf.id # 0 /\ ~tf.tainted /\ live[tf.id] # Unborn
         /\ plan = tf.rec /\ plan \in Records /\ plan.api \in Apis
         /\ sent = {}
         /\ Alive(tf.id) => /\ live[tf.id].note \in {None, config.note}
                            /\ live[tf.id] \in Fields /\ live[tf.id].api \in Apis
<1>1. World /\ State /\ HandlerInv /\ SightInv
  BY Parts
<1>2. /\ kind = "dive" /\ config # None /\ tf.id # 0 /\ ~tf.tainted /\ plan = tf.rec
      /\ sent = {}
  BY <1>1 DEF HandlerInv, Following, Updating
<1>3. tf.id \in Ids /\ live[tf.id] # Unborn
  BY <1>1, <1>2 DEF State, States, Ids
<1>4. tf.rec # None
  BY <1>1, <1>2 DEF State, Absent
<1>5. plan \in Records /\ plan.api \in Apis
  BY <1>1, <1>2, <1>4 DEF State, States
<1>6. Alive(tf.id) => live[tf.id] \in Fields /\ live[tf.id].api \in Apis
  BY <1>1, <1>3 DEF World, Alive
<1>7. Alive(tf.id) => live[tf.id].note \in {None, config.note}
  BY <1>1 DEF SightInv
<1>8. QED
  BY <1>1, <1>2, <1>3, <1>5, <1>6, <1>7 DEF World

\* The fields a failed follow-up leaves in the state.
LEMMA RequestedFacts ==
  ASSUME plan \in Records, config \in Configs
  PROVE  /\ Requested("note", config.note) \in Records
         /\ Requested("note", config.note).text = plan.text
         /\ Requested("note", config.note).api = plan.api
         /\ Requested("note", config.note).note = config.note
         /\ Requested("aud", config.aud) \in Records
         /\ Requested("aud", config.aud).text = plan.text
         /\ Requested("aud", config.aud).api = plan.api
         /\ Requested("aud", config.aud).note = plan.note
         /\ Requested("aud", config.aud).aud = config.aud
  BY DEF Requested, Records, Configs

LEMMA WithNoteFacts ==
  ASSUME NEW r \in Records, config \in Configs
  PROVE  /\ WithNote(r) \in Records
         /\ WithNote(r).text = r.text
         /\ WithNote(r).api = r.api
         /\ WithNote(r).note = IF config.note = None THEN r.note ELSE config.note
  BY DEF WithNote, Records, Configs

\* A follow-up statement is to be sent, or to be read back.
LEMMA Follows ==
  ASSUME World', State', OrphansUnanswered', pc' = "readNote" \/ Sighted',
         pc' \in Following, kind' = "dive", config' # None, plan' = tf'.rec,
         tf'.id # 0, ~tf'.tainted, sent' = {}, tf'.rec # None,
         pc' = "note" => config'.note # None
                         /\ ((Alive(tf.id))' => live'[tf'.id].note = None),
         pc' \in {"status", "readStatus"} => config'.aud # None,
         (Alive(tf.id))' => live'[tf'.id].note \in {None, config'.note}
  PROVE  IInv'
<1>1. TypeOK'
  BY DEF World, State, States, TypeOK, PCs, Following
<1>2. HandlerInv' /\ TodoInv'
  BY DEF State, HandlerInv, TodoInv, Creating, Following, Updating
<1>3. SightInv'
  BY DEF Sighted, SightInv, Creating, Following
<1>4. QED
  BY <1>1, <1>2, <1>3 DEF IInv

\* After the object, or what was asked of it, is recorded as r, Create goes on
\* with the status or ends.
LEMMA AfterNoteKeeps ==
  ASSUME IInv, World', OrphansUnanswered', NEW r \in Records, NEW v, r.api \in Apis',
         config' = config, kind' = kind, config # None, tf.id # 0, sent = {},
         live'[tf.id] # Unborn, AfterNote(r, v),
         tf' = Recorded(r) => Sighted',
         (Alive(tf.id))' => live'[tf.id].note \in {None, config.note}
  PROVE  IInv'
<1>1. tf' = Recorded(r)
  BY DEF AfterNote, End
<1>2. State' /\ tf'.id = tf.id /\ tf'.rec = r /\ r # None /\ ~tf'.tainted
  BY <1>1, Recording
<1>3. CASE StatusNext(r)
  <2>1. /\ pc' = "status" /\ plan' = r /\ sent' = {} /\ kind = "dive"
        /\ config.aud # None
    BY <1>3 DEF AfterNote, StatusNext
  <2>2. pc' \in Following
    BY <2>1 DEF Following
  <2>3. QED
    BY <1>1, <1>2, <2>1, <2>2, Follows
<1>4. CASE ~StatusNext(r)
  <2>1. pc' = "idle" /\ sent' = {}
    BY <1>4 DEF AfterNote, End
  <2>2. QED
    BY <1>1, <1>2, <2>1, Rests
<1>5. QED
  BY <1>3, <1>4

LEMMA ReadNewKeeps ==
  ASSUME IInv, ReadNew
  PROVE  IInv'
<1>1. /\ World /\ State /\ TypeOK /\ HandlerInv /\ SightInv
      /\ tf.id # 0 /\ tf.rec = None /\ config # None /\ config \in Configs
      /\ sent = {} /\ tf.id \in Ids /\ live[tf.id] # Unborn
  <2>1. World /\ State /\ TypeOK /\ HandlerInv /\ SightInv
    BY Parts
  <2>2. /\ tf.id # 0 /\ tf.rec = None /\ config # None /\ sent = {}
    BY <2>1 DEF ReadNew, HandlerInv, Creating, Updating
  <2>3. QED
    BY <2>1, <2>2 DEF World, State, States, Ids
<1>2. /\ UNCHANGED <<kind, default, outside, config, lost, live>>
  BY DEF ReadNew, worldVars
<1>3. CASE End("error", tf) /\ UNCHANGED <<excuse, read>>
  <2>1. tf' = tf /\ Still /\ read' = read /\ pc' = "idle" /\ sent' = {}
    BY <1>2, <1>3 DEF Still, End
  <2>2. World' /\ OrphansUnanswered' /\ Apis' = Apis
    BY <1>2, <2>1, Unwritten
  <2>3. State'
    BY <1>1, <1>2, <2>1, <2>2, Keeping
  <2>4. QED
    BY <1>1, <2>1, <2>2, <2>3, Unrecorded, Rests
<1>4. CASE /\ ReadWorks
           /\ Seen
           /\ LET r == Reading(tf.id, plan.desc) IN
                IF NoteNext(r)
                THEN /\ pc' = "note" /\ plan' = r /\ tf' = Recorded(r)
                     /\ UNCHANGED <<todo, sent, said>>
                ELSE AfterNote(r, "ok")
  <2> DEFINE r == Reading(tf.id, plan.desc)
  <2>1. Alive(tf.id) /\ read' = read \cup {tf.id}
    BY <1>4 DEF ReadWorks, Seen
  <2>2. /\ r \in Records /\ r.api \in Apis /\ r # None
        /\ r.text = live[tf.id].text /\ r.api = live[tf.id].api
        /\ r.note = live[tf.id].note
    BY <1>1, <2>1, ReadingFacts
  <2>3. IF NoteNext(r)
        THEN /\ pc' = "note" /\ plan' = r /\ tf' = Recorded(r)
             /\ UNCHANGED <<todo, sent, said>>
        ELSE AfterNote(r, "ok")
    BY <1>4
  <2> HIDE DEF r
  <2>4. /\ tf' = Recorded(r) /\ tf'.id = tf.id
        /\ said' \in {"ok", "warning", "error"}
    BY <1>1, <2>3 DEF AfterNote, End, Recorded, World
  <2>5. World' /\ OrphansUnanswered' /\ Apis' = Apis
    BY <1>2, <2>1, <2>4, Unwritten DEF Still
  <2>6. State' /\ tf'.rec = r /\ ~tf'.tainted
    BY <1>1, <1>2, <2>2, <2>4, <2>5, Recording
  <2>7. Sighted'
    BY <1>2, <2>2, <2>4, <2>6 DEF Sighted, KnowsVersion
  <2>8. kind = "dive" => live[tf.id].note = None
    BY <1>1, <2>1 DEF SightInv, ReadNew, Creating
  <2>9. CASE NoteNext(r)
    <3>1. /\ pc' = "note" /\ plan' = r /\ sent' = {} /\ kind = "dive"
          /\ config.note # None
      BY <1>1, <2>3, <2>9 DEF NoteNext
    <3>2. pc' \in Following
      BY <3>1 DEF Following
    <3>3. QED
      BY <1>1, <1>2, <2>2, <2>4, <2>5, <2>6, <2>7, <2>8, <3>1, <3>2, Follows
  <2>10. CASE ~NoteNext(r)
    <3>1. AfterNote(r, "ok")
      BY <2>3, <2>10
    <3>2. CASE kind = "dive"
      BY <1>1, <1>2, <2>2, <2>4, <2>5, <2>7, <2>8, <3>1, <3>2, AfterNoteKeeps
    <3>3. CASE kind # "dive"
      <4>1. pc' = "idle" /\ sent' = {}
        BY <3>1, <3>3 DEF AfterNote, StatusNext, End
      <4>2. QED
        BY <2>5, <2>6, <2>7, <4>1, Rests
    <3>4. QED
      BY <3>2, <3>3
  <2>11. QED
    BY <2>9, <2>10
<1>5. QED
  BY <1>3, <1>4 DEF ReadNew

LEMMA WriteNoteKeeps ==
  ASSUME IInv, WriteNote
  PROVE  IInv'
<1> DEFINE p == Requested("note", config.note)
<1>1. pc \in Following
  BY DEF WriteNote, Following
<1>2. /\ kind = "dive" /\ config \in Configs /\ config # None
      /\ tf.id \in Ids /\ tf.id # 0 /\ ~tf.tainted /\ live[tf.id] # Unborn
      /\ plan = tf.rec /\ plan \in Records /\ plan.api \in Apis
      /\ sent = {}
      /\ Alive(tf.id) => live[tf.id] \in Fields /\ live[tf.id].api \in Apis
  BY <1>1, FollowFacts
<1>3. World /\ SightInv /\ Sighted /\ HandlerInv
  BY Parts DEF WriteNote
<1>4. /\ p \in Records /\ p.text = plan.text /\ p.api = plan.api
      /\ p.note = config.note
  BY <1>2, RequestedFacts
<1>5. UNCHANGED <<kind, default, outside, config, lost, read>>
  BY DEF WriteNote
<1>6. Alive(tf.id) => live[tf.id].note = None
  BY <1>2, <1>3 DEF SightInv, WriteNote
<1>7. /\ \/ NoteFailed(p) /\ UNCHANGED <<live, excuse>>
         \/ /\ ~Refuses("append", p)
            /\ live' = [live EXCEPT ![tf.id] = Written("append", p, plan, @)]
            /\ \/ excuse' = TRUE /\ NoteFailed(p)
               \/ /\ pc' = "readNote"
                  /\ UNCHANGED <<tf, todo, sent, plan, said, excuse>>
  BY DEF WriteNote
<1> HIDE DEF p
<1>8. NoteFailed(p) =>
        /\ tf' = Recorded(p) /\ tf'.id = tf.id /\ AfterNote(p, "warning")
        /\ said' \in {"ok", "warning", "error"}
  BY DEF NoteFailed, AfterNote, End, Recorded
<1>9. CASE NoteFailed(p) /\ UNCHANGED <<live, excuse>>
  <2>1. World' /\ OrphansUnanswered' /\ Apis' = Apis
    BY <1>5, <1>8, <1>9, Unwritten DEF Still
  <2>2. tf'.rec = p
    BY <1>8, <1>9 DEF Recorded
  <2>3. Sighted'
    BY <1>2, <1>3, <1>4, <1>5, <1>6, <1>8, <1>9, <2>2, NoneIsNoContent
    DEF Sighted, KnowsVersion, Alive
  <2>4. (Alive(tf.id))' => live'[tf.id].note \in {None, config.note}
    BY <1>6, <1>8, <1>9 DEF Alive
  <2>5. QED
    BY <1>2, <1>4, <1>5, <1>8, <1>9, <2>1, <2>3, <2>4, AfterNoteKeeps
<1>10. CASE /\ ~Refuses("append", p)
            /\ live' = [live EXCEPT ![tf.id] = Written("append", p, plan, @)]
            /\ \/ excuse' = TRUE /\ NoteFailed(p)
               \/ /\ pc' = "readNote"
                  /\ UNCHANGED <<tf, todo, sent, plan, said, excuse>>
  <2> DEFINE o == Written("append", p, plan, live[tf.id])
  <2>1. Alive(tf.id)
    BY <1>10 DEF Refuses
  <2>2. o \in Fields /\ o.api \in Apis /\ o.note = config.note
    BY <1>2, <1>4, <2>1, Parts, WrittenFacts
  <2>3. live' = [live EXCEPT ![tf.id] = o]
    BY <1>10
  <2> HIDE DEF o
  <2>4. tf'.id = tf.id /\ said' \in {"ok", "warning", "error"}
    BY <1>3, <1>8, <1>10 DEF World
  <2>5. /\ World' /\ OrphansUnanswered' /\ Apis' = Apis
        /\ live'[tf'.id] = o /\ live'[tf.id] # Unborn
    BY <1>5, <2>1, <2>2, <2>3, <2>4, Overwritten DEF Still
  <2>6. CASE excuse' = TRUE /\ NoteFailed(p)
    <3>1. Sighted'
      BY <2>6 DEF Sighted
    <3>2. QED
      BY <1>2, <1>4, <1>5, <1>8, <2>2, <2>4, <2>5, <2>6, <3>1, AfterNoteKeeps
  <2>7. CASE /\ pc' = "readNote"
             /\ UNCHANGED <<tf, todo, sent, plan, said, excuse>>
    <3>1. State'
      BY <1>5, <2>5, <2>7, Keeping
    <3>2. tf.rec # None /\ pc' \in Following
      BY <1>2, <2>7, NoneIsNoContent DEF Following
    <3>3. QED
      BY <1>2, <1>5, <2>2, <2>5, <2>7, <3>1, <3>2, Follows
  <2>8. QED
    BY <1>10, <2>6, <2>7
<1>11. QED
  BY <1>7, <1>9, <1>10

LEMMA ReadNoteKeeps ==
  ASSUME IInv, ReadNote
  PROVE  IInv'
<1>1. pc \in Following
  BY DEF ReadNote, Following
<1>2. /\ kind = "dive" /\ config \in Configs /\ config # None
      /\ tf.id \in Ids /\ tf.id # 0 /\ live[tf.id] # Unborn
      /\ plan \in Records /\ plan.api \in Apis /\ sent = {}
      /\ Alive(tf.id) => live[tf.id].note \in {None, config.note}
  BY <1>1, FollowFacts
<1>3. UNCHANGED <<kind, default, outside, config, lost, live>>
  BY DEF ReadNote, worldVars
<1>4. (Alive(tf.id))' => live'[tf.id].note \in {None, config.note} \/ tf'.id # tf.id
  BY <1>2, <1>3 DEF Alive
<1>5. CASE excuse' = TRUE /\ NoteFailed(Requested("note", config.note)) /\ read' = read
  <2> DEFINE r == Requested("note", config.note)
  <2>1. r \in Records /\ r.api \in Apis
    BY <1>2, RequestedFacts
  <2>2. AfterNote(r, "warning")
    BY <1>5 DEF NoteFailed
  <2> HIDE DEF r
  <2>3. tf'.id = tf.id /\ said' \in {"ok", "warning", "error"}
    BY <2>2 DEF AfterNote, End, Recorded
  <2>4. World' /\ OrphansUnanswered' /\ Apis' = Apis
    BY <1>3, <1>5, <2>3, Unwritten DEF Still
  <2>5. Sighted'
    BY <1>5 DEF Sighted
  <2>6. QED
    BY <1>2, <1>3, <1>4, <2>1, <2>2, <2>3, <2>4, <2>5, AfterNoteKeeps
<1>6. CASE ReadWorks /\ Seen /\ AfterNote(Reading(tf.id, plan.desc), "ok")
  <2> DEFINE r == Reading(tf.id, plan.desc)
  <2>1. Alive(tf.id) /\ read' = read \cup {tf.id} /\ AfterNote(r, "ok")
    BY <1>6 DEF ReadWorks, Seen
  <2>2. /\ r \in Records /\ r.api \in Apis
        /\ r.text = live[tf.id].text /\ r.api = live[tf.id].api
        /\ r.note = live[tf.id].note
    BY <1>2, <2>1, Parts, ReadingFacts
  <2> HIDE DEF r
  <2>3. tf'.id = tf.id /\ tf'.rec = r /\ said' \in {"ok", "warning", "error"}
    BY <2>1 DEF AfterNote, End, Recorded
  <2>4. World' /\ OrphansUnanswered' /\ Apis' = Apis
    BY <1>3, <2>1, <2>3, Unwritten DEF Still
  <2>5. Sighted'
    BY <1>3, <2>2, <2>3 DEF Sighted, KnowsVersion
  <2>6. QED
    BY <1>2, <1>3, <1>4, <2>1, <2>2, <2>3, <2>4, <2>5, AfterNoteKeeps
<1>7. QED
  BY <1>5, <1>6 DEF ReadNote

\* Create's handler of the status ends with r, a description apart.
LEMMA StatusEnds ==
  ASSUME IInv, World', OrphansUnanswered', NEW r \in Records, NEW v, r.api \in Apis',
         config' = config, kind' = kind, config \in Configs, kind = "dive",
         tf.id # 0, live'[tf.id] # Unborn, End(v, Recorded(WithNote(r))),
         (Alive(tf.id))' /\ ~excuse' =>
           /\ r.text = live'[tf.id].text /\ r.api = live'[tf.id].api
           /\ r.note = live'[tf.id].note \/ live'[tf.id].note = None,
         (Alive(tf.id))' => live'[tf.id].note \in {None, config.note}
  PROVE  IInv'
<1>1. /\ WithNote(r) \in Records /\ WithNote(r).api \in Apis'
      /\ WithNote(r).text = r.text /\ WithNote(r).api = r.api
      /\ WithNote(r).note = IF config.note = None THEN r.note ELSE config.note
  BY WithNoteFacts
<1>2. tf' = Recorded(WithNote(r)) /\ pc' = "idle" /\ sent' = {}
  BY DEF End
<1>3. State' /\ tf'.id = tf.id /\ tf'.rec = WithNote(r)
  BY <1>1, <1>2, Recording
<1>4. Sighted'
  BY <1>1, <1>3 DEF Sighted, KnowsVersion
<1>5. QED
  BY <1>2, <1>3, <1>4, Rests

LEMMA WriteStatusKeeps ==
  ASSUME IInv, WriteStatus
  PROVE  IInv'
<1> DEFINE p == Requested("aud", config.aud)
<1>1. pc \in Following
  BY DEF WriteStatus, Following
<1>2. /\ kind = "dive" /\ config \in Configs /\ config # None
      /\ tf.id \in Ids /\ tf.id # 0 /\ ~tf.tainted /\ live[tf.id] # Unborn
      /\ plan = tf.rec /\ plan \in Records /\ plan.api \in Apis
      /\ sent = {}
      /\ Alive(tf.id) => /\ live[tf.id].note \in {None, config.note}
                         /\ live[tf.id] \in Fields /\ live[tf.id].api \in Apis
  BY <1>1, FollowFacts
<1>3. World /\ Sighted /\ config.aud # None
  <2>1. World /\ Sighted /\ HandlerInv
    BY Parts DEF WriteStatus
  <2>2. QED
    BY <2>1 DEF HandlerInv, WriteStatus
<1>4. /\ p \in Records /\ p.text = plan.text /\ p.api = plan.api
      /\ p.note = plan.note /\ p.aud # None
  BY <1>2, <1>3, RequestedFacts
<1>5. UNCHANGED <<kind, default, outside, config, lost, read, excuse>>
  BY DEF WriteStatus, ghostVars
<1>6. \/ StatusFailed(p) /\ UNCHANGED live
      \/ /\ ~Refuses("access", p)
         /\ live' = [live EXCEPT ![tf.id] = Written("access", p, plan, @)]
         /\ \/ StatusFailed(p)
            \/ pc' = "readStatus" /\ UNCHANGED <<tf, todo, sent, plan, said>>
  BY DEF WriteStatus
<1>7. Alive(tf.id) /\ ~excuse =>
        /\ p.text = live[tf.id].text /\ p.api = live[tf.id].api
        /\ p.note = live[tf.id].note \/ live[tf.id].note = None
  BY <1>2, <1>3, <1>4, NoneIsNoContent DEF Sighted, KnowsVersion
<1> HIDE DEF p
<1>8. StatusFailed(p) =>
        /\ End("warning", Recorded(WithNote(p)))
        /\ tf'.id = tf.id /\ said' \in {"ok", "warning", "error"}
  BY DEF StatusFailed, End, Recorded
<1>9. CASE StatusFailed(p) /\ UNCHANGED live
  <2>1. World' /\ OrphansUnanswered' /\ Apis' = Apis /\ (Alive(tf.id))' = Alive(tf.id)
    BY <1>5, <1>8, <1>9, Unwritten DEF Still
  <2>2. QED
    BY <1>2, <1>4, <1>5, <1>7, <1>8, <1>9, <2>1, StatusEnds
<1>10. CASE /\ ~Refuses("access", p)
            /\ live' = [live EXCEPT ![tf.id] = Written("access", p, plan, @)]
            /\ \/ StatusFailed(p)
               \/ pc' = "readStatus" /\ UNCHANGED <<tf, todo, sent, plan, said>>
  <2> DEFINE o == Written("access", p, plan, live[tf.id])
  <2>1. Alive(tf.id)
    BY <1>10 DEF Refuses
  <2>2. /\ o \in Fields /\ o.api \in Apis /\ o.text = live[tf.id].text
        /\ o.note = live[tf.id].note /\ o.api = live[tf.id].api
    BY <1>2, <1>4, <2>1, Parts, WrittenFacts
  <2>3. live' = [live EXCEPT ![tf.id] = o]
    BY <1>10
  <2> HIDE DEF o
  <2>4. tf'.id = tf.id /\ said' \in {"ok", "warning", "error"}
    BY <1>3, <1>8, <1>10 DEF World
  <2>5. /\ World' /\ OrphansUnanswered' /\ Apis' = Apis
        /\ live'[tf'.id] = o /\ live'[tf.id] # Unborn
    BY <1>5, <2>1, <2>2, <2>3, <2>4, Overwritten DEF Still
  <2>6. CASE StatusFailed(p)
    BY <1>2, <1>4, <1>5, <1>7, <1>8, <2>1, <2>2, <2>4, <2>5, <2>6, StatusEnds
  <2>7. CASE pc' = "readStatus" /\ UNCHANGED <<tf, todo, sent, plan, said>>
    <3>1. State'
      BY <1>5, <2>5, <2>7, Keeping
    <3>2. tf.rec # None /\ pc' \in Following
      BY <1>2, <2>7, NoneIsNoContent DEF Following
    <3>3. Sighted'
      BY <1>2, <1>4, <1>5, <1>7, <2>1, <2>2, <2>5, <2>7 DEF Sighted, KnowsVersion
    <3>4. QED
      BY <1>2, <1>3, <1>5, <2>1, <2>2, <2>5, <2>7, <3>1, <3>2, <3>3, Follows
  <2>8. QED
    BY <1>10, <2>6, <2>7
<1>11. QED
  BY <1>6, <1>9, <1>10

LEMMA ReadStatusKeeps ==
  ASSUME IInv, ReadStatus
  PROVE  IInv'
<1>1. pc \in Following
  BY DEF ReadStatus, Following
<1>2. /\ kind = "dive" /\ config \in Configs /\ config # None
      /\ tf.id \in Ids /\ tf.id # 0 /\ live[tf.id] # Unborn
      /\ plan = tf.rec /\ plan \in Records /\ plan.api \in Apis
      /\ Alive(tf.id) => live[tf.id].note \in {None, config.note}
  BY <1>1, FollowFacts
<1>3. World /\ Sighted
  BY Parts DEF ReadStatus
<1>4. UNCHANGED <<kind, default, outside, config, lost, live>>
  BY DEF ReadStatus, worldVars
<1>5. CASE StatusFailed(Requested("aud", config.aud)) /\ UNCHANGED <<excuse, read>>
  <2> DEFINE r == Requested("aud", config.aud)
  <2>1. r \in Records /\ r.text = plan.text /\ r.api = plan.api /\ r.note = plan.note
    BY <1>2, RequestedFacts
  <2>2. End("warning", Recorded(WithNote(r)))
    BY <1>5 DEF StatusFailed
  <2> HIDE DEF r
  <2>3. tf'.id = tf.id /\ said' \in {"ok", "warning", "error"}
    BY <2>2 DEF End, Recorded
  <2>4. World' /\ OrphansUnanswered' /\ Apis' = Apis /\ (Alive(tf.id))' = Alive(tf.id)
    BY <1>4, <1>5, <2>3, Unwritten DEF Still
  <2>5. Alive(tf.id) /\ ~excuse =>
          /\ r.text = live[tf.id].text /\ r.api = live[tf.id].api
          /\ r.note = live[tf.id].note \/ live[tf.id].note = None
    BY <1>2, <1>3, <2>1, NoneIsNoContent DEF Sighted, KnowsVersion
  <2>6. QED
    BY <1>2, <1>4, <1>5, <2>1, <2>2, <2>4, <2>5, StatusEnds
<1>6. CASE ReadWorks /\ Seen /\ End(said, Recorded(WithNote(Reading(tf.id, plan.desc))))
  <2> DEFINE r == Reading(tf.id, plan.desc)
  <2>1. /\ Alive(tf.id) /\ read' = read \cup {tf.id}
        /\ End(said, Recorded(WithNote(r)))
    BY <1>6 DEF ReadWorks, Seen
  <2>2. /\ r \in Records /\ r.api \in Apis
        /\ r.text = live[tf.id].text /\ r.api = live[tf.id].api
        /\ r.note = live[tf.id].note
    BY <1>2, <2>1, Parts, ReadingFacts
  <2> HIDE DEF r
  <2>3. tf'.id = tf.id /\ said' \in {"ok", "warning", "error"}
    BY <1>3, <2>1 DEF End, Recorded, World
  <2>4. World' /\ OrphansUnanswered' /\ Apis' = Apis /\ (Alive(tf.id))' = Alive(tf.id)
    BY <1>4, <2>1, <2>3, Unwritten DEF Still
  <2>5. QED
    BY <1>2, <1>4, <2>1, <2>2, <2>4, StatusEnds
<1>7. QED
  BY <1>5, <1>6 DEF ReadStatus

-----------------------------------------------------------------------------
(* Read, Update, Delete, ImportState.                                      *)

LEMMA RefreshKeeps ==
  ASSUME IInv, Refresh
  PROVE  IInv'
<1>1. /\ World /\ State /\ TypeOK /\ OrphansUnanswered
      /\ tf.id # 0 /\ tf.id \in Ids /\ sent = {}
  <2>1. World /\ State /\ TypeOK /\ OrphansUnanswered /\ HandlerInv
    BY Parts
  <2>2. QED
    BY <2>1 DEF Refresh, State, States, Ids, HandlerInv, Updating
<1>2. UNCHANGED <<kind, default, outside, config, lost, live, read, sent, pc>>
  BY DEF Refresh, worldVars, budgets
<1>3. pc' = "idle" /\ said' = "ok"
  BY <1>2 DEF Refresh
<1>4. Apis' = Apis /\ \A i : (Alive(i))' = Alive(i)
  BY <1>2 DEF Apis, Alive
<1>5. World'
  BY <1>1, <1>2, <1>3, <1>4 DEF World
<1>6. CASE Alive(tf.id)
  <2> DEFINE r == Reading(tf.id, IF tf.rec = None THEN None ELSE tf.rec.desc)
  <2>1. tf' = [tf EXCEPT !.rec = r]
    BY <1>6 DEF Refresh
  <2>2. /\ r \in Records /\ r.api \in Apis /\ r # None
        /\ r.text = live[tf.id].text /\ r.api = live[tf.id].api
        /\ r.note = live[tf.id].note
    BY <1>1, <1>6, ReadingFacts
  <2> HIDE DEF r
  <2>3. tf' \in States /\ tf'.id = tf.id /\ tf'.rec = r /\ tf'.tainted = tf.tainted
    BY <1>1, <2>1, <2>2 DEF State, States
  <2>4. State'
    BY <1>1, <1>2, <1>4, <2>2, <2>3 DEF State
  <2>5. Sighted'
    BY <1>2, <2>2, <2>3 DEF Sighted, KnowsVersion
  <2>6. OrphansUnanswered'
    BY <1>1, <1>2, <1>4, <2>3 DEF OrphansUnanswered
  <2>7. QED
    BY <1>1, <1>2, <1>3, <1>5, <2>4, <2>5, <2>6, Rests
<1>7. CASE ~Alive(tf.id)
  <2>1. /\ tf' = Absent /\ tf' \in States /\ tf'.id = 0 /\ tf'.rec = None
        /\ ~tf'.tainted
    BY <1>7, AppContentAssumption DEF Refresh, Absent, States
  <2>2. State'
    BY <2>1 DEF State
  <2>3. OrphansUnanswered'
    BY <1>1, <1>2, <1>4, <1>7 DEF OrphansUnanswered
  <2>4. QED
    BY <1>1, <1>2, <1>3, <1>5, <2>1, <2>2, <2>3, Unrecorded, Rests
<1>8. QED
  BY <1>6, <1>7

\* What Terraform plans is a record, with the version that it keeps.
LEMMA PlannedFacts ==
  ASSUME NEW c \in Configs, NEW r \in Records, r.api \in Apis
  PROVE  /\ Planned(kind, c, r) \in Records
         /\ Planned(kind, c, r).api \in Apis \cup {0}
         /\ Planned(kind, c, r).text = r.text => Planned(kind, c, r).api = r.api
<1>1. PlannedNote(kind, c, r) \in Notes \cup {None}
  BY DEF PlannedNote, Configs, Records
<1>2. PlannedApi(c, r) \in {0, r.api} /\ PlannedApi(c, r) \in 0..MaxOutside + 1
  BY AppContentAssumption DEF PlannedApi, Records
<1>3. QED
  BY <1>1, <1>2 DEF Planned, PlannedApi, Configs, Records

Orders == {<<"meta">>, <<"append">>, <<"access">>, <<"meta", "append">>,
           <<"meta", "access">>, <<"append", "access">>,
           <<"meta", "append", "access">>}

\* Sequences of one, of two and of three.
LEMMA Singles ==
  ASSUME NEW x
  PROVE  \A i \in 1..Len(<<x>>) : <<x>>[i] = x
<1>1. Len(<<x>>) = 1 /\ <<x>>[1] = x
  OBVIOUS
<1>2. QED
  BY <1>1

LEMMA Pairs ==
  ASSUME NEW x, NEW y
  PROVE  /\ <<x>> \o <<y>> = <<x, y>>
         /\ \A i \in 1..Len(<<x, y>>) : <<x, y>>[i] \in {x, y}
<1> DEFINE s == <<x>> \o <<y>>
           t == <<x, y>>
<1>1. s \in Seq({x, y}) /\ t \in Seq({x, y}) /\ Len(s) = 2 /\ Len(t) = 2
  OBVIOUS
<1>2. s[1] = t[1] /\ s[2] = t[2]
  OBVIOUS
<1>3. \A i \in 1..Len(t) : t[i] \in {x, y}
  OBVIOUS
<1> HIDE DEF s, t
<1>4. \A i \in 1..Len(s) : s[i] = t[i]
  BY <1>1, <1>2
<1>5. s = t
  BY <1>1, <1>4, SeqEqual
<1>6. QED
  BY <1>3, <1>5 DEF s, t

LEMMA Triples ==
  ASSUME NEW x, NEW y, NEW z
  PROVE  <<x, y>> \o <<z>> = <<x, y, z>>
<1> DEFINE s == <<x, y>> \o <<z>>
           t == <<x, y, z>>
<1>1. s \in Seq({x, y, z}) /\ t \in Seq({x, y, z}) /\ Len(s) = 3 /\ Len(t) = 3
  OBVIOUS
<1>2. s[1] = t[1] /\ s[2] = t[2] /\ s[3] = t[3]
  OBVIOUS
<1> HIDE DEF s, t
<1>3. \A i \in 1..Len(s) : s[i] = t[i]
  BY <1>1, <1>2
<1>4. s = t
  BY <1>1, <1>3, SeqEqual
<1>5. QED
  BY <1>4 DEF s, t

\* Three optional statements in their order.
LEMMA OrderFacts ==
  ASSUME NEW a \in BOOLEAN, NEW b \in BOOLEAN, NEW c \in BOOLEAN,
         NEW ss, ss = If("meta", a) \o If("append", b) \o If("access", c), ss # <<>>
  PROVE  /\ ss \in Orders
         /\ \A i \in 1..Len(ss) : (ss[i] = "append" => b) /\ (ss[i] = "access" => c)
<1>1. CASE a /\ b /\ c
  <2>1. ss = (<<"meta">> \o <<"append">>) \o <<"access">>
    BY <1>1, Zenon DEF If
  <2>2. <<"meta">> \o <<"append">> = <<"meta", "append">>
    BY Pairs
  <2>3. <<"meta", "append">> \o <<"access">> = <<"meta", "append", "access">>
    BY Triples
  <2>4. ss = <<"meta", "append", "access">>
    BY <2>1, <2>2, <2>3
  <2>5. QED
    BY <1>1, <2>4 DEF Orders
<1>2. CASE a /\ b /\ ~c
  <2>1. ss = <<"meta", "append">>
    BY <1>2, Pairs DEF If
  <2>2. \A i \in 1..Len(ss) : ss[i] \in {"meta", "append"}
    BY <2>1, Pairs
  <2>3. QED
    BY <1>2, <2>1, <2>2 DEF Orders
<1>3. CASE a /\ ~b /\ c
  <2>1. ss = <<"meta", "access">>
    BY <1>3, Pairs DEF If
  <2>2. \A i \in 1..Len(ss) : ss[i] \in {"meta", "access"}
    BY <2>1, Pairs
  <2>3. QED
    BY <1>3, <2>1, <2>2 DEF Orders
<1>4. CASE a /\ ~b /\ ~c
  <2>1. ss = <<"meta">>
    BY <1>4 DEF If
  <2>2. \A i \in 1..Len(ss) : ss[i] = "meta"
    BY <2>1, Singles
  <2>3. QED
    BY <1>4, <2>1, <2>2 DEF Orders
<1>5. CASE ~a /\ b /\ c
  <2>1. ss = <<"append", "access">>
    BY <1>5, Pairs DEF If
  <2>2. \A i \in 1..Len(ss) : ss[i] \in {"append", "access"}
    BY <2>1, Pairs
  <2>3. QED
    BY <1>5, <2>1, <2>2 DEF Orders
<1>6. CASE ~a /\ b /\ ~c
  <2>1. ss = <<"append">>
    BY <1>6 DEF If
  <2>2. \A i \in 1..Len(ss) : ss[i] = "append"
    BY <2>1, Singles
  <2>3. QED
    BY <1>6, <2>1, <2>2 DEF Orders
<1>7. CASE ~a /\ ~b /\ c
  <2>1. ss = <<"access">>
    BY <1>7 DEF If
  <2>2. \A i \in 1..Len(ss) : ss[i] = "access"
    BY <2>1, Singles
  <2>3. QED
    BY <1>7, <2>1, <2>2 DEF Orders
<1>8. CASE ~a /\ ~b /\ ~c
  BY <1>8 DEF If
<1>9. QED
  BY <1>1, <1>2, <1>3, <1>4, <1>5, <1>6, <1>7, <1>8

\* The statements of an update: in their order, each with its reason.
LEMMA StatementsFacts ==
  ASSUME kind \in Kinds, NEW p, NEW r, Statements(kind, p, r) # <<>>
  PROVE  /\ IF kind = "flight" THEN Statements(kind, p, r) = <<"call">>
                               ELSE Statements(kind, p, r) \in Orders
         /\ \A i \in 1..Len(Statements(kind, p, r)) :
              /\ Statements(kind, p, r)[i] = "append" => VersionChanged(kind, p, r)
              /\ Statements(kind, p, r)[i] = "access" => p.aud # None
<1>1. CASE kind = "dive"
  <2>1. Statements(kind, p, r) = DiveStatements(p, r)
    BY <1>1, Zenon DEF Statements
  <2>2. /\ (p.desc # r.desc) \in BOOLEAN /\ VersionChanged("dive", p, r) \in BOOLEAN
        /\ AccessChanged(p, r) \in BOOLEAN
    BY DEF VersionChanged, AccessChanged
  <2>3. QED
    BY <1>1, <2>1, <2>2, OrderFacts DEF DiveStatements, AccessChanged
<1>2. CASE kind = "guide"
  <2>1. Statements(kind, p, r) = GuideStatements(p, r)
    BY <1>2, Zenon DEF Statements
  <2>2. /\ (p.desc # r.desc) \in BOOLEAN /\ VersionChanged("guide", p, r) \in BOOLEAN
        /\ AccessChanged(p, r) \in BOOLEAN
    BY DEF VersionChanged, AccessChanged
  <2>3. QED
    BY <1>2, <2>1, <2>2, OrderFacts DEF GuideStatements, AccessChanged
<1>3. CASE kind = "flight"
  <2>1. Statements(kind, p, r) = FlightStatements(p, r)
    BY <1>3, Zenon DEF Statements
  <2>2. Statements(kind, p, r) = <<"call">>
    BY <2>1 DEF FlightStatements, If
  <2>3. QED
    BY <1>3, <2>2
<1>4. QED
  BY <1>1, <1>2, <1>3, KindsAre

LEMMA StartUpdateKeeps ==
  ASSUME IInv, StartUpdate
  PROVE  IInv'
<1> DEFINE p == Planned(kind, config, tf.rec)
           ss == Statements(kind, p, tf.rec)
<1>1. /\ World /\ State /\ OrphansUnanswered /\ Sighted
      /\ tf.id # 0 /\ ~tf.tainted /\ sent = {} /\ config \in Configs
  <2>1. World /\ State /\ OrphansUnanswered /\ HandlerInv /\ Sighted
    BY Parts DEF StartUpdate
  <2>2. QED
    BY <2>1 DEF StartUpdate, State, HandlerInv, Updating, World
<1>2. tf.rec \in Records /\ tf.rec # None /\ tf.rec.api \in Apis
  BY <1>1 DEF State, States, Absent
<1>3. /\ p \in Records /\ p.api \in Apis \cup {0}
      /\ p.text = tf.rec.text => p.api = tf.rec.api
  BY <1>1, <1>2, PlannedFacts
<1>4. ss # <<>>
  BY DEF StartUpdate
<1>5. /\ IF kind = "flight" THEN ss = <<"call">> ELSE ss \in Orders
      /\ \A i \in 1..Len(ss) : /\ ss[i] = "append" => VersionChanged(kind, p, tf.rec)
                               /\ ss[i] = "access" => p.aud # None
  <2>1. kind \in Kinds
    BY <1>1 DEF World
  <2> HIDE DEF p
  <2>2. QED
    BY <1>4, <2>1, StatementsFacts
<1>6. /\ UNCHANGED <<kind, default, outside, config, lost, live, read, excuse>>
      /\ \/ End("error", tf)
         \/ /\ pc' = "write" /\ todo' = ss /\ plan' = p /\ said' = "ok"
            /\ UNCHANGED <<sent, tf>>
  BY DEF StartUpdate, worldVars, budgets
<1> HIDE DEF p, ss
<1>7. tf' = tf /\ said' \in {"ok", "warning", "error"} /\ sent' = {}
  BY <1>1, <1>6 DEF End
<1>8. World' /\ OrphansUnanswered' /\ Apis' = Apis
  BY <1>6, <1>7, Unwritten DEF Still
<1>9. State'
  BY <1>1, <1>6, <1>7, <1>8, Keeping DEF State
<1>10. Sighted'
  BY <1>1, <1>6, <1>7 DEF Sighted, Alive, KnowsVersion
<1>11. CASE End("error", tf)
  BY <1>7, <1>8, <1>9, <1>10, <1>11, Rests DEF End
<1>12. CASE pc' = "write" /\ todo' = ss /\ plan' = p
  <2>1. TypeOK'
    BY <1>8, <1>9, <1>12 DEF World, State, States, TypeOK, PCs
  <2>2. HandlerInv'
    BY <1>1, <1>3, <1>7, <1>8, <1>9, <1>12
    DEF State, HandlerInv, Creating, Following, Updating
  <2>3. (VersionChanged(kind, plan, tf.rec))' = VersionChanged(kind, p, tf.rec)
    BY <1>6, <1>7, <1>12 DEF VersionChanged
  <2>4. TodoInv'
    BY <1>3, <1>5, <1>6, <1>7, <1>12, <2>3 DEF TodoInv, Orders
  <2>5. SightInv'
    BY <1>10, <1>12 DEF SightInv, Sighted, Creating, Following
  <2>6. QED
    BY <1>8, <2>1, <2>2, <2>4, <2>5 DEF IInv
<1>13. QED
  BY <1>6, <1>11, <1>12

\* The end of a handler that has neither read nor recorded anything.
LEMMA EndsAsItWas ==
  ASSUME IInv, World', OrphansUnanswered', Apis' = Apis, read' = read, tf' = tf,
         pc' = "idle", sent' = {}, tf.id # 0 => live'[tf.id] # Unborn, Sighted'
  PROVE  IInv'
<1>1. State'
  BY Keeping
<1>2. QED
  BY <1>1, Rests

\* What an update in progress has, and which statements may be left.
LEMMA WriteFacts ==
  ASSUME IInv, pc = "write"
  PROVE  /\ plan \in Records /\ plan.api \in Apis \cup {0}
         /\ tf.rec \in Records /\ tf.rec.api \in Apis
         /\ tf.id # 0 /\ tf.id \in Ids /\ ~tf.tainted
         /\ Head(todo) \in {"meta", "append", "access", "call"}
         /\ Head(todo) = "access" => plan.aud # None
         /\ Head(todo) = "append" => VersionChanged(kind, plan, tf.rec)
         /\ "append" \in sent => Head(todo) = "access" /\ Tail(todo) = <<>>
         /\ "append" \in sent => kind \in {"dive", "guide"}
         /\ kind = "flight" => Tail(todo) = <<>>
         /\ Tail(todo) # <<>> =>
              /\ Tail(todo) \in Orders
              /\ \A i \in 1..Len(Tail(todo)) :
                   /\ Tail(todo)[i] = "append" => VersionChanged(kind, plan, tf.rec)
                   /\ Tail(todo)[i] = "access" => plan.aud # None
              /\ Head(todo) = "append" => Tail(todo) = <<"access">>
              /\ Head(todo) # "access" /\ Head(todo) # "call"
         /\ plan.text = tf.rec.text => plan.api = tf.rec.api
<1>1. State /\ HandlerInv /\ TodoInv /\ World
  BY Parts
<1>2. /\ plan \in Records /\ plan.api \in Apis \cup {0} /\ tf.id # 0 /\ ~tf.tainted
  BY <1>1 DEF HandlerInv, Following, Updating
<1>3. tf.id \in Ids /\ tf.rec # None
  BY <1>1, <1>2 DEF State, States, Ids, Absent
<1>4. tf.rec \in Records /\ tf.rec.api \in Apis
  BY <1>1, <1>3 DEF State, States
<1>5. /\ IF kind = "flight" THEN todo = <<"call">> ELSE todo \in Orders
      /\ "append" \in sent => todo = <<"access">>
      /\ \A i \in 1..Len(todo) :
           /\ todo[i] = "append" => VersionChanged(kind, plan, tf.rec)
           /\ todo[i] = "access" => plan.aud # None
      /\ plan.text = tf.rec.text => plan.api = tf.rec.api
  BY <1>1 DEF TodoInv, Orders
<1>6. kind \in {"dive", "guide", "flight"}
  BY <1>1, KindsAre DEF World
<1>7. /\ Head(todo) \in {"meta", "append", "access", "call"}
      /\ "append" \in sent => Head(todo) = "access" /\ Tail(todo) = <<>>
      /\ kind = "flight" => Tail(todo) = <<>>
      /\ Tail(todo) # <<>> =>
           /\ Tail(todo) \in Orders
           /\ Head(todo) = "append" => Tail(todo) = <<"access">>
           /\ Head(todo) # "access" /\ Head(todo) # "call"
      /\ 1 \in 1..Len(todo) /\ todo[1] = Head(todo)
      /\ \A i \in 1..Len(Tail(todo)) :
           i + 1 \in 1..Len(todo) /\ Tail(todo)[i] = todo[i + 1]
  <2>1. CASE todo = <<"call">>
    BY <1>5, <2>1
  <2>2. CASE todo = <<"meta">>
    BY <1>5, <2>2
  <2>3. CASE todo = <<"append">>
    BY <1>5, <2>3
  <2>4. CASE todo = <<"access">>
    BY <1>5, <2>4
  <2>5. CASE todo = <<"meta", "append">>
    BY <1>5, <2>5 DEF Orders
  <2>6. CASE todo = <<"meta", "access">>
    BY <1>5, <2>6 DEF Orders
  <2>7. CASE todo = <<"append", "access">>
    BY <1>5, <2>7 DEF Orders
  <2>8. CASE todo = <<"meta", "append", "access">>
    BY <1>5, <2>8 DEF Orders
  <2>9. QED
    BY <1>5, <2>1, <2>2, <2>3, <2>4, <2>5, <2>6, <2>7, <2>8 DEF Orders
<1>8. "append" \in sent => kind \in {"dive", "guide"}
  <2>1. CASE kind = "flight" /\ "append" \in sent
    <3>1. <<"call">> = <<"access">>
      BY <1>5, <2>1
    <3>2. <<"call">>[1] = <<"access">>[1]
      BY <3>1
    <3>3. QED
      BY <3>2
  <2>2. QED
    BY <1>6, <2>1
<1>9. QED
  BY <1>2, <1>3, <1>4, <1>5, <1>7, <1>8

\* After a failed statement, what was read into the state is known to be
\* the last version, or it is going to be read.
LEMMA AbandonKeeps ==
  ASSUME IInv, pc = "write", World', OrphansUnanswered', Apis' = Apis,
         UNCHANGED <<kind, config, read>>, live'[tf.id] # Unborn,
         Abandon(Head(todo)), "append" \notin sent /\ tf' = tf => Sighted'
  PROVE  IInv'
<1>1. /\ plan \in Records /\ plan.api \in Apis \cup {0}
      /\ tf.id # 0 /\ ~tf.tainted
      /\ "append" \in sent => Head(todo) = "access" /\ kind \in {"dive", "guide"}
  BY WriteFacts
<1>2. CASE Keeps(kind, Head(todo), sent)
  <2>1. pc' = "keep" /\ UNCHANGED <<todo, sent, plan, tf>>
    BY <1>2 DEF Abandon
  <2>2. State'
    BY <1>1, <2>1, Keeping
  <2>3. TypeOK'
    BY <2>1, <2>2 DEF World, State, States, TypeOK, PCs
  <2>4. HandlerInv' /\ TodoInv'
    BY <1>1, <2>1, <2>2 DEF State, HandlerInv, TodoInv, Creating, Following, Updating
  <2>5. SightInv'
    BY <2>1 DEF SightInv, Creating, Following
  <2>6. QED
    BY <2>3, <2>4, <2>5 DEF IInv
<1>3. CASE ~Keeps(kind, Head(todo), sent)
  <2>1. End("error", tf)
    BY <1>3 DEF Abandon
  <2>2. "append" \notin sent
    BY <1>1, <1>3 DEF Keeps
  <2>3. tf' = tf /\ pc' = "idle" /\ sent' = {}
    BY <2>1 DEF End
  <2>4. Sighted'
    BY <2>2, <2>3
  <2>5. QED
    BY <1>1, <2>3, <2>4, EndsAsItWas
<1>4. QED
  BY <1>2, <1>3

LEMMA WriteKeeps ==
  ASSUME IInv, Write
  PROVE  IInv'
<1> DEFINE s == Head(todo)
<1>1. pc = "write"
  BY DEF Write
<1>2. /\ plan \in Records /\ plan.api \in Apis \cup {0}
      /\ tf.rec \in Records /\ tf.rec.api \in Apis
      /\ tf.id # 0 /\ tf.id \in Ids /\ ~tf.tainted
      /\ s \in {"meta", "append", "access", "call"}
      /\ s = "access" => plan.aud # None
      /\ "append" \in sent => Tail(todo) = <<>>
      /\ kind = "flight" => Tail(todo) = <<>>
      /\ Tail(todo) # <<>> =>
           /\ Tail(todo) \in Orders
           /\ \A i \in 1..Len(Tail(todo)) :
                /\ Tail(todo)[i] = "append" => VersionChanged(kind, plan, tf.rec)
                /\ Tail(todo)[i] = "access" => plan.aud # None
           /\ s = "append" => Tail(todo) = <<"access">>
           /\ s # "access" /\ s # "call"
      /\ plan.text = tf.rec.text => plan.api = tf.rec.api
  BY <1>1, WriteFacts
<1>3. World /\ State /\ SightInv /\ TypeOK
  BY Parts
<1>4. Alive(tf.id) /\ ~excuse /\ "append" \notin sent => KnowsVersion(live[tf.id])
  BY <1>1, <1>2, <1>3, NoneIsNoContent DEF SightInv
<1>5. /\ UNCHANGED <<kind, default, outside, config, lost, read>>
      /\ \/ Abandon(s) /\ UNCHANGED <<live, excuse>>
         \/ /\ ~Refuses(s, plan)
            /\ live' = [live EXCEPT ![tf.id] = Written(s, plan, tf.rec, @)]
            /\ \/ excuse' = TRUE /\ Abandon(s)
               \/ /\ todo' = Tail(todo)
                  /\ sent' = sent \cup {s}
                  /\ pc' = IF Tail(todo) = <<>> THEN "readBack" ELSE "write"
                  /\ UNCHANGED <<plan, said, tf, excuse>>
  BY DEF Write
<1> HIDE DEF s
<1>6. Abandon(s) => tf' = tf /\ said' \in {"ok", "warning", "error"}
  BY DEF Abandon, End
<1>7. live[tf.id] # Unborn
  BY <1>2, <1>3 DEF State
<1>8. CASE Abandon(s) /\ UNCHANGED <<live, excuse>>
  <2>1. World' /\ OrphansUnanswered' /\ Apis' = Apis
    BY <1>5, <1>6, <1>8, Unwritten DEF Still
  <2>2. "append" \notin sent => Sighted'
    BY <1>4, <1>5, <1>6, <1>8 DEF Sighted, Alive, KnowsVersion
  <2>3. QED
    BY <1>1, <1>5, <1>7, <1>8, <2>1, <2>2, AbandonKeeps DEF s
<1>9. CASE /\ ~Refuses(s, plan)
           /\ live' = [live EXCEPT ![tf.id] = Written(s, plan, tf.rec, @)]
           /\ \/ excuse' = TRUE /\ Abandon(s)
              \/ /\ todo' = Tail(todo)
                 /\ sent' = sent \cup {s}
                 /\ pc' = IF Tail(todo) = <<>> THEN "readBack" ELSE "write"
                 /\ UNCHANGED <<plan, said, tf, excuse>>
  <2> DEFINE o == Written(s, plan, tf.rec, live[tf.id])
  <2>1. Alive(tf.id)
    BY <1>9 DEF Refuses
  <2>2. live[tf.id] \in Fields /\ live[tf.id].api \in Apis
    BY <1>2, <1>3, <2>1 DEF World, Alive
  <2>3. /\ o \in Fields /\ o.api \in Apis
        /\ s \in {"meta", "access"} =>
             /\ o.text = live[tf.id].text /\ o.note = live[tf.id].note
             /\ o.api = live[tf.id].api
    BY <1>2, <1>3, <2>2, WrittenFacts
  <2>4. live' = [live EXCEPT ![tf.id] = o]
    BY <1>9
  <2> HIDE DEF o
  <2>5. tf' = tf /\ said' \in {"ok", "warning", "error"}
    BY <1>3, <1>6, <1>9 DEF World
  <2>6. /\ World' /\ OrphansUnanswered' /\ Apis' = Apis
        /\ live'[tf'.id] = o /\ live'[tf.id] # Unborn
    BY <1>5, <2>1, <2>3, <2>4, <2>5, Overwritten DEF Still
  <2>7. CASE excuse' = TRUE /\ Abandon(s)
    <3>1. Sighted'
      BY <2>7 DEF Sighted
    <3>2. QED
      BY <1>1, <1>5, <2>6, <2>7, <3>1, AbandonKeeps DEF s
  <2>8. CASE /\ todo' = Tail(todo)
             /\ sent' = sent \cup {s}
             /\ pc' = IF Tail(todo) = <<>> THEN "readBack" ELSE "write"
             /\ UNCHANGED <<plan, said, tf, excuse>>
    <3>1. State'
      BY <1>5, <2>5, <2>6, Keeping
    <3>2. pc' \in {"readBack", "write"}
      BY <2>8
    <3>3. TypeOK'
      BY <2>6, <3>1, <3>2 DEF World, State, States, TypeOK, PCs
    <3>4. HandlerInv'
      BY <1>2, <2>5, <2>6, <2>8, <3>1, <3>2
      DEF State, HandlerInv, Creating, Following, Updating
    <3>5. CASE Tail(todo) = <<>>
      <4>1. TodoInv' /\ SightInv'
        BY <2>8, <3>5 DEF TodoInv, SightInv, Creating, Following
      <4>2. QED
        BY <2>6, <3>3, <3>4, <4>1 DEF IInv
    <3>6. CASE Tail(todo) # <<>>
      <4>1. pc' = "write" /\ (kind' = kind) /\ kind # "flight" /\ "append" \notin sent
        BY <1>2, <1>5, <2>8, <3>6
      <4>2. (VersionChanged(kind, plan, tf.rec))' = VersionChanged(kind, plan, tf.rec)
        BY <1>5, <2>5, <2>8 DEF VersionChanged
      <4>3. TodoInv'
        BY <1>2, <1>5, <2>5, <2>8, <3>6, <4>1, <4>2 DEF TodoInv, Orders
      <4>4. s = "meta" \/ "append" \in sent'
        BY <1>2, <2>8, <3>6
      <4>5. s = "meta" /\ ~excuse => KnowsVersion(o)
        BY <1>4, <2>1, <2>3, <4>1 DEF KnowsVersion
      <4>6. (KnowsVersion(live[tf.id]))' = KnowsVersion(o)
        BY <1>5, <2>5, <2>6 DEF KnowsVersion
      <4>7. SightInv'
        BY <2>8, <4>1, <4>4, <4>5, <4>6 DEF SightInv, Creating, Following
      <4>8. QED
        BY <2>6, <3>3, <3>4, <4>3, <4>7 DEF IInv
    <3>7. QED
      BY <3>5, <3>6
  <2>9. QED
    BY <1>9, <2>7, <2>8
<1>10. QED
  BY <1>5, <1>8, <1>9

LEMMA ReadBackKeeps ==
  ASSUME IInv, ReadBack
  PROVE  IInv'
<1>1. /\ World /\ State /\ TypeOK /\ tf.id # 0 /\ tf.id \in Ids
      /\ live[tf.id] # Unborn
  <2>1. World /\ State /\ TypeOK /\ HandlerInv
    BY Parts
  <2>2. tf.id # 0
    BY <2>1 DEF ReadBack, HandlerInv
  <2>3. QED
    BY <2>1, <2>2 DEF State, States, Ids
<1>2. UNCHANGED <<kind, default, outside, config, lost, live>>
  BY DEF ReadBack, worldVars
<1>3. CASE excuse' = TRUE /\ End("error", tf) /\ read' = read
  <2>1. tf' = tf /\ said' = "error" /\ pc' = "idle" /\ sent' = {}
    BY <1>3 DEF End
  <2>2. World' /\ OrphansUnanswered' /\ Apis' = Apis
    BY <1>2, <1>3, <2>1, Unwritten DEF Still
  <2>3. Sighted'
    BY <1>3 DEF Sighted
  <2>4. QED
    BY <1>1, <1>2, <1>3, <2>1, <2>2, <2>3, EndsAsItWas
<1>4. CASE ReadWorks /\ Seen /\ End(said, Recorded(Reading(tf.id, plan.desc)))
  <2> DEFINE r == Reading(tf.id, plan.desc)
  <2>1. Alive(tf.id) /\ read' = read \cup {tf.id} /\ End(said, Recorded(r))
    BY <1>4 DEF ReadWorks, Seen
  <2>2. /\ r \in Records /\ r.api \in Apis
        /\ r.text = live[tf.id].text /\ r.api = live[tf.id].api
        /\ r.note = live[tf.id].note
    BY <1>1, <2>1, ReadingFacts
  <2> HIDE DEF r
  <2>3. /\ tf' = Recorded(r) /\ tf'.id = tf.id /\ said' \in {"ok", "warning", "error"}
        /\ pc' = "idle" /\ sent' = {}
    BY <1>1, <2>1 DEF End, Recorded, World
  <2>4. World' /\ OrphansUnanswered' /\ Apis' = Apis
    BY <1>2, <2>1, <2>3, Unwritten DEF Still
  <2>5. State' /\ tf'.rec = r
    BY <1>1, <1>2, <2>2, <2>3, <2>4, Recording
  <2>6. Sighted'
    BY <1>2, <2>2, <2>3, <2>5 DEF Sighted, KnowsVersion
  <2>7. QED
    BY <2>3, <2>4, <2>5, <2>6, Rests
<1>5. QED
  BY <1>3, <1>4 DEF ReadBack

LEMMA StartDeleteKeeps ==
  ASSUME IInv, StartDelete
  PROVE  IInv'
<1>1. /\ World /\ State /\ HandlerInv /\ Sighted
      /\ tf.id # 0 /\ live[tf.id] # Unborn /\ sent = {}
  <2>1. World /\ State /\ HandlerInv /\ Sighted
    BY Parts DEF StartDelete
  <2>2. QED
    BY <2>1 DEF StartDelete, State, HandlerInv, Updating
<1>2. /\ UNCHANGED <<kind, default, outside, config, lost, live, read, excuse, sent, tf>>
      /\ pc' = "delete" /\ said' = "ok" /\ (config = None \/ tf.tainted)
  BY DEF StartDelete, worldVars, budgets
<1>3. World' /\ OrphansUnanswered' /\ Apis' = Apis
  BY <1>2, Unwritten DEF Still
<1>4. State'
  BY <1>1, <1>2, <1>3, Keeping
<1>5. TypeOK'
  BY <1>2, <1>3, <1>4 DEF World, State, States, TypeOK, PCs
<1>6. HandlerInv' /\ TodoInv'
  BY <1>1, <1>2, <1>4 DEF State, HandlerInv, TodoInv, Creating, Following, Updating
<1>7. Sighted'
  BY <1>1, <1>2 DEF Sighted, Alive, KnowsVersion
<1>8. SightInv'
  BY <1>2, <1>7 DEF Sighted, SightInv, Creating, Following
<1>9. QED
  BY <1>3, <1>5, <1>6, <1>8 DEF IInv

LEMMA DeleteKeeps ==
  ASSUME IInv, Delete
  PROVE  IInv'
<1>1. /\ World /\ State /\ OrphansUnanswered /\ Sighted
      /\ tf.id # 0 /\ tf.id \in Ids /\ live[tf.id] # Unborn
  <2>1. World /\ State /\ OrphansUnanswered /\ HandlerInv /\ Sighted
    BY Parts DEF Delete
  <2>2. tf.id # 0
    BY <2>1 DEF Delete, HandlerInv
  <2>3. QED
    BY <2>1, <2>2 DEF State, States, Ids
<1>2. /\ UNCHANGED <<kind, default, outside, config, lost, read, excuse>>
      /\ \/ live' = live /\ End("error", tf)
         \/ /\ live' = IF Alive(tf.id) THEN [live EXCEPT ![tf.id] = Gone] ELSE live
            /\ End("ok", Absent) \/ End("error", tf)
  BY DEF Delete, ghostVars
<1>3. /\ said' \in {"ok", "error"} /\ pc' = "idle" /\ sent' = {}
      /\ tf' = tf \/ tf' = Absent
  BY <1>2 DEF End
<1>4. live \in [Ids -> Fields \cup {Unborn, Gone}] /\ Apis' = Apis
  BY <1>1, <1>2 DEF World, Apis
<1>5. /\ live' \in [Ids -> Fields \cup {Unborn, Gone}]
      /\ \A i \in Ids : live'[i] = live[i] \/ (i = tf.id /\ live'[i] = Gone)
      /\ tf' = Absent => live'[tf.id] \in {Unborn, Gone}
  <2>1. CASE live' = live /\ End("error", tf)
    BY <1>1, <1>4, <2>1 DEF End, Absent
  <2>2. CASE /\ live' = [live EXCEPT ![tf.id] = Gone]
    BY <1>1, <1>4, <2>2
  <2>3. CASE live' = live /\ ~Alive(tf.id)
    BY <1>1, <1>4, <2>3 DEF Alive
  <2>4. QED
    BY <1>2, <2>1, <2>2, <2>3
<1>6. World'
  BY <1>1, <1>2, <1>3, <1>4, <1>5, NoneIsNoContent DEF World
<1>7. Absent \in States /\ Absent.rec = None /\ Absent.id = 0 /\ ~Absent.tainted
  BY AppContentAssumption DEF Absent, States
<1>8. State'
  BY <1>1, <1>2, <1>3, <1>4, <1>5, <1>7, NoneIsNoContent DEF State
<1>9. OrphansUnanswered'
  BY <1>1, <1>2, <1>3, <1>5, <1>7 DEF OrphansUnanswered, Alive
<1>10. Sighted'
  BY <1>1, <1>2, <1>3, <1>5, <1>7 DEF Sighted, Alive, KnowsVersion
<1>11. QED
  BY <1>3, <1>6, <1>8, <1>9, <1>10, Rests

LEMMA ImportKeeps ==
  ASSUME IInv, Import
  PROVE  IInv'
<1>1. /\ World /\ State /\ TypeOK /\ OrphansUnanswered /\ tf.id = 0 /\ sent = {}
  <2>1. World /\ State /\ TypeOK /\ OrphansUnanswered /\ HandlerInv
    BY Parts
  <2>2. QED
    BY <2>1 DEF Import, Absent, HandlerInv, Updating
<1>2. PICK i \in Ids : /\ Alive(i) /\ read' = read \cup {i}
                       /\ tf' = [id |-> i, tainted |-> FALSE, rec |-> Reading(i, None)]
  BY DEF Import
<1>3. /\ UNCHANGED <<kind, default, outside, config, lost, live, sent, pc>>
      /\ said' = "ok" /\ pc' = "idle" /\ i # 0 /\ i \in 0..MaxIds
  BY AppContentAssumption DEF Import, worldVars, budgets, Ids
<1> DEFINE r == Reading(i, None)
<1>4. /\ r \in Records /\ r.api \in Apis /\ r # None
      /\ r.text = live[i].text /\ r.api = live[i].api
      /\ r.note = live[i].note
  BY <1>1, <1>2, ReadingFacts
<1>5. tf' = [id |-> i, tainted |-> FALSE, rec |-> r]
  BY <1>2
<1> HIDE DEF r
<1>6. tf' \in States /\ tf'.id = i /\ tf'.rec = r /\ ~tf'.tainted
  BY <1>3, <1>4, <1>5 DEF States
<1>7. Apis' = Apis /\ live[i] # Unborn
  BY <1>2, <1>3 DEF Apis, Alive
<1>8. World'
  BY <1>1, <1>2, <1>3, <1>7 DEF World
<1>9. State'
  BY <1>3, <1>4, <1>6, <1>7 DEF State
<1>10. OrphansUnanswered'
  BY <1>1, <1>3, <1>6 DEF OrphansUnanswered, Alive
<1>11. Sighted'
  BY <1>3, <1>4, <1>6 DEF Sighted, KnowsVersion
<1>12. QED
  BY <1>1, <1>3, <1>8, <1>9, <1>10, <1>11, Rests

-----------------------------------------------------------------------------
(* The practitioner and everybody else.                                    *)

LEMMA EditKeeps ==
  ASSUME IInv, Edit
  PROVE  IInv'
<1>1. /\ World /\ State /\ OrphansUnanswered /\ Sighted /\ sent = {}
  <2>1. World /\ State /\ OrphansUnanswered /\ Sighted /\ HandlerInv
    BY Parts DEF Edit
  <2>2. QED
    BY <2>1 DEF Edit, HandlerInv, Updating
<1>2. /\ UNCHANGED <<kind, default, outside, lost, live, read, excuse, sent, pc, tf, said>>
      /\ pc' = "idle" /\ config' \in Configs \cup {None}
  BY DEF Edit, worldVars, opVars, ghostVars, ConfigsOf
<1>3. Apis' = Apis
  BY <1>2 DEF Apis
<1>4. World'
  BY <1>1, <1>2, <1>3 DEF World
<1>5. State'
  BY <1>1, <1>2, <1>3 DEF State
<1>6. OrphansUnanswered' /\ Sighted'
  BY <1>1, <1>2 DEF OrphansUnanswered, Sighted, Alive, KnowsVersion
<1>7. QED
  BY <1>1, <1>2, <1>4, <1>5, <1>6, Rests

\* What happens to the objects outside Terraform keeps their API version.
LEMMA OutsideTouches ==
  ASSUME World, Outside
  PROVE  /\ live' \in [Ids -> Fields \cup {Unborn, Gone}]
         /\ \A i \in Ids :
              \/ live'[i] = live[i]
              \/ /\ live[i] \notin {Unborn, Gone}
                 /\ \/ live'[i] = Gone
                    \/ /\ live'[i] \in Fields /\ live'[i].api = live[i].api
                       /\ live'[i].note \in {None, live[i].note}
<1>0. live \in [Ids -> Fields \cup {Unborn, Gone}]
  BY DEF World
<1>1. CASE UNCHANGED live
  BY <1>0, <1>1
<1>2. CASE \E i \in Ids :
             /\ Alive(i)
             /\ \E o \in {Gone} \cup {[live[i] EXCEPT !.aud = a] : a \in {Plain, Wide}}
                         \cup {[live[i] EXCEPT !.text = t, !.note = None] : t \in Texts} :
                  o # live[i] /\ live' = [live EXCEPT ![i] = o]
  <2>0. PICK i \in Ids :
          /\ Alive(i)
          /\ \E o \in {Gone} \cup {[live[i] EXCEPT !.aud = a] : a \in {Plain, Wide}}
                      \cup {[live[i] EXCEPT !.text = t, !.note = None] : t \in Texts} :
               o # live[i] /\ live' = [live EXCEPT ![i] = o]
    BY <1>2
  <2>1. PICK o \in {Gone} \cup {[live[i] EXCEPT !.aud = a] : a \in {Plain, Wide}}
                    \cup {[live[i] EXCEPT !.text = t, !.note = None] : t \in Texts} :
          Alive(i) /\ live' = [live EXCEPT ![i] = o]
    BY <2>0
  <2>2. live[i] \in Fields /\ live[i] \notin {Unborn, Gone}
    BY <1>0, <2>1 DEF Alive
  <2>3. \/ o = Gone
        \/ o \in Fields /\ o.api = live[i].api /\ o.note \in {None, live[i].note}
    <3>1. CASE o = Gone
      BY <3>1
    <3>2. CASE \E a \in {Plain, Wide} : o = [live[i] EXCEPT !.aud = a]
      BY <2>2, <3>2 DEF Fields
    <3>3. CASE \E t \in Texts : o = [live[i] EXCEPT !.text = t, !.note = None]
      BY <2>2, <3>3 DEF Fields
    <3>4. QED
      BY <2>1, <3>1, <3>2, <3>3
  <2>4. live'[i] = o /\ \A j \in Ids : j # i => live'[j] = live[j]
    BY <1>0, <2>1
  <2>5. live' \in [Ids -> Fields \cup {Unborn, Gone}]
    BY <1>0, <2>1, <2>3
  <2>6. QED
    BY <2>2, <2>3, <2>4, <2>5
<1>3. QED
  BY <1>1, <1>2 DEF Outside

LEMMA OutsideKeeps ==
  ASSUME IInv, Outside
  PROVE  IInv'
<1>1. /\ World /\ State /\ TypeOK /\ HandlerInv /\ TodoInv /\ SightInv
      /\ OrphansUnanswered
  BY Parts
<1>2. /\ UNCHANGED <<kind, config, tf, pc, todo, sent, plan, said, read, lost>>
      /\ excuse' = TRUE /\ outside' = outside + 1 /\ outside < MaxOutside
  BY DEF Outside, opVars
<1>3. /\ outside \in 0..MaxOutside /\ outside' \in 0..MaxOutside /\ outside \in Nat
      /\ MaxOutside \in Nat
  BY <1>1, <1>2, AppContentAssumption DEF World
<1>4. Apis \subseteq Apis'
  BY <1>2, <1>3 DEF Apis
<1>5. default' \in Apis'
  <2>1. CASE UNCHANGED default
    BY <1>1, <1>4, <2>1 DEF World
  <2>2. CASE kind = "dive" /\ default' = default + 1
    BY <1>1, <1>2, <1>3, <2>2 DEF World, Apis
  <2>3. QED
    BY <2>1, <2>2 DEF Outside
<1>6. live \in [Ids -> Fields \cup {Unborn, Gone}]
  BY <1>1 DEF World
<1>7. /\ live' \in [Ids -> Fields \cup {Unborn, Gone}]
      /\ \A i \in Ids :
           \/ live'[i] = live[i]
           \/ /\ live[i] \notin {Unborn, Gone}
              /\ \/ live'[i] = Gone
                 \/ /\ live'[i] \in Fields /\ live'[i].api = live[i].api
                    /\ live'[i].note \in {None, live[i].note}
  BY <1>1, OutsideTouches
<1>8. /\ \A i \in Ids : live'[i] \notin {Unborn, Gone} =>
           live[i] \notin {Unborn, Gone} /\ live'[i].api = live[i].api
      /\ \A i \in Ids : live[i] # Unborn => live'[i] # Unborn
  BY <1>7, NoneIsNoContent
<1>9. World'
  BY <1>1, <1>2, <1>3, <1>4, <1>5, <1>7, <1>8 DEF World
<1>10. tf.id # 0 => tf.id \in Ids
  BY <1>1 DEF State, States, Ids
<1>11. State'
  BY <1>1, <1>2, <1>4, <1>8, <1>10 DEF State
<1>12. TypeOK'
  BY <1>1, <1>2, <1>9, <1>11 DEF World, State, States, TypeOK
<1>13. HandlerInv'
  BY <1>1, <1>2, <1>4 DEF HandlerInv
<1>14. TodoInv'
  BY <1>1, <1>2 DEF TodoInv, VersionChanged
<1>15. SightInv'
  BY <1>1, <1>2, <1>7, <1>8, <1>10 DEF SightInv, Alive
<1>16. OrphansUnanswered'
  BY <1>1, <1>2, <1>8 DEF OrphansUnanswered, Alive
<1>17. QED
  BY <1>12, <1>13, <1>14, <1>15, <1>16 DEF IInv

LEMMA StutterKeeps ==
  ASSUME IInv, UNCHANGED vars
  PROVE  IInv'
<1>1. /\ UNCHANGED <<kind, default, live, config, tf, pc, todo, sent, plan, said>>
      /\ UNCHANGED <<excuse, read, lost, outside>>
  BY DEF vars, worldVars, opVars, ghostVars, budgets
<1>2. TypeOK' = TypeOK
  BY <1>1 DEF TypeOK, Apis
<1>3. HandlerInv' = HandlerInv
  BY <1>1 DEF HandlerInv, Apis
<1>4. TodoInv' = TodoInv
  BY <1>1 DEF TodoInv, VersionChanged
<1>5. SightInv' = SightInv
  BY <1>1 DEF SightInv, Alive, KnowsVersion
<1>6. OrphansUnanswered' = OrphansUnanswered
  BY <1>1 DEF OrphansUnanswered, Alive
<1>7. QED
  BY <1>2, <1>3, <1>4, <1>5, <1>6 DEF IInv

LEMMA InvNext == IInv /\ [Next]_vars => IInv'
<1> SUFFICES ASSUME IInv, [Next]_vars PROVE IInv'
  OBVIOUS
<1>1. CASE StartCreate \/ CreateStatement \/ Audience \/ ReadNew \/ WriteNote
           \/ ReadNote \/ WriteStatus \/ ReadStatus
  BY <1>1, StartCreateKeeps, CreateStatementKeeps, AudienceKeeps, ReadNewKeeps,
     WriteNoteKeeps, ReadNoteKeeps, WriteStatusKeeps, ReadStatusKeeps
<1>2. CASE Refresh \/ StartUpdate \/ Write \/ ReadBack \/ StartDelete \/ Delete \/ Import
  BY <1>2, RefreshKeeps, StartUpdateKeeps, WriteKeeps, ReadBackKeeps,
     StartDeleteKeeps, DeleteKeeps, ImportKeeps
<1>3. CASE Edit \/ Outside \/ UNCHANGED vars
  BY <1>3, EditKeeps, OutsideKeeps, StutterKeeps
<1>4. QED
  BY <1>1, <1>2, <1>3 DEF Next

-----------------------------------------------------------------------------
(* The theorems.                                                           *)

\* Every state of an execution satisfies the invariant.
THEOREM Invariant == Spec => []IInv
  BY InvInit, InvNext, PTL DEF Spec

\* Every variable has its type: a state without fields is empty or tainted,
\* and the object that it names was once made.
THEOREM TypeCorrect == Spec => []TypeOK
<1>1. IInv => TypeOK
  BY DEF IInv
<1>2. QED
  BY <1>1, Invariant, PTL

\* Only a create statement whose answer was lost leaves an object that no
\* state names: the ID is kept before anything else can fail.
THEOREM OrphansAreUnanswered == Spec => []OrphansUnanswered
<1>1. IInv => OrphansUnanswered
  BY DEF IInv
<1>2. QED
  BY <1>1, Invariant, PTL

\* Update appends a version that repeats the current one only if the state may
\* be blind to it.
THEOREM RepeatsAreExcused == Spec => []RepeatsExcused
<1>1. ASSUME IInv PROVE RepeatsExcused
  <2> SUFFICES ASSUME pc = "write", Head(todo) = "append", Alive(tf.id),
                      plan.text = live[tf.id].text, plan.note = live[tf.id].note,
                      ~excuse
               PROVE  FALSE
    BY DEF RepeatsExcused
  <2>1. VersionChanged(kind, plan, tf.rec) /\ "append" \notin sent /\ tf.rec \in Records
    BY <1>1, WriteFacts
  <2>2. SightInv
    BY <1>1, Parts
  <2>3. KnowsVersion(live[tf.id])
    BY <2>1, <2>2, NoneIsNoContent DEF SightInv
  <2>4. QED
    BY <2>1, <2>3 DEF KnowsVersion, VersionChanged
<1>2. QED
  BY <1>1, Invariant, PTL

\* A handler destroys an object that was once read back only when it is no
\* longer configured.
THEOREM ReadIsNeverReplaced == Spec => ReadNeverReplaced
<1>1. ASSUME IInv, [Next]_vars, NEW i \in read, pc = "delete", Alive(i), ~(Alive(i))',
             outside' = outside
      PROVE  config = None
  <2>1. HandlerInv /\ State /\ World
    BY <1>1, Parts
  <2>2. ~Outside
    <3>1. outside \in Int
      BY <2>1, AppContentAssumption DEF World
    <3>2. Outside => outside' = outside + 1
      BY DEF Outside
    <3>3. QED
      BY <1>1, <3>1, <3>2
  <2>3. ~UNCHANGED vars
    BY <1>1 DEF vars, worldVars, Alive
  <2>4. Delete
    BY <1>1, <2>2, <2>3
    DEF Next, StartCreate, CreateStatement, Audience, ReadNew, WriteNote, ReadNote,
        WriteStatus, ReadStatus, Refresh, StartUpdate, Write, ReadBack, StartDelete,
        Import, Edit
  <2>5. i \in Ids /\ live \in [Ids -> Fields \cup {Unborn, Gone}]
    BY <1>1, <2>1 DEF World
  <2>6. live' = live \/ live' = [live EXCEPT ![tf.id] = Gone]
    BY <2>4 DEF Delete
  <2>7. i = tf.id
    BY <1>1, <2>5, <2>6 DEF Alive
  <2>8. QED
    BY <1>1, <2>1, <2>7 DEF HandlerInv
<1>2. ASSUME IInv, [Next]_vars
      PROVE  [\A i \in read : pc = "delete" /\ Alive(i) /\ ~Alive(i)'
                              /\ outside' = outside => config = None]_vars
  BY <1>1, <1>2
<1>3. QED
  BY <1>2, Invariant, PTL DEF Spec, ReadNeverReplaced

\* The follow-up statement of Create and the statements of Update keep the API
\* version of a Dive whose content they keep.
THEOREM NoMigrationIsSilent == Spec => NoSilentMigration
<1>1. ASSUME IInv, Next, NEW i \in Ids, Alive(i), (Alive(i))', ~excuse,
             live'[i].api # live[i].api
      PROVE  live'[i].text # live[i].text
  <2>1. World /\ State /\ TypeOK /\ SightInv
    BY <1>1, Parts
  <2>2. live \in [Ids -> Fields \cup {Unborn, Gone}] /\ kind \in {"dive", "guide", "flight"}
        /\ live[i] \in Fields /\ live[i].api \in Apis /\ live[i] \notin {Unborn, Gone}
    BY <1>1, <2>1, KindsAre DEF World, Alive
  <2>3. CASE CreateStatement
    <3>1. live' = live \/ \E j \in Ids : live[j] = Unborn /\ live' = [live EXCEPT ![j] = Created]
      BY <2>3 DEF CreateStatement
    <3>2. QED
      BY <1>1, <2>2, <3>1
  <2>4. CASE Audience
    <3>1. live' = live \/ live' = [live EXCEPT ![tf.id].aud = plan.aud]
      BY <2>4 DEF Audience
    <3>2. QED
      BY <1>1, <2>2, <3>1 DEF Fields
  <2>5. CASE WriteNote
    <3> DEFINE p == Requested("note", config.note)
    <3>1. pc \in Following /\ pc = "note"
      BY <2>5 DEF WriteNote, Following
    <3>2. /\ config \in Configs /\ plan \in Records /\ plan.api \in Apis
          /\ plan = tf.rec /\ kind = "dive"
      BY <1>1, <3>1, FollowFacts
    <3>3. p \in Records /\ p.text = plan.text /\ p.api = plan.api
      BY <3>2, RequestedFacts
    <3>4. \/ live' = live
          \/ /\ ~Refuses("append", p)
             /\ live' = [live EXCEPT ![tf.id] = Written("append", p, plan, @)]
      BY <2>5 DEF WriteNote
    <3> HIDE DEF p
    <3>5. CASE live' = live
      BY <1>1, <3>5
    <3>6. CASE /\ ~Refuses("append", p)
               /\ live' = [live EXCEPT ![tf.id] = Written("append", p, plan, @)]
      <4>1. Alive(tf.id) /\ i = tf.id
        BY <1>1, <2>2, <3>6 DEF Refuses
      <4>2. KnowsVersion(live[i])
        BY <1>1, <3>1, <3>2, <4>1, Parts, NoneIsNoContent DEF Sighted
      <4>3. p.api # 0
        BY <2>1, <3>2, <3>3 DEF World, Apis
      <4>4. Written("append", p, plan, live[i]).api = p.api
        BY <2>1, <2>2, <3>2, <3>3, <4>3, WrittenFacts
      <4>5. live'[i] = Written("append", p, plan, live[i])
        BY <2>2, <3>6, <4>1
      <4>6. QED
        BY <1>1, <3>2, <3>3, <4>2, <4>4, <4>5 DEF KnowsVersion
    <3>7. QED
      BY <3>4, <3>5, <3>6
  <2>6. CASE WriteStatus
    <3> DEFINE p == Requested("aud", config.aud)
    <3>1. pc \in Following /\ config.aud # None
      BY <1>1, <2>6, Parts DEF WriteStatus, Following, HandlerInv
    <3>2. config \in Configs /\ plan \in Records /\ plan.api \in Apis
      BY <1>1, <3>1, FollowFacts
    <3>3. p \in Records /\ p.api = plan.api /\ p.aud # None
      BY <3>1, <3>2, RequestedFacts
    <3>4. \/ live' = live
          \/ live' = [live EXCEPT ![tf.id] = Written("access", p, plan, @)]
      BY <2>6 DEF WriteStatus
    <3> HIDE DEF p
    <3>5. Written("access", p, plan, live[i]).api = live[i].api
      BY <2>1, <2>2, <3>2, <3>3, WrittenFacts
    <3>6. QED
      BY <1>1, <2>2, <3>4, <3>5
  <2>7. CASE Write
    <3> DEFINE s == Head(todo)
    <3>1. pc = "write"
      BY <2>7 DEF Write
    <3>2. /\ plan \in Records /\ plan.api \in Apis \cup {0}
          /\ tf.rec \in Records /\ tf.rec.api \in Apis
          /\ s \in {"meta", "append", "access", "call"}
          /\ s = "access" => plan.aud # None
          /\ "append" \in sent => s = "access"
          /\ plan.text = tf.rec.text => plan.api = tf.rec.api
      BY <1>1, <3>1, WriteFacts
    <3>3. \/ live' = live
          \/ /\ ~Refuses(s, plan)
             /\ live' = [live EXCEPT ![tf.id] = Written(s, plan, tf.rec, @)]
      BY <2>7 DEF Write
    <3> HIDE DEF s
    <3>4. CASE live' = live
      BY <1>1, <3>4
    <3>5. CASE /\ ~Refuses(s, plan)
               /\ live' = [live EXCEPT ![tf.id] = Written(s, plan, tf.rec, @)]
      <4> DEFINE o == Written(s, plan, tf.rec, live[i])
      <4>1. Alive(tf.id) /\ i = tf.id
        BY <1>1, <2>2, <3>5 DEF Refuses
      <4>2. /\ s # "append" => o.api = live[i].api
            /\ s = "append" => /\ o.text = plan.text
                               /\ plan.api # 0 => o.api = plan.api
                               /\ kind # "dive" => o.api = live[i].api
        BY <2>1, <2>2, <3>2, WrittenFacts
      <4>3. live'[i] = o
        BY <2>2, <3>5, <4>1
      <4> HIDE DEF o
      <4>4. s = "append" /\ kind = "dive"
        BY <1>1, <4>2, <4>3
      <4>5. KnowsVersion(live[i])
        BY <1>1, <2>1, <3>1, <3>2, <4>1, <4>4, NoneIsNoContent DEF SightInv
      <4>6. tf.rec.api # 0
        BY <2>1, <3>2, <4>4 DEF World, Apis
      <4>7. QED
        BY <1>1, <3>2, <4>2, <4>3, <4>4, <4>5, <4>6 DEF KnowsVersion
    <3>6. QED
      BY <3>3, <3>4, <3>5
  <2>8. CASE Delete
    <3>1. live' = live \/ live' = [live EXCEPT ![tf.id] = Gone]
      BY <2>8 DEF Delete
    <3>2. QED
      BY <1>1, <2>2, <3>1 DEF Alive
  <2>9. CASE Outside
    <3>1. \/ live' = live
          \/ \E j \in Ids :
               \E o \in {Gone} \cup {[live[j] EXCEPT !.aud = a] : a \in {Plain, Wide}}
                         \cup {[live[j] EXCEPT !.text = t, !.note = None] : t \in Texts} :
                 live' = [live EXCEPT ![j] = o]
      BY <2>9 DEF Outside
    <3>2. CASE live' = live
      BY <1>1, <3>2
    <3>3. ASSUME NEW j \in Ids,
                 NEW o \in {Gone} \cup {[live[j] EXCEPT !.aud = a] : a \in {Plain, Wide}}
                   \cup {[live[j] EXCEPT !.text = t, !.note = None] : t \in Texts},
                 live' = [live EXCEPT ![j] = o]
          PROVE  FALSE
      <4>1. i = j /\ live'[i] = o
        BY <1>1, <2>2, <3>3
      <4>2. o # Gone
        BY <1>1, <4>1 DEF Alive
      <4>3. o.api = live[i].api
        BY <2>2, <3>3, <4>1, <4>2 DEF Fields
      <4>4. QED
        BY <1>1, <4>1, <4>3
    <3>4. QED
      BY <3>1, <3>2, <3>3
  <2>10. CASE StartCreate \/ ReadNew \/ ReadNote \/ ReadStatus \/ Refresh \/ StartUpdate
              \/ ReadBack \/ StartDelete \/ Import \/ Edit
    <3>1. live' = live
      BY <2>10 DEF StartCreate, ReadNew, ReadNote, ReadStatus, Refresh, StartUpdate,
                   ReadBack, StartDelete, Import, Edit, worldVars
    <3>2. QED
      BY <1>1, <3>1
  <2>11. QED
    BY <1>1, <2>3, <2>4, <2>5, <2>6, <2>7, <2>8, <2>9, <2>10 DEF Next
<1>2. ASSUME IInv, [Next]_vars
      PROVE  [\A i \in Ids : Alive(i) /\ Alive(i)' /\ live'[i].api # live[i].api
                             /\ ~excuse => live'[i].text # live[i].text]_vars
  BY <1>1, <1>2
<1>3. QED
  BY <1>2, Invariant, PTL DEF Spec, NoSilentMigration


-----------------------------------------------------------------------------
(* A write is applied or told.                                             *)

\* The fields that the statements of a create and of an update write.
LEMMA CreatedFields ==
  ASSUME kind \in Kinds, plan \in Configs
  PROVE  /\ Created.text = plan.text /\ Created.desc = plan.desc
         /\ kind # "guide" => Created.note = None
         /\ kind = "guide" => Created.note = plan.note
         /\ kind = "flight" => plan.aud \in {None, Created.aud}
         /\ kind # "flight" => Created.aud = Plain
<1>1. kind = "dive" => Created = CreatedDive(plan)
  BY Zenon DEF Created
<1>2. kind = "guide" => Created = CreatedGuide(plan)
  BY Zenon DEF Created
<1>3. kind = "flight" => Created = CreatedFlight(plan)
  BY Zenon DEF Created
<1>4. QED
  BY <1>1, <1>2, <1>3, KindsAre DEF CreatedDive, CreatedGuide, CreatedFlight

LEMMA WrittenFields ==
  ASSUME NEW p, NEW r, NEW o \in Fields
  PROVE  /\ /\ Written("meta", p, r, o).desc = p.desc
            /\ Written("meta", p, r, o).text = o.text
            /\ Written("meta", p, r, o).note = o.note
            /\ Written("meta", p, r, o).aud = o.aud
         /\ /\ Written("append", p, r, o).desc = o.desc
            /\ Written("append", p, r, o).text = p.text
            /\ Written("append", p, r, o).note = p.note
            /\ Written("append", p, r, o).aud = o.aud
         /\ /\ Written("access", p, r, o).desc = o.desc
            /\ Written("access", p, r, o).text = o.text
            /\ Written("access", p, r, o).note = o.note
            /\ Written("access", p, r, o).aud = p.aud
         /\ /\ Written("call", p, r, o).desc = IF p.desc # r.desc THEN p.desc ELSE o.desc
            /\ Written("call", p, r, o).text = IF p.text # r.text THEN p.text ELSE o.text
            /\ Written("call", p, r, o).note = o.note
            /\ Written("call", p, r, o).aud = IF AccessChanged(p, r) THEN p.aud ELSE o.aud
<1>1. Written("meta", p, r, o) = [o EXCEPT !.desc = p.desc]
  BY Zenon DEF Written
<1>2. Written("append", p, r, o)
        = [o EXCEPT !.text = p.text, !.note = p.note,
                    !.api = IF p.api = 0 THEN default ELSE p.api]
  BY Zenon DEF Written
<1>3. Written("access", p, r, o) = [o EXCEPT !.aud = p.aud]
  BY Zenon DEF Written
<1>4. Written("call", p, r, o) = UpdatedFlight(p, r, o)
  BY Zenon DEF Written
<1>5. QED
  BY <1>1, <1>2, <1>3, <1>4 DEF UpdatedFlight, Fields

\* What a reading tells of the object: all but what the session cannot set and
\* what the prior state did not have.
LEMMA ReadingFields ==
  ASSUME TypeOK, NEW i \in Ids, Alive(i), NEW prior
  PROVE  /\ Reading(i, prior).aud \in {None, live[i].aud}
         /\ kind # "dive" => Reading(i, prior).aud = live[i].aud
         /\ kind # "flight" => Reading(i, prior).desc = live[i].desc
         /\ Reading(i, prior).desc \in {None, live[i].desc}
         /\ Reading(i, Reading(i, prior).desc) = Reading(i, prior)
<1>1. live[i] \in Fields
  BY DEF TypeOK, Alive
<1>2. CASE kind = "dive"
  <2>1. \A d : Reading(i, d) = ReadDive(i)
    BY <1>2, Zenon DEF Reading
  <2>2. QED
    BY <1>1, <1>2, <2>1 DEF ReadDive, Fields
<1>3. CASE kind = "guide"
  <2>1. \A d : Reading(i, d) = ReadGuide(i)
    BY <1>3, Zenon DEF Reading
  <2>2. QED
    BY <1>3, <2>1 DEF ReadGuide
<1>4. CASE kind = "flight"
  <2>1. \A d : Reading(i, d) = ReadFlight(i, d)
    BY <1>4, Zenon DEF Reading
  <2>2. CASE prior = None
    <3>1. Reading(i, prior) = [live[i] EXCEPT !.desc = None]
      BY <2>1, <2>2 DEF ReadFlight
    <3>2. /\ Reading(i, prior).desc = None /\ Reading(i, prior).aud = live[i].aud
      BY <1>1, <3>1 DEF Fields
    <3>3. Reading(i, None) = Reading(i, prior)
      BY <2>2
    <3>4. QED
      BY <1>4, <3>2, <3>3
  <2>3. CASE prior # None
    <3>1. Reading(i, prior) = live[i]
      BY <2>1, <2>3 DEF ReadFlight
    <3>2. live[i].desc = None => [live[i] EXCEPT !.desc = None] = live[i]
      BY <1>1 DEF Fields
    <3>3. Reading(i, live[i].desc) = live[i]
      BY <2>1, <3>2 DEF ReadFlight
    <3>4. QED
      BY <1>4, <3>1, <3>3
  <2>4. QED
    BY <2>2, <2>3
<1>5. QED
  BY <1>2, <1>3, <1>4, KindsAre DEF TypeOK

\* A Flight is never given a version description.
LEMMA NotesInit == Init => NotesInv
<1> SUFFICES ASSUME Init PROVE NotesInv
  OBVIOUS
<1>1. config \in ConfigsOf(kind)
  BY DEF Init
<1>2. \A i \in Ids : ~Alive(i)
  BY DEF Init, Alive
<1>3. QED
  BY <1>1, <1>2 DEF NotesInv

LEMMA FlightConfigs ==
  ASSUME NotesInv, kind = "flight", config # None
  PROVE  config.note = None
  BY DEF NotesInv, ConfigsOf

LEMMA FlightNotes ==
  ASSUME IInv, NotesInv, [Next]_vars, kind = "flight", NEW i \in Ids, (Alive(i))'
  PROVE  live'[i].note = None
<1>1. World /\ State /\ HandlerInv /\ TypeOK
  BY Parts
<1>2. /\ live \in [Ids -> Fields \cup {Unborn, Gone}]
      /\ Alive(i) => live[i] \in Fields /\ live[i].note = None
  BY <1>1 DEF World, NotesInv, Alive
<1>3. live'[i] = live[i] => live'[i].note = None
  BY <1>2 DEF Alive
<1>4. CASE CreateStatement
  <2>1. \/ live' = live
        \/ \E j \in Ids : live' = [live EXCEPT ![j] = Created]
    BY <1>4 DEF CreateStatement
  <2>2. plan \in Configs
    BY <1>1, <1>4 DEF CreateStatement, HandlerInv, Creating, World
  <2>3. Created.note = None
    BY <1>1, <2>2, CreatedFields DEF World
  <2>4. QED
    BY <1>2, <1>3, <2>1, <2>3
<1>5. CASE Audience
  <2>1. \/ live' = live
        \/ ~Refuses("access", plan) /\ live' = [live EXCEPT ![tf.id].aud = plan.aud]
    BY <1>5 DEF Audience
  <2>2. ~Refuses("access", plan) => Alive(tf.id)
    BY DEF Refuses
  <2>3. i = tf.id /\ Alive(i)
          => [live[i] EXCEPT !.aud = plan.aud].note = live[i].note
    BY <1>2 DEF Fields
  <2>4. QED
    BY <1>2, <1>3, <2>1, <2>2, <2>3
<1>6. CASE Write
  <2> DEFINE s == Head(todo)
  <2>1. pc = "write"
    BY <1>6 DEF Write
  <2>2. s = "call"
    BY <1>1, <2>1, Parts DEF TodoInv
  <2>3. \/ live' = live
        \/ /\ ~Refuses(s, plan)
           /\ live' = [live EXCEPT ![tf.id] = Written(s, plan, tf.rec, @)]
    BY <1>6 DEF Write
  <2> HIDE DEF s
  <2>4. ~Refuses(s, plan) => Alive(tf.id)
    BY DEF Refuses
  <2>5. Alive(i) => Written(s, plan, tf.rec, live[i]).note = None
    BY <1>2, <2>2, WrittenFields
  <2>6. QED
    BY <1>2, <1>3, <2>3, <2>4, <2>5
<1>7. CASE Delete
  <2>1. live' = live \/ live' = [live EXCEPT ![tf.id] = Gone]
    BY <1>7 DEF Delete
  <2>2. QED
    BY <1>2, <1>3, <2>1 DEF Alive
<1>8. CASE Outside
  <2>1. \/ live'[i] = live[i]
        \/ /\ live[i] \notin {Unborn, Gone}
           /\ live'[i] = Gone \/ live'[i].note \in {None, live[i].note}
    BY <1>1, <1>8, OutsideTouches
  <2>2. live[i] \notin {Unborn, Gone} => Alive(i)
    BY DEF Alive, Ids
  <2>3. QED
    BY <1>2, <1>3, <2>1, <2>2 DEF Alive
<1>9. CASE WriteNote \/ WriteStatus
  <2>1. pc \in Following
    BY <1>9 DEF WriteNote, WriteStatus, Following
  <2>2. QED
    BY <2>1, FollowFacts
<1>10. CASE \/ StartCreate \/ ReadNew \/ ReadNote \/ ReadStatus \/ Refresh \/ StartUpdate
            \/ ReadBack \/ StartDelete \/ Import \/ Edit \/ UNCHANGED vars
  <2>1. live' = live
    BY <1>10 DEF StartCreate, ReadNew, ReadNote, ReadStatus, Refresh, StartUpdate,
                 ReadBack, StartDelete, Import, Edit, worldVars, vars
  <2>2. QED
    BY <1>3, <2>1
<1>11. QED
  BY <1>4, <1>5, <1>6, <1>7, <1>8, <1>9, <1>10 DEF Next

LEMMA NotesNext ==
  ASSUME IInv, NotesInv, [Next]_vars
  PROVE  NotesInv'
<1>1. kind' = kind /\ (config' = config \/ config' \in ConfigsOf(kind) \cup {None})
  BY DEF Next, StartCreate, CreateStatement, Audience, ReadNew, WriteNote, ReadNote,
         WriteStatus, ReadStatus, Refresh, StartUpdate, Write, ReadBack, StartDelete,
         Delete, Import, Edit, Outside, worldVars, vars
<1>2. (config # None => config \in ConfigsOf(kind))'
  BY <1>1 DEF NotesInv, ConfigsOf
<1>3. (kind = "flight" => \A i \in Ids : Alive(i) => live[i].note = None)'
  <2>1. kind = "flight" => \A i \in Ids : (Alive(i))' => live'[i].note = None
    BY FlightNotes
  <2>2. QED
    BY <1>1, <2>1
<1>4. QED
  BY <1>2, <1>3 DEF NotesInv

\* A handler that does not write, or has not begun to, relies on nothing.
LEMMA AppliesNothing ==
  ASSUME NotesInv', pc' \in {"idle", "create", "delete"}
  PROVE  ApplyInv'
  BY DEF ApplyInv, Following

\* What a create has of its object.
LEMMA CreatingFacts ==
  ASSUME IInv, ApplyInv, pc \in {"audience", "readNew"} \cup Following, ~stale
  PROVE  /\ TypeOK /\ config # None /\ config \in Configs /\ tf.id # 0 /\ tf.id \in Ids
         /\ Alive(tf.id) /\ live[tf.id] \in Fields
         /\ live \in [Ids -> Fields \cup {Unborn, Gone}]
         /\ live[tf.id].text = config.text /\ live[tf.id].desc = config.desc
         /\ kind # "dive" => live[tf.id].note = config.note
         /\ kind # "dive" /\ pc = "readNew" => config.aud \in {None, live[tf.id].aud}
         /\ pc \in Following => plan.text = config.text
         /\ pc = "readNote" => live[tf.id].note = config.note
         /\ pc \in {"status", "readStatus"} /\ said = "ok"
              => config.note \in {None, live[tf.id].note}
         /\ pc = "readStatus" => live[tf.id].aud = config.aud
<1>1. World /\ State /\ HandlerInv /\ TypeOK
  BY Parts
<1>2. /\ tf.id # 0 /\ config # None
  BY <1>1 DEF HandlerInv, Creating, Following
<1>3. tf.id \in Ids /\ config \in Configs
  BY <1>1, <1>2 DEF World, State, States, Ids
<1>4. Alive(tf.id) /\ CreatedSoFar(live[tf.id])
  BY DEF ApplyInv
<1>5. live \in [Ids -> Fields \cup {Unborn, Gone}] /\ live[tf.id] \in Fields
  BY <1>1, <1>3, <1>4 DEF World, Alive
<1>6. QED
  BY <1>1, <1>2, <1>3, <1>4, <1>5 DEF CreatedSoFar

LEMMA ApplyCreateStatement ==
  ASSUME IInv, ApplyInv, NotesInv', CreateStatement
  PROVE  ApplyInv'
<1>1. /\ UNCHANGED <<kind, config>>
      /\ \/ pc' = "idle"
         \/ \E i \in Ids :
              /\ live' = [live EXCEPT ![i] = Created]
              /\ tf' = IdKept(i) /\ plan' = plan
              /\ pc' = IF kind = "guide" /\ plan.aud = Wide THEN "audience" ELSE "readNew"
  BY DEF CreateStatement, End
<1>2. CASE pc' = "idle"
  BY <1>2, AppliesNothing
<1>3. ASSUME NEW i \in Ids, live' = [live EXCEPT ![i] = Created],
             tf' = IdKept(i), plan' = plan,
             pc' = IF kind = "guide" /\ plan.aud = Wide THEN "audience" ELSE "readNew"
      PROVE  ApplyInv'
  <2>1. /\ World /\ TypeOK /\ plan = config /\ config # None /\ plan \in Configs
    BY Parts DEF CreateStatement, HandlerInv, Creating, World
  <2>2. tf'.id = i
    BY <1>3 DEF IdKept, Absent
  <2>3. live'[i] = Created
    BY <1>3, <2>1 DEF World
  <2>4. Created \in Fields
    BY <2>1, CreatedFacts
  <2>5. (Alive(tf.id))'
    BY <2>2, <2>3, <2>4, NoneIsNoContent DEF Alive, Ids
  <2>6. kind # "dive" => Created.note = config.note
    BY <2>1, CreatedFields, KindsAre, FlightConfigs DEF World, ApplyInv
  <2>7. kind # "dive" /\ pc' = "readNew" => config.aud \in {None, Created.aud}
    BY <1>3, <2>1, CreatedFields, KindsAre DEF World, Configs
  <2>8. Created.text = config.text /\ Created.desc = config.desc
    BY <2>1, CreatedFields DEF World
  <2>9. pc' \in {"audience", "readNew"}
    BY <1>3
  <2>10. (CreatedSoFar(live[tf.id]))'
    BY <1>1, <2>2, <2>3, <2>6, <2>7, <2>8, <2>9 DEF CreatedSoFar, Following
  <2>11. QED
    BY <2>5, <2>9, <2>10 DEF ApplyInv
<1>4. QED
  BY <1>1, <1>2, <1>3

LEMMA ApplyAudience ==
  ASSUME IInv, ApplyInv, NotesInv', Audience
  PROVE  ApplyInv'
<1>1. /\ UNCHANGED <<kind, config, stale>>
      /\ \/ pc' = "idle"
         \/ /\ live' = [live EXCEPT ![tf.id].aud = plan.aud]
            /\ pc' = "readNew" /\ UNCHANGED <<tf, plan>>
  BY DEF Audience, End, ghostVars
<1>2. CASE pc' = "idle"
  BY <1>2, AppliesNothing
<1>3. CASE /\ live' = [live EXCEPT ![tf.id].aud = plan.aud]
           /\ pc' = "readNew" /\ UNCHANGED <<tf, plan>>
  <2>1. plan = config /\ config # None /\ plan \in Configs
    BY Parts DEF Audience, HandlerInv, Creating, World
  <2>2. plan.aud = Wide
    BY Parts DEF Audience, HandlerInv
  <2> DEFINE o == [live[tf.id] EXCEPT !.aud = plan.aud]
  <2>3. ASSUME ~stale
        PROVE  (Alive(tf.id) /\ CreatedSoFar(live[tf.id]))'
    <3>1. /\ tf.id \in Ids /\ Alive(tf.id) /\ live[tf.id] \in Fields
          /\ live \in [Ids -> Fields \cup {Unborn, Gone}]
          /\ live[tf.id].text = config.text /\ live[tf.id].desc = config.desc
          /\ kind # "dive" => live[tf.id].note = config.note
      BY <2>3, CreatingFacts DEF Audience
    <3>2. live'[tf'.id] = o
      BY <1>3, <3>1
    <3>3. /\ o \in Fields /\ o.text = live[tf.id].text /\ o.desc = live[tf.id].desc
          /\ o.note = live[tf.id].note /\ o.aud = plan.aud
      BY <2>2, <3>1 DEF Fields
    <3> HIDE DEF o
    <3>4. (Alive(tf.id))'
      BY <1>3, <3>1, <3>2, <3>3, NoneIsNoContent DEF Alive
    <3>5. (CreatedSoFar(live[tf.id]))'
      BY <1>1, <1>3, <2>1, <3>1, <3>2, <3>3 DEF CreatedSoFar, Following
    <3>6. QED
      BY <3>4, <3>5
  <2>4. QED
    BY <1>1, <1>3, <2>3 DEF ApplyInv, Following
<1>4. QED
  BY <1>1, <1>2, <1>3

\* The create of a Dive goes on with its status.
LEMMA AfterNoteApplies ==
  ASSUME IInv, NotesInv', NEW r, NEW v, AfterNote(r, v),
         UNCHANGED <<kind, config, stale>>,
         ~stale => /\ (Alive(tf.id))' /\ r.text = config.text
                   /\ live'[tf.id].text = config.text /\ live'[tf.id].desc = config.desc
                   /\ v = "ok" => config.note \in {None, live'[tf.id].note}
  PROVE  ApplyInv'
<1>1. CASE StatusNext(r)
  <2>1. /\ pc' = "status" /\ plan' = r /\ said' = v /\ tf' = Recorded(r)
        /\ kind = "dive"
    BY <1>1 DEF AfterNote, StatusNext
  <2>2. tf'.id = tf.id
    BY <2>1 DEF Recorded
  <2>3. ASSUME ~stale
        PROVE  (Alive(tf.id) /\ CreatedSoFar(live[tf.id]))'
    BY <2>1, <2>2, <2>3 DEF CreatedSoFar
  <2>4. QED
    BY <2>1, <2>3 DEF ApplyInv, Following
<1>2. CASE ~StatusNext(r)
  <2>1. pc' = "idle"
    BY <1>2 DEF AfterNote, End
  <2>2. QED
    BY <2>1, AppliesNothing
<1>3. QED
  BY <1>1, <1>2

LEMMA ApplyReadNew ==
  ASSUME IInv, ApplyInv, NotesInv', ReadNew
  PROVE  ApplyInv'
<1> DEFINE r == Reading(tf.id, plan.desc)
<1>1. /\ UNCHANGED <<kind, offers, live, config, stale>> /\ pc = "readNew"
      /\ \/ pc' = "idle"
         \/ /\ ReadWorks /\ NoteNext(r)
            /\ pc' = "note" /\ plan' = r /\ tf' = Recorded(r)
         \/ ReadWorks /\ ~NoteNext(r) /\ AfterNote(r, "ok")
  BY DEF ReadNew, worldVars, End
<1>2. ~stale => /\ TypeOK /\ tf.id \in Ids /\ Alive(tf.id)
                /\ live[tf.id].text = config.text /\ live[tf.id].desc = config.desc
                /\ r.text = live[tf.id].text /\ r.note = live[tf.id].note
                /\ kind # "dive" => live[tf.id].note = config.note
  BY <1>1, CreatingFacts, ReadingFacts
<1> HIDE DEF r
<1>3. ~stale => (Alive(tf.id))' \/ tf'.id # tf.id
  BY <1>1, <1>2 DEF Alive
<1>4. CASE pc' = "idle"
  BY <1>4, AppliesNothing
<1>5. CASE NoteNext(r) /\ pc' = "note" /\ plan' = r /\ tf' = Recorded(r)
  <2>1. tf'.id = tf.id /\ kind = "dive"
    BY <1>5 DEF Recorded, NoteNext
  <2>2. ASSUME ~stale
        PROVE  (Alive(tf.id) /\ CreatedSoFar(live[tf.id]))'
    BY <1>1, <1>2, <1>3, <1>5, <2>1, <2>2 DEF CreatedSoFar
  <2>3. QED
    BY <1>1, <1>5, <2>2 DEF ApplyInv, Following
<1>6. CASE ~NoteNext(r) /\ AfterNote(r, "ok")
  <2>1. tf'.id = tf.id
    BY <1>6 DEF AfterNote, Recorded, End
  <2>2. ~stale => config.note \in {None, live[tf.id].note}
    BY <1>2, <1>6 DEF NoteNext
  <2>3. QED
    BY <1>1, <1>2, <1>3, <1>6, <2>1, <2>2, AfterNoteApplies
<1>7. QED
  BY <1>1, <1>4, <1>5, <1>6

\* A follow-up statement of a create leaves o.
LEMMA FollowWrites ==
  ASSUME IInv, ApplyInv, pc \in Following, ~stale, tf'.id = tf.id, NEW o \in Fields,
         live' = live \/ live' = [live EXCEPT ![tf.id] = o]
  PROVE  (Alive(tf.id))' /\ live'[tf'.id] \in {live[tf.id], o}
<1>1. /\ tf.id \in Ids /\ tf.id # 0 /\ Alive(tf.id)
      /\ live \in [Ids -> Fields \cup {Unborn, Gone}]
  BY CreatingFacts
<1>2. live'[tf'.id] \in {live[tf.id], o}
  BY <1>1
<1>3. QED
  BY <1>1, <1>2, NoneIsNoContent DEF Alive

LEMMA ApplyWriteNote ==
  ASSUME IInv, ApplyInv, NotesInv', WriteNote
  PROVE  ApplyInv'
<1> DEFINE p == Requested("note", config.note)
           o == Written("append", p, plan, live[tf.id])
<1>1. /\ UNCHANGED <<kind, config, stale>> /\ pc \in Following
      /\ live' = live \/ live' = [live EXCEPT ![tf.id] = o]
      /\ \/ AfterNote(p, "warning")
         \/ /\ live' = [live EXCEPT ![tf.id] = o]
            /\ pc' = "readNote" /\ UNCHANGED <<tf, plan>>
  BY DEF WriteNote, NoteFailed, Following
<1>2. /\ config \in Configs /\ plan \in Records /\ plan.api \in Apis /\ kind = "dive"
      /\ p \in Records /\ p.text = plan.text /\ p.api = plan.api /\ p.note = config.note
      /\ Alive(tf.id) => live[tf.id] \in Fields /\ live[tf.id].api \in Apis
  BY <1>1, FollowFacts, RequestedFacts
<1>3. ~stale => /\ TypeOK /\ Alive(tf.id) /\ tf.id \in Ids
                /\ live \in [Ids -> Fields \cup {Unborn, Gone}]
                /\ live[tf.id].text = config.text /\ live[tf.id].desc = config.desc
                /\ plan.text = config.text
  BY <1>1, CreatingFacts
<1>4. Alive(tf.id) => /\ o.text = p.text /\ o.note = p.note /\ o.desc = live[tf.id].desc
  BY <1>2, WrittenFields
<1>5. ~stale => o \in Fields
  BY <1>2, <1>3, WrittenFacts
<1> HIDE DEF p, o
<1>6. tf'.id = tf.id
  BY <1>1 DEF AfterNote, Recorded, End
<1>7. ~stale => (Alive(tf.id))' /\ live'[tf.id] \in {live[tf.id], o}
  BY <1>1, <1>5, <1>6, FollowWrites
<1>8. ~stale => live'[tf.id].text = config.text /\ live'[tf.id].desc = config.desc
  BY <1>2, <1>3, <1>4, <1>7
<1>9. CASE AfterNote(p, "warning")
  BY <1>1, <1>2, <1>3, <1>7, <1>8, <1>9, AfterNoteApplies
<1>10. CASE /\ live' = [live EXCEPT ![tf.id] = o]
            /\ pc' = "readNote" /\ UNCHANGED <<tf, plan>>
  <2>1. ASSUME ~stale
        PROVE  (Alive(tf.id) /\ CreatedSoFar(live[tf.id]))'
    <3>1. live'[tf.id].note = config.note
      BY <1>2, <1>3, <1>4, <1>10, <2>1
    <3>2. QED
      BY <1>1, <1>2, <1>3, <1>7, <1>8, <1>10, <2>1, <3>1 DEF CreatedSoFar
  <2>2. QED
    BY <1>1, <1>10, <2>1 DEF ApplyInv, Following
<1>11. QED
  BY <1>1, <1>9, <1>10

LEMMA ApplyReadNote ==
  ASSUME IInv, ApplyInv, NotesInv', ReadNote
  PROVE  ApplyInv'
<1> DEFINE p == Requested("note", config.note)
           r == Reading(tf.id, plan.desc)
<1>1. /\ UNCHANGED <<kind, config, stale, live>> /\ pc \in Following /\ pc = "readNote"
      /\ AfterNote(p, "warning") \/ AfterNote(r, "ok")
  BY DEF ReadNote, NoteFailed, Following, worldVars
<1>2. config \in Configs /\ plan \in Records /\ p.text = plan.text
  BY <1>1, FollowFacts, RequestedFacts
<1>3. ~stale => /\ Alive(tf.id)
                /\ live[tf.id].text = config.text /\ live[tf.id].desc = config.desc
                /\ live[tf.id].note = config.note
                /\ plan.text = config.text /\ r.text = live[tf.id].text
  BY <1>1, CreatingFacts, ReadingFacts
<1> HIDE DEF p, r
<1>4. tf'.id = tf.id
  BY <1>1 DEF AfterNote, Recorded, End
<1>5. ~stale => (Alive(tf.id))'
  BY <1>1, <1>3, <1>4 DEF Alive
<1>6. QED
  BY <1>1, <1>2, <1>3, <1>5, AfterNoteApplies

LEMMA ApplyWriteStatus ==
  ASSUME IInv, ApplyInv, NotesInv', WriteStatus
  PROVE  ApplyInv'
<1> DEFINE p == Requested("aud", config.aud)
           o == Written("access", p, plan, live[tf.id])
<1>1. /\ UNCHANGED <<kind, config, stale>> /\ pc \in Following /\ pc = "status"
      /\ \/ pc' = "idle"
         \/ /\ live' = [live EXCEPT ![tf.id] = o]
            /\ pc' = "readStatus" /\ UNCHANGED <<tf, plan, said>>
  BY DEF WriteStatus, StatusFailed, End, Following, ghostVars
<1>2. /\ config \in Configs /\ plan \in Records /\ plan.api \in Apis /\ kind = "dive"
      /\ p \in Records /\ p.api = plan.api /\ p.aud = config.aud
      /\ config.aud # None
      /\ Alive(tf.id) => live[tf.id] \in Fields /\ live[tf.id].api \in Apis
  BY <1>1, FollowFacts, RequestedFacts, Parts DEF HandlerInv
<1>3. ~stale => /\ TypeOK /\ Alive(tf.id) /\ tf.id \in Ids
                /\ live \in [Ids -> Fields \cup {Unborn, Gone}]
                /\ live[tf.id].text = config.text /\ live[tf.id].desc = config.desc
                /\ said = "ok" => config.note \in {None, live[tf.id].note}
                /\ plan.text = config.text
  BY <1>1, CreatingFacts
<1>4. Alive(tf.id) => /\ o.text = live[tf.id].text /\ o.note = live[tf.id].note
                      /\ o.desc = live[tf.id].desc /\ o.aud = p.aud
  BY <1>2, WrittenFields
<1>5. ~stale => o \in Fields
  BY <1>2, <1>3, WrittenFacts
<1> HIDE DEF p, o
<1>6. CASE pc' = "idle"
  BY <1>6, AppliesNothing
<1>7. CASE /\ live' = [live EXCEPT ![tf.id] = o]
           /\ pc' = "readStatus" /\ UNCHANGED <<tf, plan, said>>
  <2>1. ASSUME ~stale
        PROVE  (Alive(tf.id) /\ CreatedSoFar(live[tf.id]))'
    <3>1. live'[tf.id] = o
      BY <1>3, <1>7, <2>1
    <3>2. (Alive(tf.id))'
      BY <1>1, <1>5, <1>7, <2>1, FollowWrites
    <3>3. QED
      BY <1>1, <1>2, <1>3, <1>4, <1>7, <2>1, <3>1, <3>2 DEF CreatedSoFar
  <2>2. QED
    BY <1>1, <1>7, <2>1 DEF ApplyInv, Following
<1>8. QED
  BY <1>1, <1>6, <1>7

\* What an update does not send, the state has already.
LEMMA StatementsCover ==
  ASSUME kind \in {"dive", "guide"}, NEW p, NEW r, NEW ss, ss = Statements(kind, p, r)
  PROVE  /\ (\A i \in 1..Len(ss) : ss[i] # "meta") => p.desc = r.desc
         /\ (\A i \in 1..Len(ss) : ss[i] # "append") => ~VersionChanged(kind, p, r)
         /\ (\A i \in 1..Len(ss) : ss[i] # "access") => ~AccessChanged(p, r)
<1> DEFINE a == p.desc # r.desc
           v == VersionChanged(kind, p, r)
           c == AccessChanged(p, r)
<1>1. ss = If("meta", p.desc # r.desc) \o If("append", VersionChanged(kind, p, r))
             \o If("access", AccessChanged(p, r))
  <2>1. CASE kind = "dive"
    <3>1. ss = DiveStatements(p, r)
      BY <2>1, Zenon DEF Statements
    <3>2. QED
      BY <2>1, <3>1, Zenon DEF DiveStatements
  <2>2. CASE kind = "guide"
    <3>1. ss = GuideStatements(p, r)
      BY <2>2, Zenon DEF Statements
    <3>2. QED
      BY <2>2, <3>1, Zenon DEF GuideStatements
  <2>3. QED
    BY <2>1, <2>2
<1>2. a \in BOOLEAN /\ v \in BOOLEAN /\ c \in BOOLEAN
  BY DEF VersionChanged, AccessChanged
<1>3. ss = If("meta", a) \o If("append", v) \o If("access", c)
  BY <1>1
<1> HIDE DEF a, v, c
<1>4. /\ a => \E i \in 1..Len(ss) : ss[i] = "meta"
      /\ v => \E i \in 1..Len(ss) : ss[i] = "append"
      /\ c => \E i \in 1..Len(ss) : ss[i] = "access"
  <2>1. CASE a /\ v /\ c
    <3>1. ss = (<<"meta">> \o <<"append">>) \o <<"access">>
      BY <1>3, <2>1, Zenon DEF If
    <3>a. <<"meta">> \o <<"append">> = <<"meta", "append">>
      BY Pairs
    <3>b. <<"meta", "append">> \o <<"access">> = <<"meta", "append", "access">>
      BY Triples
    <3>2. ss = <<"meta", "append", "access">>
      BY <3>1, <3>a, <3>b, Zenon
    <3>3. Len(ss) = 3 /\ ss[1] = "meta" /\ ss[2] = "append" /\ ss[3] = "access"
      BY <3>2
    <3>4. QED
      BY <3>3
  <2>2. CASE a /\ v /\ ~c
    <3>a. ss = (<<"meta">> \o <<"append">>) \o <<>>
      BY <1>3, <2>2, Zenon DEF If
    <3>b. <<"meta">> \o <<"append">> = <<"meta", "append">>
      BY Pairs
    <3>c. <<"meta", "append">> \o <<>> = <<"meta", "append">>
      OBVIOUS
    <3>1. ss = <<"meta", "append">>
      BY <3>a, <3>b, <3>c, Zenon
    <3>2. Len(ss) = 2 /\ ss[1] = "meta" /\ ss[2] = "append"
      BY <3>1
    <3>3. QED
      BY <2>2, <3>2
  <2>3. CASE a /\ ~v /\ c
    <3>a. ss = (<<"meta">> \o <<>>) \o <<"access">>
      BY <1>3, <2>3, Zenon DEF If
    <3>b. <<"meta">> \o <<"access">> = <<"meta", "access">>
      BY Pairs
    <3>c. <<"meta">> \o <<>> = <<"meta">>
      OBVIOUS
    <3>1. ss = <<"meta", "access">>
      BY <3>a, <3>b, <3>c, Zenon
    <3>2. Len(ss) = 2 /\ ss[1] = "meta" /\ ss[2] = "access"
      BY <3>1
    <3>3. QED
      BY <2>3, <3>2
  <2>4. CASE ~a /\ v /\ c
    <3>a. ss = (<<>> \o <<"append">>) \o <<"access">>
      BY <1>3, <2>4, Zenon DEF If
    <3>b. <<"append">> \o <<"access">> = <<"append", "access">>
      BY Pairs
    <3>c. <<>> \o <<"append">> = <<"append">>
      OBVIOUS
    <3>1. ss = <<"append", "access">>
      BY <3>a, <3>b, <3>c, Zenon
    <3>2. Len(ss) = 2 /\ ss[1] = "append" /\ ss[2] = "access"
      BY <3>1
    <3>3. QED
      BY <2>4, <3>2
  <2>5. CASE a /\ ~v /\ ~c
    <3>1. ss = <<"meta">>
      BY <1>3, <2>5 DEF If
    <3>2. QED
      BY <2>5, <3>1
  <2>6. CASE ~a /\ v /\ ~c
    <3>1. ss = <<"append">>
      BY <1>3, <2>6 DEF If
    <3>2. QED
      BY <2>6, <3>1
  <2>7. CASE ~a /\ ~v /\ c
    <3>1. ss = <<"access">>
      BY <1>3, <2>7 DEF If
    <3>2. QED
      BY <2>7, <3>1
  <2>8. CASE ~a /\ ~v /\ ~c
    BY <2>8
  <2>9. QED
    BY <2>1, <2>2, <2>3, <2>4, <2>5, <2>6, <2>7, <2>8
<1>5. QED
  BY <1>4, Zenon DEF a, v, c

\* What the plan asks for is what the configuration does.
LEMMA PlannedFields ==
  ASSUME NEW c \in Configs, NEW r
  PROVE  /\ Planned(kind, c, r).desc = c.desc
         /\ Planned(kind, c, r).text = c.text
         /\ kind # "dive" => Planned(kind, c, r).note = c.note
         /\ c.note # None => Planned(kind, c, r).note = c.note
         /\ c.aud # None => Planned(kind, c, r).aud = c.aud
  BY DEF Planned, PlannedNote

LEMMA ApplyStartUpdate ==
  ASSUME IInv, IInv', NotesInv', StartUpdate
  PROVE  ApplyInv'
<1> DEFINE p == Planned(kind, config, tf.rec)
           ss == Statements(kind, p, tf.rec)
<1>1. /\ UNCHANGED <<kind, offers, live, config>>
      /\ stale' = (~Alive(tf.id) \/ tf.rec # Reading(tf.id, tf.rec.desc))
      /\ \/ pc' = "idle"
         \/ pc' = "write" /\ todo' = ss /\ plan' = p /\ tf' = tf
      /\ config # None /\ tf # Absent /\ ~tf.tainted
  BY DEF StartUpdate, End, worldVars
<1>2. /\ World /\ TypeOK /\ config \in Configs /\ tf.rec \in Records /\ tf.id \in Ids
  <2>1. World /\ State /\ TypeOK
    BY Parts
  <2>2. QED
    BY <1>1, <2>1 DEF World, State, States, Ids
<1>3. /\ p.desc = config.desc /\ p.text = config.text
      /\ kind # "dive" => p.note = config.note
      /\ config.note # None => p.note = config.note
      /\ config.aud # None => p.aud = config.aud
  BY <1>2, PlannedFields
<1> HIDE DEF p
<1>4. kind # "flight" =>
        /\ (\A i \in 1..Len(ss) : ss[i] # "meta") => p.desc = tf.rec.desc
        /\ (\A i \in 1..Len(ss) : ss[i] # "append") => ~VersionChanged(kind, p, tf.rec)
        /\ (\A i \in 1..Len(ss) : ss[i] # "access") => ~AccessChanged(p, tf.rec)
  BY <1>2, KindsAre, StatementsCover DEF World
<1> HIDE DEF ss
<1>5. CASE pc' = "idle"
  BY <1>5, AppliesNothing
<1>6. CASE pc' = "write" /\ todo' = ss /\ plan' = p /\ tf' = tf
  <2>1. plan' = (Planned(kind, config, tf.rec))'
    BY <1>1, <1>6 DEF p, Planned, PlannedNote, PlannedApi
  <2>2. ASSUME ~stale'
        PROVE  (Alive(tf.id) /\ UpdatedSoFar(live[tf.id]))'
    <3>1. Alive(tf.id) /\ tf.rec = Reading(tf.id, tf.rec.desc)
      BY <1>1, <2>2
    <3>2. (Alive(tf.id))'
      BY <1>1, <1>6, <3>1 DEF Alive
    <3>3. /\ tf.rec.text = live[tf.id].text /\ tf.rec.note = live[tf.id].note
          /\ tf.rec.aud \in {None, live[tf.id].aud}
          /\ kind # "flight" => tf.rec.desc = live[tf.id].desc
      BY <1>2, <3>1, ReadingFacts, ReadingFields
    <3>4. (Reading(tf.id, tf.rec.desc))' = Reading(tf.id, tf.rec.desc)
      BY <1>1, <1>6, Zenon DEF Reading, ReadDive, ReadGuide, ReadFlight
    <3>5. tf'.rec = (Reading(tf.id, tf.rec.desc))'
      BY <1>6, <3>1, <3>4
    <3>6. (~Pending("meta"))' /\ kind # "flight" => live[tf.id].desc = config.desc
      BY <1>3, <1>4, <1>6, <3>3 DEF Pending
    <3>7. (~Pending("append"))' /\ kind # "flight" => ~VersionChanged(kind, p, tf.rec)
      BY <1>4, <1>6 DEF Pending
    <3>8. (~Pending("access"))' /\ kind # "flight" => ~AccessChanged(p, tf.rec)
      BY <1>4, <1>6 DEF Pending
    <3>9. ~VersionChanged(kind, p, tf.rec) =>
            /\ live[tf.id].text = config.text
            /\ live[tf.id].note = config.note \/ (kind = "dive" /\ config.note = None)
      BY <1>3, <3>3 DEF VersionChanged
    <3>10. ~AccessChanged(p, tf.rec) => config.aud \in {None, live[tf.id].aud}
      BY <1>3, <3>3 DEF AccessChanged
    <3>11. live'[tf'.id] = live[tf.id]
      BY <1>1, <1>6
    <3>12. QED
      BY <1>1, <1>6, <3>2, <3>5, <3>6, <3>7, <3>8, <3>9, <3>10, <3>11 DEF UpdatedSoFar
  <2>3. QED
    BY <1>1, <1>6, <2>1, <2>2 DEF ApplyInv, Following
<1>7. QED
  BY <1>1, <1>5, <1>6

\* What is still to be sent is the first of it or among the others.
LEMMA PendingFacts ==
  ASSUME todo \in Orders, NEW s, Pending(s)
  PROVE  s = Head(todo) \/ \E i \in 1..Len(Tail(todo)) : Tail(todo)[i] = s
<1>1. PICK i \in 1..Len(todo) : todo[i] = s
  BY DEF Pending
<1>2. /\ Head(todo) = todo[1] /\ Len(Tail(todo)) = Len(todo) - 1 /\ Len(todo) \in 1..3
      /\ \A j \in 1..Len(todo) : j # 1 =>
           j - 1 \in 1..Len(Tail(todo)) /\ Tail(todo)[j - 1] = todo[j]
  <2>1. CASE todo \in {<<"meta">>, <<"append">>, <<"access">>}
    BY <2>1
  <2>2. CASE todo = <<"meta", "append">>
    BY <2>2
  <2>3. CASE todo = <<"meta", "access">>
    BY <2>3
  <2>4. CASE todo = <<"append", "access">>
    BY <2>4
  <2>5. CASE todo = <<"meta", "append", "access">>
    BY <2>5
  <2>6. QED
    BY <2>1, <2>2, <2>3, <2>4, <2>5 DEF Orders
<1>3. QED
  BY <1>1, <1>2

\* The statement of a Flight makes it what the configuration asks for.
LEMMA FlightMeets ==
  ASSUME IInv, ApplyInv, kind = "flight", pc = "write", ~stale
  PROVE  Meets(kind, config, Written("call", plan, tf.rec, live[tf.id]))
<1> DEFINE o == live[tf.id]
           w == Written("call", plan, tf.rec, o)
<1>1. /\ TypeOK /\ config \in Configs /\ tf.id \in Ids /\ Alive(tf.id)
      /\ plan = Planned(kind, config, tf.rec)
      /\ tf.rec = Reading(tf.id, tf.rec.desc)
  BY Parts, WriteFacts DEF World, ApplyInv, UpdatedSoFar
<1>2. /\ plan.desc = config.desc /\ plan.text = config.text
      /\ config.aud # None => plan.aud = config.aud
  BY <1>1, PlannedFields
<1>3. o \in Fields /\ o.note = None /\ config.note = None
  BY <1>1, FlightConfigs DEF TypeOK, Alive, ApplyInv, NotesInv
<1>4. /\ tf.rec.text = o.text /\ tf.rec.aud = o.aud /\ tf.rec.desc \in {None, o.desc}
  BY <1>1, ReadingFacts, ReadingFields
<1>5. /\ w.desc = IF plan.desc # tf.rec.desc THEN plan.desc ELSE o.desc
      /\ w.text = IF plan.text # tf.rec.text THEN plan.text ELSE o.text
      /\ w.note = o.note
      /\ w.aud = IF AccessChanged(plan, tf.rec) THEN plan.aud ELSE o.aud
  BY <1>3, WrittenFields
<1> HIDE DEF o, w
<1>6. w.text = config.text
  BY <1>2, <1>4, <1>5
<1>7. w.desc = config.desc \/ config.desc = None
  BY <1>2, <1>4, <1>5
<1>8. w.aud = config.aud \/ config.aud = None
  BY <1>2, <1>4, <1>5 DEF AccessChanged
<1>9. Meets(kind, config, w)
  BY <1>3, <1>5, <1>6, <1>7, <1>8 DEF Meets
<1>10. QED
  BY <1>9 DEF w, o

LEMMA ApplyWrite ==
  ASSUME IInv, ApplyInv, NotesInv', Write
  PROVE  ApplyInv'
<1> DEFINE s == Head(todo)
           o == live[tf.id]
           w == Written(s, plan, tf.rec, o)
<1>1. /\ UNCHANGED <<kind, offers, config, stale>> /\ pc = "write"
      /\ \/ pc' = "idle"
         \/ pc' = "keep" /\ said' = "error"
         \/ /\ ~Refuses(s, plan) /\ live' = [live EXCEPT ![tf.id] = w]
            /\ todo' = Tail(todo) /\ UNCHANGED <<plan, tf>>
            /\ pc' = IF Tail(todo) = <<>> THEN "readBack" ELSE "write"
  BY DEF Write, Abandon, End
<1>2. CASE pc' = "idle"
  BY <1>2, AppliesNothing
<1>3. CASE pc' = "keep" /\ said' = "error"
  BY <1>3 DEF ApplyInv, Following
<1>4. CASE /\ ~Refuses(s, plan) /\ live' = [live EXCEPT ![tf.id] = w]
           /\ todo' = Tail(todo) /\ UNCHANGED <<plan, tf>>
           /\ pc' = IF Tail(todo) = <<>> THEN "readBack" ELSE "write"
  <2>1. config # None /\ plan = Planned(kind, config, tf.rec)
    BY <1>1 DEF ApplyInv
  <2>2. plan' = (Planned(kind, config, tf.rec))'
    BY <1>1, <1>4, <2>1 DEF Planned, PlannedNote, PlannedApi
  <2>3. /\ World /\ TypeOK /\ plan \in Records /\ plan.api \in Apis \cup {0}
        /\ tf.rec \in Records /\ tf.id \in Ids /\ config \in Configs
        /\ s \in {"meta", "append", "access", "call"}
        /\ s = "access" => plan.aud # None
        /\ kind = "flight" => Tail(todo) = <<>>
        /\ IF kind = "flight" THEN todo = <<"call">> ELSE todo \in Orders
    BY <1>1, <2>1, Parts, WriteFacts DEF World, TodoInv, Orders
  <2>4. /\ plan.desc = config.desc /\ plan.text = config.text
        /\ kind # "dive" => plan.note = config.note
        /\ config.note # None => plan.note = config.note
        /\ config.aud # None => plan.aud = config.aud
    BY <2>1, <2>3, PlannedFields
  <2>5. ASSUME ~stale
        PROVE  (Alive(tf.id) /\ UpdatedSoFar(live[tf.id]))'
    <3>1. Alive(tf.id) /\ UpdatedSoFar(o)
      BY <1>1, <2>5 DEF ApplyInv
    <3>2. o \in Fields /\ o.api \in Apis
      BY <2>3, <3>1 DEF TypeOK, Alive
    <3>3. w \in Fields
      BY <2>3, <3>2, WrittenFacts
    <3>4. live'[tf'.id] = w
      BY <1>4, <2>3 DEF World
    <3>5. (Alive(tf.id))'
      BY <1>4, <2>3, <3>3, <3>4, NoneIsNoContent DEF Alive, Ids
    <3>6. CASE kind = "flight"
      <4>1. s = "call" /\ Tail(todo) = <<>>
        BY <2>3, <3>6
      <4>2. Meets(kind, config, w)
        BY <1>1, <2>5, <3>6, <4>1, FlightMeets
      <4> HIDE DEF s, o, w
      <4>3. (Meets(kind, config, live[tf.id]))'
        BY <1>1, <3>4, <4>2 DEF Meets
      <4>4. pc' = "readBack"
        BY <1>4, <4>1
      <4>5. QED
        BY <3>5, <4>3, <4>4 DEF UpdatedSoFar
    <3>7. CASE kind # "flight"
      <4>1. todo \in Orders /\ s \in {"meta", "append", "access"}
        <5>1. todo \in Orders
          BY <2>3, <3>7
        <5>2. QED
          BY <5>1 DEF Orders
      <4>2. /\ ~Pending("meta") => o.desc = config.desc
            /\ ~Pending("append") =>
                 /\ o.text = config.text
                 /\ o.note = config.note \/ (kind = "dive" /\ config.note = None)
            /\ ~Pending("access") => config.aud \in {None, o.aud}
        BY <1>1, <3>1, <3>7 DEF UpdatedSoFar
      <4>3. \A x : Pending(x) => x = s \/ \E i \in 1..Len(Tail(todo)) : Tail(todo)[i] = x
        BY <4>1, PendingFacts
      <4>4. /\ s = "meta" => /\ w.desc = plan.desc /\ w.text = o.text
                             /\ w.note = o.note /\ w.aud = o.aud
            /\ s = "append" => /\ w.desc = o.desc /\ w.text = plan.text
                               /\ w.note = plan.note /\ w.aud = o.aud
            /\ s = "access" => /\ w.desc = o.desc /\ w.text = o.text
                               /\ w.note = o.note /\ w.aud = plan.aud
        BY <3>2, WrittenFields
      <4> DEFINE Left(x) == \E i \in 1..Len(Tail(todo)) : Tail(todo)[i] = x
      <4>5. (Pending("meta"))' = Left("meta") /\ (Pending("append"))' = Left("append")
            /\ (Pending("access"))' = Left("access")
        BY <1>4 DEF Pending
      <4>6. \A x : Pending(x) => x = s \/ Left(x)
        BY <4>3
      <4> HIDE DEF s, o, w, Left
      <4>7. ~Left("meta") => w.desc = config.desc
        BY <2>4, <4>1, <4>2, <4>4, <4>6
      <4>8. ~Left("append") =>
              /\ w.text = config.text
              /\ w.note = config.note \/ (kind = "dive" /\ config.note = None)
        BY <2>4, <4>1, <4>2, <4>4, <4>6
      <4>9. ~Left("access") => config.aud \in {None, w.aud}
        BY <2>4, <4>1, <4>2, <4>4, <4>6
      <4>10. CASE Tail(todo) = <<>>
        <5>1. ~Left("meta") /\ ~Left("append") /\ ~Left("access")
          BY <4>10 DEF Left
        <5>2. Meets(kind, config, w)
          BY <4>7, <4>8, <4>9, <5>1 DEF Meets
        <5>3. (Meets(kind, config, live[tf.id]))'
          BY <1>1, <3>4, <5>2 DEF Meets
        <5>4. pc' = "readBack"
          BY <1>4, <4>10
        <5>5. QED
          BY <3>5, <5>3, <5>4 DEF UpdatedSoFar
      <4>11. CASE Tail(todo) # <<>>
        <5>1. pc' = "write"
          BY <1>4, <4>11
        <5>2. QED
          BY <1>1, <3>4, <3>5, <3>7, <4>5, <4>7, <4>8, <4>9, <5>1 DEF UpdatedSoFar
      <4>12. QED
        BY <4>10, <4>11
    <3>8. QED
      BY <3>6, <3>7
  <2>6. pc' \in {"readBack", "write"}
    BY <1>4
  <2>7. QED
    BY <1>1, <2>1, <2>2, <2>5, <2>6 DEF ApplyInv, Following
<1>5. QED
  BY <1>1, <1>2, <1>3, <1>4

\* What a handler knows of its own does not change with what is outside.
LEMMA ApplyOutside ==
  ASSUME IInv, ApplyInv, NotesInv', Outside
  PROVE  ApplyInv'
<1>1. UNCHANGED <<kind, config, tf, pc, plan, said>> /\ stale' = TRUE
  BY DEF Outside, opVars
<1>2. (Planned(kind, config, tf.rec))' = Planned(kind, config, tf.rec)
  BY <1>1 DEF Planned, PlannedNote, PlannedApi
<1>3. QED
  BY <1>1, <1>2 DEF ApplyInv, Following

LEMMA ApplyStutter ==
  ASSUME ApplyInv, NotesInv', UNCHANGED vars
  PROVE  ApplyInv'
<1>1. /\ UNCHANGED <<kind, offers, live, config, tf, pc, todo, plan, said, stale>>
  BY DEF vars, worldVars, opVars, ghostVars
<1>2. (Planned(kind, config, tf.rec))' = Planned(kind, config, tf.rec)
  BY <1>1 DEF Planned, PlannedNote, PlannedApi
<1>3. (Reading(tf.id, tf.rec.desc))' = Reading(tf.id, tf.rec.desc)
  BY <1>1, Zenon DEF Reading, ReadDive, ReadGuide, ReadFlight
<1>4. (Alive(tf.id))' = Alive(tf.id)
  BY <1>1 DEF Alive
<1>5. (CreatedSoFar(live[tf.id]))' = CreatedSoFar(live[tf.id])
  BY <1>1 DEF CreatedSoFar
<1>6. /\ \A s : (Pending(s))' = Pending(s)
      /\ (Meets(kind, config, live[tf.id]))' = Meets(kind, config, live[tf.id])
  BY <1>1 DEF Pending, Meets
<1>7. UpdatedSoFar(live[tf.id]) => (UpdatedSoFar(live[tf.id]))'
  BY <1>1, <1>3, <1>6 DEF UpdatedSoFar
<1>8. QED
  BY <1>1, <1>2, <1>4, <1>5, <1>7 DEF ApplyInv, Following

LEMMA ApplyInit == Init => ApplyInv
  BY NotesInit DEF Init, ApplyInv, Following

LEMMA ApplyNext == IInv /\ ApplyInv /\ [Next]_vars => ApplyInv'
<1> SUFFICES ASSUME IInv, ApplyInv, [Next]_vars PROVE ApplyInv'
  OBVIOUS
<1>1. IInv' /\ NotesInv'
  BY InvNext, NotesNext DEF ApplyInv
<1>2. CASE CreateStatement \/ Audience \/ ReadNew
  BY <1>1, <1>2, ApplyCreateStatement, ApplyAudience, ApplyReadNew
<1>3. CASE WriteNote \/ ReadNote \/ WriteStatus
  BY <1>1, <1>3, ApplyWriteNote, ApplyReadNote, ApplyWriteStatus
<1>4. CASE StartUpdate \/ Write
  BY <1>1, <1>4, ApplyStartUpdate, ApplyWrite
<1>5. CASE \/ StartCreate \/ ReadStatus \/ Refresh \/ ReadBack \/ StartDelete \/ Delete
           \/ Import \/ Edit
  <2>1. pc' \in {"idle", "create", "delete"}
    BY <1>5
    DEF StartCreate, ReadStatus, StatusFailed, Refresh, ReadBack, StartDelete, Delete,
        Import, Edit, End, opVars
  <2>2. QED
    BY <1>1, <2>1, AppliesNothing
<1>6. CASE Outside \/ UNCHANGED vars
  BY <1>1, <1>6, ApplyOutside, ApplyStutter
<1>7. QED
  BY <1>2, <1>3, <1>4, <1>5, <1>6 DEF Next

LEMMA ApplyInvariant == Spec => []ApplyInv
  BY Invariant, ApplyInit, ApplyNext, PTL DEF Spec

\* The state that has taken the object as it was read is settled, if the
\* object is as configured.
LEMMA SettledAfter ==
  ASSUME UNCHANGED <<kind, offers, live, config>>, config # None,
         Alive(tf.id), tf'.id = tf.id, ~tf'.tainted,
         Meets(kind, config, live[tf.id]),
         tf'.rec = Reading(tf.id, tf'.rec.desc)
  PROVE  Settled'
<1>1. (Alive(tf.id))' /\ (Meets(kind, config, live[tf.id]))'
  BY DEF Alive, Meets
<1>2. (Reading(tf.id, tf.rec.desc))' = Reading(tf.id, tf'.rec.desc)
  BY Zenon DEF Reading, ReadDive, ReadGuide, ReadFlight
<1>3. QED
  BY <1>1, <1>2 DEF Settled

LEMMA ReadingSettles ==
  ASSUME IInv, NEW prior, UNCHANGED <<kind, offers, live, config>>, config # None,
         Alive(tf.id), tf' = Recorded(Reading(tf.id, prior)),
         Meets(kind, config, live[tf.id])
  PROVE  Settled'
<1>1. TypeOK /\ tf.id \in Ids
  BY Parts DEF State, States, Alive, Ids
<1>2. tf'.id = tf.id /\ ~tf'.tainted /\ tf'.rec = Reading(tf.id, prior)
  BY DEF Recorded
<1>3. tf'.rec = Reading(tf.id, tf'.rec.desc)
  BY <1>1, <1>2, ReadingFields
<1>4. QED
  BY <1>2, <1>3, SettledAfter

\* A create that ends well has read back what was configured.
LEMMA CreateSettles ==
  ASSUME IInv, ApplyInv, ReadNew \/ ReadNote, pc' = "idle", said' = "ok", ~stale'
  PROVE  Settled'
<1> DEFINE r == Reading(tf.id, plan.desc)
<1>1. /\ UNCHANGED <<kind, offers, live, config, stale>> /\ ~stale
      /\ pc \in {"readNew"} \cup Following
      /\ \/ pc = "readNew" /\ ~NoteNext(r) /\ AfterNote(r, "ok")
         \/ pc = "readNote" /\ AfterNote(r, "ok")
  BY DEF ReadNew, ReadNote, NoteFailed, AfterNote, End, worldVars, Following
<1>2. /\ config # None /\ config \in Configs /\ tf.id \in Ids /\ Alive(tf.id)
      /\ TypeOK
      /\ live[tf.id].text = config.text /\ live[tf.id].desc = config.desc
      /\ kind # "dive" => live[tf.id].note = config.note
      /\ kind # "dive" /\ pc = "readNew" => config.aud \in {None, live[tf.id].aud}
      /\ pc = "readNote" => live[tf.id].note = config.note
  BY <1>1, CreatingFacts
<1>3. /\ r.note = live[tf.id].note /\ r.aud \in {None, live[tf.id].aud}
  BY <1>2, ReadingFacts, ReadingFields
<1> HIDE DEF r
<1>4. ~StatusNext(r) /\ tf' = Recorded(r)
  BY <1>1 DEF AfterNote, End
<1>5. pc = "readNote" => kind = "dive"
  BY Parts DEF HandlerInv, Following
<1>6. live[tf.id].note = config.note \/ (kind = "dive" /\ config.note = None)
  BY <1>1, <1>2, <1>3 DEF NoteNext
<1>7. live[tf.id].aud = config.aud \/ config.aud = None
  BY <1>1, <1>2, <1>3, <1>4, <1>5 DEF StatusNext
<1>8. Meets(kind, config, live[tf.id])
  BY <1>2, <1>6, <1>7 DEF Meets
<1>9. QED
  BY <1>1, <1>2, <1>4, <1>8, ReadingSettles DEF r

\* So has one whose last statement set a status.
LEMMA StatusSettles ==
  ASSUME IInv, ApplyInv, ReadStatus, pc' = "idle", said' = "ok", ~stale'
  PROVE  Settled'
<1> DEFINE r == Reading(tf.id, plan.desc)
<1>1. /\ UNCHANGED <<kind, offers, live, config, stale>> /\ ~stale
      /\ pc = "readStatus" /\ pc \in Following /\ said = "ok"
      /\ tf' = Recorded(WithNote(r))
  BY DEF ReadStatus, StatusFailed, End, worldVars, Following
<1>2. /\ config # None /\ config \in Configs /\ tf.id \in Ids /\ Alive(tf.id)
      /\ TypeOK
      /\ live[tf.id].text = config.text /\ live[tf.id].desc = config.desc
      /\ config.note \in {None, live[tf.id].note}
      /\ live[tf.id].aud = config.aud
  BY <1>1, CreatingFacts
<1>3. r.note = live[tf.id].note /\ r \in Records
  BY <1>2, ReadingFacts
<1>4. kind = "dive"
  BY <1>1, Parts DEF HandlerInv
<1>5. Meets(kind, config, live[tf.id])
  BY <1>2, <1>4 DEF Meets
<1> HIDE DEF r
<1>6. WithNote(r) = r
  BY <1>2, <1>3 DEF WithNote, Records
<1>7. QED
  BY <1>1, <1>2, <1>5, <1>6, ReadingSettles DEF r

\* And an update that has read back what it wrote.
LEMMA UpdateSettles ==
  ASSUME IInv, ApplyInv, ReadBack, pc' = "idle", said' = "ok", ~stale'
  PROVE  Settled'
<1>1. /\ UNCHANGED <<kind, offers, live, config, stale>> /\ ~stale
      /\ pc \in {"readBack", "keep"} /\ said = "ok"
      /\ tf' = Recorded(Reading(tf.id, plan.desc))
  BY DEF ReadBack, End, worldVars
<1>2. pc = "readBack"
  BY <1>1 DEF ApplyInv
<1>3. config # None /\ Alive(tf.id) /\ Meets(kind, config, live[tf.id])
  BY <1>1, <1>2 DEF ApplyInv, UpdatedSoFar
<1>4. QED
  BY <1>1, <1>3, ReadingSettles

\* An apply that reports neither an error nor a warning, from a state that was up
\* to date and with nobody else at work, leaves the object as configured and as
\* the state says.
THEOREM WritesAreAppliedOrTold == Spec => AppliedOrTold
<1>1. ASSUME IInv, ApplyInv, Next, EndsWell, ~stale', tf'.id # 0
      PROVE  Settled'
  <2>1. CASE ReadNew \/ ReadNote
    BY <1>1, <2>1, CreateSettles DEF EndsWell
  <2>2. CASE ReadStatus
    BY <1>1, <2>2, StatusSettles DEF EndsWell
  <2>3. CASE ReadBack
    BY <1>1, <2>3, UpdateSettles DEF EndsWell
  <2>4. CASE CreateStatement \/ Audience \/ Write
    BY <1>1, <2>4 DEF EndsWell, CreateStatement, Audience, Write, Abandon, End
  <2>5. CASE WriteNote \/ WriteStatus
    BY <1>1, <2>5
    DEF EndsWell, WriteNote, NoteFailed, AfterNote, WriteStatus, StatusFailed, End
  <2>6. CASE Delete
    BY <1>1, <2>6 DEF EndsWell, Delete, End, Absent
  <2>7. CASE \/ StartCreate \/ Refresh \/ StartUpdate \/ StartDelete \/ Import \/ Edit
             \/ Outside
    BY <1>1, <2>7
    DEF EndsWell, StartCreate, Refresh, StartUpdate, StartDelete, Import, Edit, Outside,
        opVars
  <2>8. QED
    BY <1>1, <2>1, <2>2, <2>3, <2>4, <2>5, <2>6, <2>7 DEF Next
<1>2. ASSUME IInv, ApplyInv, [Next]_vars
      PROVE  [EndsWell /\ ~stale' /\ tf'.id # 0 => Settled']_vars
  BY <1>1, <1>2
<1>3. QED
  BY <1>2, Invariant, ApplyInvariant, PTL DEF Spec, AppliedOrTold

-----------------------------------------------------------------------------
(* The handlers implement ManagedObject.                                   *)

LEMMA ManagedInit == Init => Managed!Init
<1> SUFFICES ASSUME Init PROVE Managed!Init
  OBVIOUS
<1>1. Present = {}
  BY DEF Init, Present, Alive
<1>2. tf.id = 0 /\ tf.tainted = FALSE /\ outside = 0
  BY DEF Init, Absent
<1>3. (config # None) \in BOOLEAN
  OBVIOUS
<1>4. QED
  BY <1>1, <1>2, <1>3 DEF Managed!Init

\* A step that neither makes nor destroys an object, and after which the state
\* names the same one, does not show.
LEMMA ManagedQuiet ==
  ASSUME Present' = Present, UNCHANGED <<lost, outside>>,
         tf'.id = tf.id, tf'.tainted = tf.tainted
  PROVE  Managed!Step
  BY DEF Managed!Step

LEMMA PresentStays ==
  ASSUME UNCHANGED live
  PROVE  Present' = Present
  BY DEF Present, Alive

\* A statement that writes makes something else of an object that is there.
LEMMA PresentKept ==
  ASSUME IInv, Alive(tf.id), NEW o \in Fields, live' = [live EXCEPT ![tf.id] = o]
  PROVE  Present' = Present
<1>1. /\ live \in [Ids -> Fields \cup {Unborn, Gone}] /\ o \notin {Unborn, Gone}
  BY Parts, NoneIsNoContent DEF World
<1>2. \A i \in Ids : live'[i] \in {Unborn, Gone} <=> live[i] \in {Unborn, Gone}
  BY <1>1 DEF Alive
<1>3. QED
  BY <1>2 DEF Present, Alive

LEMMA ManagedCreateStatement ==
  ASSUME IInv, CreateStatement
  PROVE  Managed!Step
<1>1. /\ World /\ tf = Absent /\ plan = config /\ config # None /\ plan \in Configs
      /\ TypeOK
  BY Parts DEF CreateStatement, HandlerInv, Creating, World
<1>2. tf.id = 0 /\ tf.tainted = FALSE
  BY <1>1 DEF Absent
<1>3. \/ End("error", Absent) /\ UNCHANGED <<live, lost, outside>>
      \/ /\ UNCHANGED outside
         /\ \E i \in Ids :
              /\ live[i] = Unborn /\ live' = [live EXCEPT ![i] = Created]
              /\ \/ lost' = lost \cup {i} /\ End("error", Absent)
                 \/ lost' = lost /\ tf' = IdKept(i)
  BY DEF CreateStatement
<1>4. CASE End("error", Absent) /\ UNCHANGED <<live, lost, outside>>
  <2>1. tf' = tf
    BY <1>1, <1>4 DEF End
  <2>2. QED
    BY <1>4, <2>1, PresentStays, ManagedQuiet
<1>5. ASSUME NEW i \in Ids, UNCHANGED outside,
             live[i] = Unborn, live' = [live EXCEPT ![i] = Created],
             \/ lost' = lost \cup {i} /\ End("error", Absent)
             \/ lost' = lost /\ tf' = IdKept(i)
      PROVE  Managed!Step
  <2>1. Created \notin {Unborn, Gone}
    BY <1>1, CreatedFacts, NoneIsNoContent
  <2>2. \A j \in Ids : live'[j] = IF j = i THEN Created ELSE live[j]
    BY <1>1, <1>5 DEF World
  <2>3. i \notin Present /\ Present' = Present \cup {i}
    BY <1>5, <2>1, <2>2 DEF Present, Alive, Ids
  <2>4. \/ lost' = lost \cup {i} /\ tf'.id = tf.id /\ tf'.tainted = tf.tainted
        \/ lost' = lost /\ tf'.id = i /\ tf'.tainted = TRUE
    BY <1>1, <1>5 DEF End, IdKept, Absent
  <2>5. Managed!Make(i)
    BY <1>1, <1>2, <1>5, <2>3, <2>4 DEF Managed!Make
  <2>6. QED
    BY <2>5 DEF Managed!Step
<1>6. QED
  BY <1>3, <1>4, <1>5

LEMMA ManagedAudience ==
  ASSUME IInv, Audience
  PROVE  Managed!Step
<1>1. /\ UNCHANGED <<tf, lost, outside>> /\ pc = "audience"
      /\ \/ UNCHANGED live
         \/ /\ ~Refuses("access", plan)
            /\ live' = [live EXCEPT ![tf.id].aud = plan.aud]
  BY DEF Audience, End, ghostVars
<1>2. CASE /\ ~Refuses("access", plan)
           /\ live' = [live EXCEPT ![tf.id].aud = plan.aud]
  <2>1. Alive(tf.id)
    BY <1>2 DEF Refuses
  <2>2. World /\ State /\ plan.aud = Wide
    BY <1>1, Parts DEF HandlerInv
  <2>3. live[tf.id] \in Fields
    BY <2>1, <2>2 DEF World, State, States, Alive, Ids
  <2>4. [live[tf.id] EXCEPT !.aud = plan.aud] \in Fields
    BY <2>2, <2>3 DEF Fields
  <2>5. QED
    BY <1>1, <1>2, <2>1, <2>4, PresentKept, ManagedQuiet
<1>3. QED
  BY <1>1, <1>2, PresentStays, ManagedQuiet

LEMMA ManagedReadNew ==
  ASSUME IInv, ReadNew
  PROVE  Managed!Step
<1>1. /\ UNCHANGED <<live, lost, outside>> /\ pc = "readNew"
      /\ tf' = tf \/ (tf'.id = tf.id /\ tf'.tainted = FALSE)
  <2>1. /\ UNCHANGED <<live, lost, outside>> /\ pc = "readNew"
        /\ \/ tf' = tf
           \/ tf' = Recorded(Reading(tf.id, plan.desc))
           \/ tf' = Recorded(WithNote(Reading(tf.id, plan.desc)))
    BY DEF ReadNew, AfterNote, End, worldVars
  <2>2. QED
    BY <2>1 DEF Recorded
<1>2. tf.tainted = TRUE
  BY <1>1, Parts DEF HandlerInv, State, States
<1>3. CASE tf'.id = tf.id /\ tf'.tainted = FALSE
  BY <1>1, <1>2, <1>3, PresentStays DEF Managed!Step, Managed!Trust
<1>4. CASE tf' = tf
  BY <1>1, <1>4, PresentStays, ManagedQuiet
<1>5. QED
  BY <1>1, <1>3, <1>4

\* The follow-up statements of a create and those of an update keep what is in
\* the state without doubt.
LEMMA ManagedFollowing ==
  ASSUME IInv, WriteNote \/ ReadNote \/ WriteStatus \/ ReadStatus \/ ReadBack
  PROVE  Managed!Step
<1>1. /\ UNCHANGED <<lost, outside>> /\ pc \in Following \cup Updating
      /\ tf' = tf \/ (tf'.id = tf.id /\ tf'.tainted = FALSE)
  <2>1. CASE WriteNote \/ ReadNote
    BY <2>1
    DEF WriteNote, NoteFailed, ReadNote, AfterNote, End, Recorded, Following
  <2>2. CASE WriteStatus \/ ReadStatus
    BY <2>2
    DEF WriteStatus, StatusFailed, ReadStatus, End, Recorded, ghostVars, Following
  <2>3. CASE ReadBack
    BY <2>3 DEF ReadBack, End, Recorded, Updating
  <2>4. QED
    BY <2>1, <2>2, <2>3
<1>2. tf.tainted = FALSE
  BY <1>1, Parts DEF HandlerInv, State, States
<1>3. Present' = Present
  <2>1. CASE WriteNote
    <3> DEFINE p == Requested("note", config.note)
               o == Written("append", p, plan, live[tf.id])
    <3>1. pc \in Following
      BY <2>1 DEF WriteNote, Following
    <3>2. \/ UNCHANGED live
          \/ ~Refuses("append", p) /\ live' = [live EXCEPT ![tf.id] = o]
      BY <2>1 DEF WriteNote
    <3>3. Alive(tf.id) => o \in Fields
      BY <3>1, FollowFacts, RequestedFacts, WrittenFacts, Parts
    <3>4. ~Refuses("append", p) => Alive(tf.id)
      BY DEF Refuses
    <3> HIDE DEF p, o
    <3>5. QED
      BY <3>2, <3>3, <3>4, PresentStays, PresentKept
  <2>2. CASE WriteStatus
    <3> DEFINE p == Requested("aud", config.aud)
               o == Written("access", p, plan, live[tf.id])
    <3>1. pc \in Following /\ pc = "status"
      BY <2>2 DEF WriteStatus, Following
    <3>2. \/ UNCHANGED live
          \/ ~Refuses("access", p) /\ live' = [live EXCEPT ![tf.id] = o]
      BY <2>2 DEF WriteStatus
    <3>3. config.aud # None
      BY <3>1, Parts DEF HandlerInv
    <3>4. Alive(tf.id) => o \in Fields
      BY <3>1, <3>3, FollowFacts, RequestedFacts, WrittenFacts, Parts
    <3>5. ~Refuses("access", p) => Alive(tf.id)
      BY DEF Refuses
    <3> HIDE DEF p, o
    <3>6. QED
      BY <3>2, <3>4, <3>5, PresentStays, PresentKept
  <2>3. CASE ReadNote \/ ReadStatus \/ ReadBack
    <3>1. UNCHANGED live
      BY <2>3 DEF ReadNote, ReadStatus, ReadBack, worldVars
    <3>2. QED
      BY <3>1, PresentStays
  <2>4. QED
    BY <2>1, <2>2, <2>3
<1>4. QED
  BY <1>1, <1>2, <1>3, ManagedQuiet

LEMMA ManagedWrite ==
  ASSUME IInv, Write
  PROVE  Managed!Step
<1> DEFINE s == Head(todo)
           o == Written(s, plan, tf.rec, live[tf.id])
<1>1. /\ UNCHANGED <<tf, lost, outside>> /\ pc = "write"
      /\ \/ UNCHANGED live
         \/ ~Refuses(s, plan) /\ live' = [live EXCEPT ![tf.id] = o]
  BY DEF Write, Abandon, End
<1>2. /\ TypeOK /\ plan \in Records /\ plan.api \in Apis \cup {0} /\ tf.rec \in Records
      /\ s \in {"meta", "append", "access", "call"} /\ tf.id \in Ids
      /\ s = "access" => plan.aud # None
  BY <1>1, WriteFacts, Parts
<1>3. Alive(tf.id) => live[tf.id] \in Fields /\ live[tf.id].api \in Apis
  BY <1>2 DEF TypeOK, Alive
<1> HIDE DEF s
<1>4. Alive(tf.id) => o \in Fields
  BY <1>2, <1>3, WrittenFacts
<1>5. ~Refuses(s, plan) => Alive(tf.id)
  BY DEF Refuses
<1> HIDE DEF o
<1>6. QED
  BY <1>1, <1>4, <1>5, PresentStays, PresentKept, ManagedQuiet

LEMMA ManagedRefresh ==
  ASSUME IInv, Refresh
  PROVE  Managed!Step
<1>1. UNCHANGED <<live, lost, outside>>
  BY DEF Refresh, worldVars, budgets
<1>2. CASE Alive(tf.id)
  <2>1. tf'.id = tf.id /\ tf'.tainted = tf.tainted
    BY <1>2, Parts DEF Refresh, State, States
  <2>2. QED
    BY <1>1, <2>1, PresentStays, ManagedQuiet
<1>3. CASE ~Alive(tf.id)
  <2>1. tf'.id = 0 /\ tf'.tainted = FALSE
    BY <1>3 DEF Refresh, Absent
  <2>2. tf.id \notin Present
    BY <1>3 DEF Present
  <2>3. QED
    BY <1>1, <2>1, <2>2, PresentStays
    DEF Managed!Step, Managed!Forget, Managed!LeavesState
<1>4. QED
  BY <1>2, <1>3

LEMMA ManagedDelete ==
  ASSUME IInv, Delete
  PROVE  Managed!Step
<1>1. /\ UNCHANGED <<config, lost, outside>> /\ pc = "delete"
      /\ tf' = tf \/ tf' = Absent
      /\ \/ UNCHANGED live /\ tf' = tf
         \/ live' = IF Alive(tf.id) THEN [live EXCEPT ![tf.id] = Gone] ELSE live
  BY DEF Delete, End, ghostVars
<1>2. World /\ State /\ (config = None \/ tf.tainted = TRUE)
  BY <1>1, Parts DEF HandlerInv
<1>3. tf' = Absent => tf'.id = 0 /\ tf'.tainted = FALSE
  BY DEF Absent
<1>4. CASE UNCHANGED live /\ tf' = tf
  BY <1>1, <1>4, PresentStays, ManagedQuiet
<1>5. CASE Alive(tf.id) /\ live' = [live EXCEPT ![tf.id] = Gone]
  <2>1. tf.id \in Ids /\ tf.id \in Present
    <3>1. tf.id \in Ids
      BY <1>2, <1>5 DEF State, States, Alive, Ids
    <3>2. QED
      BY <1>5, <3>1 DEF Present
  <2>2. Present' = Present \ {tf.id}
    <3>1. \A i \in Ids : live'[i] = IF i = tf.id THEN Gone ELSE live[i]
      BY <1>2, <1>5 DEF World
    <3>2. \A i \in Ids : live'[i] \notin {Unborn, Gone}
                       <=> live[i] \notin {Unborn, Gone} /\ i # tf.id
      BY <3>1
    <3>3. QED
      BY <2>1, <3>2 DEF Present, Alive, Ids
  <2>3. Managed!Destroy
    BY <1>1, <1>2, <1>3, <2>1, <2>2 DEF Managed!Destroy, Managed!LeavesState
  <2>4. QED
    BY <2>3 DEF Managed!Step
<1>6. CASE ~Alive(tf.id) /\ UNCHANGED live
  <2>1. tf.id \notin Present
    BY <1>6 DEF Present
  <2>2. CASE tf' = tf
    BY <1>1, <1>6, <2>2, PresentStays, ManagedQuiet
  <2>3. CASE tf' = Absent
    BY <1>1, <1>3, <1>6, <2>1, <2>3, PresentStays
    DEF Managed!Step, Managed!Forget, Managed!LeavesState
  <2>4. QED
    BY <1>1, <2>2, <2>3
<1>7. QED
  BY <1>1, <1>4, <1>5, <1>6

LEMMA ManagedImport ==
  ASSUME IInv, Import
  PROVE  Managed!Step
<1>1. PICK i \in Ids : tf' = [id |-> i, tainted |-> FALSE, rec |-> Reading(i, None)]
  BY DEF Import
<1>2. UNCHANGED <<live, lost, outside>> /\ tf = Absent
  BY DEF Import, worldVars, budgets
<1>3. tf.id = 0 /\ tf'.id = i /\ tf'.tainted = FALSE
  BY <1>1, <1>2 DEF Absent
<1>4. Managed!Adopt(i)
  BY <1>2, <1>3, PresentStays DEF Managed!Adopt
<1>5. QED
  BY <1>4 DEF Managed!Step

LEMMA ManagedOutside ==
  ASSUME IInv, Outside
  PROVE  Managed!Step
<1>1. /\ UNCHANGED <<tf, lost>> /\ outside' = outside + 1
  BY DEF Outside
<1>2. \A i \in Ids : live'[i] = live[i] \/ live[i] \notin {Unborn, Gone}
  BY Parts, OutsideTouches
<1>3. Present' \subseteq Present
  BY <1>2 DEF Present, Alive
<1>4. Present' \subseteq Ids
  BY DEF Present
<1>5. Managed!Meddle
  BY <1>1, <1>3, <1>4 DEF Managed!Meddle
<1>6. QED
  BY <1>5 DEF Managed!Step

LEMMA ManagedNext ==
  ASSUME IInv, [Next]_vars
  PROVE  Managed!Next
<1>1. Managed!Step
  <2>1. CASE CreateStatement \/ Audience \/ ReadNew
    BY <2>1, ManagedCreateStatement, ManagedAudience, ManagedReadNew
  <2>2. CASE WriteNote \/ ReadNote \/ WriteStatus \/ ReadStatus \/ ReadBack
    BY <2>2, ManagedFollowing
  <2>3. CASE Write \/ Refresh \/ Delete
    BY <2>3, ManagedWrite, ManagedRefresh, ManagedDelete
  <2>4. CASE StartCreate \/ StartUpdate \/ StartDelete \/ Edit \/ UNCHANGED vars
    <3>1. UNCHANGED <<live, lost, outside>>
      BY <2>4 DEF StartCreate, StartUpdate, StartDelete, Edit, worldVars, ghostVars,
                  budgets, vars
    <3>2. tf' = tf
      BY <2>4 DEF StartCreate, StartUpdate, StartDelete, Edit, End, vars
    <3>3. QED
      BY <3>1, <3>2, PresentStays, ManagedQuiet
  <2>5. CASE Import \/ Outside
    BY <2>5, ManagedImport, ManagedOutside
  <2>6. QED
    BY <2>1, <2>2, <2>3, <2>4, <2>5 DEF Next
<1>2. (config # None)' \in BOOLEAN
  OBVIOUS
<1>3. QED
  BY <1>1, <1>2 DEF Managed!Next

\* Whatever fails and whoever interferes, the handlers of a Dive, a Guide and a
\* Flight keep to ManagedObject, for any number of objects.
THEOREM ContentIsManaged == Spec => ImplementsManaged
<1>1. IInv /\ [Next]_vars => [Managed!Next]_(Managed!vars)
  BY ManagedNext
<1>2. QED
  BY <1>1, ManagedInit, Invariant, PTL DEF Spec, ImplementsManaged, Managed!Spec
=============================================================================
