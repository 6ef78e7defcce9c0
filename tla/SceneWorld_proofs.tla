------------------------- MODULE SceneWorld_proofs -------------------------
(***************************************************************************)
(* Proofs about SceneWorld: its type, that the entities stay a forest,     *)
(* that stale handles stay stale, that a relative transform is exact, and  *)
(* that moves which preserve world transforms keep whole subtrees in place.*)
(***************************************************************************)
EXTENDS SceneWorld, TLAPS

LEMMA InitTypeOK == SceneInit => SceneTypeOK
  BY SceneAssumption DEF SceneInit, SceneTypeOK, SlotRecords, FreeSlot

LEMMA LiveIsLive ==
  ASSUME SceneTypeOK
  PROVE  /\ LiveEntities \subseteq Entities
         /\ \A e \in LiveEntities : IsEntityLive(e) /\ e = EntityOf(e[1]) /\ e[1] \in Slots
         /\ \A e \in Entities : IsEntityLive(e) => e \in LiveEntities
  BY DEF SceneTypeOK, SlotRecords, LiveEntities, EntityOf, IsEntityLive, Entities

\* What BuildSubtreeOrder collects: the entity, and of each one its children.  All but the
\* entity itself hang below another one.
LEMMA SubtreeIsClosed ==
  ASSUME SceneTypeOK, NEW e \in LiveEntities
  PROVE  /\ Subtree(e) \subseteq LiveEntities
         /\ e \in Subtree(e)
         /\ \A d \in Subtree(e) : Children(d) \cap LiveEntities \subseteq Subtree(e)
         /\ \A d \in Subtree(e) : d = e \/ \E x \in Subtree(e) : d \in Children(x)
<1> DEFINE Closed(S) == e \in S /\ \A x \in S : Children(x) \cap LiveEntities \subseteq S
<1>1. \A d : d \in Subtree(e) <=>
              d \in LiveEntities /\ \A S \in SUBSET LiveEntities : Closed(S) => d \in S
  BY DEF Subtree
<1>2. Subtree(e) \subseteq LiveEntities /\ e \in Subtree(e)
  BY <1>1
<1>3. \A d \in Subtree(e) : Children(d) \cap LiveEntities \subseteq Subtree(e)
  BY <1>1
<1>4. ASSUME NEW d \in Subtree(e)
      PROVE  d = e \/ \E x \in Subtree(e) : d \in Children(x)
  <2> DEFINE Hanging ==
        {y \in Subtree(e) : y = e \/ \E x \in Subtree(e) : y \in Children(x)}
  <2>1. Hanging \in SUBSET LiveEntities /\ e \in Hanging
    BY <1>2
  <2>2. ASSUME NEW x \in Hanging
        PROVE  Children(x) \cap LiveEntities \subseteq Hanging
    BY <1>3
  <2>3. Closed(Hanging)
    BY <2>1, <2>2
  <2>4. d \in Hanging
    BY <1>1, <2>1, <2>3
  <2> QED BY <2>4
<1> QED BY <1>2, <1>3, <1>4

LEMMA NextTypeOK == SceneTypeOK /\ [SceneNext]_sceneVars => SceneTypeOK'
<1> SUFFICES ASSUME SceneTypeOK, [SceneNext]_sceneVars PROVE SceneTypeOK'
  OBVIOUS
<1> USE SceneAssumption, TransformAssumption
<1>0. /\ \A gen \in 1..MaxGeneration : FreeSlot(gen) \in SlotRecords
      /\ \A e \in LiveEntities : IsEntityLive(e) /\ e[1] \in Slots /\ e \in Entities
  BY LiveIsLive DEF FreeSlot, SlotRecords
<1>1. ASSUME NEW s \in Slots, CreateEntity(s) PROVE SceneTypeOK'
  <2>1. slot[s].gen \in 1..MaxGeneration
    BY DEF SceneTypeOK, SlotRecords
  <2>2. [FreeSlot(slot[s].gen) EXCEPT !.live = TRUE] \in SlotRecords
    BY <2>1 DEF FreeSlot, SlotRecords
  <2>3. EntityOf(s) \in Entities
    BY <2>1 DEF EntityOf, Entities, SceneTypeOK
  <2> QED BY <1>1, <2>2, <2>3 DEF CreateEntity, SceneTypeOK
<1>2. ASSUME NEW e \in LiveEntities, DestroyEntity(e) PROVE SceneTypeOK'
  <2>1. \A s \in Slots : (\E d \in Subtree(e) : d[1] = s) => Retired(slot[s]) \in SlotRecords
    <3> SUFFICES ASSUME NEW d \in Subtree(e)
                 PROVE  Retired(slot[d[1]]) \in SlotRecords
      OBVIOUS
    <3>1. d \in LiveEntities /\ d[2] < MaxGeneration
      BY <1>2, SubtreeIsClosed DEF DestroyEntity
    <3>2. slot[d[1]].gen + 1 \in 1..MaxGeneration
      BY <3>1, <1>0 DEF SceneTypeOK, SlotRecords, IsEntityLive
    <3> QED BY <3>2, <1>0 DEF Retired
  <2>2. \A s \in Slots : [slot[s] EXCEPT !.children = @ \ {e}] \in SlotRecords
    BY DEF SceneTypeOK, SlotRecords
  <2>3. slot' \in [Slots -> SlotRecords]
    BY <1>2, <2>1, <2>2 DEF DestroyEntity, SceneTypeOK
  <2> QED BY <1>2, <2>3 DEF DestroyEntity, SceneTypeOK
<1>3. ASSUME NEW e \in LiveEntities, NEW t \in EditedTransforms,
             AddTransform(e, t) \/ ReplaceTransform(e, t)
      PROVE  SceneTypeOK'
  BY <1>3, <1>0 DEF AddTransform, ReplaceTransform, SceneTypeOK, SlotRecords
<1>4. ASSUME NEW e \in LiveEntities, RemoveTransform(e) PROVE SceneTypeOK'
  BY <1>4, <1>0 DEF RemoveTransform, SceneTypeOK, SlotRecords
<1>5. ASSUME NEW e \in LiveEntities, NEW parent \in LiveEntities,
             NEW preservation \in Preservations, SetParent(e, parent, preservation)
      PROVE  SceneTypeOK'
  <2> DEFINE local == ProspectiveLocal(e, parent, preservation)
  <2>0. local \in Transforms \cup {NoTransform}
    BY <1>5 DEF SetParent
  <2> HIDE DEF local
  <2>1. \A s \in Slots :
          /\ [slot[s] EXCEPT !.parent = parent, !.local = local] \in SlotRecords
          /\ [slot[s] EXCEPT !.children = @ \cup {e}] \in SlotRecords
          /\ [slot[s] EXCEPT !.children = @ \ {e}] \in SlotRecords
    <3>1. /\ e \in Entities /\ parent \in Entities
          /\ \A s \in Slots : slot[s] \in SlotRecords
      BY <1>0 DEF SceneTypeOK
    <3>2. \A r \in SlotRecords : [r EXCEPT !.parent = parent, !.local = local] \in SlotRecords
      BY <2>0, <3>1 DEF SlotRecords
    <3>3. \A r \in SlotRecords :
            /\ [r EXCEPT !.children = @ \cup {e}] \in SlotRecords
            /\ [r EXCEPT !.children = @ \ {e}] \in SlotRecords
      BY <3>1 DEF SlotRecords
    <3> QED BY <3>1, <3>2, <3>3
  <2>2. slot' \in [Slots -> SlotRecords]
    BY <1>5, <2>1 DEF SetParent, SceneTypeOK, local
  <2> QED BY <1>5, <2>2 DEF SetParent, SceneTypeOK
<1>6. ASSUME NEW e \in LiveEntities, NEW preservation \in Preservations,
             Unparent(e, preservation)
      PROVE  SceneTypeOK'
  <2> DEFINE local == UnparentedLocal(e, preservation)
  <2>1. \A s \in Slots :
          /\ [slot[s] EXCEPT !.parent = NoEntity, !.local = local] \in SlotRecords
          /\ [slot[s] EXCEPT !.children = @ \ {e}] \in SlotRecords
    BY <1>6 DEF Unparent, SceneTypeOK, SlotRecords
  <2>2. slot' \in [Slots -> SlotRecords]
    BY <1>6, <2>1 DEF Unparent, SceneTypeOK
  <2> QED BY <1>6, <1>0, <2>2 DEF Unparent, SceneTypeOK
<1>7. ASSUME Reset PROVE SceneTypeOK'
  BY <1>7, <1>0 DEF Reset, SceneTypeOK
<1>8. ASSUME UNCHANGED sceneVars PROVE SceneTypeOK'
  BY <1>8 DEF sceneVars, SceneTypeOK
<1> QED BY <1>1, <1>2, <1>3, <1>4, <1>5, <1>6, <1>7, <1>8 DEF SceneNext

\* Every reachable state of the world is well formed.
THEOREM SceneTypeCorrect == SceneSpec => []SceneTypeOK
  BY InitTypeOK, NextTypeOK, PTL DEF SceneSpec

-----------------------------------------------------------------------------
(* The forest.  First what each step does to the links.                    *)

LEMMA NewEntityIsApart ==
  ASSUME SceneTypeOK, NEW s \in Slots, CreateEntity(s)
  PROVE  /\ LiveEntities' = LiveEntities \cup {EntityOf(s)}
         /\ EntityOf(s) \notin LiveEntities
         /\ \A e \in LiveEntities : Parent(e)' = Parent(e) /\ Children(e)' = Children(e)
         /\ \A e : e = EntityOf(s) => Parent(e)' = NoEntity /\ Children(e)' = {}
<1>1. /\ \A t \in Slots : t # s => slot'[t] = slot[t]
      /\ slot'[s] = [FreeSlot(slot[s].gen) EXCEPT !.live = TRUE]
      /\ worldId' = worldId
  BY DEF CreateEntity, SceneTypeOK
<1>2. /\ slot'[s].live /\ slot'[s].gen = slot[s].gen
      /\ slot'[s].parent = NoEntity /\ slot'[s].children = {}
  BY <1>1 DEF FreeSlot
<1>3. ~slot[s].live
  BY DEF CreateEntity
<1>4. \A t \in Slots : slot'[t].gen = slot[t].gen /\ (slot'[t].live <=> slot[t].live \/ t = s)
  BY <1>1, <1>2
<1>5. LiveEntities' = LiveEntities \cup {EntityOf(s)}
  BY <1>1, <1>4 DEF LiveEntities, EntityOf
<1>6. \A e \in LiveEntities : e[1] \in Slots /\ slot[e[1]].live
  BY LiveIsLive DEF IsEntityLive
<1>7. EntityOf(s)[1] = s
  BY DEF EntityOf
<1>8. \A e \in LiveEntities : slot'[e[1]] = slot[e[1]] /\ e # EntityOf(s)
  BY <1>1, <1>3, <1>6, <1>7
<1>9. \A e \in LiveEntities : Parent(e)' = Parent(e) /\ Children(e)' = Children(e)
  BY <1>8 DEF Parent, Children
<1>10. \A e : e = EntityOf(s) => Parent(e)' = NoEntity /\ Children(e)' = {}
  BY <1>2, <1>7 DEF Parent, Children
<1> QED BY <1>5, <1>8, <1>9, <1>10

LEMMA LinksOfSlots ==
  ASSUME SceneTypeOK, worldId' = worldId,
         \A s \in Slots : slot'[s].gen = slot[s].gen /\ slot'[s].live = slot[s].live
  PROVE  LiveEntities' = LiveEntities
  BY DEF LiveEntities, EntityOf

\* Links as fields of slots, in the next state.
LEMMA NextLinks ==
  \A x : Parent(x)' = slot'[x[1]].parent /\ Children(x)' = slot'[x[1]].children
  BY DEF Parent, Children

LEMMA WithoutChild ==
  ASSUME NEW r \in SlotRecords, NEW c
  PROVE  LET taken == [r EXCEPT !.children = @ \ {c}]
         IN  /\ taken.live = r.live /\ taken.gen = r.gen /\ taken.parent = r.parent
             /\ taken.children = r.children \ {c}
  BY DEF SlotRecords

LEMMA WithChild ==
  ASSUME NEW r \in SlotRecords, NEW c
  PROVE  LET given == [r EXCEPT !.children = @ \cup {c}]
         IN  /\ given.live = r.live /\ given.gen = r.gen /\ given.parent = r.parent
             /\ given.children = r.children \cup {c}
  BY DEF SlotRecords

LEMMA WithParent ==
  ASSUME NEW r \in SlotRecords, NEW p, NEW t
  PROVE  LET moved == [r EXCEPT !.parent = p, !.local = t]
         IN  /\ moved.live = r.live /\ moved.gen = r.gen /\ moved.parent = p
             /\ moved.children = r.children
  BY DEF SlotRecords

LEMMA RetiredAreGone ==
  ASSUME SceneTypeOK, NEW e \in LiveEntities, DestroyEntity(e)
  PROVE  /\ LiveEntities' = LiveEntities \ Subtree(e)
         /\ roots' = roots \ Subtree(e)
         /\ \A x \in LiveEntities \ Subtree(e) :
              /\ Parent(x)' = Parent(x)
              /\ Children(x)' = IF x = Parent(e) THEN Children(x) \ {e} ELSE Children(x)
<1> DEFINE Taken(s) == \E d \in Subtree(e) : d[1] = s
<1>1. /\ \A s \in Slots : slot'[s] = IF Taken(s) THEN Retired(slot[s])
                                    ELSE IF Parent(e) = EntityOf(s)
                                    THEN [slot[s] EXCEPT !.children = @ \ {e}]
                                    ELSE slot[s]
      /\ worldId' = worldId /\ roots' = roots \ Subtree(e)
  BY DEF DestroyEntity
<1>2. /\ Subtree(e) \subseteq LiveEntities
      /\ \A x \in LiveEntities : x[1] \in Slots /\ x = EntityOf(x[1]) /\ slot[x[1]].live
  BY SubtreeIsClosed, LiveIsLive DEF IsEntityLive
<1>3. \A x \in LiveEntities : Taken(x[1]) <=> x \in Subtree(e)
  BY <1>2
<1> HIDE DEF Taken
<1>4. \A s \in Slots : slot[s].live => EntityOf(s) \in LiveEntities /\ EntityOf(s)[1] = s
  BY DEF LiveEntities, EntityOf
<1>5. \A s \in Slots : Taken(s) => ~slot'[s].live
  <2>1. \A r : Retired(r).live = FALSE
    BY DEF Retired, FreeSlot
  <2>2. \A s \in Slots : Taken(s) => slot'[s].live = FALSE
    BY <1>1, <2>1
  <2> QED BY <2>2
<1>6. \A s \in Slots : ~Taken(s) =>
        /\ slot'[s].live = slot[s].live /\ slot'[s].gen = slot[s].gen
        /\ slot'[s].parent = slot[s].parent
        /\ slot'[s].children = IF Parent(e) = EntityOf(s) THEN slot[s].children \ {e}
                                                         ELSE slot[s].children
  <2> SUFFICES ASSUME NEW s \in Slots, ~Taken(s)
               PROVE  /\ slot'[s].live = slot[s].live /\ slot'[s].gen = slot[s].gen
                      /\ slot'[s].parent = slot[s].parent
                      /\ slot'[s].children = IF Parent(e) = EntityOf(s)
                                            THEN slot[s].children \ {e} ELSE slot[s].children
    OBVIOUS
  <2>1. slot'[s] = IF Parent(e) = EntityOf(s) THEN [slot[s] EXCEPT !.children = @ \ {e}]
                                              ELSE slot[s]
    BY <1>1
  <2>2. slot[s] \in SlotRecords
    BY DEF SceneTypeOK
  <2> QED BY <2>1, <2>2, WithoutChild
<1>8. LiveEntities' = LiveEntities \ Subtree(e)
  <2>1. \A x : x \in LiveEntities' <=>
               \E s \in Slots : slot'[s].live /\ x = <<s, slot'[s].gen, worldId'>>
    BY DEF LiveEntities, EntityOf
  <2>2. \A x : x \in LiveEntities' <=>
               \E s \in Slots : ~Taken(s) /\ slot[s].live /\ x = EntityOf(s)
    <3>1. \A s \in Slots : slot'[s].live <=> ~Taken(s) /\ slot[s].live
      BY <1>5, <1>6
    <3>2. \A s \in Slots : ~Taken(s) => <<s, slot'[s].gen, worldId'>> = EntityOf(s)
      BY <1>1, <1>6 DEF EntityOf
    <3> QED BY <2>1, <3>1, <3>2
  <2>3. \A x \in LiveEntities' : x \in LiveEntities \ Subtree(e)
    BY <2>2, <1>3, <1>4
  <2>4. \A x \in LiveEntities \ Subtree(e) : x \in LiveEntities'
    BY <2>2, <1>2, <1>3
  <2> QED BY <2>3, <2>4
<1>9. ASSUME NEW x \in LiveEntities \ Subtree(e)
      PROVE  /\ Parent(x)' = Parent(x)
             /\ Children(x)' = IF x = Parent(e) THEN Children(x) \ {e} ELSE Children(x)
  <2>1. x[1] \in Slots /\ EntityOf(x[1]) = x /\ ~Taken(x[1])
    BY <1>2, <1>3
  <2>2. /\ slot'[x[1]].parent = slot[x[1]].parent
        /\ slot'[x[1]].children = IF Parent(e) = x THEN slot[x[1]].children \ {e}
                                                  ELSE slot[x[1]].children
    BY <2>1, <1>6
  <2>3. Parent(x) = slot[x[1]].parent /\ Children(x) = slot[x[1]].children
    BY DEF Parent, Children
  <2> QED BY <2>2, <2>3, NextLinks
<1> QED BY <1>1, <1>8, <1>9

LEMMA MovedLinks ==
  ASSUME SceneTypeOK, NEW child \in LiveEntities, NEW parent \in LiveEntities,
         NEW preservation \in Preservations, SetParent(child, parent, preservation)
  PROVE  /\ LiveEntities' = LiveEntities
         /\ roots' = roots \ {child}
         /\ \A x \in LiveEntities :
              /\ Parent(x)' = IF x = child THEN parent ELSE Parent(x)
              /\ Children(x)' = IF x = parent THEN Children(x) \cup {child}
                                ELSE IF x # child /\ x = Parent(child)
                                THEN Children(x) \ {child} ELSE Children(x)
<1> DEFINE local == ProspectiveLocal(child, parent, preservation)
<1>1. /\ \A s \in Slots : slot'[s] =
            IF s = child[1] THEN [slot[s] EXCEPT !.parent = parent, !.local = local]
            ELSE IF s = parent[1] THEN [slot[s] EXCEPT !.children = @ \cup {child}]
            ELSE IF Parent(child) = EntityOf(s) THEN [slot[s] EXCEPT !.children = @ \ {child}]
            ELSE slot[s]
      /\ worldId' = worldId /\ roots' = roots \ {child} /\ child # parent
  BY DEF SetParent
<1> HIDE DEF local
<1>2. \A s \in Slots :
        /\ slot'[s].live = slot[s].live /\ slot'[s].gen = slot[s].gen
        /\ slot'[s].parent = IF s = child[1] THEN parent ELSE slot[s].parent
        /\ slot'[s].children =
            IF s # child[1] /\ s = parent[1] THEN slot[s].children \cup {child}
            ELSE IF s # child[1] /\ Parent(child) = EntityOf(s)
            THEN slot[s].children \ {child} ELSE slot[s].children
  <2> SUFFICES ASSUME NEW s \in Slots
               PROVE  /\ slot'[s].live = slot[s].live /\ slot'[s].gen = slot[s].gen
                      /\ slot'[s].parent = IF s = child[1] THEN parent ELSE slot[s].parent
                      /\ slot'[s].children =
                            IF s # child[1] /\ s = parent[1] THEN slot[s].children \cup {child}
                            ELSE IF s # child[1] /\ Parent(child) = EntityOf(s)
                            THEN slot[s].children \ {child} ELSE slot[s].children
    OBVIOUS
  <2>1. slot[s] \in SlotRecords
    BY DEF SceneTypeOK
  <2>2. CASE s = child[1]
    <3>1. slot'[s] = [slot[s] EXCEPT !.parent = parent, !.local = local]
      BY <1>1, <2>2
    <3> QED BY <2>1, <2>2, <3>1, WithParent
  <2>3. CASE s # child[1] /\ s = parent[1]
    <3>1. slot'[s] = [slot[s] EXCEPT !.children = @ \cup {child}]
      BY <1>1, <2>3
    <3> QED BY <2>1, <2>3, <3>1, WithChild
  <2>4. CASE s # child[1] /\ s # parent[1] /\ Parent(child) = EntityOf(s)
    <3>1. slot'[s] = [slot[s] EXCEPT !.children = @ \ {child}]
      BY <1>1, <2>4
    <3> QED BY <2>1, <2>4, <3>1, WithoutChild
  <2>5. CASE s # child[1] /\ s # parent[1] /\ Parent(child) # EntityOf(s)
    BY <1>1, <2>5
  <2> QED BY <2>2, <2>3, <2>4, <2>5
<1>3. \A x, y \in LiveEntities : x[1] \in Slots /\ x = EntityOf(x[1]) /\ (x[1] = y[1] => x = y)
  BY LiveIsLive
<1>4. LiveEntities' = LiveEntities
  BY <1>1, <1>2, LinksOfSlots
<1>5. \A x \in LiveEntities :
        /\ x[1] \in Slots
        /\ x[1] = child[1] <=> x = child
        /\ x[1] = parent[1] <=> x = parent
        /\ Parent(child) = EntityOf(x[1]) <=> x = Parent(child)
  BY <1>3
<1>6. ASSUME NEW x \in LiveEntities
      PROVE  /\ slot'[x[1]].parent = IF x = child THEN parent ELSE slot[x[1]].parent
             /\ slot'[x[1]].children = IF x = parent THEN slot[x[1]].children \cup {child}
                                       ELSE IF x # child /\ x = Parent(child)
                                       THEN slot[x[1]].children \ {child}
                                       ELSE slot[x[1]].children
  BY <1>1, <1>2, <1>5
<1>7. \A x : Parent(x) = slot[x[1]].parent /\ Children(x) = slot[x[1]].children
  BY DEF Parent, Children
<1> QED BY <1>1, <1>4, <1>6, <1>7, NextLinks

LEMMA UnparentedLinks ==
  ASSUME SceneTypeOK, NEW child \in LiveEntities,
         NEW preservation \in Preservations, Unparent(child, preservation)
  PROVE  /\ LiveEntities' = LiveEntities
         /\ roots' = roots \cup {child}
         /\ \A x \in LiveEntities :
              /\ Parent(x)' = IF x = child THEN NoEntity ELSE Parent(x)
              /\ Children(x)' = IF x # child /\ x = Parent(child)
                                THEN Children(x) \ {child} ELSE Children(x)
<1> DEFINE local == UnparentedLocal(child, preservation)
<1>1. /\ \A s \in Slots : slot'[s] =
            IF s = child[1] THEN [slot[s] EXCEPT !.parent = NoEntity, !.local = local]
            ELSE IF Parent(child) = EntityOf(s) THEN [slot[s] EXCEPT !.children = @ \ {child}]
            ELSE slot[s]
      /\ worldId' = worldId /\ roots' = roots \cup {child}
  BY DEF Unparent
<1> HIDE DEF local
<1>2. \A s \in Slots :
        /\ slot'[s].live = slot[s].live /\ slot'[s].gen = slot[s].gen
        /\ slot'[s].parent = IF s = child[1] THEN NoEntity ELSE slot[s].parent
        /\ slot'[s].children = IF s # child[1] /\ Parent(child) = EntityOf(s)
                               THEN slot[s].children \ {child} ELSE slot[s].children
  <2> SUFFICES ASSUME NEW s \in Slots
               PROVE  /\ slot'[s].live = slot[s].live /\ slot'[s].gen = slot[s].gen
                      /\ slot'[s].parent = IF s = child[1] THEN NoEntity ELSE slot[s].parent
                      /\ slot'[s].children = IF s # child[1] /\ Parent(child) = EntityOf(s)
                                            THEN slot[s].children \ {child}
                                            ELSE slot[s].children
    OBVIOUS
  <2>1. slot[s] \in SlotRecords
    BY DEF SceneTypeOK
  <2>2. CASE s = child[1]
    <3>1. slot'[s] = [slot[s] EXCEPT !.parent = NoEntity, !.local = local]
      BY <1>1, <2>2
    <3> QED BY <2>1, <2>2, <3>1, WithParent
  <2>3. CASE s # child[1] /\ Parent(child) = EntityOf(s)
    <3>1. slot'[s] = [slot[s] EXCEPT !.children = @ \ {child}]
      BY <1>1, <2>3
    <3> QED BY <2>1, <2>3, <3>1, WithoutChild
  <2>4. CASE s # child[1] /\ Parent(child) # EntityOf(s)
    BY <1>1, <2>4
  <2> QED BY <2>2, <2>3, <2>4
<1>3. \A x, y \in LiveEntities : x[1] \in Slots /\ x = EntityOf(x[1]) /\ (x[1] = y[1] => x = y)
  BY LiveIsLive
<1>4. LiveEntities' = LiveEntities
  BY <1>1, <1>2, LinksOfSlots
<1>5. ASSUME NEW x \in LiveEntities
      PROVE  /\ slot'[x[1]].parent = IF x = child THEN NoEntity ELSE slot[x[1]].parent
             /\ slot'[x[1]].children = IF x # child /\ x = Parent(child)
                                       THEN slot[x[1]].children \ {child}
                                       ELSE slot[x[1]].children
  <2>1. /\ x[1] \in Slots
        /\ x[1] = child[1] <=> x = child
        /\ Parent(child) = EntityOf(x[1]) <=> x = Parent(child)
    BY <1>3
  <2> QED BY <1>2, <2>1
<1>6. \A x : Parent(x) = slot[x[1]].parent /\ Children(x) = slot[x[1]].children
  BY DEF Parent, Children
<1> QED BY <1>1, <1>4, <1>5, <1>6, NextLinks

\* Steps that leave the links alone.
LEMMA QuietForest ==
  ASSUME SceneTypeOK, HierarchyIsForest, UNCHANGED <<roots, worldId>>,
         \A s \in Slots : /\ slot'[s].gen = slot[s].gen /\ slot'[s].live = slot[s].live
                          /\ slot'[s].parent = slot[s].parent
                          /\ slot'[s].children = slot[s].children
  PROVE  HierarchyIsForest'
<1>1. LiveEntities' = LiveEntities
  BY LinksOfSlots
<1>2. \A e \in LiveEntities : Parent(e)' = Parent(e) /\ Children(e)' = Children(e)
  BY LiveIsLive DEF Parent, Children
<1>3. \A e \in LiveEntities :
        (Parent(e) # NoEntity => Parent(e) \in LiveEntities) /\ Children(e) \subseteq LiveEntities
  BY DEF HierarchyIsForest, LinksAgree
<1>4. LinksAgree'
  BY <1>1, <1>2, <1>3 DEF HierarchyIsForest, LinksAgree
<1>5. Acyclic'
  BY <1>1, <1>2 DEF HierarchyIsForest, Acyclic
<1>6. roots' = {e \in LiveEntities' : Parent(e)' = NoEntity}
  BY <1>1, <1>2 DEF HierarchyIsForest
<1> QED BY <1>4, <1>5, <1>6 DEF HierarchyIsForest

LEMMA CreateForest ==
  ASSUME SceneTypeOK, HierarchyIsForest, NEW s \in Slots, CreateEntity(s)
  PROVE  HierarchyIsForest'
<1>1. PICK new :
        /\ new = EntityOf(s)
        /\ LiveEntities' = LiveEntities \cup {new} /\ new \notin LiveEntities
        /\ \A e \in LiveEntities : Parent(e)' = Parent(e) /\ Children(e)' = Children(e)
        /\ Parent(new)' = NoEntity /\ Children(new)' = {}
        /\ roots' = roots \cup {new}
  BY NewEntityIsApart DEF CreateEntity
<1>2. NoEntity \notin LiveEntities' /\ NoEntity # new
  <2>1. NoEntity \notin LiveEntities
    BY LiveIsLive, SceneAssumption
  <2>2. new \in Entities
    BY <1>1 DEF SceneTypeOK, SlotRecords, EntityOf, Entities
  <2> QED BY <1>1, <2>1, <2>2, SceneAssumption
<1>3. LinksAgree'
  <2> SUFFICES ASSUME NEW e \in LiveEntities'
               PROVE  /\ Parent(e)' # NoEntity =>
                            Parent(e)' \in LiveEntities' /\ e \in Children(Parent(e))'
                      /\ \A c \in Children(e)' : c \in LiveEntities' /\ Parent(c)' = e
    BY DEF LinksAgree
  <2>1. CASE e = new
    BY <2>1, <1>1
  <2>2. CASE e \in LiveEntities
    <3>1. /\ Parent(e) # NoEntity => Parent(e) \in LiveEntities /\ e \in Children(Parent(e))
          /\ \A c \in Children(e) : c \in LiveEntities /\ Parent(c) = e
      BY <2>2 DEF HierarchyIsForest, LinksAgree
    <3>2. ASSUME Parent(e)' # NoEntity PROVE e \in Children(Parent(e))'
      <4>1. Parent(e)' = Parent(e) /\ Parent(e) \in LiveEntities /\ e \in Children(Parent(e))
        BY <1>1, <2>2, <3>1, <3>2
      <4>2. \A p \in LiveEntities : slot'[p[1]].children = slot[p[1]].children
        BY <1>1 DEF Children
      <4> QED BY <4>1, <4>2 DEF Children
    <3> QED BY <1>1, <2>2, <3>1, <3>2
  <2> QED BY <1>1, <2>1, <2>2
<1>4. roots' = {e \in LiveEntities' : Parent(e)' = NoEntity}
  BY <1>1 DEF HierarchyIsForest
<1>5. Acyclic'
  <2> SUFFICES ASSUME NEW S \in SUBSET LiveEntities', S # {}, \A e \in S : Parent(e)' \in S
               PROVE  FALSE
    BY DEF Acyclic
  <2>1. new \notin S
    BY <1>1, <1>2
  <2> QED BY <1>1, <2>1 DEF HierarchyIsForest, Acyclic
<1> QED BY <1>3, <1>4, <1>5 DEF HierarchyIsForest

LEMMA DestroyForest ==
  ASSUME SceneTypeOK, HierarchyIsForest, NEW e \in LiveEntities, DestroyEntity(e)
  PROVE  HierarchyIsForest'
<1> DEFINE doomed == Subtree(e)
<1>1. /\ LiveEntities' = LiveEntities \ doomed /\ roots' = roots \ doomed
      /\ \A x \in LiveEntities \ doomed :
            /\ slot'[x[1]].parent = Parent(x)
            /\ slot'[x[1]].children = IF x = Parent(e) THEN Children(x) \ {e} ELSE Children(x)
  BY RetiredAreGone, NextLinks
<1>2. /\ e \in doomed
      /\ \A d \in doomed : Children(d) \cap LiveEntities \subseteq doomed
      /\ \A d \in doomed : d = e \/ \E x \in doomed : d \in Children(x)
      /\ doomed \subseteq LiveEntities
  BY SubtreeIsClosed
<1> HIDE DEF doomed
<1>3. \A x \in LiveEntities :
        /\ Parent(x) # NoEntity => Parent(x) \in LiveEntities /\ x \in Children(Parent(x))
        /\ \A c \in Children(x) : c \in LiveEntities /\ Parent(c) = x
  BY DEF HierarchyIsForest, LinksAgree
<1>4. ASSUME NEW x \in LiveEntities \ doomed
      PROVE  /\ Parent(x) \notin doomed
             /\ \A c \in Children(x) : c # e => c \notin doomed
  <2>1. NoEntity \notin LiveEntities
    BY LiveIsLive, SceneAssumption
  <2>2. Parent(x) \in doomed => x \in Children(Parent(x)) /\ Parent(x) \in doomed
    BY <1>2, <1>3, <2>1
  <2>3. \A c \in Children(x) : c # e /\ c \in doomed => x \in doomed
    BY <1>2, <1>3
  <2> QED BY <2>2, <2>3, <1>2
<1>5. LinksAgree'
  <2> SUFFICES ASSUME NEW x \in LiveEntities \ doomed
               PROVE  /\ Parent(x)' # NoEntity =>
                            Parent(x)' \in LiveEntities' /\ x \in Children(Parent(x))'
                      /\ \A c \in Children(x)' : c \in LiveEntities' /\ Parent(c)' = x
    BY <1>1 DEF LinksAgree
  <2>1. Parent(x)' = Parent(x)
    BY <1>1 DEF Parent
  <2>2. ASSUME Parent(x) # NoEntity
        PROVE  Parent(x) \in LiveEntities \ doomed /\ x \in slot'[Parent(x)[1]].children
    <3>1. Parent(x) \in LiveEntities \ doomed /\ x \in Children(Parent(x)) /\ x # e
      BY <2>2, <1>2, <1>3, <1>4
    <3> QED BY <1>1, <3>1
  <2>3. ASSUME NEW c \in Children(x)' PROVE c \in LiveEntities' /\ Parent(c)' = x
    <3>1. c \in Children(x) /\ c # e
      <4>1. c \in Children(x) /\ (x = Parent(e) => c # e)
        BY <1>1, <2>3 DEF Children
      <4> QED BY <4>1, <1>3
    <3>2. c \in LiveEntities \ doomed /\ Parent(c) = x
      BY <3>1, <1>3, <1>4
    <3> QED BY <3>2, <1>1 DEF Parent
  <2> QED BY <2>1, <2>2, <2>3, <1>1 DEF Children
<1>6. roots' = {x \in LiveEntities' : Parent(x)' = NoEntity}
  BY <1>1 DEF HierarchyIsForest, Parent
<1>7. Acyclic'
  <2> SUFFICES ASSUME NEW S \in SUBSET LiveEntities', S # {}, \A x \in S : Parent(x)' \in S
               PROVE  FALSE
    BY DEF Acyclic
  <2>1. S \subseteq LiveEntities /\ \A x \in S : Parent(x) \in S
    BY <1>1 DEF Parent
  <2> QED BY <2>1 DEF HierarchyIsForest, Acyclic
<1> QED BY <1>5, <1>6, <1>7 DEF HierarchyIsForest

LEMMA MoveForest ==
  ASSUME SceneTypeOK, HierarchyIsForest, NEW child \in LiveEntities, NEW parent \in LiveEntities,
         NEW preservation \in Preservations, SetParent(child, parent, preservation)
  PROVE  HierarchyIsForest'
<1>1. /\ LiveEntities' = LiveEntities /\ roots' = roots \ {child}
      /\ \A x \in LiveEntities :
            /\ slot'[x[1]].parent = IF x = child THEN parent ELSE Parent(x)
            /\ slot'[x[1]].children = IF x = parent THEN Children(x) \cup {child}
                                      ELSE IF x # child /\ x = Parent(child)
                                      THEN Children(x) \ {child} ELSE Children(x)
  BY MovedLinks, NextLinks
<1>2. child # parent /\ child \notin Ancestors(parent) /\ Parent(child) # parent
  BY DEF SetParent, WouldCreateCycle
<1>3. \A x \in LiveEntities :
        /\ Parent(x) # NoEntity => Parent(x) \in LiveEntities /\ x \in Children(Parent(x))
        /\ \A c \in Children(x) : c \in LiveEntities /\ Parent(c) = x
  BY DEF HierarchyIsForest, LinksAgree
<1>4. NoEntity \notin LiveEntities
  BY LiveIsLive, SceneAssumption
<1>5. \A x \in LiveEntities : Parent(x) # x
  <2> SUFFICES ASSUME NEW x \in LiveEntities, Parent(x) = x PROVE FALSE
    OBVIOUS
  <2>1. {x} \in SUBSET LiveEntities /\ {x} # {} /\ \A y \in {x} : Parent(y) \in {x}
    OBVIOUS
  <2> QED BY <2>1 DEF HierarchyIsForest, Acyclic
<1>6. \A x \in LiveEntities : \A c :
        c \in slot'[x[1]].children <=>
            IF c = child THEN x = parent ELSE c \in Children(x)
  <2> SUFFICES ASSUME NEW x \in LiveEntities
               PROVE  \A c : c \in slot'[x[1]].children <=>
                        IF c = child THEN x = parent ELSE c \in Children(x)
    OBVIOUS
  <2>1. child \in Children(x) => x = Parent(child) /\ x # child
    BY <1>3, <1>5
  <2>2. CASE x = parent
    BY <2>2, <1>1
  <2>3. CASE x # parent /\ x # child /\ x = Parent(child)
    BY <2>3, <1>1
  <2>4. CASE x # parent /\ ~(x # child /\ x = Parent(child))
    <3>1. slot'[x[1]].children = Children(x) /\ child \notin Children(x)
      BY <2>1, <2>4, <1>1
    <3> QED BY <2>4, <3>1
  <2> QED BY <2>2, <2>3, <2>4
<1>7. LinksAgree'
  <2> SUFFICES ASSUME NEW x \in LiveEntities
               PROVE  /\ Parent(x)' # NoEntity =>
                            Parent(x)' \in LiveEntities /\ x \in slot'[Parent(x)'[1]].children
                      /\ \A c \in slot'[x[1]].children : c \in LiveEntities /\ Parent(c)' = x
    BY <1>1 DEF LinksAgree, Children
  <2>1. Parent(x)' = IF x = child THEN parent ELSE Parent(x)
    BY <1>1 DEF Parent
  <2>2. Parent(x)' # NoEntity => Parent(x)' \in LiveEntities /\ x \in slot'[Parent(x)'[1]].children
    BY <2>1, <1>3, <1>6
  <2>3. ASSUME NEW c \in slot'[x[1]].children PROVE c \in LiveEntities /\ Parent(c)' = x
    <3>1. c \in LiveEntities /\ (IF c = child THEN x = parent ELSE Parent(c) = x)
      BY <2>3, <1>3, <1>6
    <3> QED BY <3>1, <1>1 DEF Parent
  <2> QED BY <2>2, <2>3
<1>8. roots' = {x \in LiveEntities' : Parent(x)' = NoEntity}
  <2>1. \A x \in LiveEntities : Parent(x)' = IF x = child THEN parent ELSE Parent(x)
    BY <1>1, NextLinks
  <2>2. roots = {x \in LiveEntities : Parent(x) = NoEntity}
    BY DEF HierarchyIsForest
  <2>3. parent # NoEntity
    BY <1>4
  <2> QED BY <1>1, <2>1, <2>2, <2>3
<1>9. Acyclic'
  <2> SUFFICES ASSUME NEW S \in SUBSET LiveEntities, S # {}, \A x \in S : Parent(x)' \in S
               PROVE  FALSE
    BY <1>1 DEF Acyclic
  <2>1. \A x \in S : IF x = child THEN parent \in S ELSE Parent(x) \in S
    BY <1>1 DEF Parent
  <2>2. CASE child \notin S
    BY <2>1, <2>2 DEF HierarchyIsForest, Acyclic
  <2>3. CASE child \in S
    <3>1. PICK T \in SUBSET LiveEntities :
            /\ parent \in T /\ child \notin T
            /\ \A x \in T : Parent(x) \in T \/ ~IsEntityLive(Parent(x))
      BY <1>2 DEF Ancestors
    <3>2. parent \in S \cap T
      BY <2>1, <2>3, <3>1
    <3>3. \A x \in S \cap T : Parent(x) \in S \cap T
      BY <2>1, <3>1, LiveIsLive
    <3> QED BY <3>2, <3>3 DEF HierarchyIsForest, Acyclic
  <2> QED BY <2>2, <2>3
<1> QED BY <1>7, <1>8, <1>9 DEF HierarchyIsForest

LEMMA UnparentForest ==
  ASSUME SceneTypeOK, HierarchyIsForest, NEW child \in LiveEntities,
         NEW preservation \in Preservations, Unparent(child, preservation)
  PROVE  HierarchyIsForest'
<1>1. /\ LiveEntities' = LiveEntities /\ roots' = roots \cup {child}
      /\ \A x \in LiveEntities :
            /\ slot'[x[1]].parent = IF x = child THEN NoEntity ELSE Parent(x)
            /\ slot'[x[1]].children = IF x # child /\ x = Parent(child)
                                      THEN Children(x) \ {child} ELSE Children(x)
  BY UnparentedLinks, NextLinks
<1>2. \A x \in LiveEntities :
        /\ Parent(x) # NoEntity => Parent(x) \in LiveEntities /\ x \in Children(Parent(x))
        /\ \A c \in Children(x) : c \in LiveEntities /\ Parent(c) = x
  BY DEF HierarchyIsForest, LinksAgree
<1>3. NoEntity \notin LiveEntities
  BY LiveIsLive, SceneAssumption
<1>4. \A x \in LiveEntities : Parent(x) # x
  <2> SUFFICES ASSUME NEW x \in LiveEntities, Parent(x) = x PROVE FALSE
    OBVIOUS
  <2>1. {x} \in SUBSET LiveEntities /\ {x} # {} /\ \A y \in {x} : Parent(y) \in {x}
    OBVIOUS
  <2> QED BY <2>1 DEF HierarchyIsForest, Acyclic
<1>5. \A x \in LiveEntities : \A c :
        c \in slot'[x[1]].children <=> c # child /\ c \in Children(x)
  <2> SUFFICES ASSUME NEW x \in LiveEntities
               PROVE  \A c : c \in slot'[x[1]].children <=> c # child /\ c \in Children(x)
    OBVIOUS
  <2>1. child \in Children(x) => x = Parent(child) /\ x # child
    BY <1>2, <1>4
  <2>2. CASE x # child /\ x = Parent(child)
    BY <2>2, <1>1
  <2>3. CASE ~(x # child /\ x = Parent(child))
    <3>1. slot'[x[1]].children = Children(x) /\ child \notin Children(x)
      BY <2>1, <2>3, <1>1
    <3> QED BY <3>1
  <2> QED BY <2>2, <2>3
<1>6. LinksAgree'
  <2> SUFFICES ASSUME NEW x \in LiveEntities
               PROVE  /\ Parent(x)' # NoEntity =>
                            Parent(x)' \in LiveEntities /\ x \in slot'[Parent(x)'[1]].children
                      /\ \A c \in slot'[x[1]].children : c \in LiveEntities /\ Parent(c)' = x
    BY <1>1 DEF LinksAgree, Children
  <2>1. Parent(x)' = IF x = child THEN NoEntity ELSE Parent(x)
    BY <1>1 DEF Parent
  <2>2. Parent(x)' # NoEntity => Parent(x)' \in LiveEntities /\ x \in slot'[Parent(x)'[1]].children
    BY <2>1, <1>2, <1>5
  <2>3. ASSUME NEW c \in slot'[x[1]].children PROVE c \in LiveEntities /\ Parent(c)' = x
    <3>1. c \in LiveEntities /\ c # child /\ Parent(c) = x
      BY <2>3, <1>2, <1>5
    <3> QED BY <3>1, <1>1 DEF Parent
  <2> QED BY <2>2, <2>3
<1>7. roots' = {x \in LiveEntities' : Parent(x)' = NoEntity}
  BY <1>1 DEF HierarchyIsForest, Parent
<1>8. Acyclic'
  <2> SUFFICES ASSUME NEW S \in SUBSET LiveEntities, S # {}, \A x \in S : Parent(x)' \in S
               PROVE  FALSE
    BY <1>1 DEF Acyclic
  <2>1. \A x \in S : x # child /\ Parent(x) \in S
    BY <1>1, <1>3 DEF Parent
  <2> QED BY <2>1 DEF HierarchyIsForest, Acyclic
<1> QED BY <1>6, <1>7, <1>8 DEF HierarchyIsForest

LEMMA EmptyIsForest ==
  ASSUME \A s \in Slots : slot[s].live = FALSE, roots = {}
  PROVE  HierarchyIsForest
<1>1. LiveEntities = {}
  BY DEF LiveEntities
<1> QED BY <1>1 DEF HierarchyIsForest, LinksAgree, Acyclic

\* The entities are a forest that parents, children and roots agree on, in every world.
THEOREM HierarchyStaysForest == SceneSpec => []HierarchyIsForest
<1>1. SceneInit => HierarchyIsForest
  <2>1. SceneInit => roots = {} /\ \A s \in Slots : slot[s].live = FALSE
    BY DEF SceneInit, FreeSlot
  <2> QED BY <2>1, EmptyIsForest
<1>2. SceneTypeOK /\ HierarchyIsForest /\ [SceneNext]_sceneVars => HierarchyIsForest'
  <2> SUFFICES ASSUME SceneTypeOK, HierarchyIsForest, [SceneNext]_sceneVars
               PROVE  HierarchyIsForest'
    OBVIOUS
  <2>1. ASSUME NEW s \in Slots, CreateEntity(s) PROVE HierarchyIsForest'
    BY <2>1, CreateForest
  <2>2. ASSUME NEW e \in LiveEntities, DestroyEntity(e) PROVE HierarchyIsForest'
    BY <2>2, DestroyForest
  <2>3. ASSUME NEW e \in LiveEntities, NEW t \in EditedTransforms,
               AddTransform(e, t) \/ ReplaceTransform(e, t)
        PROVE  HierarchyIsForest'
    BY <2>3, QuietForest DEF AddTransform, ReplaceTransform, SceneTypeOK, SlotRecords
  <2>4. ASSUME NEW e \in LiveEntities, RemoveTransform(e) PROVE HierarchyIsForest'
    BY <2>4, QuietForest DEF RemoveTransform, SceneTypeOK, SlotRecords
  <2>5. ASSUME NEW e \in LiveEntities, NEW parent \in LiveEntities,
               NEW preservation \in Preservations, SetParent(e, parent, preservation)
        PROVE  HierarchyIsForest'
    BY <2>5, MoveForest
  <2>6. ASSUME NEW e \in LiveEntities, NEW preservation \in Preservations,
               Unparent(e, preservation)
        PROVE  HierarchyIsForest'
    BY <2>6, UnparentForest
  <2>7. ASSUME Reset PROVE HierarchyIsForest'
    <3>1. roots' = {} /\ \A s \in Slots : slot'[s].live = FALSE
      BY <2>7 DEF Reset, FreeSlot
    <3>2. LiveEntities' = {}
      BY <3>1 DEF LiveEntities
    <3> QED BY <3>1, <3>2 DEF HierarchyIsForest, LinksAgree, Acyclic
  <2>8. ASSUME UNCHANGED sceneVars PROVE HierarchyIsForest'
    BY <2>8, QuietForest DEF sceneVars
  <2> QED BY <2>1, <2>2, <2>3, <2>4, <2>5, <2>6, <2>7, <2>8 DEF SceneNext
<1> QED BY <1>1, <1>2, SceneTypeCorrect, PTL DEF SceneSpec

-----------------------------------------------------------------------------
(* Handles and transforms.                                                 *)

LEMMA MovedGenerations ==
  ASSUME SceneTypeOK, NEW child \in LiveEntities, NEW preservation \in Preservations,
         \/ Unparent(child, preservation)
         \/ \E parent \in LiveEntities : SetParent(child, parent, preservation)
  PROVE  \A s \in Slots : slot'[s].gen = slot[s].gen /\ slot'[s].live = slot[s].live
<1>1. CASE Unparent(child, preservation)
  <2>1. \A s \in Slots : \E parent, local, children :
          \/ slot'[s] = [slot[s] EXCEPT !.parent = parent, !.local = local]
          \/ slot'[s] = [slot[s] EXCEPT !.children = children]
          \/ slot'[s] = slot[s]
    BY <1>1 DEF Unparent
  <2> QED BY <2>1 DEF SceneTypeOK, SlotRecords
<1>2. ASSUME NEW parent \in LiveEntities, SetParent(child, parent, preservation)
      PROVE  \A s \in Slots : slot'[s].gen = slot[s].gen /\ slot'[s].live = slot[s].live
  <2> DEFINE local == ProspectiveLocal(child, parent, preservation)
  <2>1. \A s \in Slots :
          \/ slot'[s] = [slot[s] EXCEPT !.parent = parent, !.local = local]
          \/ slot'[s] = [slot[s] EXCEPT !.children = @ \cup {child}]
          \/ slot'[s] = [slot[s] EXCEPT !.children = @ \ {child}]
          \/ slot'[s] = slot[s]
    BY <1>2 DEF SetParent
  <2> HIDE DEF local
  <2> QED BY <2>1 DEF SceneTypeOK, SlotRecords
<1> QED BY <1>1, <1>2

\* The generation of a slot never goes back within a world, and goes on when its entity dies.
LEMMA GenerationsGoOn ==
  ASSUME SceneTypeOK, SceneNext, ~Reset, NEW s \in Slots
  PROVE  \/ slot'[s].gen = slot[s].gen /\ (slot[s].live => slot'[s].live)
         \/ slot'[s].gen = slot[s].gen + 1
<1>1. ASSUME NEW t \in Slots, CreateEntity(t)
      PROVE  slot'[s].gen = slot[s].gen /\ (slot[s].live => slot'[s].live)
  <2>1. \A r : [FreeSlot(r) EXCEPT !.live = TRUE].gen = r
    BY DEF FreeSlot
  <2> QED BY <1>1, <2>1 DEF CreateEntity, SceneTypeOK
<1>2. ASSUME NEW d \in LiveEntities, DestroyEntity(d)
      PROVE  \/ slot'[s].gen = slot[s].gen /\ (slot[s].live => slot'[s].live)
             \/ slot'[s].gen = slot[s].gen + 1
  <2>1. \A r : Retired(r).gen = r.gen + 1
    BY DEF Retired, FreeSlot
  <2>2. \/ slot'[s] = Retired(slot[s])
        \/ slot'[s] = [slot[s] EXCEPT !.children = @ \ {d}]
        \/ slot'[s] = slot[s]
    BY <1>2 DEF DestroyEntity
  <2>3. /\ [slot[s] EXCEPT !.children = @ \ {d}].gen = slot[s].gen
        /\ [slot[s] EXCEPT !.children = @ \ {d}].live = slot[s].live
    BY DEF SceneTypeOK, SlotRecords
  <2> QED BY <2>1, <2>2, <2>3
<1>3. ASSUME NEW d \in LiveEntities, NEW t \in EditedTransforms,
             AddTransform(d, t) \/ ReplaceTransform(d, t)
      PROVE  slot'[s].gen = slot[s].gen /\ slot'[s].live = slot[s].live
  BY <1>3 DEF AddTransform, ReplaceTransform, SceneTypeOK, SlotRecords
<1>4. ASSUME NEW d \in LiveEntities, RemoveTransform(d)
      PROVE  slot'[s].gen = slot[s].gen /\ slot'[s].live = slot[s].live
  BY <1>4 DEF RemoveTransform, SceneTypeOK, SlotRecords
<1>5. ASSUME NEW d \in LiveEntities, NEW preservation \in Preservations,
             \/ Unparent(d, preservation)
             \/ \E p \in LiveEntities : SetParent(d, p, preservation)
      PROVE  slot'[s].gen = slot[s].gen /\ slot'[s].live = slot[s].live
  BY <1>5, MovedGenerations
<1> QED BY <1>1, <1>2, <1>3, <1>4, <1>5 DEF SceneNext

\* What can be told of a handle that was given out: it is of an earlier world, of an earlier
\* generation of its slot, or valid.
Outdated(e) == e[3] < worldId \/ (e[3] = worldId /\ e[2] < slot[e[1]].gen)

IssuedAreCounted == \A e \in issued : Outdated(e) \/ IsEntityLive(e)

LEMMA OutdatedStaysSo ==
  ASSUME SceneTypeOK, SceneTypeOK', [SceneNext]_sceneVars, NEW e \in Entities
  PROVE  /\ Outdated(e) => Outdated(e)'
         /\ IsEntityLive(e) => Outdated(e)' \/ IsEntityLive(e)'
<1>1. /\ e[1] \in Slots /\ e[2] \in Nat /\ e[3] \in Nat /\ worldId \in Nat
      /\ slot[e[1]].gen \in Nat
  <2>1. e[1] \in Slots /\ e[2] \in 1..MaxGeneration /\ e[3] \in 1..MaxWorlds
    BY DEF Entities
  <2>2. slot[e[1]].gen \in 1..MaxGeneration
    BY <2>1 DEF SceneTypeOK, SlotRecords
  <2>3. worldId \in 1..MaxWorlds
    BY DEF SceneTypeOK
  <2> QED BY <2>1, <2>2, <2>3, SceneAssumption
<1>2. CASE Reset
  <2>1. worldId' = worldId + 1
    BY <1>2 DEF Reset
  <2>2. Outdated(e) \/ IsEntityLive(e) => e[3] <= worldId
    BY <1>1 DEF Outdated, IsEntityLive
  <2> QED BY <1>1, <2>1, <2>2 DEF Outdated
<1>3. CASE SceneNext /\ ~Reset
  <2>1. worldId' = worldId
    BY <1>3 DEF SceneNext, CreateEntity, DestroyEntity, AddTransform, ReplaceTransform,
                RemoveTransform, SetParent, Unparent
  <2>2. \/ slot'[e[1]].gen = slot[e[1]].gen /\ (slot[e[1]].live => slot'[e[1]].live)
        \/ slot'[e[1]].gen = slot[e[1]].gen + 1
    BY <1>1, <1>3, GenerationsGoOn
  <2> QED BY <1>1, <2>1, <2>2 DEF Outdated, IsEntityLive
<1>4. CASE UNCHANGED sceneVars
  BY <1>4 DEF sceneVars, Outdated, IsEntityLive
<1> QED BY <1>2, <1>3, <1>4

\* CreateEntity returns a handle that is valid afterwards, and Reset outdates all.
LEMMA IssuedStayCounted ==
  SceneTypeOK /\ SceneTypeOK' /\ IssuedAreCounted /\ [SceneNext]_sceneVars => IssuedAreCounted'
<1> SUFFICES ASSUME SceneTypeOK, SceneTypeOK', IssuedAreCounted, [SceneNext]_sceneVars,
                    NEW e \in issued'
             PROVE  (Outdated(e) \/ IsEntityLive(e))'
  BY DEF IssuedAreCounted
<1>1. CASE e \in issued
  <2>1. e \in Entities /\ (Outdated(e) \/ IsEntityLive(e))
    BY <1>1 DEF SceneTypeOK, IssuedAreCounted
  <2> QED BY <2>1, OutdatedStaysSo
<1>2. ASSUME NEW s \in Slots, CreateEntity(s), e = EntityOf(s)
      PROVE  IsEntityLive(e)'
  <2>1. slot'[s] = [FreeSlot(slot[s].gen) EXCEPT !.live = TRUE] /\ worldId' = worldId
    BY <1>2 DEF CreateEntity, SceneTypeOK
  <2>2. slot'[s].live = TRUE /\ slot'[s].gen = slot[s].gen
    BY <2>1 DEF FreeSlot
  <2>3. e \in Entities
    BY DEF SceneTypeOK
  <2> QED BY <1>2, <2>1, <2>2, <2>3 DEF IsEntityLive, EntityOf
<1>3. ASSUME Reset, e[3] <= worldId, e \in Entities
      PROVE  Outdated(e)'
  <2>1. e[3] \in Nat /\ worldId \in Nat /\ worldId' = worldId + 1
    BY <1>3, SceneAssumption DEF Entities, SceneTypeOK, Reset
  <2> QED BY <1>3, <2>1 DEF Outdated
<1>4. \/ e \in issued
      \/ \E s \in Slots : CreateEntity(s) /\ e = EntityOf(s)
      \/ Reset /\ e[3] <= worldId /\ e \in Entities
  BY DEF SceneNext, sceneVars, CreateEntity, DestroyEntity, AddTransform, ReplaceTransform,
         RemoveTransform, SetParent, Unparent, Reset
<1> QED BY <1>1, <1>2, <1>3, <1>4

\* A handle that has become stale stays so.
THEOREM StaleHandlesStayStale == SceneSpec => StaleStayStale
<1>1. SceneInit => IssuedAreCounted
  BY DEF SceneInit, IssuedAreCounted
<1>2. SceneTypeOK /\ SceneTypeOK' /\ IssuedAreCounted /\ [SceneNext]_sceneVars =>
        [\A e \in issued : ~IsEntityLive(e) => ~IsEntityLive(e)']_sceneVars
  <2> SUFFICES ASSUME SceneTypeOK, SceneTypeOK', IssuedAreCounted, [SceneNext]_sceneVars,
                      NEW e \in issued, ~IsEntityLive(e)
               PROVE  ~IsEntityLive(e)'
    OBVIOUS
  <2>1. e \in Entities /\ Outdated(e)
    BY DEF SceneTypeOK, IssuedAreCounted
  <2>2. Outdated(e)'
    BY <2>1, OutdatedStaysSo
  <2>3. e[2] \in Nat /\ e[3] \in Nat /\ worldId' \in Nat /\ slot'[e[1]].gen \in Nat
    BY <2>1, SceneAssumption DEF Entities, SceneTypeOK, SlotRecords
  <2> QED BY <2>2, <2>3 DEF Outdated, IsEntityLive
<1> QED BY <1>1, <1>2, IssuedStayCounted, SceneTypeCorrect, PTL DEF SceneSpec, StaleStayStale

\* Where TryRelativeTo finds a transform, TryCompose leads from the parent back to the world
\* transform: that is what keeps an entity in place when SetParent preserves its world
\* transform.
THEOREM RelativeIsExact ==
  ASSUME NEW world \in [turn : Turns, stretch : Int], NEW parent \in [turn : Turns, stretch : Int],
         TryRelativeTo(world, parent) # NoTransform
  PROVE  TryCompose(parent, TryRelativeTo(world, parent)) = world
<1> DEFINE turned == Turned(world, 4 - parent.turn)
           back == TryRelativeTo(world, parent)
<1>1. /\ parent.turn \in Turns /\ parent.stretch \in Int
      /\ world = [turn |-> world.turn, stretch |-> world.stretch]
      /\ world.turn \in Turns /\ world.stretch \in Int /\ world # NoTransform
  BY TransformAssumption
<1>2. turned = [turn |-> (world.turn + (4 - parent.turn)) % 4, stretch |-> world.stretch]
  BY <1>1 DEF Turned
<1>3. turned.turn \in Turns /\ (turned.turn + parent.turn) % 4 = world.turn
  BY <1>1, <1>2 DEF Turns
<1>4. back = Stretched(turned, -parent.stretch)
  BY DEF TryRelativeTo
<1> HIDE DEF turned, back
<1>5. \/ /\ parent.stretch = 0 \/ turned.turn = 0
         /\ back = [turned EXCEPT !.stretch = @ - parent.stretch]
      \/ /\ parent.stretch # 0 /\ turned.turn = 2
         /\ back = [turned EXCEPT !.stretch = @ + parent.stretch]
  BY <1>1, <1>2, <1>4 DEF Stretched, back
<1>6. Stretched(back, parent.stretch) = turned
  BY <1>1, <1>2, <1>5 DEF Stretched
<1>7. Turned(turned, parent.turn) = world
  BY <1>1, <1>2, <1>3, TransformAssumption DEF Turned
<1> QED BY <1>6, <1>7 DEF TryCompose, back

-----------------------------------------------------------------------------
(* Where entities stand.  HierarchyWorld is a recursive function over the  *)
(* hierarchy: that it solves its equation follows from the forest, where   *)
(* each set of entities has one whose parent is not in the set.            *)

Standing(x, g) ==
    IF Parent(x) = NoEntity THEN Local(x)
    ELSE LET above == g[Parent(x)]
         IN  IF above # NoTransform
             THEN IF Local(x) = NoTransform THEN above
                  ELSE TryCompose(above, Local(x))
             ELSE IF HasTransformInHierarchy(Parent(x)) THEN NoTransform
                  ELSE Local(x)

\* g says where each entity of S stands.
Stands(g, S) == g = [x \in S |-> Standing(x, g)]

UpClosed(S) == S \subseteq LiveEntities /\ \A x \in S : Parent(x) = NoEntity \/ Parent(x) \in S

LEMMA StandingsAgree ==
  ASSUME Acyclic, NEW C, NEW D, UpClosed(C), UpClosed(D),
         NEW g, NEW h, Stands(g, C), Stands(h, D), NEW e \in C \cap D
  PROVE  g[e] = h[e]
<1> DEFINE Apart == {x \in C \cap D : g[x] # h[x]}
<1>1. SUFFICES ASSUME Apart # {} PROVE FALSE
  OBVIOUS
<1>2. Apart \in SUBSET LiveEntities
  BY DEF UpClosed
<1>3. PICK x \in Apart : Parent(x) \notin Apart
  <2> HIDE DEF Apart
  <2> QED BY <1>1, <1>2 DEF Acyclic
<1>4. g[x] = Standing(x, g) /\ h[x] = Standing(x, h)
  BY DEF Stands
<1>5. Parent(x) = NoEntity \/ g[Parent(x)] = h[Parent(x)]
  BY <1>3 DEF UpClosed
<1>6. Standing(x, g) = Standing(x, h)
  BY <1>5 DEF Standing
<1> QED BY <1>4, <1>6

LEMMA EachStands ==
  ASSUME SceneTypeOK, HierarchyIsForest, NEW e \in LiveEntities
  PROVE  \E C, g : e \in C /\ UpClosed(C) /\ Stands(g, C)
<1> DEFINE Founded(x) == \E C, g : x \in C /\ UpClosed(C) /\ Stands(g, C)
           Lacking == {x \in LiveEntities : ~Founded(x)}
<1>1. SUFFICES ASSUME Lacking # {} PROVE FALSE
  OBVIOUS
<1>2. PICK x \in Lacking : Parent(x) \notin Lacking
  <2>1. Lacking \in SUBSET LiveEntities
    OBVIOUS
  <2> HIDE DEF Lacking
  <2> QED BY <1>1, <2>1 DEF HierarchyIsForest, Acyclic
<1>3. x \in LiveEntities /\ ~Founded(x)
  OBVIOUS
<1>4. CASE Parent(x) = NoEntity
  <2>1. UpClosed({x})
    BY <1>3, <1>4 DEF UpClosed
  <2>2. Stands([y \in {x} |-> Local(x)], {x})
    BY <1>4 DEF Stands, Standing
  <2> QED BY <2>1, <2>2, <1>3
<1>5. CASE Parent(x) # NoEntity
  <2>1. Parent(x) \in LiveEntities
    BY <1>3, <1>5 DEF HierarchyIsForest, LinksAgree
  <2>2. PICK C, g : Parent(x) \in C /\ UpClosed(C) /\ Stands(g, C)
    BY <1>2, <2>1
  <2> DEFINE D == C \cup {x}
             h == [y \in D |-> IF y \in C THEN g[y] ELSE Standing(x, g)]
  <2>3. x \notin C
    BY <2>2, <1>3
  <2>4. UpClosed(D)
    BY <2>2, <1>3 DEF UpClosed
  <2>5. \A y \in D : Parent(y) = NoEntity \/ h[Parent(y)] = g[Parent(y)]
    BY <2>2 DEF UpClosed
  <2>6. ASSUME NEW y \in D PROVE Standing(y, h) = Standing(y, g)
    <3>1. Parent(y) = NoEntity \/ h[Parent(y)] = g[Parent(y)]
      BY <2>5
    <3> HIDE DEF h, D
    <3> QED BY <3>1 DEF Standing
  <2>7. \A y \in D : h[y] = Standing(y, h)
    <3>1. \A y \in C : g[y] = Standing(y, g)
      BY <2>2 DEF Stands
    <3>2. \A y \in D : h[y] = IF y \in C THEN g[y] ELSE Standing(x, g)
      OBVIOUS
    <3>3. \A y \in D : y \in C \/ y = x
      OBVIOUS
    <3> HIDE DEF h, D
    <3> QED BY <2>6, <3>1, <3>2, <3>3
  <2>8. h = [y \in D |-> h[y]] /\ x \in D
    OBVIOUS
  <2> HIDE DEF h, D
  <2>9. Stands(h, D)
    BY <2>7, <2>8 DEF Stands
  <2> QED BY <2>4, <2>8, <2>9, <1>3
<1> QED BY <1>4, <1>5

LEMMA SomeStanding ==
  ASSUME SceneTypeOK, HierarchyIsForest
  PROVE  \E g : Stands(g, LiveEntities)
<1> DEFINE Says(x, v) == \E C, g : x \in C /\ UpClosed(C) /\ Stands(g, C) /\ v = g[x]
           whole == [x \in LiveEntities |-> CHOOSE v : Says(x, v)]
<1>1. ASSUME NEW C, NEW g, UpClosed(C), Stands(g, C), NEW x \in C
      PROVE  whole[x] = g[x]
  <2>1. Says(x, g[x])
    BY <1>1
  <2>2. x \in LiveEntities
    BY <1>1 DEF UpClosed
  <2>3. whole[x] = CHOOSE v : Says(x, v)
    BY <2>2
  <2>4. Says(x, whole[x])
    <3> HIDE DEF Says
    <3> QED BY <2>1, <2>3
  <2> HIDE DEF whole
  <2> QED BY <2>4, <1>1, StandingsAgree DEF HierarchyIsForest
<1>2. ASSUME NEW x \in LiveEntities PROVE whole[x] = Standing(x, whole)
  <2>1. PICK C, g : x \in C /\ UpClosed(C) /\ Stands(g, C)
    BY EachStands
  <2> HIDE DEF whole
  <2>2. whole[x] = g[x] /\ g[x] = Standing(x, g)
    BY <1>1, <2>1 DEF Stands
  <2>3. Parent(x) = NoEntity \/ whole[Parent(x)] = g[Parent(x)]
    BY <1>1, <2>1 DEF UpClosed
  <2>4. Standing(x, whole) = Standing(x, g)
    BY <2>3 DEF Standing
  <2> QED BY <2>2, <2>4
<1>3. whole = [x \in LiveEntities |-> whole[x]]
  OBVIOUS
<1> HIDE DEF whole
<1>4. Stands(whole, LiveEntities)
  BY <1>2, <1>3 DEF Stands
<1> QED BY <1>4

\* Where entities stand, and above which of them somebody has a transform, as functions.
Worlds == [x \in LiveEntities |-> HierarchyWorld(x)]
Moving == [x \in LiveEntities |-> HasTransformInHierarchy(x)]

\* Where an entity stands, under a parent that stands at above.
Placed(above, local, moving) ==
    IF above # NoTransform
    THEN IF local = NoTransform THEN above ELSE TryCompose(above, local)
    ELSE IF moving THEN NoTransform ELSE local

WorldEquations ==
    \A x \in LiveEntities :
        /\ Worlds[x] = IF Parent(x) = NoEntity THEN Local(x)
                       ELSE Placed(Worlds[Parent(x)], Local(x), Moving[Parent(x)])
        /\ Moving[x] = (Local(x) # NoTransform \/ (Parent(x) # NoEntity /\ Moving[Parent(x)]))

LEMMA AncestorsGoUp ==
  ASSUME SceneTypeOK, HierarchyIsForest, NEW e \in LiveEntities
  PROVE  /\ e \in Ancestors(e) /\ Ancestors(e) \subseteq LiveEntities
         /\ Parent(e) = NoEntity => Ancestors(e) = {e}
         /\ Parent(e) # NoEntity => Ancestors(e) = {e} \cup Ancestors(Parent(e))
<1> DEFINE Closed(x, S) ==
        x \in S /\ \A y \in S : Parent(y) \in S \/ ~IsEntityLive(Parent(y))
<1>1. \A x, a : a \in Ancestors(x) <=>
              a \in LiveEntities /\ \A S \in SUBSET LiveEntities : Closed(x, S) => a \in S
  BY DEF Ancestors
<1>2. \A x \in LiveEntities : Parent(x) = NoEntity \/ Parent(x) \in LiveEntities
  BY DEF HierarchyIsForest, LinksAgree
<1>3. \A x \in LiveEntities : IsEntityLive(x)
  BY LiveIsLive
<1>4. ~IsEntityLive(NoEntity)
  BY SceneAssumption DEF IsEntityLive
<1>5. ASSUME NEW x \in LiveEntities
      PROVE  x \in Ancestors(x) /\ Ancestors(x) \in SUBSET LiveEntities
             /\ Closed(x, Ancestors(x))
  <2>1. x \in Ancestors(x) /\ Ancestors(x) \in SUBSET LiveEntities
    BY <1>1
  <2>2. ASSUME NEW y \in Ancestors(x), IsEntityLive(Parent(y)) PROVE Parent(y) \in Ancestors(x)
    <3>1. Parent(y) \in LiveEntities
      BY <1>2, <1>4, <2>1, <2>2
    <3>2. ASSUME NEW S \in SUBSET LiveEntities, Closed(x, S) PROVE Parent(y) \in S
      <4>1. y \in S
        BY <1>1, <3>2
      <4> QED BY <4>1, <2>2, <3>2
    <3> HIDE DEF Closed
    <3> QED BY <3>1, <3>2, <1>1
  <2> QED BY <2>1, <2>2
<1>6. CASE Parent(e) = NoEntity
  <2>1. Closed(e, {e}) /\ {e} \in SUBSET LiveEntities
    BY <1>4, <1>6
  <2>2. \A a \in Ancestors(e) : a \in {e}
    <3> HIDE DEF Closed
    <3> QED BY <1>1, <2>1
  <2> QED BY <2>2, <1>5, <1>6
<1>7. CASE Parent(e) # NoEntity
  <2> DEFINE p == Parent(e)
             A == {e} \cup Ancestors(p)
  <2>1. p \in LiveEntities /\ IsEntityLive(p)
    BY <1>2, <1>3, <1>7
  <2>2. p \in Ancestors(p) /\ Ancestors(p) \in SUBSET LiveEntities /\ Closed(p, Ancestors(p))
    BY <1>5, <2>1
  <2>3. A \in SUBSET LiveEntities /\ Closed(e, A)
    BY <2>2
  <2>4. \A a \in Ancestors(e) : a \in A
    <3> HIDE DEF Closed, A
    <3> QED BY <1>1, <2>3
  <2>5. ASSUME NEW a \in Ancestors(p) PROVE a \in Ancestors(e)
    <3>1. a \in LiveEntities
      BY <2>2
    <3>2. ASSUME NEW S \in SUBSET LiveEntities, Closed(e, S) PROVE a \in S
      <4>1. Closed(p, S)
        BY <2>1, <3>2
      <4> HIDE DEF Closed, p
      <4> QED BY <4>1, <1>1, <2>5
    <3> HIDE DEF Closed
    <3> QED BY <3>1, <3>2, <1>1
  <2> HIDE DEF p
  <2> QED BY <2>4, <2>5, <1>5, <1>7 DEF p
<1> QED BY <1>5, <1>6, <1>7

LEMMA WorldsSolve == SceneTypeOK /\ HierarchyIsForest => WorldEquations
<1> SUFFICES ASSUME SceneTypeOK, HierarchyIsForest PROVE WorldEquations
  OBVIOUS
<1>1. PICK g : Stands(g, LiveEntities) /\ \A x \in LiveEntities : HierarchyWorld(x) = g[x]
  <2> DEFINE g == CHOOSE g : Stands(g, LiveEntities)
  <2>1. Stands(g, LiveEntities)
    BY SomeStanding
  <2>2. \A x \in LiveEntities : HierarchyWorld(x) = g[x]
    BY Zenon DEF HierarchyWorld, Stands, Standing
  <2> QED BY <2>1, <2>2
<1>2. \A x \in LiveEntities : Parent(x) = NoEntity \/ Parent(x) \in LiveEntities
  BY DEF HierarchyIsForest, LinksAgree
<1>3. ASSUME NEW x \in LiveEntities
      PROVE  Worlds[x] = IF Parent(x) = NoEntity THEN Local(x)
                         ELSE Placed(Worlds[Parent(x)], Local(x), Moving[Parent(x)])
  <2>1. Worlds[x] = Standing(x, g)
    BY <1>1 DEF Worlds, Stands
  <2>2. CASE Parent(x) = NoEntity
    BY <2>1, <2>2 DEF Standing
  <2>3. CASE Parent(x) # NoEntity
    <3>1. /\ Worlds[Parent(x)] = g[Parent(x)]
          /\ Moving[Parent(x)] = HasTransformInHierarchy(Parent(x))
      BY <1>1, <1>2, <2>3 DEF Worlds, Moving
    <3>2. Worlds[x] = Placed(g[Parent(x)], Local(x), HasTransformInHierarchy(Parent(x)))
      BY <2>1, <2>3 DEF Standing, Placed
    <3> QED BY <2>3, <3>1, <3>2
  <2> QED BY <2>2, <2>3
<1>4. ASSUME NEW x \in LiveEntities
      PROVE  Moving[x] = (Local(x) # NoTransform \/ (Parent(x) # NoEntity /\ Moving[Parent(x)]))
  <2>1. Moving[x] = HasTransformInHierarchy(x)
    BY DEF Moving
  <2>2. CASE Parent(x) = NoEntity
    <3>1. Ancestors(x) = {x}
      BY <2>2, AncestorsGoUp
    <3> QED BY <2>1, <2>2, <3>1 DEF HasTransformInHierarchy
  <2>3. CASE Parent(x) # NoEntity
    <3>1. Ancestors(x) = {x} \cup Ancestors(Parent(x))
      BY <2>3, AncestorsGoUp
    <3>2. HasTransformInHierarchy(x) =
              (Local(x) # NoTransform \/ HasTransformInHierarchy(Parent(x)))
      BY <3>1 DEF HasTransformInHierarchy
    <3>3. Moving[Parent(x)] = HasTransformInHierarchy(Parent(x))
      BY <1>2, <2>3 DEF Moving
    <3> QED BY <2>1, <2>3, <3>2, <3>3
  <2> QED BY <2>2, <2>3
<1> QED BY <1>3, <1>4 DEF WorldEquations

\* Where x stands when w says where the others do, and m under whom somebody has a transform.
Place(x, up, own, w, m) ==
    IF up[x] = NoEntity THEN own[x] ELSE Placed(w[up[x]], own[x], m[up[x]])

Solves(L, up, own, w, m) ==
    \A x \in L :
        /\ w[x] = Place(x, up, own, w, m)
        /\ m[x] = (own[x] # NoTransform \/ (up[x] # NoEntity /\ m[up[x]]))

\* Of a forest L with the links up, the tree S below child is hung up elsewhere in up2.
Rehung(L, S, child, up, own, up2, own2) ==
    /\ S \in SUBSET L /\ child \in S /\ NoEntity \notin L
    /\ \A T \in SUBSET L : T # {} => \E x \in T : up[x] \notin T
    /\ \A x \in S : x # child => up[x] \in S
    /\ \A x \in L \ S : up[x] = NoEntity \/ up[x] \in L \ S
    /\ \A x \in L : x # child => up2[x] = up[x] /\ own2[x] = own[x]
    /\ up2[child] = NoEntity \/ up2[child] \in L \ S
    /\ own[child] # NoTransform /\ own2[child] # NoTransform

\* Where child stays in place, all of S does.
LEMMA PlacesStay ==
  ASSUME NEW L, NEW S, NEW child,
         NEW up, NEW own, NEW w, NEW m, NEW up2, NEW own2, NEW w2, NEW m2,
         Rehung(L, S, child, up, own, up2, own2),
         Solves(L, up, own, w, m), Solves(L, up2, own2, w2, m2),
         Place(child, up2, own2, w, m) = w[child]
  PROVE  \A d \in S : w2[d] = w[d]
<1> USE DEF Rehung
<1>1. ASSUME NEW T \in SUBSET L, T # {} PROVE \E x \in T : up[x] \notin T
  BY <1>1
<1>2. \A x \in L \ S : w2[x] = w[x] /\ m2[x] = m[x]
  <2> DEFINE Apart == {x \in L \ S : ~(w2[x] = w[x] /\ m2[x] = m[x])}
  <2>1. SUFFICES ASSUME Apart # {} PROVE FALSE
    OBVIOUS
  <2>2. PICK x \in Apart : up[x] \notin Apart
    <3>1. Apart \in SUBSET L
      OBVIOUS
    <3> HIDE DEF Apart
    <3> QED BY <1>1, <2>1, <3>1
  <2>3. up2[x] = up[x] /\ own2[x] = own[x] /\ x \in L /\ x \notin S
    OBVIOUS
  <2>4. up[x] = NoEntity \/ (w2[up[x]] = w[up[x]] /\ m2[up[x]] = m[up[x]])
    BY <2>2, <2>3
  <2>5. Place(x, up2, own2, w2, m2) = Place(x, up, own, w, m)
    BY <2>3, <2>4 DEF Place
  <2>6. w2[x] = w[x]
    BY <2>3, <2>5 DEF Solves
  <2>7. m2[x] = m[x]
    BY <2>3, <2>4 DEF Solves
  <2> QED BY <2>2, <2>6, <2>7
<1>3. \A x \in S : m[x] /\ m2[x]
  <2> DEFINE Still == {x \in S : ~(m[x] /\ m2[x])}
  <2>1. SUFFICES ASSUME Still # {} PROVE FALSE
    OBVIOUS
  <2>2. PICK x \in Still : up[x] \notin Still
    <3>1. Still \in SUBSET L
      OBVIOUS
    <3> HIDE DEF Still
    <3> QED BY <1>1, <2>1, <3>1
  <2>3. x \in L /\ x \in S
    OBVIOUS
  <2>4. CASE x = child
    BY <2>2, <2>3, <2>4 DEF Solves
  <2>5. CASE x # child
    <3>1. up2[x] = up[x] /\ up[x] \in S /\ up[x] # NoEntity /\ m[up[x]] /\ m2[up[x]]
      BY <2>2, <2>3, <2>5
    <3> QED BY <2>2, <2>3, <3>1 DEF Solves
  <2> QED BY <2>4, <2>5
<1>4. w2[child] = w[child]
  <2>1. up2[child] = NoEntity \/ (w2[up2[child]] = w[up2[child]] /\ m2[up2[child]] = m[up2[child]])
    BY <1>2
  <2>2. Place(child, up2, own2, w2, m2) = Place(child, up2, own2, w, m)
    BY <2>1 DEF Place
  <2> QED BY <2>2 DEF Solves
<1> DEFINE Apart == {x \in S : w2[x] # w[x]}
<1>5. SUFFICES ASSUME Apart # {} PROVE FALSE
  OBVIOUS
<1>6. PICK x \in Apart : up[x] \notin Apart
  <2>1. Apart \in SUBSET L
    OBVIOUS
  <2> HIDE DEF Apart
  <2> QED BY <1>1, <1>5, <2>1
<1>7. x \in L /\ x \in S /\ w2[x] # w[x] /\ x # child
  BY <1>4, <1>6
<1>8. /\ up2[x] = up[x] /\ own2[x] = own[x]
      /\ up[x] \in S /\ w2[up[x]] = w[up[x]] /\ m[up[x]] /\ m2[up[x]]
  BY <1>3, <1>6, <1>7
<1>9. Place(x, up2, own2, w2, m2) = Place(x, up, own, w, m)
  BY <1>8 DEF Place, Placed
<1> QED BY <1>7, <1>9 DEF Solves

LEMMA ComposedIsTransform ==
  ASSUME NEW parent \in [turn : Turns, stretch : Int], NEW local \in [turn : Turns, stretch : Int]
  PROVE  TryCompose(parent, local) \in [turn : Turns, stretch : Int] \cup {NoTransform}
<1>1. Stretched(local, parent.stretch) \in [turn : Turns, stretch : Int] \cup {NoTransform}
  <2>1. parent.stretch \in Int /\ local.turn \in Turns /\ local.stretch \in Int
    OBVIOUS
  <2>2. /\ [local EXCEPT !.stretch = @ + parent.stretch] \in [turn : Turns, stretch : Int]
        /\ [local EXCEPT !.stretch = @ - parent.stretch] \in [turn : Turns, stretch : Int]
    BY <2>1
  <2>3. \/ Stretched(local, parent.stretch) = [local EXCEPT !.stretch = @ + parent.stretch]
        \/ Stretched(local, parent.stretch) = [local EXCEPT !.stretch = @ - parent.stretch]
        \/ Stretched(local, parent.stretch) = NoTransform
    BY <2>1 DEF Stretched
  <2> QED BY <2>2, <2>3
<1>2. ASSUME NEW t \in [turn : Turns, stretch : Int] \cup {NoTransform}
      PROVE  Turned(t, parent.turn) \in [turn : Turns, stretch : Int] \cup {NoTransform}
  <2>1. t # NoTransform => (t.turn + parent.turn) % 4 \in Turns
    BY DEF Turns
  <2> QED BY <2>1 DEF Turned
<1> QED BY <1>1, <1>2 DEF TryCompose

LEMMA WorldsAreTransforms ==
  ASSUME SceneTypeOK, HierarchyIsForest, NEW e \in LiveEntities
  PROVE  Worlds[e] \in [turn : Turns, stretch : Int] \cup {NoTransform}
<1> DEFINE T == [turn : Turns, stretch : Int]
           Odd == {x \in LiveEntities : Worlds[x] \notin T \cup {NoTransform}}
<1>1. SUFFICES ASSUME Odd # {} PROVE FALSE
  OBVIOUS
<1>2. PICK x \in Odd : Parent(x) \notin Odd
  <2>1. Odd \in SUBSET LiveEntities
    OBVIOUS
  <2> HIDE DEF Odd
  <2> QED BY <1>1, <2>1 DEF HierarchyIsForest, Acyclic
<1>3. x \in LiveEntities /\ Worlds[x] \notin T \cup {NoTransform}
  BY <1>2
<1>4. Local(x) \in T \cup {NoTransform}
  <2>1. x[1] \in Slots
    BY <1>3, LiveIsLive
  <2>2. slot[x[1]].local \in Transforms \cup {NoTransform}
    BY <2>1 DEF SceneTypeOK, SlotRecords
  <2>3. Transforms \subseteq T
    BY TransformAssumption DEF Transforms
  <2> QED BY <2>2, <2>3 DEF Local
<1>5. Worlds[x] = IF Parent(x) = NoEntity THEN Local(x)
                  ELSE Placed(Worlds[Parent(x)], Local(x), Moving[Parent(x)])
  BY <1>3, WorldsSolve DEF WorldEquations
<1>6. Parent(x) # NoEntity => Worlds[Parent(x)] \in T \cup {NoTransform}
  <2>1. Parent(x) # NoEntity => Parent(x) \in LiveEntities
    BY <1>3 DEF HierarchyIsForest, LinksAgree
  <2> QED BY <1>2, <2>1
<1> HIDE DEF T, Odd
<1>7. \A above \in T, local \in T : TryCompose(above, local) \in T \cup {NoTransform}
  BY ComposedIsTransform DEF T
<1> QED BY <1>3, <1>4, <1>5, <1>6, <1>7 DEF Placed

\* A child with a transform that is hung up elsewhere and stays in place keeps what hangs
\* below it in place.
LEMMA MovedInPlace ==
  ASSUME SceneTypeOK, HierarchyIsForest, WorldEquations', LiveEntities' = LiveEntities,
         NEW child \in LiveEntities, NEW above, NEW local,
         above = NoEntity \/ above \in LiveEntities \ Subtree(child),
         Local(child) # NoTransform, local # NoTransform,
         \A x \in LiveEntities :
            /\ slot'[x[1]].parent = IF x = child THEN above ELSE Parent(x)
            /\ slot'[x[1]].local = IF x = child THEN local ELSE Local(x),
         (IF above = NoEntity THEN local ELSE Placed(Worlds[above], local, Moving[above]))
            = Worlds[child]
  PROVE  \A d \in Subtree(child) : Worlds'[d] = Worlds[d]
<1> DEFINE L == LiveEntities
           S == Subtree(child)
           up == [x \in L |-> Parent(x)]
           own == [x \in L |-> Local(x)]
           up2 == [x \in L |-> slot'[x[1]].parent]
           own2 == [x \in L |-> slot'[x[1]].local]
<1>1. S \in SUBSET L /\ child \in S
  BY SubtreeIsClosed
<1>2. NoEntity \notin L
  BY LiveIsLive, SceneAssumption
<1>3. \A x \in L :
        /\ Parent(x) # NoEntity => Parent(x) \in L /\ x \in Children(Parent(x))
        /\ \A c \in Children(x) : c \in L /\ Parent(c) = x
  BY DEF HierarchyIsForest, LinksAgree
<1>4. \A x \in L : /\ up[x] = Parent(x) /\ own[x] = Local(x)
                   /\ up2[x] = slot'[x[1]].parent /\ own2[x] = slot'[x[1]].local
  OBVIOUS
<1>5. WorldEquations
  BY WorldsSolve
<1>6. \A x \in L :
        /\ Worlds'[x] = IF slot'[x[1]].parent = NoEntity THEN slot'[x[1]].local
                        ELSE Placed(Worlds'[slot'[x[1]].parent], slot'[x[1]].local,
                                    Moving'[slot'[x[1]].parent])
        /\ Moving'[x] = (slot'[x[1]].local # NoTransform
                            \/ (slot'[x[1]].parent # NoEntity /\ Moving'[slot'[x[1]].parent]))
  BY DEF WorldEquations, Parent, Local
<1>7. ASSUME NEW x \in S, x # child PROVE Parent(x) \in S
  <2>1. PICK y \in S : x \in Children(y)
    BY <1>7, SubtreeIsClosed
  <2> QED BY <2>1, <1>1, <1>3
<1>8. ASSUME NEW x \in L \ S PROVE Parent(x) = NoEntity \/ Parent(x) \in L \ S
  <2>1. \A y \in S : Children(y) \cap L \subseteq S
    BY SubtreeIsClosed
  <2> QED BY <2>1, <1>3
<1>9. \A T \in SUBSET L : T # {} => \E x \in T : up[x] \notin T
  <2>1. \A T \in SUBSET L : T # {} => \E x \in T : Parent(x) \notin T
    BY DEF HierarchyIsForest, Acyclic
  <2> HIDE DEF up, L
  <2> QED BY <2>1, <1>4
<1> HIDE DEF L, S, up, own, up2, own2
<1>10. Solves(L, up, own, Worlds, Moving)
  <2>1. ASSUME NEW x \in L
        PROVE  /\ Worlds[x] = Place(x, up, own, Worlds, Moving)
               /\ Moving[x] = (own[x] # NoTransform \/ (up[x] # NoEntity /\ Moving[up[x]]))
    <3>1. up[x] = Parent(x) /\ own[x] = Local(x)
      BY <1>4
    <3> QED BY <3>1, <1>5 DEF WorldEquations, Place, L
  <2> QED BY <2>1 DEF Solves
<1>11. Solves(L, up2, own2, Worlds', Moving')
  <2>1. ASSUME NEW x \in L
        PROVE  /\ Worlds'[x] = Place(x, up2, own2, Worlds', Moving')
               /\ Moving'[x] = (own2[x] # NoTransform \/ (up2[x] # NoEntity /\ Moving'[up2[x]]))
    <3>1. up2[x] = slot'[x[1]].parent /\ own2[x] = slot'[x[1]].local
      BY <1>4
    <3> QED BY <3>1, <1>6 DEF Place
  <2> QED BY <2>1 DEF Solves
<1>12. up2[child] = above /\ own2[child] = local /\ own[child] = Local(child)
  BY <1>4 DEF L
<1>13. \A x \in L : x # child => up2[x] = up[x] /\ own2[x] = own[x]
  BY <1>4 DEF L
<1>14. Place(child, up2, own2, Worlds, Moving) = Worlds[child]
  BY <1>12 DEF Place
<1>15. \A x \in S : x # child => up[x] \in S
  BY <1>1, <1>4, <1>7
<1>16. \A x \in L \ S : up[x] = NoEntity \/ up[x] \in L \ S
  BY <1>4, <1>8
<1>17. above = NoEntity \/ above \in L \ S
  BY DEF L, S
<1> DEFINE w2 == Worlds'
           m2 == Moving'
<1>18. own[child] # NoTransform /\ own2[child] # NoTransform
  BY <1>12
<1>19. up2[child] = NoEntity \/ up2[child] \in L \ S
  BY <1>12, <1>17
<1> HIDE DEF w2, m2
<1>20. \A d \in S : w2[d] = Worlds[d]
  <2>1. Solves(L, up2, own2, w2, m2)
    BY <1>11 DEF w2, m2
  <2>2. Rehung(L, S, child, up, own, up2, own2)
    BY <1>1, <1>2, <1>9, <1>13, <1>15, <1>16, <1>18, <1>19 DEF Rehung
  <2> QED BY <1>10, <2>1, <2>2, <1>14, PlacesStay
<1> QED BY <1>20 DEF S, w2

LEMMA MovedLocals ==
  ASSUME SceneTypeOK, NEW child \in LiveEntities, NEW parent \in LiveEntities,
         NEW preservation \in Preservations, SetParent(child, parent, preservation)
  PROVE  \A x \in LiveEntities :
            slot'[x[1]].local = IF x = child THEN ProspectiveLocal(child, parent, preservation)
                                ELSE Local(x)
<1> DEFINE local == ProspectiveLocal(child, parent, preservation)
<1>1. \A s \in Slots : slot'[s] =
            IF s = child[1] THEN [slot[s] EXCEPT !.parent = parent, !.local = local]
            ELSE IF s = parent[1] THEN [slot[s] EXCEPT !.children = @ \cup {child}]
            ELSE IF Parent(child) = EntityOf(s) THEN [slot[s] EXCEPT !.children = @ \ {child}]
            ELSE slot[s]
  BY DEF SetParent
<1> HIDE DEF local
<1> SUFFICES ASSUME NEW x \in LiveEntities
             PROVE  slot'[x[1]].local = IF x = child THEN local ELSE Local(x)
  BY DEF local
<1>2. x[1] \in Slots /\ slot[x[1]] \in SlotRecords /\ (x[1] = child[1] <=> x = child)
  BY LiveIsLive DEF SceneTypeOK
<1>3. ASSUME NEW r \in SlotRecords
      PROVE  /\ [r EXCEPT !.parent = parent, !.local = local].local = local
             /\ [r EXCEPT !.children = @ \cup {child}].local = r.local
             /\ [r EXCEPT !.children = @ \ {child}].local = r.local
  BY DEF SlotRecords
<1>4. CASE x = child
  <2>1. slot'[x[1]] = [slot[x[1]] EXCEPT !.parent = parent, !.local = local]
    BY <1>1, <1>2, <1>4
  <2> QED BY <2>1, <1>2, <1>3, <1>4
<1>5. CASE x # child
  <2>1. \/ slot'[x[1]] = [slot[x[1]] EXCEPT !.children = @ \cup {child}]
        \/ slot'[x[1]] = [slot[x[1]] EXCEPT !.children = @ \ {child}]
        \/ slot'[x[1]] = slot[x[1]]
    BY <1>1, <1>2, <1>5
  <2> QED BY <2>1, <1>2, <1>3, <1>5 DEF Local
<1> QED BY <1>4, <1>5

LEMMA UnparentedLocals ==
  ASSUME SceneTypeOK, NEW child \in LiveEntities,
         NEW preservation \in Preservations, Unparent(child, preservation)
  PROVE  \A x \in LiveEntities :
            slot'[x[1]].local = IF x = child THEN UnparentedLocal(child, preservation)
                                ELSE Local(x)
<1> DEFINE local == UnparentedLocal(child, preservation)
<1>1. \A s \in Slots : slot'[s] =
            IF s = child[1] THEN [slot[s] EXCEPT !.parent = NoEntity, !.local = local]
            ELSE IF Parent(child) = EntityOf(s) THEN [slot[s] EXCEPT !.children = @ \ {child}]
            ELSE slot[s]
  BY DEF Unparent
<1> HIDE DEF local
<1> SUFFICES ASSUME NEW x \in LiveEntities
             PROVE  slot'[x[1]].local = IF x = child THEN local ELSE Local(x)
  BY DEF local
<1>2. x[1] \in Slots /\ slot[x[1]] \in SlotRecords /\ (x[1] = child[1] <=> x = child)
  BY LiveIsLive DEF SceneTypeOK
<1>3. ASSUME NEW r \in SlotRecords
      PROVE  /\ [r EXCEPT !.parent = NoEntity, !.local = local].local = local
             /\ [r EXCEPT !.children = @ \ {child}].local = r.local
  BY DEF SlotRecords
<1>4. CASE x = child
  <2>1. slot'[x[1]] = [slot[x[1]] EXCEPT !.parent = NoEntity, !.local = local]
    BY <1>1, <1>2, <1>4
  <2> QED BY <2>1, <1>2, <1>3, <1>4
<1>5. CASE x # child
  <2>1. \/ slot'[x[1]] = [slot[x[1]] EXCEPT !.children = @ \ {child}]
        \/ slot'[x[1]] = slot[x[1]]
    BY <1>1, <1>2, <1>5
  <2> QED BY <2>1, <1>2, <1>3, <1>5 DEF Local
<1> QED BY <1>4, <1>5

\* Who is met on the way down meets the entity on the way up.
LEMMA BelowIsUnder ==
  ASSUME SceneTypeOK, HierarchyIsForest, NEW e \in LiveEntities, NEW d \in Subtree(e)
  PROVE  e \in Ancestors(d)
<1> DEFINE Missed == {x \in Subtree(e) : e \notin Ancestors(x)}
<1>1. SUFFICES ASSUME Missed # {} PROVE FALSE
  OBVIOUS
<1>2. Subtree(e) \subseteq LiveEntities
  BY SubtreeIsClosed
<1>3. PICK x \in Missed : Parent(x) \notin Missed
  <2>1. Missed \in SUBSET LiveEntities
    BY <1>2
  <2> HIDE DEF Missed
  <2> QED BY <1>1, <2>1 DEF HierarchyIsForest, Acyclic
<1>4. x \in LiveEntities /\ x \in Subtree(e) /\ e \notin Ancestors(x)
  BY <1>2, <1>3
<1>5. x # e
  BY <1>4, AncestorsGoUp
<1>6. PICK y \in Subtree(e) : x \in Children(y)
  BY <1>4, <1>5, SubtreeIsClosed
<1>7. Parent(x) = y /\ y \in LiveEntities /\ y # NoEntity
  BY <1>2, <1>6, LiveIsLive, SceneAssumption DEF HierarchyIsForest, LinksAgree
<1>8. e \in Ancestors(y)
  BY <1>3, <1>6, <1>7
<1> QED BY <1>4, <1>7, <1>8, AncestorsGoUp

LEMMA WorldsAreHierarchyWorlds ==
  /\ \A x \in LiveEntities :
        Worlds[x] = HierarchyWorld(x) /\ Moving[x] = HasTransformInHierarchy(x)
  /\ \A x \in LiveEntities' :
        WorldTransform(x)' = IF slot'[x[1]].local = NoTransform THEN NoTransform ELSE Worlds'[x]
  BY DEF Worlds, Moving, WorldTransform, Local

LEMMA InPlaceUnderParent ==
  ASSUME SceneTypeOK, HierarchyIsForest, WorldEquations',
         NEW child \in LiveEntities, NEW parent \in LiveEntities,
         Local(child) # NoTransform, HasTransformInHierarchy(parent),
         SetParent(child, parent, "PreserveWorld"), NEW d \in Subtree(child)
  PROVE  WorldTransform(d)' = WorldTransform(d)
<1> DEFINE local == ProspectiveLocal(child, parent, "PreserveWorld")
<1>1. "PreserveWorld" \in Preservations
  BY DEF Preservations
<1>2. /\ LiveEntities' = LiveEntities
      /\ \A x \in LiveEntities :
            /\ slot'[x[1]].parent = IF x = child THEN parent ELSE Parent(x)
            /\ slot'[x[1]].local = IF x = child THEN local ELSE Local(x)
  BY <1>1, MovedLinks, MovedLocals, NextLinks
<1>3. /\ WorldTransform(child) = Worlds[child]
      /\ HierarchyWorld(parent) = Worlds[parent]
  BY WorldsAreHierarchyWorlds DEF WorldTransform
<1>4. /\ Worlds[parent] # NoTransform /\ Worlds[child] # NoTransform /\ local # NoTransform
      /\ child \notin Ancestors(parent)
  BY <1>3 DEF SetParent, IsRepresentableUnder, WouldCreateCycle
<1>5. local = TryRelativeTo(Worlds[child], Worlds[parent])
  BY <1>3, <1>4 DEF ProspectiveLocal
<1> HIDE DEF local
<1>6. TryCompose(Worlds[parent], local) = Worlds[child]
  BY <1>4, <1>5, WorldsAreTransforms, RelativeIsExact
<1>7. Placed(Worlds[parent], local, Moving[parent]) = Worlds[child]
  BY <1>4, <1>6 DEF Placed
<1>8. parent \notin Subtree(child) /\ parent # NoEntity
  BY <1>4, BelowIsUnder, LiveIsLive, SceneAssumption
<1>9. \A x \in Subtree(child) : Worlds'[x] = Worlds[x]
  BY <1>2, <1>4, <1>7, <1>8, MovedInPlace
<1>10. d \in LiveEntities /\ d \in LiveEntities'
  BY <1>2, SubtreeIsClosed
<1>11. slot'[d[1]].local = NoTransform <=> Local(d) = NoTransform
  BY <1>2, <1>4, <1>10
<1>12. WorldTransform(d) = IF Local(d) = NoTransform THEN NoTransform ELSE Worlds[d]
  BY <1>10, WorldsAreHierarchyWorlds DEF WorldTransform
<1> QED BY <1>9, <1>10, <1>11, <1>12, WorldsAreHierarchyWorlds

LEMMA InPlaceAtRoot ==
  ASSUME SceneTypeOK, HierarchyIsForest, WorldEquations',
         NEW child \in LiveEntities, Local(child) # NoTransform,
         Unparent(child, "PreserveWorld"), NEW d \in Subtree(child)
  PROVE  WorldTransform(d)' = WorldTransform(d)
<1> DEFINE local == UnparentedLocal(child, "PreserveWorld")
<1>1. "PreserveWorld" \in Preservations
  BY DEF Preservations
<1>2. /\ LiveEntities' = LiveEntities
      /\ \A x \in LiveEntities :
            /\ slot'[x[1]].parent = IF x = child THEN NoEntity ELSE Parent(x)
            /\ slot'[x[1]].local = IF x = child THEN local ELSE Local(x)
  BY <1>1, UnparentedLinks, UnparentedLocals, NextLinks
<1>3. local = Worlds[child] /\ local # NoTransform
  <2>1. WorldTransform(child) = Worlds[child]
    BY WorldsAreHierarchyWorlds DEF WorldTransform
  <2> QED BY <2>1 DEF Unparent, UnparentedLocal
<1> HIDE DEF local
<1>4. \A x \in Subtree(child) : Worlds'[x] = Worlds[x]
  BY <1>2, <1>3, MovedInPlace
<1>5. d \in LiveEntities /\ d \in LiveEntities'
  BY <1>2, SubtreeIsClosed
<1>6. slot'[d[1]].local = NoTransform <=> Local(d) = NoTransform
  BY <1>2, <1>3, <1>5
<1>7. WorldTransform(d) = IF Local(d) = NoTransform THEN NoTransform ELSE Worlds[d]
  BY <1>5, WorldsAreHierarchyWorlds DEF WorldTransform
<1> QED BY <1>4, <1>5, <1>6, <1>7, WorldsAreHierarchyWorlds

\* SetParent and Unparent that preserve the world transform of an entity leave the entity and
\* all that hangs below it where they are, however deep, through groups without a transform
\* and through the scales of others.
THEOREM WorldStaysPreserved == SceneSpec => WorldIsPreserved
<1>1. SceneTypeOK /\ HierarchyIsForest /\ WorldEquations' =>
        \A child \in LiveEntities : MovesInPlace(child) =>
            \A d \in Subtree(child) : WorldTransform(d)' = WorldTransform(d)
  BY InPlaceUnderParent, InPlaceAtRoot DEF MovesInPlace
<1>2. SceneTypeOK' /\ HierarchyIsForest' => WorldEquations'
  BY WorldsSolve, PTL
<1> QED BY <1>1, <1>2, SceneTypeCorrect, HierarchyStaysForest, PTL DEF WorldIsPreserved
=============================================================================
