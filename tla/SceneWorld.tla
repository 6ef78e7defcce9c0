----------------------------- MODULE SceneWorld -----------------------------
(***************************************************************************)
(* FWorld: entities that are handles of reused slots, their hierarchy, and *)
(* their transforms.  A step is one call that succeeds: a call with a bad  *)
(* handle, or that is refused, changes nothing but the diagnostics.        *)
(*                                                                         *)
(* Which free slot is taken, and the orders of roots and of siblings, do   *)
(* not matter to what is stated here: free slots, roots and children are   *)
(* sets.  Meshes, lights and cameras are left out.                         *)
(***************************************************************************)
EXTENDS Transforms

CONSTANTS
    Slots,           \* EntityCapacity of them
    MaxGeneration,   \* bound: the generations of a slot, 2^32 - 1 in the code
    MaxWorlds,       \* bound: the ids the world takes, one for each Reset
    NoEntity         \* FEntity::Invalid()

\* A handle: the slot, its generation and the world's id.
Entities == Slots \X (1..MaxGeneration) \X (1..MaxWorlds)

ASSUME SceneAssumption ==
    /\ MaxGeneration \in Nat \ {0}
    /\ MaxWorlds \in Nat \ {0}
    /\ NoEntity \notin Entities

VARIABLES
    slot,     \* Slots: those that were never used are dead ones of generation 1
    roots,    \* RootEntities
    worldId,  \* WorldId
    issued    \* history: the handles that CreateEntity has returned, and any of earlier worlds

sceneVars == <<slot, roots, worldId, issued>>

-----------------------------------------------------------------------------
SlotRecords == [gen : 1..MaxGeneration, live : BOOLEAN, parent : Entities \cup {NoEntity},
                children : SUBSET Entities, local : Transforms \cup {NoTransform}]

Preservations == {"PreserveWorld", "PreserveLocal"}

\* A slot without an entity.
FreeSlot(gen) == [gen |-> gen, live |-> FALSE, parent |-> NoEntity, children |-> {},
                  local |-> NoTransform]

\* ValidateEntity.
IsEntityLive(e) ==
    /\ e \in Entities
    /\ e[3] = worldId
    /\ slot[e[1]].live
    /\ slot[e[1]].gen = e[2]

\* MakeEntity.
EntityOf(s) == <<s, slot[s].gen, worldId>>

\* GetLiveEntities.
LiveEntities == {EntityOf(s) : s \in {t \in Slots : slot[t].live}}

Parent(e) == slot[e[1]].parent
Children(e) == slot[e[1]].children
Local(e) == slot[e[1]].local

\* An entity and those on its way up: what a walk along Parent meets.
Ancestors(e) ==
    LET closed == {S \in SUBSET LiveEntities :
                    e \in S /\ \A x \in S : Parent(x) \in S \/ ~IsEntityLive(Parent(x))}
    IN  {a \in LiveEntities : \A S \in closed : a \in S}

\* BuildSubtreeOrder, without the order: what a walk along the children meets.
Subtree(e) ==
    LET closed == {S \in SUBSET LiveEntities :
                    e \in S /\ \A x \in S : Children(x) \cap LiveEntities \subseteq S}
    IN  {d \in LiveEntities : \A S \in closed : d \in S}

\* Mutant: only the new parent's parent is looked at.
WouldCreateShortCycle(child, parent) == Parent(parent) = child

WouldCreateCycle(child, parent) == child \in Ancestors(parent)

HasTransformInHierarchy(e) == \E a \in Ancestors(e) : Local(a) # NoTransform

\* ComputeHierarchyWorldTransform.  An entity without a transform stands where its parent
\* does; there is none where nothing above has one, or where the product would shear.
HierarchyWorld(e) ==
    LET world[x \in LiveEntities] ==
            IF Parent(x) = NoEntity THEN Local(x)
            ELSE LET above == world[Parent(x)]
                 IN  IF above # NoTransform
                     THEN IF Local(x) = NoTransform THEN above
                          ELSE TryCompose(above, Local(x))
                     ELSE IF HasTransformInHierarchy(Parent(x)) THEN NoTransform
                          ELSE Local(x)
    IN  world[e]

\* ComputeWorldTransform, as TryGetWorldTransform answers.
WorldTransform(e) ==
    IF Local(e) = NoTransform THEN NoTransform ELSE HierarchyWorld(e)

-----------------------------------------------------------------------------
SceneInit ==
    /\ slot = [s \in Slots |-> FreeSlot(1)]
    /\ roots = {}
    /\ worldId = 1
    /\ issued = {}

\* CreateEntity: in a free slot, which keeps its generation.
CreateEntity(s) ==
    /\ ~slot[s].live
    /\ slot' = [slot EXCEPT ![s] = [FreeSlot(slot[s].gen) EXCEPT !.live = TRUE]]
    /\ roots' = roots \cup {EntityOf(s)}
    /\ issued' = issued \cup {EntityOf(s)}
    /\ UNCHANGED worldId

\* Mutant: the generation is not counted up.
RetiredUncounted(r) == FreeSlot(r.gen)

\* What MarkSubtreeDestroyed leaves in a slot.
Retired(r) == FreeSlot(r.gen + 1)

\* DestroyEntity: the entity and all below it.
DestroyEntity(e) ==
    LET doomed == Subtree(e) IN
    /\ IsEntityLive(e)
    /\ \A d \in doomed : d[2] < MaxGeneration
    /\ slot' = [s \in Slots |->
            IF \E d \in doomed : d[1] = s THEN Retired(slot[s])
            ELSE IF Parent(e) = EntityOf(s)
            THEN [slot[s] EXCEPT !.children = @ \ {e}]
            ELSE slot[s]]
    /\ roots' = roots \ doomed
    /\ UNCHANGED <<worldId, issued>>

AddTransform(e, t) ==
    /\ IsEntityLive(e)
    /\ Local(e) = NoTransform
    /\ slot' = [slot EXCEPT ![e[1]].local = t]
    /\ UNCHANGED <<roots, worldId, issued>>

\* ReplaceTransform, UpdateTransform, and writes through GetMutableTransform.
ReplaceTransform(e, t) ==
    /\ IsEntityLive(e)
    /\ Local(e) # NoTransform
    /\ slot' = [slot EXCEPT ![e[1]].local = t]
    /\ UNCHANGED <<roots, worldId, issued>>

RemoveTransform(e) ==
    /\ IsEntityLive(e)
    /\ Local(e) # NoTransform
    /\ slot' = [slot EXCEPT ![e[1]].local = NoTransform]
    /\ UNCHANGED <<roots, worldId, issued>>

\* Mutant: relative to the parent's own transform instead of where it stands.
LocalToParent(child, parent, preservation) ==
    LET above == Local(parent)
        world == WorldTransform(child)
    IN  IF preservation = "PreserveWorld" /\ world # NoTransform /\ above # NoTransform
        THEN TryRelativeTo(world, above)
        ELSE Local(child)

\* The local transform of the child after SetParent.  Where the new parent has no world
\* transform, PreserveWorld keeps the local one.
ProspectiveLocal(child, parent, preservation) ==
    LET above == HierarchyWorld(parent)
        world == WorldTransform(child)
    IN  IF preservation = "PreserveWorld" /\ world # NoTransform /\ above # NoTransform
        THEN TryRelativeTo(world, above)
        ELSE Local(child)

\* SetParent refuses what the child's transform cannot express.  A child without a
\* transform is not looked at, nor is what hangs below the child.
IsRepresentableUnder(child, parent, preservation) ==
    Local(child) # NoTransform =>
        /\ HasTransformInHierarchy(parent) => HierarchyWorld(parent) # NoTransform
        /\ IF preservation = "PreserveWorld"
           THEN /\ WorldTransform(child) # NoTransform
                /\ ProspectiveLocal(child, parent, preservation) # NoTransform
           ELSE HierarchyWorld(parent) # NoTransform =>
                    TryCompose(HierarchyWorld(parent), Local(child)) # NoTransform

\* The bound on what entities hold is a guard.
SetParent(child, parent, preservation) ==
    LET local == ProspectiveLocal(child, parent, preservation) IN
    /\ IsEntityLive(child) /\ IsEntityLive(parent)
    /\ child # parent
    /\ ~WouldCreateCycle(child, parent)
    /\ Parent(child) # parent
    /\ IsRepresentableUnder(child, parent, preservation)
    /\ local \in Transforms \cup {NoTransform}
    /\ slot' = [s \in Slots |->
            IF s = child[1] THEN [slot[s] EXCEPT !.parent = parent, !.local = local]
            ELSE IF s = parent[1] THEN [slot[s] EXCEPT !.children = @ \cup {child}]
            ELSE IF Parent(child) = EntityOf(s) THEN [slot[s] EXCEPT !.children = @ \ {child}]
            ELSE slot[s]]
    /\ roots' = roots \ {child}
    /\ UNCHANGED <<worldId, issued>>

\* The local transform of the child after Unparent.
UnparentedLocal(child, preservation) ==
    IF preservation = "PreserveWorld" THEN WorldTransform(child) ELSE Local(child)

Unparent(child, preservation) ==
    LET local == UnparentedLocal(child, preservation) IN
    /\ IsEntityLive(child)
    /\ Parent(child) # NoEntity
    /\ Local(child) # NoTransform => local # NoTransform
    /\ local \in Transforms \cup {NoTransform}
    /\ slot' = [s \in Slots |->
            IF s = child[1] THEN [slot[s] EXCEPT !.parent = NoEntity, !.local = local]
            ELSE IF Parent(child) = EntityOf(s) THEN [slot[s] EXCEPT !.children = @ \ {child}]
            ELSE slot[s]]
    /\ roots' = roots \cup {child}
    /\ UNCHANGED <<worldId, issued>>

\* Reset: the slots start anew, under a new id.
Reset ==
    /\ worldId < MaxWorlds
    /\ slot' = [s \in Slots |-> FreeSlot(1)]
    /\ roots' = {}
    /\ worldId' = worldId + 1
    /\ issued' = {e \in Entities : e[3] <= worldId}

SceneNext ==
    \/ \E s \in Slots : CreateEntity(s)
    \/ \E e \in LiveEntities :
        \/ DestroyEntity(e)
        \/ \E t \in EditedTransforms : AddTransform(e, t) \/ ReplaceTransform(e, t)
        \/ RemoveTransform(e)
        \/ \E preservation \in Preservations :
            \/ \E parent \in LiveEntities : SetParent(e, parent, preservation)
            \/ Unparent(e, preservation)
    \/ Reset

SceneSpec == SceneInit /\ [][SceneNext]_sceneVars

-----------------------------------------------------------------------------
\* The world's state is well formed.
SceneTypeOK ==
    /\ slot \in [Slots -> SlotRecords]
    /\ roots \in SUBSET Entities
    /\ worldId \in 1..MaxWorlds
    /\ issued \in SUBSET Entities

\* Both directions of the links agree, between entities that are live.
LinksAgree ==
    \A e \in LiveEntities :
        /\ Parent(e) # NoEntity => Parent(e) \in LiveEntities /\ e \in Children(Parent(e))
        /\ \A c \in Children(e) : c \in LiveEntities /\ Parent(c) = e

\* Walks up end: in every set of live entities, one has its parent elsewhere.
Acyclic ==
    \A S \in SUBSET LiveEntities : S # {} => \E e \in S : Parent(e) \notin S

\* Through every sequence of creations, destructions and moves the entities are a forest
\* that both directions of links and the list of roots agree on: no link to a dead or
\* reused slot, no cycle, and no entity that BuildTopologicalOrder would not reach.
HierarchyIsForest ==
    /\ LinksAgree
    /\ roots = {e \in LiveEntities : Parent(e) = NoEntity}
    /\ Acyclic

\* A handle that has become stale is never valid again, whatever reuses its slot, and
\* neither is any handle from before a Reset, although Reset counts generations from 1.
StaleStayStale ==
    [][\A e \in issued : ~IsEntityLive(e) => ~IsEntityLive(e)']_sceneVars

\* The step moves a child that has a transform and is to stay where it is.
MovesInPlace(child) ==
    /\ IsEntityLive(child)
    /\ Local(child) # NoTransform
    /\ Parent(child)' # Parent(child)
    /\ \/ \E parent \in LiveEntities :
            HasTransformInHierarchy(parent) /\ SetParent(child, parent, "PreserveWorld")
       \/ Unparent(child, "PreserveWorld")

\* A move that preserves the world transform of an entity leaves all that hangs below it in
\* place too, through transformless groups and through other parents' scales.  It is stated
\* of moves to where some entity above has a transform, and to the root.
WorldIsPreserved ==
    [][\A child \in LiveEntities : MovesInPlace(child) =>
        \A d \in Subtree(child) : WorldTransform(d)' = WorldTransform(d)]_sceneVars

\* "the entity preserves world transform" (scene-graph-ecs-contract.md:82), wherever it goes.
ReparentKeepsWorld ==
    [][\A child, parent \in LiveEntities :
        (Local(child) # NoTransform /\ SetParent(child, parent, "PreserveWorld"))
            => WorldTransform(child)' = WorldTransform(child)]_sceneVars
=============================================================================
