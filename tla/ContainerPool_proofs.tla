------------------------ MODULE ContainerPool_proofs ------------------------
(***************************************************************************)
(* Proofs about ContainerPool, for every set of names, every number of     *)
(* handlers and every cap: typing, and the bound on how far overlapping    *)
(* requests, and creations that outlive their client, can push the pool    *)
(* past the cap.  The inductive invariant is TypeOK /\ PlacesTaken.        *)
(***************************************************************************)
EXTENDS ContainerPool, FiniteSetTheorems, TLAPS

(* Every step of a request to add keeps the types.                         *)
LEMMA AddTyped ==
  ASSUME TypeOK, NEW a \in Adders, AddStep(a)
  PROVE  TypeOK'
<1> USE PoolAssumption DEF TypeOK, AllNames, AddIdle
<1>1. ASSUME NEW n \in AllNames, LaunchCheck(a, n) PROVE TypeOK'
  BY <1>1 DEF LaunchCheck
<1>2. CASE LaunchCreate(a)
  BY <1>2 DEF LaunchCreate
<1>3. CASE LaunchStart(a) \/ LaunchAbort(a) \/ LaunchOrphaned(a)
  BY <1>3 DEF LaunchStart, LaunchAbort, LaunchOrphaned
<1>4. QED
  BY <1>1, <1>2, <1>3 DEF AddStep

(* So does every step of a removal.                                        *)
LEMMA RemoveTyped ==
  ASSUME TypeOK, NEW q \in Removers, RemoveStep(q)
  PROVE  TypeOK'
<1> USE PoolAssumption DEF TypeOK, AllNames, RemoveIdle
<1>1. ASSUME NEW n \in AllNames, RemoveUninstall(q, n) PROVE TypeOK'
  BY <1>1 DEF RemoveUninstall
<1>2. CASE RemoveDelete(q) \/ RemoveAbort(q)
  BY <1>2 DEF RemoveDelete, RemoveAbort
<1>3. QED
  BY <1>1, <1>2 DEF RemoveStep

(* And so do the start-up goroutine, LXD's own creations and a restart of  *)
(* the app.                                                                *)
LEMMA WarmTyped ==
  ASSUME TypeOK, WarmStep \/ Restart \/ \E n \in late : LateCreate(n)
  PROVE  TypeOK'
<1> USE PoolAssumption DEF TypeOK, AllNames, AddIdle, RemoveIdle, WarmStates
<1>1. CASE Restart
  <2>1. PICK A \in SUBSET Creating, W \in SUBSET WarmCreating :
          /\ killed + Cardinality(A) <= MaxKilled
          /\ killed' = killed + Cardinality(A)
          /\ late' = late \cup {launch[a].name : a \in A} \cup W
    BY <1>1 DEF Restart
  <2>2. Cardinality(A) \in Nat
    BY FS_Subset, FS_CardinalityType DEF Creating
  <2>3. late' \in SUBSET AllNames /\ killed' \in 0..MaxKilled
    BY <2>1, <2>2 DEF Creating, WarmCreating
  <2>4. QED
    BY <1>1, <2>3 DEF Restart
<1>2. CASE WarmFail
  BY <1>2 DEF WarmFail, WarmCreating
<1>3. CASE WarmEnsure \/ WarmCreate \/ WarmStart \/ WarmCache \/ WarmDelete
  BY <1>3 DEF WarmEnsure, WarmCreate, WarmStart, WarmCache, WarmDelete
<1>4. ASSUME NEW n \in late, LateCreate(n) PROVE TypeOK'
  BY <1>4 DEF LateCreate
<1>5. QED
  BY <1>1, <1>2, <1>3, <1>4 DEF WarmStep

(* Every variable keeps its type: no handler leaves an instance, a request *)
(* or the start-up goroutine in a state the code has no name for.          *)
THEOREM Typing == Spec => []TypeOK
<1>1. TypeOK /\ Next => TypeOK'
  BY AddTyped, RemoveTyped, WarmTyped DEF Next
<1>2. TypeOK /\ UNCHANGED vars => TypeOK'
  BY DEF TypeOK, vars
<1>3. Init => TypeOK
  BY PoolAssumption DEF Init, TypeOK, AllNames, AddIdle, RemoveIdle, WarmStates
<1>4. QED
  BY <1>1, <1>2, <1>3, PTL DEF Spec

-----------------------------------------------------------------------------
(* The sets the bound counts are finite, so that their sizes are numbers.  *)
LEMMA Sizes ==
  ASSUME TypeOK
  PROVE  /\ IsFiniteSet(List) /\ Cardinality(List) \in Nat
         /\ IsFiniteSet(Creating) /\ Cardinality(Creating) \in Nat
         /\ Cardinality(Creating) <= Cardinality(Adders)
         /\ Cardinality(Adders) \in Nat \ {0}
         /\ IsFiniteSet(LateListed) /\ Cardinality(LateListed) \in Nat
<1>1. /\ List \in SUBSET Names /\ Creating \in SUBSET Adders
      /\ LateListed \in SUBSET Names
  BY DEF List, Creating, LateListed, TypeOK, AllNames
<1>2. IsFiniteSet(Names) /\ IsFiniteSet(Adders) /\ Adders # {}
  BY PoolAssumption
<1>3. IsFiniteSet(List) /\ IsFiniteSet(LateListed)
  BY <1>1, <1>2, FS_Subset
<1>4. IsFiniteSet(Creating) /\ Cardinality(Creating) <= Cardinality(Adders)
  BY <1>1, <1>2, FS_Subset
<1>5. Cardinality(Adders) \in Nat \ {0}
  BY <1>2, FS_CardinalityType, FS_EmptySet
<1>6. QED
  BY <1>3, <1>4, <1>5, FS_CardinalityType

(* The same at the end of a step. *)
LEMMA SizesAfter ==
  ASSUME TypeOK'
  PROVE  /\ IsFiniteSet(List') /\ Cardinality(List') \in Nat
         /\ IsFiniteSet(Creating') /\ Cardinality(Creating') \in Nat
         /\ Cardinality(Creating') <= Cardinality(Adders)
         /\ IsFiniteSet(LateListed') /\ Cardinality(LateListed') \in Nat
<1>1. /\ List' \in SUBSET Names /\ Creating' \in SUBSET Adders
      /\ LateListed' \in SUBSET Names
  BY DEF List, Creating, LateListed, TypeOK, AllNames
<1>2. IsFiniteSet(Names) /\ IsFiniteSet(Adders)
  BY PoolAssumption
<1>3. IsFiniteSet(List') /\ IsFiniteSet(LateListed')
  BY <1>1, <1>2, FS_Subset
<1>4. IsFiniteSet(Creating') /\ Cardinality(Creating') <= Cardinality(Adders)
  BY <1>1, <1>2, FS_Subset
<1>5. QED
  BY <1>3, <1>4, FS_CardinalityType

(* A request that passes the cap test: the list it saw had room, and it    *)
(* was not among the requests that hold a place.                           *)
LEMMA CheckStep ==
  ASSUME TypeOK, PlacesTaken, NEW a \in Adders, NEW n \in AllNames, LaunchCheck(a, n)
  PROVE  PlacesTaken'
<1>1. List' = List /\ LateListed' = LateListed /\ killed' = killed
  BY DEF LaunchCheck, List, LateListed
<1>2. Cardinality(List) <= Max - 1
  BY Sizes, PoolAssumption DEF LaunchCheck, BelowCap
<1>3. TypeOK'
  BY AddTyped DEF AddStep
<1>4. Cardinality(List') + Cardinality(Creating') + Cardinality(LateListed')
        <= Max - 1 + Cardinality(Adders) + killed'
  BY <1>1, <1>2, <1>3, Sizes, SizesAfter, PoolAssumption DEF PlacesTaken, TypeOK
<1>5. QED
  BY <1>1, <1>4 DEF PlacesTaken, CapOverrun

(* An instance that appears takes one more place on the list, or none: the *)
(* warm-up container is not listed.                                        *)
LEMMA OneMore ==
  ASSUME TypeOK, TypeOK', NEW n \in AllNames,
         instances' = [instances EXCEPT ![n] = IF @ = "absent" THEN "stopped" ELSE @]
  PROVE  /\ Cardinality(List') <= Cardinality(List) + 1
         /\ n = Warmup => Cardinality(List') = Cardinality(List)
<1>1. List' = List \/ (List' = List \cup {n} /\ n \notin List /\ n # Warmup)
  BY PoolAssumption DEF List, TypeOK, AllNames
<1>2. CASE List' = List
  BY <1>2, Sizes
<1>3. CASE List' = List \cup {n} /\ n \notin List /\ n # Warmup
  <2>1. Cardinality(List') = Cardinality(List) + 1
    BY <1>3, Sizes, FS_AddElement
  <2>2. QED
    BY <1>3, <2>1, Sizes
<1>4. QED
  BY <1>1, <1>2, <1>3

(* A request that creates its container gives up its place for it.         *)
LEMMA CreateStep ==
  ASSUME TypeOK, PlacesTaken, NEW a \in Adders, LaunchCreate(a)
  PROVE  PlacesTaken'
<1>1. Creating' = Creating \ {a} /\ a \in Creating
  BY DEF LaunchCreate, TypeOK, Creating
<1>2. Cardinality(Creating') = Cardinality(Creating) - 1
  BY <1>1, Sizes, FS_RemoveElement
<1>3. TypeOK'
  BY AddTyped DEF AddStep
<1>4. Cardinality(List') <= Cardinality(List) + 1
  <2>1. launch[a].name \in AllNames
    BY DEF TypeOK
  <2>2. instances' = [instances EXCEPT ![launch[a].name]
                        = IF @ = "absent" THEN "stopped" ELSE @]
    BY <2>1 DEF LaunchCreate, TypeOK
  <2>3. QED
    BY <1>3, <2>1, <2>2, OneMore
<1>5. LateListed' = LateListed /\ killed' = killed /\ killed \in Nat
  BY DEF LaunchCreate, LateListed, TypeOK
<1>6. QED
  BY <1>2, <1>3, <1>4, <1>5, Sizes, SizesAfter, PoolAssumption DEF PlacesTaken, CapOverrun

(* A request that is cut off hands its place to the creation it leaves.    *)
LEMMA OrphanStep ==
  ASSUME TypeOK, PlacesTaken, NEW a \in Adders, LaunchOrphaned(a)
  PROVE  PlacesTaken'
<1>1. Creating' = Creating \ {a} /\ a \in Creating
  <2>1. launch' = [launch EXCEPT ![a] = AddIdle] /\ launch[a].pc = "create"
    BY DEF LaunchOrphaned
  <2>2. QED
    BY <2>1 DEF TypeOK, Creating, AddIdle
<1>2. Cardinality(Creating') = Cardinality(Creating) - 1
  BY <1>1, Sizes, FS_RemoveElement
<1>3. TypeOK' /\ List' = List /\ killed' = killed + 1 /\ killed \in Nat
  <2>1. TypeOK'
    BY AddTyped DEF AddStep
  <2>2. QED
    BY <2>1 DEF LaunchOrphaned, List, TypeOK
<1>4. Cardinality(LateListed') <= Cardinality(LateListed) + 1
  <2>1. \/ LateListed' = LateListed
        \/ LateListed' = LateListed \cup {launch[a].name}
           /\ launch[a].name \notin LateListed
    <3>1. late' = late \cup {launch[a].name}
      BY DEF LaunchOrphaned
    <3> DEFINE n == launch[a].name
    <3>2. late' \ {Warmup} = IF n \in late \ {Warmup} \/ n = Warmup
                             THEN late \ {Warmup} ELSE (late \ {Warmup}) \cup {n}
      BY <3>1
    <3>3. QED
      BY <3>2 DEF LateListed
  <2>2. CASE LateListed' = LateListed
    BY <2>2, Sizes
  <2>3. CASE LateListed' = LateListed \cup {launch[a].name}
             /\ launch[a].name \notin LateListed
    <3>1. Cardinality(LateListed \cup {launch[a].name}) = Cardinality(LateListed) + 1
      BY <2>3, Sizes, FS_AddElement
    <3>2. Cardinality(LateListed') = Cardinality(LateListed) + 1
      BY <2>3, <3>1, Zenon
    <3>3. QED
      BY <3>2, Sizes
  <2>4. QED
    BY <2>1, <2>2, <2>3
<1>5. QED
  BY <1>2, <1>3, <1>4, Sizes, SizesAfter, PoolAssumption DEF PlacesTaken, CapOverrun

(* A creation that LXD ends gives up its place for the container.          *)
LEMMA LateStep ==
  ASSUME TypeOK, PlacesTaken, NEW n \in late, LateCreate(n)
  PROVE  PlacesTaken'
<1>1. TypeOK' /\ Creating' = Creating /\ n \in AllNames /\ killed' = killed
  BY WarmTyped DEF LateCreate, Creating, TypeOK
<1>2. /\ Cardinality(List') <= Cardinality(List) + 1
      /\ n = Warmup => Cardinality(List') = Cardinality(List)
  BY <1>1, OneMore DEF LateCreate
<1>3. CASE n = Warmup
  <2>1. LateListed' = LateListed
    BY <1>3 DEF LateCreate, LateListed
  <2>2. QED
    BY <1>1, <1>2, <1>3, <2>1 DEF PlacesTaken, CapOverrun
<1>4. CASE n # Warmup
  <2>1. LateListed' = LateListed \ {n} /\ n \in LateListed
    BY <1>4 DEF LateCreate, LateListed
  <2>2. Cardinality(LateListed') = Cardinality(LateListed) - 1
    BY <2>1, Sizes, FS_RemoveElement
  <2>3. killed \in Nat
    BY DEF TypeOK
  <2>4. QED
    BY <1>1, <1>2, <2>2, <2>3, Sizes, SizesAfter, PoolAssumption DEF PlacesTaken, CapOverrun
<1>5. QED
  BY <1>3, <1>4

(* A restart leaves a creation of some of the requests that had a place,   *)
(* and counts each of them.                                                *)
LEMMA RestartStep ==
  ASSUME TypeOK, PlacesTaken, Restart
  PROVE  PlacesTaken'
<1>1. TypeOK' /\ List' = List /\ Creating' = {} /\ killed \in Nat
  <2>1. TypeOK'
    BY WarmTyped
  <2>2. List' = List /\ Creating' = {}
    BY DEF Restart, List, Creating, AddIdle
  <2>3. QED
    BY <2>1, <2>2 DEF TypeOK
<1>2. PICK A \in SUBSET Creating, W \in SUBSET WarmCreating :
        /\ killed' = killed + Cardinality(A)
        /\ late' = late \cup {launch[a].name : a \in A} \cup W
  BY DEF Restart
<1>3. IsFiniteSet(A) /\ Cardinality(A) \in Nat /\ Cardinality(A) <= Cardinality(Creating)
  BY Sizes, FS_Subset, FS_CardinalityType
<1> DEFINE named == {launch[a].name : a \in A}
<1>4. IsFiniteSet(named) /\ Cardinality(named) <= Cardinality(A)
  <2>1. [a \in A |-> launch[a].name] \in Surjection(A, named)
    BY DEF Surjection
  <2>2. QED
    BY <1>3, <2>1, FS_Surjection
<1>5. LateListed' \in SUBSET (LateListed \cup named)
  BY <1>2 DEF LateListed, WarmCreating
<1>6. Cardinality(LateListed') <= Cardinality(LateListed) + Cardinality(A)
  <2>1. IsFiniteSet(LateListed \cup named)
    BY <1>4, Sizes, FS_Union
  <2>2. Cardinality(LateListed') <= Cardinality(LateListed \cup named)
    BY <1>5, <2>1, FS_Subset
  <2>3. Cardinality(LateListed \cup named)
          = Cardinality(LateListed) + Cardinality(named) - Cardinality(LateListed \cap named)
    BY <1>4, Sizes, FS_Union
  <2>4. Cardinality(LateListed \cap named) \in Nat /\ Cardinality(named) \in Nat
        /\ Cardinality(LateListed \cup named) \in Nat
    BY <1>4, <2>1, FS_Intersection, FS_CardinalityType, Sizes
  <2>5. QED
    BY <1>1, <1>3, <1>4, <2>2, <2>3, <2>4, Sizes, SizesAfter
<1>7. Cardinality(Creating') = 0
  BY <1>1, FS_EmptySet
<1>8. QED
  BY <1>1, <1>2, <1>3, <1>6, <1>7, Sizes, SizesAfter, PoolAssumption DEF PlacesTaken, CapOverrun

(* A removal takes one container off the list, or none: the warm-up one.   *)
LEMMA DeleteStep ==
  ASSUME TypeOK, PlacesTaken, NEW q \in Removers, RemoveDelete(q)
  PROVE  PlacesTaken'
<1>1. TypeOK' /\ Creating' = Creating /\ LateListed' = LateListed /\ killed' = killed
  BY RemoveTyped DEF RemoveStep, RemoveDelete, Creating, LateListed
<1>2. List' \in SUBSET List
  BY DEF RemoveDelete, List, TypeOK
<1>3. Cardinality(List') <= Cardinality(List) /\ killed \in Nat
  BY <1>2, Sizes, FS_Subset DEF TypeOK
<1>4. QED
  BY <1>1, <1>3, Sizes, SizesAfter, PoolAssumption DEF PlacesTaken, CapOverrun

(* Every other step leaves the list alone and takes no new place.          *)
LEMMA OtherStep ==
  ASSUME TypeOK, TypeOK', PlacesTaken,
         \/ \E a \in Adders : LaunchStart(a) \/ LaunchAbort(a)
         \/ \E q \in Removers : RemoveAbort(q)
         \/ \E q \in Removers, n \in AllNames : RemoveUninstall(q, n)
         \/ WarmStep
         \/ UNCHANGED vars
  PROVE  PlacesTaken'
<1>1. List' = List
  <2>1. ASSUME NEW a \in Adders, LaunchStart(a) PROVE List' = List
    BY <2>1 DEF LaunchStart, List, TypeOK, AllNames
  <2>2. CASE WarmStep
    BY <2>2, PoolAssumption DEF WarmStep, WarmEnsure, WarmCreate, WarmStart,
       WarmCache, WarmDelete, WarmFail, List, TypeOK, AllNames
  <2>3. QED
    BY <2>1, <2>2 DEF LaunchAbort, RemoveAbort, RemoveUninstall, vars, List
<1>2. Creating' \in SUBSET Creating
  <2>1. ASSUME NEW a \in Adders, LaunchStart(a) \/ LaunchAbort(a)
        PROVE  Creating' \in SUBSET Creating
    BY <2>1 DEF LaunchStart, LaunchAbort, Creating, TypeOK, AddIdle
  <2>2. CASE WarmStep
    BY <2>2 DEF WarmStep, WarmEnsure, WarmCreate, WarmStart, WarmCache,
       WarmDelete, WarmFail, Creating
  <2>3. QED
    BY <2>1, <2>2 DEF RemoveAbort, RemoveUninstall, vars, Creating
<1>3. Cardinality(Creating') <= Cardinality(Creating)
  BY <1>2, Sizes, FS_Subset
<1>4. LateListed' = LateListed /\ killed' = killed /\ killed \in Nat
  BY DEF LaunchStart, LaunchAbort, RemoveAbort, RemoveUninstall, WarmStep, WarmEnsure,
     WarmCreate, WarmStart, WarmCache, WarmDelete, WarmFail, WarmCreating, vars,
     LateListed, TypeOK
<1>5. QED
  BY <1>1, <1>3, <1>4, Sizes, SizesAfter, PoolAssumption DEF PlacesTaken, CapOverrun

-----------------------------------------------------------------------------
(* In the first state nothing exists and nobody holds a place.             *)
LEMMA InitPlaces == Init => PlacesTaken
<1> SUFFICES ASSUME Init PROVE PlacesTaken
  OBVIOUS
<1>1. List = {} /\ Creating = {} /\ LateListed = {} /\ killed = 0
  BY DEF Init, List, Creating, LateListed, AllNames, AddIdle
<1>2. Cardinality(Adders) \in Nat \ {0}
  BY PoolAssumption, FS_CardinalityType, FS_EmptySet
<1>3. QED
  BY <1>1, <1>2, FS_EmptySet, PoolAssumption DEF PlacesTaken, CapOverrun

(* Whatever the step, the places taken stay within the bound.              *)
LEMMA PlacesStep ==
  ASSUME TypeOK, TypeOK', PlacesTaken, [Next]_vars
  PROVE  PlacesTaken'
<1>1. ASSUME NEW a \in Adders, AddStep(a) PROVE PlacesTaken'
  <2>1. ASSUME NEW n \in AllNames, LaunchCheck(a, n) PROVE PlacesTaken'
    BY <2>1, CheckStep
  <2>2. CASE LaunchStart(a) \/ LaunchAbort(a)
    BY <2>2, OtherStep
  <2>3. QED
    BY <1>1, <2>1, <2>2, CreateStep, OrphanStep DEF AddStep
<1>2. ASSUME NEW q \in Removers, RemoveStep(q) PROVE PlacesTaken'
  <2>1. CASE RemoveAbort(q) \/ \E n \in AllNames : RemoveUninstall(q, n)
    BY <2>1, OtherStep
  <2>2. QED
    BY <1>2, <2>1, DeleteStep DEF RemoveStep
<1>3. CASE WarmStep \/ UNCHANGED vars
  BY <1>3, OtherStep
<1>4. QED
  BY <1>1, <1>2, <1>3, LateStep, RestartStep DEF Next

(* However the requests to add and remove, the warm-up and the restarts    *)
(* interleave, containers, requests past the cap test and creations whose  *)
(* client is gone together never exceed Max - 1, plus the handlers that    *)
(* add, plus the requests that were cut off while creating.                *)
THEOREM PlacesBounded == Spec => []PlacesTaken
<1>1. TypeOK /\ TypeOK' /\ PlacesTaken /\ [Next]_vars => PlacesTaken'
  BY PlacesStep
<1>2. QED
  BY <1>1, InitPlaces, Typing, PTL DEF Spec

(* So the listed containers never exceed that bound.                       *)
THEOREM CapOverrunBounded == Spec => []CapBound
<1>1. TypeOK /\ PlacesTaken => CapBound
  BY Sizes, PoolAssumption DEF PlacesTaken, CapBound, CapOverrun, TypeOK
<1>2. QED
  BY <1>1, PlacesBounded, Typing, PTL
=============================================================================
