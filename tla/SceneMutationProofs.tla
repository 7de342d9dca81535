------------------------ MODULE SceneMutationProofs ------------------------
(***************************************************************************)
(* Proofs about SceneMutation, for any names, materials and arguments: the *)
(* scene tools keep the contract the rest of the agent builds on, a call   *)
(* spares the objects it does not name, a result that says verified is     *)
(* true of the scene, and every variable keeps its type.                   *)
(***************************************************************************)
EXTENDS SceneMutation, TLAPS

-----------------------------------------------------------------------------
(* The ends a call can come to.                                            *)

LEMMA FinishKeeps ==
  ASSUME NEW t, NEW n, NEW s, NEW want, NEW mismatches, Finish(t, n, s, want, mismatches)
  PROVE  Promise!ContractNext
  BY DEF Finish, PushUndoStep, Answer, Promise!ContractNext, Promise!Change

LEMMA FinishUnreadKeeps ==
  ASSUME NEW t, NEW n, NEW s, NEW want, FinishUnread(t, n, s, want)
  PROVE  Promise!ContractNext
  BY DEF FinishUnread, PushUndoStep, Answer, Promise!ContractNext, Promise!Change

\* Only these four can stop with a part of the change done.
LEMMA FailKeeps ==
  ASSUME NEW t \in Scrappy, NEW n, NEW s, Fail(t, n, s)
  PROVE  Promise!ContractNext
  BY DEF Fail, Answer, Promise!ContractNext, Promise!Failure

LEMMA RefuseKeeps ==
  ASSUME NEW t, NEW n, Refuse(t, n)
  PROVE  Promise!ContractNext
  BY DEF Refuse, Fail, Answer, Promise!ContractNext, Promise!Failure

LEMMA ScrappyTools ==
  /\ "create_primitive" \in Scrappy /\ "transform_object" \in Scrappy
  /\ "set_material" \in Scrappy /\ "assign_material" \in Scrappy
  BY DEF Scrappy

-----------------------------------------------------------------------------
(* Every tool comes to one of them.                                        *)

LEMMA CreatePrimitiveKeeps ==
  ASSUME NEW valid, NEW args, CreatePrimitive(valid, args)
  PROVE  Promise!ContractNext
<1>1. CASE Refuse("create_primitive", NoName)
  BY <1>1, RefuseKeeps
<1>2. CASE \E n \in FreeNames :
             \/ Finish("create_primitive", n, PrimitiveMade(n, args), Facts(n, ExpectedPrimitive(args)),
                       VerifyCreate(ExpectedPrimitive(args), ObjectSnapshot(PrimitiveMade(n, args), n)))
             \/ Fail("create_primitive", n, PrimitiveMade(n, args))
  BY <1>2, FinishKeeps, FailKeeps, ScrappyTools
<1> QED
  BY <1>1, <1>2 DEF CreatePrimitive

LEMMA CreateCameraKeeps ==
  ASSUME NEW n, NEW args, NEW lens, NEW active, CreateCamera(n, args, lens, active)
  PROVE  Promise!ContractNext
  BY RefuseKeeps, FinishKeeps DEF CreateCamera

LEMMA CreateLightKeeps ==
  ASSUME NEW n, NEW args, NEW energy, CreateLight(n, args, energy)
  PROVE  Promise!ContractNext
  BY RefuseKeeps, FinishKeeps DEF CreateLight

LEMMA SetShadingKeeps ==
  ASSUME NEW n, NEW shading, SetShading(n, shading)
  PROVE  Promise!ContractNext
  BY RefuseKeeps, FinishKeeps DEF SetShading

LEMMA AddLevelsKeeps ==
  ASSUME NEW n, NEW levels, AddLevels(n, levels)
  PROVE  Promise!ContractNext
  BY RefuseKeeps, FinishKeeps, FinishUnreadKeeps DEF AddLevels

LEMMA AddBooleanKeeps ==
  ASSUME NEW n, NEW operation, NEW c, AddBoolean(n, operation, c)
  PROVE  Promise!ContractNext
  BY RefuseKeeps, FinishKeeps DEF AddBoolean

LEMMA TransformKeeps ==
  ASSUME NEW n, NEW args, NEW relative, Transform(n, args, relative)
  PROVE  Promise!ContractNext
  BY RefuseKeeps, FinishKeeps, FailKeeps, ScrappyTools DEF Transform

LEMMA DeleteObjectKeeps ==
  ASSUME NEW n, DeleteObject(n)
  PROVE  Promise!ContractNext
  BY RefuseKeeps, FinishKeeps DEF DeleteObject

LEMMA DuplicateKeeps ==
  ASSUME NEW source, NEW n, NEW args, Duplicate(source, n, args)
  PROVE  Promise!ContractNext
  BY RefuseKeeps, FinishKeeps DEF Duplicate

LEMMA SetMaterialKeeps ==
  ASSUME NEW n, NEW m, NEW i, NEW args, SetMaterial(n, m, i, args)
  PROVE  Promise!ContractNext
  BY RefuseKeeps, FinishKeeps, FailKeeps, ScrappyTools DEF SetMaterial

LEMMA AssignMaterialKeeps ==
  ASSUME NEW n, NEW m, NEW i, AssignMaterial(n, m, i)
  PROVE  Promise!ContractNext
  BY RefuseKeeps, FinishKeeps, FailKeeps, ScrappyTools DEF AssignMaterial

LEMMA CallKeeps ==
  ASSUME Call
  PROVE  Promise!ContractNext
<1>1. CASE \E t \in Tools : Misuse(t)
  BY <1>1, RefuseKeeps DEF Misuse
<1>2. CASE CreatePrimitiveTool \/ CreateCameraTool \/ CreateLightTool
  BY <1>2, CreatePrimitiveKeeps, CreateCameraKeeps, CreateLightKeeps
     DEF CreatePrimitiveTool, CreateCameraTool, CreateLightTool
<1>3. CASE SetShadingTool \/ AddModifierTool
  BY <1>3, SetShadingKeeps, AddLevelsKeeps, AddBooleanKeeps DEF SetShadingTool, AddModifierTool
<1>4. CASE TransformObjectTool \/ DeleteObjectTool \/ DuplicateObjectTool
  BY <1>4, TransformKeeps, DeleteObjectKeeps, DuplicateKeeps
     DEF TransformObjectTool, DeleteObjectTool, DuplicateObjectTool
<1>5. CASE SetMaterialTool \/ AssignMaterialTool
  BY <1>5, SetMaterialKeeps, AssignMaterialKeeps DEF SetMaterialTool, AssignMaterialTool
<1> QED
  BY <1>1, <1>2, <1>3, <1>4, <1>5 DEF Call

\* Whatever a call's arguments and the scene are, a result that reports a change stands
\* for a scene that was handed to the undo stack whole, which has it unless Blender
\* refused the step; and an error changes neither the scene nor the undo history, four
\* tools excepted that may leave a part of their change behind, and never an undo step
\* for it (adapter/mutators/, undo_manager.py:11).
THEOREM ContractKept == Spec => KeepsContract
<1>1. Init => Promise!ContractInit
  BY DEF Init, Promise!ContractInit
<1>2. [Next]_vars => [Promise!ContractNext]_(Promise!contractVars)
  BY CallKeeps DEF Next, vars, Promise!contractVars
<1> QED
  BY <1>1, <1>2, PTL DEF Spec, KeepsContract, Promise!Contract
-----------------------------------------------------------------------------
(* Scenes stay sound.  What other objects and the scene refer to of an     *)
(* object is its type; what it refers to are its cutter and its slots.     *)

Good(s)       == s \in Scene /\ WellFormed(s)
Alike(old, o) == o \in Object /\ o.type = old.type /\ o.cutter = old.cutter /\ o.slots = old.slots

\* The cutter and the materials an object n may have in a scene.
Fits(s, n, o) ==
  /\ o.cutter # NoName => o.cutter # n /\ IsA(s, o.cutter, "MESH")
  /\ \A i \in 1..Len(o.slots) : o.slots[i] # NoName => s.materials[o.slots[i]].exists

LEMMA SceneParts ==
  ASSUME NEW s \in Scene
  PROVE  /\ s.objects \in [Names -> Object]
         /\ s.camera \in Names \union {NoName}
         /\ s.materials \in [Materials -> Surface]
  BY DEF Scene

LEMMA ObjectParts ==
  ASSUME NEW o \in Object
  PROVE  /\ o.type \in {"NONE", "MESH", "CAMERA", "LIGHT"}
         /\ o.place \in [Vectors -> Nat]
         /\ o.slots \in Seq(Materials \union {NoName})
         /\ o.cutter \in Names \union {NoName}
  BY DEF Object

LEMMA PutParts ==
  ASSUME NEW s \in Scene, NEW n \in Names, NEW o \in Object
  PROVE  /\ Put(s, n, o) \in Scene
         /\ Put(s, n, o).objects[n] = o
         /\ \A k \in Names : k # n => Put(s, n, o).objects[k] = s.objects[k]
         /\ Put(s, n, o).camera = s.camera
         /\ Put(s, n, o).materials = s.materials
  BY DEF Put, Scene

\* An object may take the place of nothing, or of one of its type.
LEMMA PutKeeps ==
  ASSUME NEW s, Good(s), NEW n \in Names, NEW o \in Object, Fits(s, n, o),
         s.objects[n].type \in {"NONE", o.type}
  PROVE  Good(Put(s, n, o))
<1> DEFINE t == Put(s, n, o)
<1>1. /\ t \in Scene /\ t.objects[n] = o /\ t.camera = s.camera /\ t.materials = s.materials
      /\ \A k \in Names : k # n => t.objects[k] = s.objects[k]
  BY PutParts DEF Good
<1> HIDE DEF t
<1>2. \A k, type : IsA(s, k, type) /\ type # "NONE" => IsA(t, k, type)
  BY <1>1 DEF IsA
<1>3. t.camera # NoName => IsA(t, t.camera, "CAMERA")
  BY <1>1, <1>2 DEF Good, WellFormed
<1>4. ASSUME NEW k \in Names
      PROVE  /\ t.objects[k].cutter # NoName =>
                  t.objects[k].cutter # k /\ IsA(t, t.objects[k].cutter, "MESH")
             /\ \A i \in 1..Len(t.objects[k].slots) :
                  t.objects[k].slots[i] # NoName => t.materials[t.objects[k].slots[i]].exists
  <2>1. CASE k = n
    BY <1>1, <1>2, <2>1 DEF Fits
  <2>2. CASE k # n
    BY <1>1, <1>2, <2>2 DEF Good, WellFormed
  <2> QED
    BY <2>1, <2>2
<1>5. WellFormed(t)
  BY <1>3, <1>4 DEF WellFormed
<1> QED
  BY <1>1, <1>5 DEF Good, t

\* What was there fits, and so does what is like it.
LEMMA AlikeKeeps ==
  ASSUME NEW s, Good(s), NEW n \in Names, NEW o, Alike(s.objects[n], o)
  PROVE  Good(Put(s, n, o))
<1>1. Fits(s, n, o)
  BY DEF Good, WellFormed, Alike, Fits
<1> QED
  BY <1>1, PutKeeps DEF Alike

LEMMA CameraKeeps ==
  ASSUME NEW s, Good(s), NEW n \in Names, IsA(s, n, "CAMERA")
  PROVE  Good([s EXCEPT !.camera = n])
<1> DEFINE t == [s EXCEPT !.camera = n]
<1>1. t \in Scene /\ t.objects = s.objects /\ t.camera = n /\ t.materials = s.materials
  BY DEF Good, Scene
<1> HIDE DEF t
<1>2. \A k, type : IsA(s, k, type) => IsA(t, k, type)
  BY <1>1 DEF IsA
<1>3. WellFormed(t)
  BY <1>1, <1>2 DEF Good, WellFormed
<1> QED
  BY <1>1, <1>3 DEF Good, t

\* A material that exists afterwards, whatever it was before.
LEMMA SurfaceKeeps ==
  ASSUME NEW s, Good(s), NEW m \in Materials, NEW surface \in Surface, surface.exists
  PROVE  Good([s EXCEPT !.materials[m] = surface])
<1> DEFINE t == [s EXCEPT !.materials[m] = surface]
<1>1. /\ t \in Scene /\ t.objects = s.objects /\ t.camera = s.camera
      /\ t.materials[m] = surface
      /\ \A k \in Materials : k # m => t.materials[k] = s.materials[k]
  BY DEF Good, Scene
<1> HIDE DEF t
<1>2. \A k, type : IsA(s, k, type) => IsA(t, k, type)
  BY <1>1 DEF IsA
<1>3. \A k \in Materials : s.materials[k].exists => t.materials[k].exists
  BY <1>1
<1>4. ASSUME NEW k \in Names, NEW i \in 1..Len(t.objects[k].slots), t.objects[k].slots[i] # NoName
      PROVE  t.materials[t.objects[k].slots[i]].exists
  <2>1. s.materials[s.objects[k].slots[i]].exists
    BY <1>1, <1>4 DEF Good, WellFormed
  <2>2. s.objects[k].slots \in Seq(Materials \union {NoName})
    BY SceneParts, ObjectParts DEF Good
  <2>3. s.objects[k].slots[i] \in Materials
    BY <1>1, <1>4, <2>2
  <2> QED
    BY <1>1, <1>3, <2>1, <2>3
<1>5. WellFormed(t)
  BY <1>1, <1>2, <1>4 DEF Good, WellFormed
<1> QED
  BY <1>1, <1>5 DEF Good, t

-----------------------------------------------------------------------------
(* What the arguments make of an object and of a material.                 *)

LEMMA ArgumentValues ==
  ASSUME NEW F, NEW args \in Arguments(F), NEW p \in Applied(args)
  PROVE  args[p] \in Nat
<1>1. p \in F /\ args[p] # Absent /\ args[p] # Bad /\ args[p] \in Numeric
  BY DEF Applied, Given, Arguments
<1> QED
  BY <1>1, SceneAssumption DEF Numeric, Values

LEMMA PlacedIn ==
  ASSUME NEW F, NEW args \in Arguments(F), NEW old \in [Vectors -> Nat]
  PROVE  Placed(old, args) \in [Vectors -> Nat]
<1>1. ASSUME NEW v \in Vectors
      PROVE  (IF v \in Applied(args) THEN args[v] ELSE old[v]) \in Nat
  BY ArgumentValues
<1> QED
  BY <1>1, Zenon DEF Placed

LEMMA MovedPlaceIn ==
  ASSUME NEW args \in Arguments(Vectors), NEW old \in [Vectors -> Nat], NEW relative \in BOOLEAN
  PROVE  MovedPlace(old, args, relative) \in [Vectors -> Nat]
<1>1. ASSUME NEW a \in Nat, NEW b \in Nat PROVE a * b \in Nat
  OBVIOUS
<1>2. ASSUME NEW v \in Vectors, v \in Applied(args)
      PROVE  Moved(v, old[v], args[v], relative) \in Nat
  <2>1. args[v] \in Nat /\ old[v] \in Nat
    BY <1>2, ArgumentValues
  <2>2. old[v] * args[v] \in Nat /\ old[v] + args[v] \in Nat
    BY <1>1, <2>1
  <2> QED
    BY <2>1, <2>2 DEF Moved
<1>3. ASSUME NEW v \in Vectors
      PROVE  (IF v \in Applied(args) THEN Moved(v, old[v], args[v], relative) ELSE old[v]) \in Nat
  BY <1>2
<1> QED
  BY <1>3, Zenon DEF MovedPlace

LEMMA FreshIn ==
  ASSUME NEW type \in {"NONE", "MESH", "CAMERA", "LIGHT"}
  PROVE  Fresh(type) \in Object
<1>1. Origin \in [Vectors -> Nat]
  BY DEF Origin
<1>2. <<>> \in Seq(Materials \union {NoName})
  OBVIOUS
<1> QED
  BY <1>1, <1>2 DEF Fresh, Object, Operations

LEMMA FreshParts ==
  ASSUME NEW type
  PROVE  /\ Fresh(type).type = type /\ Fresh(type).cutter = NoName /\ Fresh(type).slots = <<>>
         /\ Fresh(type).place = Origin
  BY DEF Fresh

\* The changes that references do not see.
LEMMA PlaceAlike ==
  ASSUME NEW o \in Object, NEW place \in [Vectors -> Nat]
  PROVE  Alike(o, [o EXCEPT !.place = place])
  BY DEF Alike, Object

LEMMA SettingAlike ==
  ASSUME NEW o \in Object, NEW setting \in Nat
  PROVE  Alike(o, [o EXCEPT !.setting = setting])
  BY DEF Alike, Object

LEMMA LevelsAlike ==
  ASSUME NEW o \in Object, NEW levels \in Nat
  PROVE  Alike(o, [o EXCEPT !.levels = levels])
  BY DEF Alike, Object

\* A new object refers to nothing.
LEMMA FreshFits ==
  ASSUME NEW s, NEW n, NEW type \in {"MESH", "CAMERA", "LIGHT"}, NEW o, Alike(Fresh(type), o)
  PROVE  Fits(s, n, o)
<1>1. o.cutter = NoName /\ Len(o.slots) = 0
  BY FreshParts DEF Alike
<1> QED
  BY <1>1 DEF Fits

LEMMA NewKeeps ==
  ASSUME Good(scene), NEW n \in Names, ~Exists(n),
         NEW type \in {"MESH", "CAMERA", "LIGHT"}, NEW o, Alike(Fresh(type), o)
  PROVE  Good(Put(scene, n, o))
<1>1. Fits(scene, n, o) /\ o \in Object
  BY FreshFits DEF Alike
<1>2. scene.objects[n].type = "NONE"
  BY DEF Exists
<1> QED
  BY <1>1, <1>2, PutKeeps

LEMMA PrimitiveGood ==
  ASSUME Good(scene), NEW n \in FreeNames, NEW args \in Arguments(Vectors)
  PROVE  Good(PrimitiveMade(n, args))
<1>1. Placed(Origin, args) \in [Vectors -> Nat] /\ Fresh("MESH") \in Object
  BY PlacedIn, FreshIn, ObjectParts, FreshParts
<1>2. Alike(Fresh("MESH"), [Fresh("MESH") EXCEPT !.place = Placed(Origin, args)])
  BY <1>1, PlaceAlike
<1> QED
  BY <1>2, NewKeeps DEF PrimitiveMade, FreeNames

LEMMA NumbersIn ==
  ASSUME NEW v \in Numeric, v # Absent, v # Bad
  PROVE  v \in Nat /\ Stored(v) \in Nat
  BY SceneAssumption DEF Numeric, Values, Stored

LEMMA PosedGood ==
  ASSUME Good(scene), NEW n \in Names, NEW type \in {"CAMERA", "LIGHT"}, ~Taken(n, type),
         NEW args \in Arguments(Poses), NEW v \in Numeric, NEW stored, v # Absent => stored \in Nat
  PROVE  /\ Good(Put(scene, n, Posed(OldOr(n, type), args, v, stored)))
         /\ IsA(Put(scene, n, Posed(OldOr(n, type), args, v, stored)), n, type)
<1> DEFINE old == OldOr(n, type)
           o   == Posed(old, args, v, stored)
<1>1. old \in Object /\ old.type = type
  <2>1. CASE Exists(n)
    BY <2>1, SceneParts DEF OldOr, Taken, IsA, Good
  <2>2. CASE ~Exists(n)
    BY <2>2, FreshIn, FreshParts DEF OldOr
  <2> QED
    BY <2>1, <2>2
<1> HIDE DEF old
<1>2. Alike(old, o)
  <2>1. Placed(old.place, args) \in [Vectors -> Nat]
    BY <1>1, PlacedIn, ObjectParts
  <2>2. old.setting \in Nat
    BY <1>1 DEF Object
  <2>3. (IF v = Absent THEN old.setting ELSE stored) \in Nat
    BY <2>2
  <2> DEFINE setting == IF v = Absent THEN old.setting ELSE stored
  <2>4. o = [old EXCEPT !.place = Placed(old.place, args), !.setting = setting]
    BY <1>1 DEF Posed, Object
  <2> HIDE DEF setting, o
  <2>5. setting \in Nat
    BY <2>3 DEF setting
  <2> QED
    BY <1>1, <2>1, <2>4, <2>5 DEF Alike, Object
<1> HIDE DEF o
<1>3. Good(Put(scene, n, o))
  <2>1. CASE Exists(n)
    <3>1. old = scene.objects[n]
      BY <2>1 DEF old, OldOr
    <3> QED
      BY <1>2, <3>1, AlikeKeeps
  <2>2. CASE ~Exists(n)
    <3>1. old = Fresh(type)
      BY <2>2 DEF old, OldOr
    <3> QED
      BY <1>2, <2>2, <3>1, NewKeeps
  <2> QED
    BY <2>1, <2>2
<1>4. IsA(Put(scene, n, o), n, type)
  <2>1. Put(scene, n, o).objects[n] = o
    BY <1>2, PutParts DEF Good, Alike
  <2> QED
    BY <1>1, <1>2, <2>1 DEF IsA, Alike
<1> QED
  BY <1>3, <1>4 DEF o, old

LEMMA CameraGood ==
  ASSUME Good(scene), NEW n \in Names, NEW args \in Arguments(Poses), NEW lens \in Numeric, NEW active,
         ~CameraRefused(n, args, lens)
  PROVE  Good(CameraMade(n, args, lens, active))
<1> DEFINE s == Put(scene, n, Posed(OldOr(n, "CAMERA"), args, lens, Stored(lens)))
<1>1. Good(s) /\ IsA(s, n, "CAMERA")
  BY PosedGood, NumbersIn DEF CameraRefused
<1>2. CameraMade(n, args, lens, active) =
        [s EXCEPT !.camera = IF active \in {"absent", "yes"} THEN n ELSE s.camera]
  BY DEF CameraMade
<1> HIDE DEF s
<1>3. CASE active \in {"absent", "yes"}
  BY <1>1, <1>2, <1>3, CameraKeeps
<1>4. CASE active \notin {"absent", "yes"}
  <2>1. [s EXCEPT !.camera = s.camera] = s
    BY <1>1 DEF Good, Scene
  <2> QED
    BY <1>1, <1>2, <1>4, <2>1
<1> QED
  BY <1>3, <1>4

LEMMA LightGood ==
  ASSUME Good(scene), NEW n \in Names, NEW args \in Arguments(Poses), NEW energy \in Numeric,
         ~LightRefused(n, args, energy)
  PROVE  Good(LightMade(n, args, energy))
  BY PosedGood, NumbersIn DEF LightRefused, LightMade

LEMMA ExistingIn ==
  ASSUME Good(scene), NEW n, Exists(n) \/ IsA(scene, n, "MESH")
  PROVE  n \in Names /\ scene.objects[n] \in Object
  BY SceneParts DEF Exists, IsA, Good

LEMMA ShadedGood ==
  ASSUME Good(scene), NEW n, NEW shading \in Numeric, ~ShadingRefused(n, shading), shading # Absent
  PROVE  Good(Shaded(n, shading))
<1>1. n \in Names /\ scene.objects[n] \in Object
  BY ExistingIn DEF ShadingRefused
<1>2. Shaded(n, shading) = Put(scene, n, [scene.objects[n] EXCEPT !.setting = shading])
  BY <1>1 DEF Shaded, Put, Good, Scene
<1> QED
  BY <1>1, <1>2, SettingAlike, AlikeKeeps, NumbersIn DEF ShadingRefused

LEMMA SubdividedGood ==
  ASSUME Good(scene), NEW n, NEW levels \in Numeric \union {Null}, ~ModifierRefused(n), levels # Bad
  PROVE  Good(Subdivided(n, levels))
<1>1. n \in Names /\ scene.objects[n] \in Object
  BY ExistingIn DEF ModifierRefused
<1>2. Stored(Levels(levels)) \in Nat
  <2>1. Levels(levels) \in Nat
    BY SceneAssumption DEF Levels, Numeric, Values
  <2> QED
    BY <2>1, SceneAssumption DEF Stored
<1> DEFINE x == Stored(Levels(levels))
<1>3. Subdivided(n, levels) = Put(scene, n, [scene.objects[n] EXCEPT !.levels = x])
  <2> HIDE DEF x
  <2>1. [scene EXCEPT !.objects[n].levels = x] = Put(scene, n, [scene.objects[n] EXCEPT !.levels = x])
    BY <1>1 DEF Put, Good, Scene
  <2> QED
    BY <2>1 DEF Subdivided, x
<1> HIDE DEF x
<1>4. x \in Nat
  BY <1>2 DEF x
<1> QED
  BY <1>1, <1>3, <1>4, LevelsAlike, AlikeKeeps

LEMMA CutGood ==
  ASSUME Good(scene), NEW n, NEW operation \in Operations \union {"absent", "null", "bad"},
         NEW c \in Names \union {NoName},
         ~ModifierRefused(n), operation # "bad", ~CutterRefused(n, c)
  PROVE  Good(Cut(n, operation, c))
<1> DEFINE op == Operation(operation)
           o  == [scene.objects[n] EXCEPT !.operation = op, !.cutter = c]
<1>1. n \in Names /\ scene.objects[n] \in Object
  BY ExistingIn DEF ModifierRefused
<1>2. op \in Operations
  BY DEF Operation, Operations
<1>3. Cut(n, operation, c) = Put(scene, n, o)
  <2> HIDE DEF op
  <2>1. [scene EXCEPT !.objects[n].operation = op, !.objects[n].cutter = c] = Put(scene, n, o)
    BY <1>1 DEF Put, Good, Scene
  <2> QED
    BY <2>1 DEF Cut, op
<1> HIDE DEF op
<1>4. o \in Object /\ o.type = scene.objects[n].type /\ o.cutter = c /\ o.slots = scene.objects[n].slots
  BY <1>1, <1>2 DEF Object
<1> HIDE DEF o
<1>5. Fits(scene, n, o)
  BY <1>1, <1>4 DEF Fits, CutterRefused, Good, WellFormed
<1> QED
  BY <1>1, <1>3, <1>4, <1>5, PutKeeps

LEMMA MovedGood ==
  ASSUME Good(scene), NEW n, Exists(n), NEW place \in [Vectors -> Nat]
  PROVE  Good([scene EXCEPT !.objects[n].place = place])
<1>1. n \in Names /\ scene.objects[n] \in Object
  BY ExistingIn
<1>2. [scene EXCEPT !.objects[n].place = place] = Put(scene, n, [scene.objects[n] EXCEPT !.place = place])
  BY <1>1 DEF Put, Good, Scene
<1> QED
  BY <1>1, <1>2, PlaceAlike, AlikeKeeps

\* What is deleted is not referred to any more.
LEMMA RemovedGood ==
  ASSUME Good(scene), NEW n \in Names
  PROVE  Good(Removed(n))
<1> DEFINE Unlinked(k) ==
             IF k = n THEN Fresh("NONE")
             ELSE IF scene.objects[k].cutter = n THEN [scene.objects[k] EXCEPT !.cutter = NoName]
             ELSE scene.objects[k]
           t == Removed(n)
<1>1. /\ t.camera = (IF scene.camera = n THEN NoName ELSE scene.camera)
      /\ t.materials = scene.materials
      /\ t.objects = [k \in Names |-> Unlinked(k)]
      /\ t = [objects |-> t.objects, camera |-> t.camera, materials |-> t.materials]
  <2> DEFINE camera  == IF scene.camera = n THEN NoName ELSE scene.camera
             objects == [k \in Names |-> Unlinked(k)]
  <2>1. t = [scene EXCEPT !.camera = camera, !.objects = objects]
    BY DEF Removed
  <2> HIDE DEF t, camera, objects
  <2>2. t.camera = camera /\ t.objects = objects /\ t.materials = scene.materials
    BY <2>1 DEF Good, Scene
  <2>3. t = [objects |-> t.objects, camera |-> t.camera, materials |-> t.materials]
    BY <2>1 DEF Good, Scene
  <2> QED
    BY <2>2, <2>3 DEF camera, objects
<1>2. ASSUME NEW k \in Names
      PROVE  /\ Unlinked(k) \in Object
             /\ k # n => Unlinked(k).type = scene.objects[k].type /\ Unlinked(k).slots = scene.objects[k].slots
             /\ k # n /\ Unlinked(k).cutter # NoName =>
                  Unlinked(k).cutter = scene.objects[k].cutter /\ scene.objects[k].cutter # n
             /\ k = n => Unlinked(k).cutter = NoName /\ Len(Unlinked(k).slots) = 0
  <2>1. scene.objects[k] \in Object
    BY SceneParts DEF Good
  <2>2. [scene.objects[k] EXCEPT !.cutter = NoName] \in Object
    BY <2>1 DEF Object
  <2>3. CASE k = n
    BY <2>3, FreshIn, FreshParts
  <2>4. CASE k # n /\ scene.objects[k].cutter = n
    BY <2>1, <2>2, <2>4 DEF Object
  <2>5. CASE k # n /\ scene.objects[k].cutter # n
    BY <2>1, <2>5
  <2> QED
    BY <2>3, <2>4, <2>5
<1> HIDE DEF Unlinked, t
<1>3. t \in Scene
  <2>1. t.objects \in [Names -> Object]
    BY <1>1, <1>2
  <2>2. t.camera \in Names \union {NoName} /\ t.materials \in [Materials -> Surface]
    BY <1>1, SceneParts DEF Good
  <2> QED
    BY <1>1, <2>1, <2>2 DEF Scene
<1>4. \A k, type : k # n /\ IsA(scene, k, type) => IsA(t, k, type)
  BY <1>1, <1>2 DEF IsA
<1>5. t.camera # NoName => IsA(t, t.camera, "CAMERA")
  BY <1>1, <1>4 DEF Good, WellFormed
<1>6. ASSUME NEW k \in Names
      PROVE  /\ t.objects[k].cutter # NoName =>
                  t.objects[k].cutter # k /\ IsA(t, t.objects[k].cutter, "MESH")
             /\ \A i \in 1..Len(t.objects[k].slots) :
                  t.objects[k].slots[i] # NoName => t.materials[t.objects[k].slots[i]].exists
  <2>1. t.objects[k] = Unlinked(k)
    BY <1>1
  <2>2. CASE k = n
    BY <1>2, <2>1, <2>2
  <2>3. CASE k # n
    BY <1>1, <1>2, <1>4, <2>1, <2>3 DEF Good, WellFormed
  <2> QED
    BY <2>2, <2>3
<1> QED
  BY <1>3, <1>5, <1>6 DEF Good, WellFormed, t

LEMMA DuplicatedGood ==
  ASSUME Good(scene), NEW source \in Names, NEW n \in Names, NEW args \in Arguments(Vectors),
         ~DuplicateRefused(source, n, args)
  PROVE  Good(Duplicated(source, n, args))
<1> DEFINE old == scene.objects[source]
           o   == [old EXCEPT !.place = Placed(old.place, args)]
<1>1. Exists(source) /\ ~Exists(n) /\ old \in Object
  BY SceneParts DEF DuplicateRefused, Good
<1>2. Duplicated(source, n, args) = Put(scene, n, o)
  BY DEF Duplicated
<1>3. Alike(old, o)
  BY <1>1, PlacedIn, ObjectParts, PlaceAlike
<1>4. Fits(scene, n, o)
  <2>1. o.cutter = old.cutter /\ o.slots = old.slots
    BY <1>3 DEF Alike
  <2> HIDE DEF o
  <2>2. o.cutter # NoName => o.cutter # n /\ IsA(scene, o.cutter, "MESH")
    BY <1>1, <2>1 DEF Good, WellFormed, IsA, Exists
  <2>3. \A i \in 1..Len(o.slots) : o.slots[i] # NoName => scene.materials[o.slots[i]].exists
    BY <2>1 DEF Good, WellFormed
  <2> QED
    BY <2>2, <2>3 DEF Fits
<1> HIDE DEF o
<1> QED
  BY <1>1, <1>2, <1>3, <1>4, PutKeeps DEF Alike, Exists

LEMMA CreatedGood ==
  ASSUME Good(scene), NEW m \in Materials
  PROVE  /\ Good(Create(scene, m)) /\ Create(scene, m).materials[m].exists
         /\ Create(scene, m).objects = scene.objects
<1>1. NewSurface \in Surface /\ NewSurface.exists
  BY DEF NewSurface, Surface
<1>2. CASE scene.materials[m].exists
  BY <1>2 DEF Create
<1>3. CASE ~scene.materials[m].exists
  <2>1. Create(scene, m) = [scene EXCEPT !.materials[m] = NewSurface]
    BY <1>3 DEF Create
  <2>2. [scene EXCEPT !.materials[m] = NewSurface].materials[m] = NewSurface
    BY DEF Good, Scene
  <2>3. [scene EXCEPT !.materials[m] = NewSurface].objects = scene.objects
    BY DEF Good, Scene
  <2> QED
    BY <1>1, <2>1, <2>2, <2>3, SurfaceKeeps
<1> QED
  BY <1>2, <1>3

LEMMA InSlotParts ==
  ASSUME NEW slots \in Seq(Materials \union {NoName}), NEW i \in Nat, NEW m \in Materials
  PROVE  /\ InSlot(slots, i, m) \in Seq(Materials \union {NoName})
         /\ \A k \in 1..Len(InSlot(slots, i, m)) :
              InSlot(slots, i, m)[k] \in {m, NoName}
                \/ (k \in 1..Len(slots) /\ InSlot(slots, i, m)[k] = slots[k])
<1> DEFINE len     == IF i < Len(slots) THEN Len(slots) ELSE i + 1
           Slot(k) == IF k = i + 1 THEN m ELSE IF k <= Len(slots) THEN slots[k] ELSE NoName
<1>1. len \in Nat /\ InSlot(slots, i, m) = [k \in 1..len |-> Slot(k)]
  BY DEF InSlot
<1>2. \A k \in 1..len : /\ Slot(k) \in Materials \union {NoName}
                        /\ Slot(k) \in {m, NoName} \/ (k \in 1..Len(slots) /\ Slot(k) = slots[k])
  OBVIOUS
<1> HIDE DEF len, Slot
<1>3. [k \in 1..len |-> Slot(k)] \in Seq(Materials \union {NoName}) /\ Len([k \in 1..len |-> Slot(k)]) = len
  BY <1>1, <1>2
<1> QED
  BY <1>1, <1>2, <1>3

LEMMA HeldGood ==
  ASSUME NEW s, Good(s), NEW n \in Names, NEW i \in Nat, NEW m \in Materials, s.materials[m].exists
  PROVE  Good(Hold(s, n, i, m)) /\ Hold(s, n, i, m).materials = s.materials
<1> DEFINE old   == s.objects[n]
           slots == InSlot(old.slots, i, m)
           o     == [old EXCEPT !.slots = slots]
<1>1. old \in Object /\ old.slots \in Seq(Materials \union {NoName})
  BY SceneParts, ObjectParts DEF Good
<1>2. /\ slots \in Seq(Materials \union {NoName})
      /\ \A k \in 1..Len(slots) :
           slots[k] \in {m, NoName} \/ (k \in 1..Len(old.slots) /\ slots[k] = old.slots[k])
  BY <1>1, InSlotParts
<1>3. Hold(s, n, i, m) = Put(s, n, o)
  <2> DEFINE t == [s EXCEPT !.objects[n].slots = slots]
  <2>1. Hold(s, n, i, m) = t
    BY DEF Hold
  <2> HIDE DEF slots
  <2>2. t = Put(s, n, o)
    BY <1>1 DEF Put, Good, Scene
  <2> QED
    BY <2>1, <2>2
<1> HIDE DEF slots
<1>4. o \in Object /\ o.type = old.type /\ o.cutter = old.cutter /\ o.slots = slots
  BY <1>1, <1>2 DEF Object
<1> HIDE DEF o
<1>5. Fits(s, n, o)
  <2>1. o.cutter # NoName => o.cutter # n /\ IsA(s, o.cutter, "MESH")
    BY <1>4 DEF Good, WellFormed
  <2>2. \A k \in 1..Len(o.slots) : o.slots[k] # NoName => s.materials[o.slots[k]].exists
    BY <1>2, <1>4 DEF Good, WellFormed
  <2> QED
    BY <2>1, <2>2 DEF Fits
<1>6. Good(Put(s, n, o))
  BY <1>4, <1>5, PutKeeps
<1>7. Put(s, n, o).materials = s.materials
  BY <1>4, PutParts DEF Good
<1> QED
  BY <1>3, <1>6, <1>7

LEMMA PaintedGood ==
  ASSUME NEW s, Good(s), NEW m \in Materials, s.materials[m].exists, NEW args \in Arguments(Properties)
  PROVE  Good(Painted(s, m, args))
<1> DEFINE old   == s.materials[m]
           color == IF "base_color" \in Applied(args) THEN Clamped(args["base_color"]) ELSE old.base_color
           metal == IF "metallic" \in Applied(args) THEN Clamped(args["metallic"]) ELSE old.metallic
           new   == [old EXCEPT !.base_color = color, !.metallic = metal]
<1>1. old \in Surface
  BY SceneParts DEF Good
<1>2. color \in Nat /\ metal \in Nat
  BY <1>1, ArgumentValues DEF Clamped, Surface
<1>3. Painted(s, m, args) = [s EXCEPT !.materials[m] = new]
  BY DEF Painted
<1> HIDE DEF color, metal
<1>4. new \in Surface /\ new.exists
  BY <1>1, <1>2 DEF Surface
<1> HIDE DEF new
<1> QED
  BY <1>3, <1>4, SurfaceKeeps

-----------------------------------------------------------------------------
(* No call leaves anything but a sound scene, whichever way it ends.       *)

GInv == Good(scene) /\ Good(saved)

LEMMA GoodInit == Init => GInv
  BY StartAssumption DEF Init, GInv, Good

LEMMA FinishGood ==
  ASSUME GInv, NEW t, NEW n, NEW s, NEW want, NEW mismatches, Good(s), Finish(t, n, s, want, mismatches)
  PROVE  GInv'
<1>1. scene' = s /\ saved' \in {s, saved}
  BY DEF Finish, PushUndoStep
<1> QED
  BY <1>1 DEF GInv

LEMMA FinishUnreadGood ==
  ASSUME GInv, NEW t, NEW n, NEW s, NEW want, Good(s), FinishUnread(t, n, s, want)
  PROVE  GInv'
<1>1. scene' = s /\ saved' \in {s, saved}
  BY DEF FinishUnread, PushUndoStep
<1> QED
  BY <1>1 DEF GInv

LEMMA FailGood ==
  ASSUME GInv, NEW t, NEW n, NEW s, Good(s), Fail(t, n, s)
  PROVE  GInv'
<1>1. scene' = s /\ saved' = saved
  BY DEF Fail
<1> QED
  BY <1>1 DEF GInv

LEMMA RefuseGood ==
  ASSUME GInv, NEW t, NEW n, Refuse(t, n)
  PROVE  GInv'
<1>1. scene' = scene /\ saved' = saved
  BY DEF Refuse, Fail
<1> QED
  BY <1>1 DEF GInv

LEMMA CreatePrimitiveSound ==
  ASSUME GInv, NEW valid, NEW args \in Arguments(Vectors), CreatePrimitive(valid, args)
  PROVE  GInv'
<1>1. CASE Refuse("create_primitive", NoName)
  BY <1>1, RefuseGood
<1>2. CASE \E n \in FreeNames :
             \/ Finish("create_primitive", n, PrimitiveMade(n, args), Facts(n, ExpectedPrimitive(args)),
                       VerifyCreate(ExpectedPrimitive(args), ObjectSnapshot(PrimitiveMade(n, args), n)))
             \/ Fail("create_primitive", n, PrimitiveMade(n, args))
  BY <1>2, PrimitiveGood, FinishGood, FailGood DEF GInv
<1> QED
  BY <1>1, <1>2 DEF CreatePrimitive

LEMMA CreateCameraSound ==
  ASSUME GInv, NEW n \in Names, NEW args \in Arguments(Poses), NEW lens \in Numeric, NEW active,
         CreateCamera(n, args, lens, active)
  PROVE  GInv'
  BY CameraGood, RefuseGood, FinishGood DEF CreateCamera, GInv

LEMMA CreateLightSound ==
  ASSUME GInv, NEW n \in Names, NEW args \in Arguments(Poses), NEW energy \in Numeric,
         CreateLight(n, args, energy)
  PROVE  GInv'
  BY LightGood, RefuseGood, FinishGood DEF CreateLight, GInv

LEMMA SetShadingSound ==
  ASSUME GInv, NEW n \in Names, NEW shading \in {Bad} \union Values, SetShading(n, shading)
  PROVE  GInv'
<1>1. shading \in Numeric /\ shading # Absent
  BY SceneAssumption DEF Numeric, Values, Bad, Absent
<1> QED
  BY <1>1, ShadedGood, RefuseGood, FinishGood DEF SetShading, GInv

LEMMA AddModifierSound ==
  ASSUME GInv, AddModifierTool
  PROVE  GInv'
<1>1. PICK n \in Names :
        \/ \E levels \in Numeric \union {Null} : AddLevels(n, levels)
        \/ \E operation \in Operations \union {"absent", "null", "bad"}, c \in Names \union {NoName} :
             AddBoolean(n, operation, c)
  BY DEF AddModifierTool
<1>2. ASSUME NEW levels \in Numeric \union {Null}, AddLevels(n, levels)
      PROVE  GInv'
  <2>1. Refuse("add_modifier", n) => GInv'
    BY RefuseGood
  <2>2. CASE ~ModifierRefused(n) /\ levels # Bad
    <3>1. Good(Subdivided(n, levels))
      BY <2>2, SubdividedGood DEF GInv
    <3> QED
      BY <1>2, <2>1, <3>1, FinishGood, FinishUnreadGood DEF AddLevels
  <2>3. CASE ModifierRefused(n) \/ levels = Bad
    BY <1>2, <2>1, <2>3 DEF AddLevels, Bad, Null
  <2> QED
    BY <2>2, <2>3
<1>3. ASSUME NEW operation \in Operations \union {"absent", "null", "bad"}, NEW c \in Names \union {NoName},
             AddBoolean(n, operation, c)
      PROVE  GInv'
  BY <1>3, CutGood, RefuseGood, FinishGood DEF AddBoolean, GInv
<1> QED
  BY <1>1, <1>2, <1>3

LEMMA TransformSound ==
  ASSUME GInv, NEW n \in Names, NEW args \in Arguments(Vectors), NEW relative \in BOOLEAN,
         Transform(n, args, relative)
  PROVE  GInv'
<1>1. CASE TransformRefused(n, args)
  BY <1>1, RefuseGood DEF Transform
<1>2. CASE ~TransformRefused(n, args)
  <2> DEFINE old   == scene.objects[n].place
             place == MovedPlace(old, args, relative)
             made  == [scene EXCEPT !.objects[n].place = place]
  <2>1. Exists(n) /\ old \in [Vectors -> Nat]
    BY <1>2, SceneParts, ObjectParts DEF TransformRefused, GInv, Good
  <2>2. place \in [Vectors -> Nat]
    BY <2>1, MovedPlaceIn
  <2>3. Good(made)
    <3> HIDE DEF place
    <3> QED
      BY <2>1, <2>2, MovedGood DEF GInv
  <2>4. CASE Sound(args)
    <3>1. \E want, mismatches : Finish("transform_object", n, made, want, mismatches)
      BY <1>2, <2>4 DEF Transform
    <3> QED
      BY <2>3, <3>1, FinishGood
  <2>5. CASE ~Sound(args)
    <3>1. PICK left \in LeftPlaces(old, args, relative) :
            Fail("transform_object", n, [scene EXCEPT !.objects[n].place = left])
      BY <1>2, <2>5 DEF Transform
    <3>2. left \in [Vectors -> Nat]
      BY <2>2, SceneAssumption DEF LeftPlaces, Values
    <3>3. Good([scene EXCEPT !.objects[n].place = left])
      BY <2>1, <3>2, MovedGood DEF GInv
    <3> QED
      BY <3>1, <3>3, FailGood
  <2> QED
    BY <2>4, <2>5
<1> QED
  BY <1>1, <1>2

LEMMA DeleteObjectSound ==
  ASSUME GInv, NEW n \in Names, DeleteObject(n)
  PROVE  GInv'
  BY RemovedGood, RefuseGood, FinishGood DEF DeleteObject, GInv

LEMMA DuplicateSound ==
  ASSUME GInv, NEW source \in Names, NEW n \in Names, NEW args \in Arguments(Vectors),
         Duplicate(source, n, args)
  PROVE  GInv'
  BY DuplicatedGood, RefuseGood, FinishGood DEF Duplicate, GInv

\* A slot holds a material, so what a call means is one.
LEMMA MeantIn ==
  ASSUME Good(scene), NEW n, n = NoName \/ n \in Names, NEW m \in Materials \union {NoName},
         NEW i \in Nat, ~(n = NoName /\ m = NoName), NEW k \in Meant(n, m, i)
  PROVE  k \in Materials
<1>1. CASE m # NoName
  BY <1>1 DEF Meant
<1>2. CASE m = NoName
  <2>1. n \in Names /\ scene.objects[n].slots \in Seq(Materials \union {NoName})
    BY <1>2, SceneParts, ObjectParts DEF Good
  <2>2. SlotOf(scene, n, i) \in Materials \union {NoName}
    BY <2>1 DEF SlotOf
  <2> QED
    BY <1>2, <2>2 DEF Meant, FreeMaterials
<1> QED
  BY <1>1, <1>2

LEMMA SetMaterialSound ==
  ASSUME GInv, NEW n \in Names \union {NoName}, NEW m \in Materials \union {NoName},
         NEW i \in Slots \union {Bad}, NEW args \in Arguments(Properties), SetMaterial(n, m, i, args)
  PROVE  GInv'
<1>1. CASE SetMaterialRefused(n, m, i, args)
  BY <1>1, RefuseGood DEF SetMaterial
<1>2. CASE ~SetMaterialRefused(n, m, i, args)
  <2>1. i \in Nat /\ ~(n = NoName /\ m = NoName)
    BY <1>2, SceneAssumption DEF SetMaterialRefused
  <2>2. PICK k \in Meant(n, m, i) :
          LET created == Create(scene, k)
              bound   == IF n = NoName THEN created ELSE Hold(created, n, i, k)
              made    == Painted(bound, k, args)
          IN  \/ n # NoName /\ ~Takes(n, i) /\ Fail("set_material", n, created)
              \/ Fail("set_material", n, made)
              \/ \E want, mismatches : Finish("set_material", n, made, want, mismatches)
    BY <1>2 DEF SetMaterial
  <2>3. k \in Materials
    BY <2>1, MeantIn DEF GInv
  <2> DEFINE created == Create(scene, k)
             bound   == IF n = NoName THEN created ELSE Hold(created, n, i, k)
  <2>4. Good(created) /\ created.materials[k].exists
    BY <2>3, CreatedGood DEF GInv
  <2>5. Good(bound) /\ bound.materials[k].exists
    <3> HIDE DEF created
    <3>1. n # NoName => n \in Names
      OBVIOUS
    <3> QED
      BY <2>1, <2>3, <2>4, <3>1, HeldGood
  <2>6. Good(Painted(bound, k, args))
    <3> HIDE DEF bound
    <3> QED
      BY <2>3, <2>5, PaintedGood
  <2> QED
    BY <2>2, <2>4, <2>6, FailGood, FinishGood
<1> QED
  BY <1>1, <1>2

LEMMA AssignMaterialSound ==
  ASSUME GInv, NEW n \in Names, NEW m \in Materials, NEW i \in Slots \union {Bad}, AssignMaterial(n, m, i)
  PROVE  GInv'
<1>1. CASE i = Bad \/ ~Exists(n)
  BY <1>1, RefuseGood DEF AssignMaterial
<1>2. CASE i # Bad /\ Exists(n)
  <2>1. i \in Nat
    BY <1>2, SceneAssumption
  <2> DEFINE created == Create(scene, m)
  <2>2. Good(created) /\ created.materials[m].exists
    BY CreatedGood DEF GInv
  <2>3. Good(Hold(created, n, i, m))
    <3> HIDE DEF created
    <3> QED
      BY <2>1, <2>2, HeldGood
  <2>4. \/ Fail("assign_material", n, created)
        \/ \E want, mismatches : Finish("assign_material", n, Hold(created, n, i, m), want, mismatches)
    BY <1>2 DEF AssignMaterial
  <2> QED
    BY <2>2, <2>3, <2>4, FailGood, FinishGood
<1> QED
  BY <1>1, <1>2

LEMMA GoodCall ==
  ASSUME GInv, Call
  PROVE  GInv'
<1>1. CASE \E t \in Tools : Misuse(t)
  BY <1>1, RefuseGood DEF Misuse
<1>2. CASE CreatePrimitiveTool \/ CreateCameraTool \/ CreateLightTool
  BY <1>2, CreatePrimitiveSound, CreateCameraSound, CreateLightSound
     DEF CreatePrimitiveTool, CreateCameraTool, CreateLightTool
<1>3. CASE SetShadingTool \/ AddModifierTool
  BY <1>3, SetShadingSound, AddModifierSound DEF SetShadingTool
<1>4. CASE TransformObjectTool \/ DeleteObjectTool \/ DuplicateObjectTool
  BY <1>4, TransformSound, DeleteObjectSound, DuplicateSound
     DEF TransformObjectTool, DeleteObjectTool, DuplicateObjectTool
<1>5. CASE SetMaterialTool \/ AssignMaterialTool
  BY <1>5, SetMaterialSound, AssignMaterialSound DEF SetMaterialTool, AssignMaterialTool
<1> QED
  BY <1>1, <1>2, <1>3, <1>4, <1>5 DEF Call

LEMMA GoodNext == GInv /\ [Next]_vars => GInv'
<1> SUFFICES ASSUME GInv, [Next]_vars PROVE GInv'
  OBVIOUS
<1>1. CASE Next
  BY <1>1, GoodCall DEF Next
<1>2. CASE UNCHANGED vars
  <2>1. scene' = scene /\ saved' = saved
    BY <1>2 DEF vars
  <2> QED
    BY <2>1 DEF GInv
<1> QED
  BY <1>1, <1>2

\* From any sound scene, over any number of objects, materials and calls, nothing ever
\* refers to an object or material that is not there or of the wrong type, in the scene
\* or in the newest undo step: not after a deletion, not after a duplicate of an object
\* with modifiers, not after a call that stopped half-way (delete_mutator.py:43).
THEOREM SceneSoundHolds == Spec => []SceneSound
<1>1. GInv => SceneSound
  BY DEF GInv, Good, SceneSound
<1> QED
  BY GoodInit, GoodNext, <1>1, PTL DEF Spec
-----------------------------------------------------------------------------
(* A call touches its target only.                                         *)

Only(n, s) == \A k \in Names \ {n} : s.objects[k] = scene.objects[k]
Spared     == SparesOthers /\ ReplacesNothing

LEMMA PutOnly ==
  ASSUME Good(scene), NEW n, NEW o
  PROVE  Only(n, Put(scene, n, o))
  BY DEF Only, Put, Good, Scene

LEMMA CameraOnly ==
  ASSUME Good(scene), NEW n, NEW args, NEW lens, NEW active
  PROVE  Only(n, CameraMade(n, args, lens, active))
<1> DEFINE s == Put(scene, n, Posed(OldOr(n, "CAMERA"), args, lens, Stored(lens)))
<1>1. Only(n, s)
  BY PutOnly
<1>2. s = [scene EXCEPT !.objects[n] = Posed(OldOr(n, "CAMERA"), args, lens, Stored(lens))]
  BY DEF Put
<1>3. CameraMade(n, args, lens, active) =
        [s EXCEPT !.camera = IF active \in {"absent", "yes"} THEN n ELSE s.camera]
  BY DEF CameraMade
<1> HIDE DEF s
<1>4. [s EXCEPT !.camera = IF active \in {"absent", "yes"} THEN n ELSE s.camera].objects = s.objects
  BY <1>2 DEF Good, Scene
<1> QED
  BY <1>1, <1>3, <1>4 DEF Only

\* Changes of parts of an object.
LEMMA ShadedOnly ==
  ASSUME Good(scene), NEW n, NEW shading
  PROVE  Only(n, Shaded(n, shading))
  BY DEF Only, Shaded, Good, Scene

LEMMA SubdividedOnly ==
  ASSUME Good(scene), NEW n, NEW levels
  PROVE  Only(n, Subdivided(n, levels))
<1>1. PICK x : x = Stored(Levels(levels))
  OBVIOUS
<1>2. Subdivided(n, levels) = [scene EXCEPT !.objects[n].levels = x]
  BY <1>1 DEF Subdivided
<1> QED
  BY <1>2 DEF Only, Good, Scene

LEMMA CutOnly ==
  ASSUME Good(scene), NEW n, NEW operation, NEW c
  PROVE  Only(n, Cut(n, operation, c))
<1>1. PICK op : op = Operation(operation)
  OBVIOUS
<1>2. Cut(n, operation, c) = [scene EXCEPT !.objects[n].operation = op, !.objects[n].cutter = c]
  BY <1>1 DEF Cut
<1> QED
  BY <1>2 DEF Only, Good, Scene

LEMMA MovedOnly ==
  ASSUME Good(scene), NEW n, NEW place
  PROVE  Only(n, [scene EXCEPT !.objects[n].place = place])
  BY DEF Only, Good, Scene

\* Materials are no objects.
LEMMA CreatedOnly ==
  ASSUME Good(scene), NEW n, NEW m
  PROVE  Only(n, Create(scene, m)) /\ Create(scene, m).objects = scene.objects
<1>1. Create(scene, m).objects = scene.objects
  BY DEF Create, Good, Scene
<1> QED
  BY <1>1 DEF Only

LEMMA HeldOnly ==
  ASSUME NEW s, Good(s), NEW n, NEW i, NEW m, Only(n, s)
  PROVE  Only(n, Hold(s, n, i, m))
<1>1. PICK slots : slots = InSlot(s.objects[n].slots, i, m)
  OBVIOUS
<1>2. Hold(s, n, i, m) = [s EXCEPT !.objects[n].slots = slots]
  BY <1>1 DEF Hold
<1> QED
  BY <1>2 DEF Only, Good, Scene

LEMMA PaintedSame ==
  ASSUME NEW s, Good(s), NEW m, NEW args
  PROVE  Painted(s, m, args).objects = s.objects
<1>1. PICK surface : Painted(s, m, args) = [s EXCEPT !.materials[m] = surface]
  BY DEF Painted
<1> QED
  BY <1>1 DEF Good, Scene

\* The ends of a call.
LEMMA FinishSpares ==
  ASSUME NEW t, NEW n, NEW s, NEW want, NEW mismatches, Finish(t, n, s, want, mismatches), Only(n, s)
  PROVE  SparesOthers /\ scene' = s /\ target' = n /\ tool' = t
  BY DEF Finish, Answer, SparesOthers, Only

LEMMA FinishUnreadSpares ==
  ASSUME NEW t, NEW n, NEW s, NEW want, FinishUnread(t, n, s, want), Only(n, s)
  PROVE  SparesOthers /\ target' = n /\ tool' = t
  BY DEF FinishUnread, Answer, SparesOthers, Only

LEMMA FailSpares ==
  ASSUME NEW t, NEW n, NEW s, Fail(t, n, s), Only(n, s)
  PROVE  SparesOthers /\ target' = n /\ tool' = t
  BY DEF Fail, Answer, SparesOthers, Only

LEMMA RefuseSpares ==
  ASSUME NEW t, NEW n, Refuse(t, n)
  PROVE  Spared
  BY DEF Refuse, Fail, Answer, SparesOthers, ReplacesNothing, Spared

LEMMA CreatePrimitiveSpares ==
  ASSUME GInv, NEW valid, NEW args, CreatePrimitive(valid, args)
  PROVE  Spared
<1>1. CASE Refuse("create_primitive", NoName)
  BY <1>1, RefuseSpares
<1>2. CASE \E n \in FreeNames :
             \/ \E want, mismatches :
                  Finish("create_primitive", n, PrimitiveMade(n, args), want, mismatches)
             \/ Fail("create_primitive", n, PrimitiveMade(n, args))
  <2>1. PICK n \in FreeNames :
             \/ \E want, mismatches :
                  Finish("create_primitive", n, PrimitiveMade(n, args), want, mismatches)
             \/ Fail("create_primitive", n, PrimitiveMade(n, args))
    BY <1>2
  <2>2. Only(n, PrimitiveMade(n, args))
    BY PutOnly DEF PrimitiveMade, GInv
  <2>3. SparesOthers /\ target' = n
    BY <2>1, <2>2, FinishSpares, FailSpares
  <2>4. ~Exists(n)
    BY DEF FreeNames
  <2> QED
    BY <2>3, <2>4 DEF Spared, ReplacesNothing
<1> QED
  BY <1>1, <1>2 DEF CreatePrimitive

LEMMA CreateCameraSpares ==
  ASSUME GInv, NEW n, NEW args, NEW lens, NEW active, CreateCamera(n, args, lens, active)
  PROVE  Spared
  BY CameraOnly, RefuseSpares, FinishSpares DEF CreateCamera, GInv, Spared, ReplacesNothing

LEMMA CreateLightSpares ==
  ASSUME GInv, NEW n, NEW args, NEW energy, CreateLight(n, args, energy)
  PROVE  Spared
<1>1. Only(n, LightMade(n, args, energy))
  BY PutOnly DEF LightMade, GInv
<1> QED
  BY <1>1, RefuseSpares, FinishSpares DEF CreateLight, Spared, ReplacesNothing

LEMMA SetShadingSpares ==
  ASSUME GInv, NEW n, NEW shading, SetShading(n, shading)
  PROVE  Spared
  BY ShadedOnly, RefuseSpares, FinishSpares DEF SetShading, GInv, Spared, ReplacesNothing

LEMMA AddLevelsSpares ==
  ASSUME GInv, NEW n, NEW levels, AddLevels(n, levels)
  PROVE  Spared
  BY SubdividedOnly, RefuseSpares, FinishSpares, FinishUnreadSpares
     DEF AddLevels, GInv, Spared, ReplacesNothing

LEMMA AddBooleanSpares ==
  ASSUME GInv, NEW n, NEW operation, NEW c, AddBoolean(n, operation, c)
  PROVE  Spared
  BY CutOnly, RefuseSpares, FinishSpares DEF AddBoolean, GInv, Spared, ReplacesNothing

LEMMA TransformSpares ==
  ASSUME GInv, NEW n, NEW args, NEW relative, Transform(n, args, relative)
  PROVE  Spared
<1>1. CASE Refuse("transform_object", n)
  BY <1>1, RefuseSpares
<1>2. CASE \E place, want, mismatches :
             \/ Finish("transform_object", n, [scene EXCEPT !.objects[n].place = place], want, mismatches)
             \/ Fail("transform_object", n, [scene EXCEPT !.objects[n].place = place])
  BY <1>2, MovedOnly, FinishSpares, FailSpares DEF GInv, Spared, ReplacesNothing
<1> QED
  BY <1>1, <1>2 DEF Transform

\* Deleting a cutter is the one exception.
LEMMA DeleteObjectSpares ==
  ASSUME GInv, NEW n \in Names, DeleteObject(n)
  PROVE  Spared
<1>1. CASE Refuse("delete_object", n)
  BY <1>1, RefuseSpares
<1>2. CASE \E want, mismatches : Finish("delete_object", n, Removed(n), want, mismatches)
  <2>1. scene' = Removed(n) /\ target' = n /\ tool' = "delete_object"
    BY <1>2 DEF Finish, Answer
  <2>2. Removed(n).objects =
          [k \in Names |->
             IF k = n THEN Fresh("NONE")
             ELSE IF scene.objects[k].cutter = n THEN [scene.objects[k] EXCEPT !.cutter = NoName]
             ELSE scene.objects[k]]
    BY DEF Removed, GInv, Good, Scene
  <2> QED
    BY <2>1, <2>2 DEF Spared, SparesOthers, ReplacesNothing
<1> QED
  BY <1>1, <1>2 DEF DeleteObject

LEMMA DuplicateSpares ==
  ASSUME GInv, NEW source, NEW n, NEW args, Duplicate(source, n, args)
  PROVE  Spared
<1>1. CASE Refuse("duplicate_object", n)
  BY <1>1, RefuseSpares
<1>2. CASE /\ ~DuplicateRefused(source, n, args)
           /\ \E want, mismatches :
                Finish("duplicate_object", n, Duplicated(source, n, args), want, mismatches)
  <2>1. Only(n, Duplicated(source, n, args))
    BY PutOnly DEF Duplicated, GInv
  <2> QED
    BY <1>2, <2>1, FinishSpares DEF DuplicateRefused, Spared, ReplacesNothing
<1> QED
  BY <1>1, <1>2 DEF Duplicate

LEMMA SetMaterialSpares ==
  ASSUME GInv, NEW n \in Names \union {NoName}, NEW m \in Materials \union {NoName},
         NEW i \in Slots \union {Bad}, NEW args \in Arguments(Properties), SetMaterial(n, m, i, args)
  PROVE  Spared
<1>1. CASE Refuse("set_material", n)
  BY <1>1, RefuseSpares
<1>2. CASE ~SetMaterialRefused(n, m, i, args)
  <2>1. i \in Nat /\ ~(n = NoName /\ m = NoName)
    BY <1>2, SceneAssumption DEF SetMaterialRefused
  <2>2. PICK k \in Meant(n, m, i) :
          LET created == Create(scene, k)
              bound   == IF n = NoName THEN created ELSE Hold(created, n, i, k)
              made    == Painted(bound, k, args)
          IN  \/ n # NoName /\ ~Takes(n, i) /\ Fail("set_material", n, created)
              \/ Fail("set_material", n, made)
              \/ \E want, mismatches : Finish("set_material", n, made, want, mismatches)
    BY <1>2 DEF SetMaterial
  <2>3. k \in Materials
    BY <2>1, MeantIn DEF GInv
  <2> DEFINE created == Create(scene, k)
             bound   == IF n = NoName THEN created ELSE Hold(created, n, i, k)
  <2>4. Good(created) /\ created.materials[k].exists /\ Only(n, created)
    BY <2>3, CreatedGood, CreatedOnly DEF GInv
  <2>5. Good(bound) /\ Only(n, bound)
    <3> HIDE DEF created
    <3>1. n # NoName => n \in Names
      OBVIOUS
    <3> QED
      BY <2>1, <2>3, <2>4, <3>1, HeldGood, HeldOnly
  <2>6. Only(n, Painted(bound, k, args))
    <3> HIDE DEF bound
    <3>1. Painted(bound, k, args).objects = bound.objects
      BY <2>5, PaintedSame
    <3> QED
      BY <2>5, <3>1 DEF Only
  <2>7. SparesOthers /\ tool' = "set_material"
    BY <2>2, <2>4, <2>6, FailSpares, FinishSpares
  <2> QED
    BY <2>7 DEF Spared, ReplacesNothing
<1> QED
  BY <1>1, <1>2 DEF SetMaterial

LEMMA AssignMaterialSpares ==
  ASSUME GInv, NEW n \in Names, NEW m \in Materials, NEW i \in Slots \union {Bad}, AssignMaterial(n, m, i)
  PROVE  Spared
<1>1. CASE Refuse("assign_material", n)
  BY <1>1, RefuseSpares
<1>2. CASE \/ Fail("assign_material", n, Create(scene, m))
           \/ \E want, mismatches :
                Finish("assign_material", n, Hold(Create(scene, m), n, i, m), want, mismatches)
  <2>1. Only(n, Create(scene, m)) /\ Good(Create(scene, m))
    BY CreatedOnly, CreatedGood DEF GInv
  <2>2. Only(n, Hold(Create(scene, m), n, i, m))
    BY <2>1, HeldOnly
  <2>3. SparesOthers /\ tool' = "assign_material"
    BY <1>2, <2>1, <2>2, FailSpares, FinishSpares
  <2> QED
    BY <2>3 DEF Spared, ReplacesNothing
<1> QED
  BY <1>1, <1>2 DEF AssignMaterial

LEMMA CallSpares ==
  ASSUME GInv, Call
  PROVE  Spared
<1>1. CASE \E t \in Tools : Misuse(t)
  BY <1>1, RefuseSpares DEF Misuse
<1>2. CASE CreatePrimitiveTool \/ CreateCameraTool \/ CreateLightTool
  BY <1>2, CreatePrimitiveSpares, CreateCameraSpares, CreateLightSpares
     DEF CreatePrimitiveTool, CreateCameraTool, CreateLightTool
<1>3. CASE SetShadingTool \/ AddModifierTool
  BY <1>3, SetShadingSpares, AddLevelsSpares, AddBooleanSpares DEF SetShadingTool, AddModifierTool
<1>4. CASE TransformObjectTool \/ DeleteObjectTool \/ DuplicateObjectTool
  BY <1>4, TransformSpares, DeleteObjectSpares, DuplicateSpares
     DEF TransformObjectTool, DeleteObjectTool, DuplicateObjectTool
<1>5. CASE SetMaterialTool \/ AssignMaterialTool
  BY <1>5, SetMaterialSpares, AssignMaterialSpares DEF SetMaterialTool, AssignMaterialTool
<1> QED
  BY <1>1, <1>2, <1>3, <1>4, <1>5 DEF Call

\* Over any number of objects and calls, finished, refused or stopped half-way, a call
\* changes no object but its target, except that deleting a cutter unlinks it, and what
\* creates an object never takes the place of another one (duplicate_mutator.py:60,
\* primitive_mutator.py:74, delete_mutator.py:43).
THEOREM OthersUntouchedHolds == Spec => OthersUntouched
<1>1. GInv /\ [Next]_vars => [SparesOthers /\ ReplacesNothing]_vars
  BY CallSpares DEF Next, Spared
<1> QED
  BY GoodInit, GoodNext, <1>1, PTL DEF Spec, OthersUntouched
-----------------------------------------------------------------------------
(* What a verified result says is true.                                    *)

MaterialTools == {"set_material", "assign_material"}

\* All that was asked for can be read in the scene that the call made.
Done(s, t, want) == \A f \in want : Reads(s, t, f) = f[3]

LEMMA FinishTrue ==
  ASSUME NEW t, NEW n, NEW s, NEW want, NEW mismatches, Finish(t, n, s, want, mismatches),
         mismatches = {} => Done(s, t, want)
  PROVE  VerifiedMeansDone'
<1>1. scene' = s /\ tool' = t /\ wanted' = want /\ (outcome' = "ok" => mismatches = {})
  BY DEF Finish, Answer
<1>2. SUFFICES ASSUME outcome' = "ok" PROVE Done(s, t, want)
  BY <1>1 DEF VerifiedMeansDone, Done
<1> QED
  BY <1>1, <1>2

LEMMA FailTrue ==
  ASSUME NEW t, NEW n, NEW s, Fail(t, n, s)
  PROVE  VerifiedMeansDone'
  BY DEF Fail, Answer, VerifiedMeansDone

LEMMA RefuseTrue ==
  ASSUME NEW t, NEW n, Refuse(t, n)
  PROVE  VerifiedMeansDone'
  BY FailTrue DEF Refuse

LEMMA FinishUnreadTrue ==
  ASSUME NEW t, NEW n, NEW s, NEW want, FinishUnread(t, n, s, want)
  PROVE  VerifiedMeansDone'
  BY DEF FinishUnread, Answer, VerifiedMeansDone

\* Facts about an object, and about a material.
LEMMA ObjectFacts ==
  ASSUME NEW n \in Names, NEW s, NEW t, t \notin MaterialTools, NEW want,
         \A p \in DOMAIN want : ObjectSnapshot(s, n)[p] = want[p]
  PROVE  Done(s, t, Facts(n, want))
<1> SUFFICES ASSUME NEW p \in DOMAIN want
             PROVE  Reads(s, t, <<n, p, want[p]>>) = want[p]
  BY DEF Done, Facts
<1>1. n \notin Materials
  BY SceneAssumption
<1> QED
  BY <1>1 DEF Reads, MaterialTools

LEMMA SurfaceFacts ==
  ASSUME NEW m \in Materials, NEW s, NEW t, NEW want,
         \A p \in DOMAIN want : SurfaceSnapshot(s, m)[p] = want[p]
  PROVE  Done(s, t, Facts(m, want))
  BY DEF Done, Facts, Reads

LEMMA SlotFact ==
  ASSUME NEW n \in Names, NEW s, NEW t \in MaterialTools, NEW i, NEW k, SlotOf(s, n, i) = k
  PROVE  Done(s, t, {<<n, i, k>>})
<1>1. n \notin Materials
  BY SceneAssumption
<1> QED
  BY <1>1 DEF Done, Reads, MaterialTools

\* The verifier finds no difference: what is expected is there, as far as it looks.
LEMMA NoDifference ==
  ASSUME NEW props, NEW expected, NEW actual, IfExists(actual, Differ(props, expected, actual)) = {},
         DOMAIN expected \subseteq props
  PROVE  \A p \in DOMAIN expected : actual[p] = expected[p]
  BY DEF IfExists, Differ

LEMMA VerifiedFacts ==
  ASSUME NEW n \in Names, NEW s, NEW t, t \notin MaterialTools, NEW want, NEW props,
         IfExists(ObjectSnapshot(s, n), Differ(props, want, ObjectSnapshot(s, n))) = {},
         DOMAIN want \subseteq props
  PROVE  Done(s, t, Facts(n, want))
  BY NoDifference, ObjectFacts

LEMMA AskedDomain ==
  ASSUME NEW F, NEW args \in Arguments(F)
  PROVE  DOMAIN Asked(args) \subseteq F
  BY DEF Asked, Given, Arguments

LEMMA OverlayParts ==
  ASSUME NEW f, NEW g
  PROVE  /\ DOMAIN Overlay(f, g) = DOMAIN f \union DOMAIN g
         /\ \A p \in DOMAIN g : Overlay(f, g)[p] = g[p]
         /\ \A p \in DOMAIN f : p \notin DOMAIN g => Overlay(f, g)[p] = f[p]
  BY DEF Overlay

LEMMA SnapshotParts ==
  ASSUME NEW s, NEW n
  PROVE  /\ ObjectSnapshot(s, n).exists = (s.objects[n].type # "NONE")
         /\ ObjectSnapshot(s, n).type = s.objects[n].type
         /\ ObjectSnapshot(s, n).setting = s.objects[n].setting
<1>1. PICK o, place, rest :
        /\ o = s.objects[n] /\ place = o.place
        /\ rest = [exists |-> o.type # "NONE", type |-> o.type, setting |-> o.setting, levels |-> o.levels,
                   operation |-> o.operation, cutter |-> o.cutter, active |-> s.camera = n, new_name |-> n]
  OBVIOUS
<1>2. /\ rest.exists = (o.type # "NONE") /\ rest.type = o.type /\ rest.setting = o.setting
      /\ {"exists", "type", "setting"} \subseteq DOMAIN rest
  BY <1>1
<1>3. ObjectSnapshot(s, n) = Overlay(place, rest)
  BY <1>1 DEF ObjectSnapshot
<1> QED
  BY <1>1, <1>2, <1>3 DEF Overlay

LEMMA CreatePrimitiveTrue ==
  ASSUME NEW valid, NEW args \in Arguments(Vectors), CreatePrimitive(valid, args)
  PROVE  VerifiedMeansDone'
<1>1. CASE Refuse("create_primitive", NoName)
  BY <1>1, RefuseTrue
<1>2. CASE \E n \in FreeNames : Fail("create_primitive", n, PrimitiveMade(n, args))
  BY <1>2, FailTrue
<1>3. CASE \E n \in FreeNames :
             Finish("create_primitive", n, PrimitiveMade(n, args), Facts(n, ExpectedPrimitive(args)),
                    VerifyCreate(ExpectedPrimitive(args), ObjectSnapshot(PrimitiveMade(n, args), n)))
  <2>1. PICK n, s, want :
          /\ n \in FreeNames
          /\ s = PrimitiveMade(n, args) /\ want = ExpectedPrimitive(args)
          /\ Finish("create_primitive", n, s, Facts(n, want), VerifyCreate(want, ObjectSnapshot(s, n)))
    BY <1>3
  <2>2. DOMAIN want \subseteq {"type"} \union Vectors
    <3>1. DOMAIN want = DOMAIN Asked(args) \union {"type"}
      BY <2>1, OverlayParts DEF ExpectedPrimitive
    <3> QED
      BY <3>1, AskedDomain
  <2>3. n \in Names /\ "create_primitive" \notin MaterialTools
    BY <2>1 DEF FreeNames, MaterialTools
  <2>4. VerifyCreate(want, ObjectSnapshot(s, n)) = {} => Done(s, "create_primitive", Facts(n, want))
    BY <2>2, <2>3, VerifiedFacts DEF VerifyCreate
  <2> QED
    BY <2>1, <2>4, FinishTrue
<1> QED
  BY <1>1, <1>2, <1>3 DEF CreatePrimitive

LEMMA CreateCameraTrue ==
  ASSUME NEW n \in Names, NEW args \in Arguments(Poses), NEW lens, NEW active,
         CreateCamera(n, args, lens, active)
  PROVE  VerifiedMeansDone'
<1>1. CASE Refuse("create_camera", n)
  BY <1>1, RefuseTrue
<1>2. CASE \E s, want :
             /\ want = ExpectedCamera(args, lens, active)
             /\ Finish("create_camera", n, s, Facts(n, want), VerifyCamera(want, ObjectSnapshot(s, n)))
  <2>1. PICK s, want :
             /\ want = ExpectedCamera(args, lens, active)
             /\ Finish("create_camera", n, s, Facts(n, want), VerifyCamera(want, ObjectSnapshot(s, n)))
    BY <1>2
  <2>2. DOMAIN want \subseteq {"type", "setting", "active"} \union Poses
    <3>1. DOMAIN want = (DOMAIN Asked(args) \union DOMAIN AskedOf("setting", lens)) \union {"type", "active"}
      <4>1. PICK asked, rest :
              /\ asked = Overlay(Asked(args), AskedOf("setting", lens)) /\ DOMAIN rest = {"type", "active"}
              /\ want = Overlay(asked, rest)
        BY <2>1 DEF ExpectedCamera
      <4>2. DOMAIN asked = DOMAIN Asked(args) \union DOMAIN AskedOf("setting", lens)
        BY <4>1, OverlayParts
      <4> QED
        BY <4>1, <4>2 DEF Overlay
    <3>2. DOMAIN AskedOf("setting", lens) \subseteq {"setting"}
      BY DEF AskedOf
    <3> QED
      BY <3>1, <3>2, AskedDomain
  <2>3. "create_camera" \notin MaterialTools
    BY DEF MaterialTools
  <2>4. VerifyCamera(want, ObjectSnapshot(s, n)) = {} => Done(s, "create_camera", Facts(n, want))
    BY <2>2, <2>3, VerifiedFacts DEF VerifyCamera
  <2> QED
    BY <2>1, <2>4, FinishTrue
<1> QED
  BY <1>1, <1>2 DEF CreateCamera

LEMMA CreateLightTrue ==
  ASSUME NEW n \in Names, NEW args \in Arguments(Poses), NEW energy, CreateLight(n, args, energy)
  PROVE  VerifiedMeansDone'
<1>1. CASE Refuse("create_light", n)
  BY <1>1, RefuseTrue
<1>2. CASE \E s, want :
             /\ want = ExpectedLight(args, energy)
             /\ Finish("create_light", n, s, Facts(n, want), VerifyLight(want, ObjectSnapshot(s, n)))
  <2>1. PICK s, want :
             /\ want = ExpectedLight(args, energy)
             /\ Finish("create_light", n, s, Facts(n, want), VerifyLight(want, ObjectSnapshot(s, n)))
    BY <1>2
  <2>2. DOMAIN want \subseteq {"type", "setting"} \union Poses
    <3>1. DOMAIN want = (DOMAIN Asked(args) \union DOMAIN AskedOf("setting", energy)) \union {"type"}
      <4>1. PICK asked, rest :
              /\ asked = Overlay(Asked(args), AskedOf("setting", energy)) /\ DOMAIN rest = {"type"}
              /\ want = Overlay(asked, rest)
        BY <2>1 DEF ExpectedLight
      <4>2. DOMAIN asked = DOMAIN Asked(args) \union DOMAIN AskedOf("setting", energy)
        BY <4>1, OverlayParts
      <4> QED
        BY <4>1, <4>2 DEF Overlay
    <3>2. DOMAIN AskedOf("setting", energy) \subseteq {"setting"}
      BY DEF AskedOf
    <3> QED
      BY <3>1, <3>2, AskedDomain
  <2>3. "create_light" \notin MaterialTools
    BY DEF MaterialTools
  <2>4. VerifyLight(want, ObjectSnapshot(s, n)) = {} => Done(s, "create_light", Facts(n, want))
    BY <2>2, <2>3, VerifiedFacts DEF VerifyLight
  <2> QED
    BY <2>1, <2>4, FinishTrue
<1> QED
  BY <1>1, <1>2 DEF CreateLight

\* Nothing is looked at here: the shading is stored as it is given.
LEMMA SetShadingTrue ==
  ASSUME GInv, NEW n, NEW shading, SetShading(n, shading)
  PROVE  VerifiedMeansDone'
<1>1. CASE Refuse("set_shading", n)
  BY <1>1, RefuseTrue
<1>2. CASE ~ShadingRefused(n, shading)
  <2>1. PICK s, want, mismatches :
          /\ s = Shaded(n, shading) /\ want = [setting |-> shading]
          /\ Finish("set_shading", n, s, Facts(n, want), mismatches)
    BY <1>2 DEF SetShading
  <2>2. n \in Names /\ scene.objects[n] \in Object
    BY <1>2, ExistingIn DEF ShadingRefused, GInv
  <2>3. s.objects[n].setting = shading
    BY <2>1, <2>2 DEF Shaded, GInv, Good, Scene, Object
  <2>4. ObjectSnapshot(s, n).setting = shading
    BY <2>3, SnapshotParts
  <2>5. "set_shading" \notin MaterialTools
    BY DEF MaterialTools
  <2>6. Done(s, "set_shading", Facts(n, want))
    BY <2>1, <2>2, <2>4, <2>5, ObjectFacts
  <2> QED
    BY <2>1, <2>6, FinishTrue
<1> QED
  BY <1>1, <1>2 DEF SetShading

LEMMA ModifierTrue ==
  ASSUME NEW n \in Names, NEW s, NEW want, DOMAIN want \subseteq {"levels", "operation", "cutter"},
         Finish("add_modifier", n, s, Facts(n, want), VerifyModifier(want, ObjectSnapshot(s, n)))
  PROVE  VerifiedMeansDone'
<1>1. "add_modifier" \notin MaterialTools
  BY DEF MaterialTools
<1>2. VerifyModifier(want, ObjectSnapshot(s, n)) = {} => Done(s, "add_modifier", Facts(n, want))
  BY <1>1, VerifiedFacts DEF VerifyModifier
<1> QED
  BY <1>2, FinishTrue

LEMMA AddModifierTrue ==
  ASSUME AddModifierTool
  PROVE  VerifiedMeansDone'
<1>1. PICK n \in Names :
        \/ \E levels \in Numeric \union {Null} : AddLevels(n, levels)
        \/ \E operation \in Operations \union {"absent", "null", "bad"}, c \in Names \union {NoName} :
             AddBoolean(n, operation, c)
  BY DEF AddModifierTool
<1>2. \A levels : DOMAIN ExpectedLevels(levels) \subseteq {"levels", "operation", "cutter"}
  BY DEF ExpectedLevels
<1>3. \A operation, c : DOMAIN ExpectedBoolean(operation, c) \subseteq {"levels", "operation", "cutter"}
  BY DEF ExpectedBoolean
<1>4. ASSUME NEW levels, AddLevels(n, levels)
      PROVE  VerifiedMeansDone'
  BY <1>2, <1>4, ModifierTrue, RefuseTrue, FinishUnreadTrue DEF AddLevels
<1>5. ASSUME NEW operation, NEW c, AddBoolean(n, operation, c)
      PROVE  VerifiedMeansDone'
  BY <1>3, <1>5, ModifierTrue, RefuseTrue DEF AddBoolean
<1> QED
  BY <1>1, <1>4, <1>5

LEMMA TransformTrue ==
  ASSUME NEW n \in Names, NEW args \in Arguments(Vectors), NEW relative, Transform(n, args, relative)
  PROVE  VerifiedMeansDone'
<1>1. CASE Refuse("transform_object", n)
  BY <1>1, RefuseTrue
<1>2. CASE \E s : Fail("transform_object", n, s)
  BY <1>2, FailTrue
<1>3. CASE \E s, old, want :
             /\ want = [v \in Given(args) |-> Moved(v, old[v], args[v], relative)]
             /\ Finish("transform_object", n, s, Facts(n, want),
                       VerifyTransform(ExpectedPlace(old, args, relative), ObjectSnapshot(s, n)))
  <2>1. PICK s, old, want :
             /\ want = [v \in Given(args) |-> Moved(v, old[v], args[v], relative)]
             /\ Finish("transform_object", n, s, Facts(n, want),
                       VerifyTransform(ExpectedPlace(old, args, relative), ObjectSnapshot(s, n)))
    BY <1>3
  <2>2. want = ExpectedPlace(old, args, relative) /\ DOMAIN want \subseteq Vectors
    BY <2>1 DEF ExpectedPlace, Moved, Given, Arguments
  <2>3. "transform_object" \notin MaterialTools
    BY DEF MaterialTools
  <2>4. VerifyTransform(want, ObjectSnapshot(s, n)) = {} => Done(s, "transform_object", Facts(n, want))
    BY <2>2, <2>3, VerifiedFacts DEF VerifyTransform
  <2> QED
    BY <2>1, <2>2, <2>4, FinishTrue
<1> QED
  BY <1>1, <1>2, <1>3 DEF Transform

LEMMA DeleteObjectTrue ==
  ASSUME NEW n \in Names, DeleteObject(n)
  PROVE  VerifiedMeansDone'
<1>1. CASE Refuse("delete_object", n)
  BY <1>1, RefuseTrue
<1>2. CASE Finish("delete_object", n, Removed(n), Facts(n, [exists |-> FALSE]),
                  VerifyDelete(ObjectSnapshot(Removed(n), n)))
  <2>1. ObjectSnapshot(Removed(n), n).exists \in BOOLEAN
    BY SnapshotParts
  <2>2. VerifyDelete(ObjectSnapshot(Removed(n), n)) = {} => ObjectSnapshot(Removed(n), n).exists = FALSE
    BY <2>1 DEF VerifyDelete
  <2>3. "delete_object" \notin MaterialTools
    BY DEF MaterialTools
  <2>4. PICK want : want = [exists |-> FALSE]
    OBVIOUS
  <2>5. DOMAIN want = {"exists"} /\ want["exists"] = FALSE
    BY <2>4
  <2>6. VerifyDelete(ObjectSnapshot(Removed(n), n)) = {} => Done(Removed(n), "delete_object", Facts(n, want))
    BY <2>2, <2>3, <2>5, ObjectFacts
  <2> QED
    BY <1>2, <2>4, <2>6, FinishTrue
<1> QED
  BY <1>1, <1>2 DEF DeleteObject

\* The type is not compared with the source's, but the duplicate has it.
LEMMA DuplicateTrue ==
  ASSUME GInv, NEW source \in Names, NEW n \in Names, NEW args \in Arguments(Vectors),
         Duplicate(source, n, args)
  PROVE  VerifiedMeansDone'
<1>1. CASE Refuse("duplicate_object", n)
  BY <1>1, RefuseTrue
<1>2. CASE \E s, actual, want, expected, mismatches :
             /\ s = Duplicated(source, n, args) /\ actual = ObjectSnapshot(s, n)
             /\ want = Overlay(Asked(args), [type |-> scene.objects[source].type])
             /\ expected = ExpectedDuplicate(n, args, actual)
             /\ Finish("duplicate_object", n, s, Facts(n, want), mismatches)
             /\ mismatches = {} =>
                  IfExists(actual, Differ({"new_name", "type"} \union Vectors, expected, actual)) = {}
  <2>1. PICK s, actual, want, expected, mismatches :
             /\ s = Duplicated(source, n, args) /\ actual = ObjectSnapshot(s, n)
             /\ want = Overlay(Asked(args), [type |-> scene.objects[source].type])
             /\ expected = ExpectedDuplicate(n, args, actual)
             /\ Finish("duplicate_object", n, s, Facts(n, want), mismatches)
             /\ mismatches = {} =>
                  IfExists(actual, Differ({"new_name", "type"} \union Vectors, expected, actual)) = {}
    BY <1>2
  <2>2. actual.type = scene.objects[source].type
    <3>1. PICK place : s = Put(scene, n, [scene.objects[source] EXCEPT !.place = place])
      BY <2>1 DEF Duplicated
    <3>2. scene.objects[source] \in Object
      BY SceneParts DEF GInv, Good
    <3>3. s.objects[n].type = scene.objects[source].type
      BY <3>1, <3>2 DEF Put, GInv, Good, Scene, Object
    <3> QED
      BY <2>1, <3>3, SnapshotParts
  <2>3. /\ DOMAIN want = DOMAIN Asked(args) \union {"type"}
        /\ DOMAIN expected = DOMAIN Asked(args) \union {"type", "new_name"}
        /\ want["type"] = scene.objects[source].type
    <3>1. PICK asked, type, rest :
            /\ asked = Asked(args)
            /\ DOMAIN type = {"type"} /\ type["type"] = scene.objects[source].type /\ want = Overlay(asked, type)
            /\ DOMAIN rest = {"type", "new_name"} /\ expected = Overlay(asked, rest)
      BY <2>1 DEF ExpectedDuplicate
    <3> QED
      BY <3>1 DEF Overlay
  <2>4. \A p \in Vectors : p # "type" /\ p # "new_name"
    BY SceneAssumption
  <2>5. \A p \in DOMAIN Asked(args) : want[p] = expected[p]
    <3>1. PICK asked, type, rest :
            /\ asked = Asked(args) /\ DOMAIN asked \subseteq Vectors
            /\ DOMAIN type = {"type"} /\ want = Overlay(asked, type)
            /\ DOMAIN rest = {"type", "new_name"} /\ expected = Overlay(asked, rest)
      BY <2>1, AskedDomain DEF ExpectedDuplicate
    <3>2. \A p \in DOMAIN asked : want[p] = asked[p] /\ expected[p] = asked[p]
      BY <2>4, <3>1 DEF Overlay
    <3> QED
      BY <3>1, <3>2
  <2>6. DOMAIN expected \subseteq {"new_name", "type"} \union Vectors
    BY <2>3, AskedDomain
  <2>7. mismatches = {} => \A p \in DOMAIN want : actual[p] = want[p]
    BY <2>1, <2>2, <2>3, <2>5, <2>6, NoDifference
  <2>8. "duplicate_object" \notin MaterialTools
    BY DEF MaterialTools
  <2>9. mismatches = {} => Done(s, "duplicate_object", Facts(n, want))
    BY <2>1, <2>7, <2>8, ObjectFacts
  <2> QED
    BY <2>1, <2>9, FinishTrue
<1>3. ASSUME ~DuplicateRefused(source, n, args)
      PROVE  \E s, actual, want, expected, mismatches :
             /\ s = Duplicated(source, n, args) /\ actual = ObjectSnapshot(s, n)
             /\ want = Overlay(Asked(args), [type |-> scene.objects[source].type])
             /\ expected = ExpectedDuplicate(n, args, actual)
             /\ Finish("duplicate_object", n, s, Facts(n, want), mismatches)
             /\ mismatches = {} =>
                  IfExists(actual, Differ({"new_name", "type"} \union Vectors, expected, actual)) = {}
  <2>1. PICK s, actual, want, expected, before, after :
             /\ s = Duplicated(source, n, args) /\ actual = ObjectSnapshot(s, n)
             /\ want = Overlay(Asked(args), [type |-> scene.objects[source].type])
             /\ expected = ExpectedDuplicate(n, args, actual)
             /\ before = ObjectSnapshot(scene, source) /\ after = ObjectSnapshot(s, source)
    OBVIOUS
  <2>2. PICK mismatches : /\ mismatches = VerifyDuplicate(before, after, expected, actual)
                         /\ Finish("duplicate_object", n, s, Facts(n, want), mismatches)
    BY <1>3, <2>1 DEF Duplicate
  <2>3. mismatches = {} =>
          IfExists(actual, Differ({"new_name", "type"} \union Vectors, expected, actual)) = {}
    BY <2>2 DEF VerifyDuplicate
  <2> QED
    BY <2>1, <2>2, <2>3
<1> QED
  BY <1>1, <1>2, <1>3 DEF Duplicate

\* The slot holds the material; the material is looked at.
LEMMA HeldSlot ==
  ASSUME NEW s, Good(s), NEW n \in Names, NEW i \in Nat, NEW m
  PROVE  SlotOf(Hold(s, n, i, m), n, i) = m
<1>1. s.objects[n] \in Object /\ s.objects[n].slots \in Seq(Materials \union {NoName})
  BY SceneParts, ObjectParts DEF Good
<1>2. PICK old, len : old = s.objects[n].slots /\ len = IF i < Len(old) THEN Len(old) ELSE i + 1
  OBVIOUS
<1>3. PICK slots : /\ slots = [k \in 1..len |-> IF k = i + 1 THEN m ELSE IF k <= Len(old) THEN old[k] ELSE NoName]
                   /\ slots = InSlot(old, i, m)
  BY <1>2 DEF InSlot
<1>4. Hold(s, n, i, m).objects[n].slots = slots
  <2>1. Hold(s, n, i, m) = [s EXCEPT !.objects[n].slots = slots]
    BY <1>2, <1>3 DEF Hold
  <2> QED
    BY <1>1, <2>1 DEF Good, Scene, Object
<1>5. Len(old) \in Nat /\ len \in Nat /\ i < len /\ i + 1 \in 1..len
  BY <1>1, <1>2
<1>6. Len(slots) = len /\ slots[i + 1] = m
  BY <1>3, <1>5
<1> QED
  BY <1>4, <1>5, <1>6 DEF SlotOf

LEMMA SetMaterialTrue ==
  ASSUME GInv, NEW n \in Names \union {NoName}, NEW m \in Materials \union {NoName},
         NEW i \in Slots \union {Bad}, NEW args \in Arguments(Properties), SetMaterial(n, m, i, args)
  PROVE  VerifiedMeansDone'
<1>1. CASE Refuse("set_material", n)
  BY <1>1, RefuseTrue
<1>2. CASE ~SetMaterialRefused(n, m, i, args)
  <2>1. i \in Nat /\ ~(n = NoName /\ m = NoName)
    BY <1>2, SceneAssumption DEF SetMaterialRefused
  <2>2. PICK k, created, bound, made, want :
          /\ k \in Meant(n, m, i)
          /\ created = Create(scene, k)
          /\ bound   = IF n = NoName THEN created ELSE Hold(created, n, i, k)
          /\ made    = Painted(bound, k, args)
          /\ want    = ExpectedSurface(args)
          /\ \/ \E s : Fail("set_material", n, s)
             \/ Finish("set_material", n, made, Facts(k, want) \union (IF n = NoName THEN {} ELSE {<<n, i, k>>}),
                       VerifySetMaterial(want, SurfaceSnapshot(made, k)))
    BY <1>2 DEF SetMaterial
  <2>3. k \in Materials
    BY <2>1, <2>2, MeantIn DEF GInv
  <2>4. Good(created) /\ created.materials[k].exists
    BY <2>2, <2>3, CreatedGood DEF GInv
  <2>5. n # NoName => n \in Names
    OBVIOUS
  <2>6. Good(bound)
    BY <2>1, <2>2, <2>3, <2>4, <2>5, HeldGood
  <2>7. VerifySetMaterial(want, SurfaceSnapshot(made, k)) = {} => Done(made, "set_material", Facts(k, want))
    <3>1. DOMAIN want \subseteq Properties
      BY <2>2 DEF ExpectedSurface, Given, Arguments
    <3>2. VerifySetMaterial(want, SurfaceSnapshot(made, k)) = {}
            => \A p \in DOMAIN want : SurfaceSnapshot(made, k)[p] = want[p]
      BY <3>1 DEF VerifySetMaterial, Differ
    <3> QED
      BY <2>3, <3>2, SurfaceFacts
  <2>8. n # NoName => Done(made, "set_material", {<<n, i, k>>})
    <3> SUFFICES ASSUME n # NoName PROVE Done(made, "set_material", {<<n, i, k>>})
      OBVIOUS
    <3>1. SlotOf(bound, n, i) = k
      BY <2>1, <2>2, <2>4, <2>5, HeldSlot
    <3>2. made.objects = bound.objects
      BY <2>2, <2>6, PaintedSame
    <3>3. SlotOf(made, n, i) = k
      BY <3>1, <3>2 DEF SlotOf
    <3>4. "set_material" \in MaterialTools
      BY DEF MaterialTools
    <3> QED
      BY <2>5, <3>3, <3>4, SlotFact
  <2>9. VerifySetMaterial(want, SurfaceSnapshot(made, k)) = {}
          => Done(made, "set_material", Facts(k, want) \union (IF n = NoName THEN {} ELSE {<<n, i, k>>}))
    BY <2>7, <2>8 DEF Done
  <2> QED
    BY <2>2, <2>9, FailTrue, FinishTrue
<1> QED
  BY <1>1, <1>2 DEF SetMaterial

LEMMA AssignMaterialTrue ==
  ASSUME GInv, NEW n \in Names, NEW m \in Materials, NEW i \in Slots \union {Bad}, AssignMaterial(n, m, i)
  PROVE  VerifiedMeansDone'
<1>1. CASE Refuse("assign_material", n)
  BY <1>1, RefuseTrue
<1>2. CASE Fail("assign_material", n, Create(scene, m))
  BY <1>2, FailTrue
<1>3. CASE i # Bad /\ \E mismatches :
             Finish("assign_material", n, Hold(Create(scene, m), n, i, m), {<<n, i, m>>}, mismatches)
  <2>1. i \in Nat
    BY <1>3, SceneAssumption
  <2>2. PICK s : s = Create(scene, m) /\ Good(s)
    BY CreatedGood DEF GInv
  <2>3. SlotOf(Hold(s, n, i, m), n, i) = m
    BY <2>1, <2>2, HeldSlot
  <2>4. "assign_material" \in MaterialTools
    BY DEF MaterialTools
  <2>5. Done(Hold(s, n, i, m), "assign_material", {<<n, i, m>>})
    BY <2>3, <2>4, SlotFact
  <2> QED
    BY <1>3, <2>2, <2>5, FinishTrue
<1> QED
  BY <1>1, <1>2, <1>3 DEF AssignMaterial

LEMMA CallTrue ==
  ASSUME GInv, Call
  PROVE  VerifiedMeansDone'
<1>1. CASE \E t \in Tools : Misuse(t)
  BY <1>1, RefuseTrue DEF Misuse
<1>2. CASE CreatePrimitiveTool \/ CreateCameraTool \/ CreateLightTool
  BY <1>2, CreatePrimitiveTrue, CreateCameraTrue, CreateLightTrue
     DEF CreatePrimitiveTool, CreateCameraTool, CreateLightTool
<1>3. CASE SetShadingTool \/ AddModifierTool
  BY <1>3, SetShadingTrue, AddModifierTrue DEF SetShadingTool
<1>4. CASE TransformObjectTool \/ DeleteObjectTool \/ DuplicateObjectTool
  BY <1>4, TransformTrue, DeleteObjectTrue, DuplicateTrue
     DEF TransformObjectTool, DeleteObjectTool, DuplicateObjectTool
<1>5. CASE SetMaterialTool \/ AssignMaterialTool
  BY <1>5, SetMaterialTrue, AssignMaterialTrue DEF SetMaterialTool, AssignMaterialTool
<1> QED
  BY <1>1, <1>2, <1>3, <1>4, <1>5 DEF Call

\* For any arguments, whatever range Blender keeps its values in and wherever the call
\* starts from, a result that says "verified" is true of the scene (verifier.py,
\* runtime.py:301): what the verifiers compare is enough, with what the mutators store,
\* for every property the call asked for.
THEOREM VerifiedMeansDoneHolds == Spec => []VerifiedMeansDone
<1>1. Init => VerifiedMeansDone
  BY DEF Init, VerifiedMeansDone
<1>2. GInv /\ VerifiedMeansDone /\ [Next]_vars => VerifiedMeansDone'
  <2> SUFFICES ASSUME GInv, VerifiedMeansDone, [Next]_vars PROVE VerifiedMeansDone'
    OBVIOUS
  <2>1. CASE Next
    BY <2>1, CallTrue DEF Next
  <2>2. CASE UNCHANGED vars
    BY <2>2 DEF vars, VerifiedMeansDone
  <2> QED
    BY <2>1, <2>2
<1> QED
  BY GoodInit, GoodNext, <1>1, <1>2, PTL DEF Spec

-----------------------------------------------------------------------------
(* Types.                                                                  *)

Ended ==
  /\ tool' \in Tools
  /\ outcome' \in {"ok", "unverified", "crashed", "failed"}
  /\ pushed' \in BOOLEAN \/ UNCHANGED pushed
  /\ calls' = calls + 1

LEMMA EndsOf ==
  ASSUME NEW t \in Tools, NEW n, NEW s, NEW want
  PROVE  /\ \A mismatches : Finish(t, n, s, want, mismatches) => Ended
         /\ FinishUnread(t, n, s, want) => Ended
         /\ Fail(t, n, s) => Ended
         /\ Refuse(t, n) => Ended
  BY DEF Finish, FinishUnread, PushUndoStep, Fail, Refuse, Answer, Ended

LEMMA CallEnds == Call => Ended
<1> USE EndsOf
<1>1. /\ "create_primitive" \in Tools /\ "create_camera" \in Tools /\ "create_light" \in Tools
      /\ "set_shading" \in Tools /\ "add_modifier" \in Tools /\ "transform_object" \in Tools
      /\ "delete_object" \in Tools /\ "duplicate_object" \in Tools /\ "set_material" \in Tools
      /\ "assign_material" \in Tools
  BY DEF Tools
<1>2. (\E t \in Tools : Misuse(t)) => Ended
  BY DEF Misuse
<1>3. \A valid, args : CreatePrimitive(valid, args) => Ended
  BY <1>1 DEF CreatePrimitive
<1>4. \A n, args, lens, active : CreateCamera(n, args, lens, active) => Ended
  BY <1>1 DEF CreateCamera
<1>5. \A n, args, energy : CreateLight(n, args, energy) => Ended
  BY <1>1 DEF CreateLight
<1>6. \A n, shading : SetShading(n, shading) => Ended
  BY <1>1 DEF SetShading
<1>7. \A n, levels : AddLevels(n, levels) => Ended
  BY <1>1 DEF AddLevels
<1>8. \A n, operation, c : AddBoolean(n, operation, c) => Ended
  BY <1>1 DEF AddBoolean
<1>9. \A n, args, relative : Transform(n, args, relative) => Ended
  BY <1>1 DEF Transform
<1>10. \A n : DeleteObject(n) => Ended
  BY <1>1 DEF DeleteObject
<1>11. \A source, n, args : Duplicate(source, n, args) => Ended
  BY <1>1 DEF Duplicate
<1>12. ASSUME NEW n, NEW m, NEW i, NEW args, SetMaterial(n, m, i, args) PROVE Ended
  <2>1. \/ Refuse("set_material", n)
        \/ \E s : Fail("set_material", n, s)
        \/ \E s, want, mismatches : Finish("set_material", n, s, want, mismatches)
    BY <1>12 DEF SetMaterial
  <2> QED
    BY <1>1, <2>1
<1>13. \A n, m, i : AssignMaterial(n, m, i) => Ended
  BY <1>1 DEF AssignMaterial
<1> QED
  BY <1>2, <1>3, <1>4, <1>5, <1>6, <1>7, <1>8, <1>9, <1>10, <1>11, <1>12, <1>13
     DEF Call, CreatePrimitiveTool, CreateCameraTool, CreateLightTool, SetShadingTool, AddModifierTool,
         TransformObjectTool, DeleteObjectTool, DuplicateObjectTool, SetMaterialTool, AssignMaterialTool

\* Whatever is called, with arguments good or bad, the scene and its newest undo step
\* stay scenes: numbers are kept in their ranges, slots in sequence.
THEOREM TypeCorrectS == Spec => []TypeOKS
<1>1. Init => TypeOKS
  BY StartAssumption, SceneAssumption DEF Init, TypeOKS
<1>2. GInv' /\ TypeOKS /\ [Next]_vars => TypeOKS'
  <2> SUFFICES ASSUME GInv', TypeOKS, [Next]_vars PROVE TypeOKS'
    OBVIOUS
  <2>1. scene' \in Scene /\ saved' \in Scene
    BY DEF GInv, Good
  <2>2. CASE Next
    <3>1. Ended /\ calls < MaxCalls
      BY <2>2, CallEnds DEF Next
    <3> QED
      BY <2>1, <3>1, SceneAssumption DEF Ended, TypeOKS
  <2>3. CASE UNCHANGED vars
    BY <2>3 DEF vars, TypeOKS
  <2> QED
    BY <2>2, <2>3
<1> QED
  BY GoodInit, GoodNext, <1>1, <1>2, PTL DEF Spec
=============================================================================
