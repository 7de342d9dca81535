---------------------------- MODULE SceneMutation ----------------------------
(***************************************************************************)
(* The scene tools: tools/mutations/ with the dispatcher, BlenderAdapter,  *)
(* the mutators and the verification of their results (agent/verifier.py,  *)
(* AgentRuntime._execute_and_verify).  Every call runs to its end on       *)
(* Blender's main thread, so a call is one step; what makes it hard is     *)
(* that it may stop between two changes, and that Blender, which stores    *)
(* the values, may store another one than it was given.                    *)
(*                                                                         *)
(* Abstracted: vectors and numbers are small naturals; a camera's lens, a  *)
(* light's energy, type and colour and a mesh's shading are one number     *)
(* each, its setting; bevel and subdivision are one modifier with levels;  *)
(* a material has two of its six properties.  A name that Blender or the   *)
(* mutator makes up is any free one; a name asked for in create_primitive  *)
(* is not told from it, for nothing verifies it.  No two objects share     *)
(* their data.                                                             *)
(***************************************************************************)
EXTENDS Integers, Sequences

CONSTANTS
  Names,        \* bound: the names objects may have
  Materials,    \* bound: the names materials may have
  Vectors,      \* the transform fields modelled, of location, rotation and scale
  Slots,        \* bound: the material slots that calls name
  MaxValue,     \* bound: the largest number an argument may carry
  MaxStored,    \* the largest lens and the most levels that Blender stores
  MaxCalls,     \* bound: tool calls
  StartScenes   \* bound: the artist's scenes the calls start from

NoName == "no name"

VARIABLES
  scene,    \* objects, active camera and materials
  saved,    \* the scene as the newest undo step holds it
  pushed,   \* what the undo step pushed last came to: Blender took it
  tool,     \* the tool called last
  outcome,  \* its result
  target,   \* the object or material that call named or made
  wanted,   \* history: the facts <<object or material, property, value>> the call asked for
  calls     \* calls made

vars == <<scene, saved, pushed, tool, outcome, target, wanted, calls>>

-----------------------------------------------------------------------------
\* An argument that is not given, is null, or is none of the values allowed; the others
\* are numbers.  Null is told from not given only where the code does so.
Absent == -1
Null   == -2
Bad    == -3
Values == 1..MaxValue
Numeric           == {Absent, Bad} \union Values
Arguments(fields) == [fields -> Numeric]
Poses             == Vectors \ {"scale"}     \* what cameras and lights can be given
Properties        == {"base_color", "metallic"}
Operations        == {"DIFFERENCE", "UNION"}

Object  == [type : {"NONE", "MESH", "CAMERA", "LIGHT"}, place : [Vectors -> Nat],
            setting : Nat, levels : Nat, operation : Operations,
            cutter : Names \union {NoName}, slots : Seq(Materials \union {NoName})]
Surface == [exists : BOOLEAN, base_color : Nat, metallic : Nat]
Scene   == [objects : [Names -> Object], camera : Names \union {NoName},
            materials : [Materials -> Surface]]

\* What a vector is when nobody sets it, and an object and a material just created.
Origin      == [v \in Vectors |-> IF v = "scale" THEN 1 ELSE 0]
Fresh(type) == [type |-> type, place |-> Origin, setting |-> 1, levels |-> 0,
                operation |-> "DIFFERENCE", cutter |-> NoName, slots |-> <<>>]
NewSurface  == [exists |-> TRUE, base_color |-> 1, metallic |-> 0]

IsA(s, n, type) == n \in Names /\ s.objects[n].type = type
Exists(n)       == n \in Names /\ scene.objects[n].type # "NONE"
FreeNames       == {n \in Names : ~Exists(n)}
FreeMaterials   == {m \in Materials : ~scene.materials[m].exists}
Put(s, n, o)    == [s EXCEPT !.objects[n] = o]

\* Nothing in a scene refers to what is not there: the active camera is a camera,
\* a boolean cuts with another mesh, slots hold materials.
WellFormed(s) ==
  /\ s.camera # NoName => IsA(s, s.camera, "CAMERA")
  /\ \A n \in Names :
       /\ s.objects[n].cutter # NoName =>
            s.objects[n].cutter # n /\ IsA(s, s.objects[n].cutter, "MESH")
       /\ \A i \in 1..Len(s.objects[n].slots) :
            s.objects[n].slots[i] # NoName => s.materials[s.objects[n].slots[i]].exists

\* A name stands for a data-block, and no object is a material.
ASSUME SceneAssumption ==
  /\ NoName \notin Names /\ NoName \notin Materials /\ Names \intersect Materials = {}
  /\ Vectors \subseteq {"location", "rotation", "scale"}
  /\ Slots \subseteq Nat
  /\ MaxValue \in Nat /\ MaxStored \in Nat /\ MaxCalls \in Nat
ASSUME StartAssumption == \A s \in StartScenes : s \in Scene /\ WellFormed(s)

Given(args)   == {p \in DOMAIN args : args[p] # Absent}
Sound(args)   == \A p \in DOMAIN args : args[p] # Bad
Overlay(f, g) == [p \in DOMAIN f \union DOMAIN g |-> IF p \in DOMAIN g THEN g[p] ELSE f[p]]

\* The part of the arguments, or of one argument named p, that is expected afterwards.
Asked(args)  == [p \in Given(args) |-> args[p]]
AskedOf(p, v) == [q \in (IF v = Absent THEN {} ELSE {p}) |-> v]
Facts(n, f)  == {<<n, p, f[p]>> : p \in DOMAIN f}

-----------------------------------------------------------------------------
(***************************************************************************)
(* What can be read of a scene, and the end of a call.                     *)
(***************************************************************************)
SlotOf(s, n, i) ==
  IF i < Len(s.objects[n].slots) THEN s.objects[n].slots[i + 1] ELSE NoName

ObjectSnapshot(s, n) ==
  LET o == s.objects[n] IN
  Overlay(o.place,
    [exists |-> o.type # "NONE", type |-> o.type, setting |-> o.setting, levels |-> o.levels,
     operation |-> o.operation, cutter |-> o.cutter, active |-> s.camera = n, new_name |-> n])

SurfaceSnapshot(s, m) ==
  [base_color |-> s.materials[m].base_color, metallic |-> s.materials[m].metallic]

\* ChangeVerifier: the properties, of those named, that are not what they should be.
Differ(props, expected, actual) == {p \in props \intersect DOMAIN expected : actual[p] # expected[p]}
IfExists(actual, mismatches)    == IF actual.exists THEN mismatches ELSE {"exists"}

Answer(t, n, result, want) ==
  tool' = t /\ target' = n /\ outcome' = result /\ wanted' = want /\ calls' = calls + 1

\* push_undo_step: Blender may refuse it, which is logged, and the False that comes back
\* is looked at by no mutator.
PushUndoStep(s) ==
  /\ pushed' \in BOOLEAN
  /\ saved' = IF pushed' THEN s ELSE saved

\* Faulty variant of Finish: an undo step only for what was verified.
FinishPushingVerified(t, n, s, want, mismatches) ==
  /\ scene' = s
  /\ IF mismatches = {} THEN PushUndoStep(s) ELSE UNCHANGED <<saved, pushed>>
  /\ Answer(t, n, IF mismatches = {} THEN "ok" ELSE "unverified", want)

\* The mutator returns: it has tried to push an undo step, and the result is verified.
Finish(t, n, s, want, mismatches) ==
  /\ scene' = s
  /\ PushUndoStep(s)
  /\ Answer(t, n, IF mismatches = {} THEN "ok" ELSE "unverified", want)

\* The mutator returns, and building the change set raises.
FinishUnread(t, n, s, want) ==
  scene' = s /\ PushUndoStep(s) /\ Answer(t, n, "crashed", want)

\* The mutator raises, having changed the scene to s: the adapter makes an error
\* result of it, and nothing is pushed.
Fail(t, n, s) == scene' = s /\ UNCHANGED <<saved, pushed>> /\ Answer(t, n, "failed", {})
Refuse(t, n)  == Fail(t, n, scene)

Init ==
  /\ scene \in StartScenes
  /\ saved = scene /\ pushed = TRUE
  /\ tool = "none" /\ outcome = "none" /\ target = NoName
  /\ wanted = {}
  /\ calls = 0

-----------------------------------------------------------------------------
(***************************************************************************)
(* How far a mutator gets: its fields are applied in this order, each      *)
(* checked only when its turn comes.                                       *)
(***************************************************************************)
Rank == [location |-> 1, rotation |-> 2, scale |-> 3, base_color |-> 4, metallic |-> 5]

Applied(args) ==
  {p \in Given(args) : args[p] # Bad /\ \A q \in DOMAIN args : args[q] = Bad => Rank[p] < Rank[q]}

\* Blender keeps lenses and levels within their range.
Stored(v) == IF v > MaxStored THEN MaxStored ELSE v

\* An object's vectors after the fields that get applied.
Placed(old, args) == [v \in Vectors |-> IF v \in Applied(args) THEN args[v] ELSE old[v]]

-----------------------------------------------------------------------------
(***************************************************************************)
(* create_primitive: the object is in the scene before its vectors are     *)
(* looked at.                                                              *)
(***************************************************************************)
PrimitiveMade(n, args) == Put(scene, n, [Fresh("MESH") EXCEPT !.place = Placed(Origin, args)])
ExpectedPrimitive(args) == Overlay(Asked(args), [type |-> "MESH"])
VerifyCreate(expected, actual) ==
  IfExists(actual, Differ({"type"} \union Vectors, expected, actual))

CreatePrimitive(validShape, args) ==
  \/ ~validShape /\ Refuse("create_primitive", NoName)
  \/ /\ validShape
     /\ \E n \in FreeNames :
          IF Sound(args)
          THEN Finish("create_primitive", n, PrimitiveMade(n, args), Facts(n, ExpectedPrimitive(args)),
                      VerifyCreate(ExpectedPrimitive(args), ObjectSnapshot(PrimitiveMade(n, args), n)))
          ELSE Fail("create_primitive", n, PrimitiveMade(n, args))

(***************************************************************************)
(* create_camera and create_light make an object or modify the one of that *)
(* name; everything is checked first.                                      *)
(***************************************************************************)
OldOr(n, type) == IF Exists(n) THEN scene.objects[n] ELSE Fresh(type)
Taken(n, type) == Exists(n) /\ ~IsA(scene, n, type)
Posed(o, args, v, stored) ==
  [o EXCEPT !.place = Placed(o.place, args), !.setting = IF v = Absent THEN @ ELSE stored]

CameraRefused(n, args, lens) == ~Sound(args) \/ lens = Bad \/ Taken(n, "CAMERA")
CameraMade(n, args, lens, active) ==
  [Put(scene, n, Posed(OldOr(n, "CAMERA"), args, lens, Stored(lens)))
     EXCEPT !.camera = IF active \in {"absent", "yes"} THEN n ELSE @]

\* The camera is expected to be the active one unless the call says it is not; a
\* make_active that is null means the opposite to the mutator.
ExpectedCamera(args, lens, active) ==
  Overlay(Overlay(Asked(args), AskedOf("setting", lens)), [type |-> "CAMERA", active |-> active # "no"])

\* Faulty variant of VerifyCamera: the lens is not compared.
VerifyCameraPose(expected, actual) ==
  IfExists(actual, Differ({"type", "active"} \union Poses, expected, actual))
VerifyCamera(expected, actual) ==
  IfExists(actual, Differ({"type", "setting", "active"} \union Poses, expected, actual))

CreateCamera(n, args, lens, active) ==
  \/ CameraRefused(n, args, lens) /\ Refuse("create_camera", n)
  \/ /\ ~CameraRefused(n, args, lens)
     /\ LET made == CameraMade(n, args, lens, active)
            want == ExpectedCamera(args, lens, active)
        IN  Finish("create_camera", n, made, Facts(n, want), VerifyCamera(want, ObjectSnapshot(made, n)))

LightRefused(n, args, energy) == ~Sound(args) \/ energy = Bad \/ Taken(n, "LIGHT")
LightMade(n, args, energy)    == Put(scene, n, Posed(OldOr(n, "LIGHT"), args, energy, energy))
ExpectedLight(args, energy) ==
  Overlay(Overlay(Asked(args), AskedOf("setting", energy)), [type |-> "LIGHT"])
VerifyLight(expected, actual) ==
  IfExists(actual, Differ({"type", "setting"} \union Poses, expected, actual))

CreateLight(n, args, energy) ==
  \/ LightRefused(n, args, energy) /\ Refuse("create_light", n)
  \/ /\ ~LightRefused(n, args, energy)
     /\ LET made == LightMade(n, args, energy)
            want == ExpectedLight(args, energy)
        IN  Finish("create_light", n, made, Facts(n, want), VerifyLight(want, ObjectSnapshot(made, n)))

(***************************************************************************)
(* set_shading: what is verified is the mutator's echo of the request.     *)
(***************************************************************************)
ShadingRefused(n, shading) == ~IsA(scene, n, "MESH") \/ shading = Bad
Shaded(n, shading)         == [scene EXCEPT !.objects[n].setting = shading]
VerifyShading(expected, actual) == IfExists(actual, Differ({"setting"}, expected, actual))

SetShading(n, shading) ==
  \/ ShadingRefused(n, shading) /\ Refuse("set_shading", n)
  \/ /\ ~ShadingRefused(n, shading)
     /\ LET want == [setting |-> shading]
        IN  Finish("set_shading", n, Shaded(n, shading), Facts(n, want),
                   VerifyShading(want, [exists |-> TRUE, setting |-> shading]))

(***************************************************************************)
(* add_modifier.  The mutator takes null for the default; in the change    *)
(* set null levels cannot be converted, and a null operation is the text   *)
(* of null.                                                                *)
(***************************************************************************)
\* Faulty variant of Levels: null is taken for a number.
LevelsNullKept(levels) == IF levels = Absent THEN 1 ELSE levels

Levels(levels)       == IF levels \in {Absent, Null} THEN 1 ELSE levels
Operation(operation) == IF operation \in {"absent", "null"} THEN "DIFFERENCE" ELSE operation

ModifierRefused(n)  == ~IsA(scene, n, "MESH")
CutterRefused(n, c) == c = n \/ ~IsA(scene, c, "MESH")

ExpectedLevels(levels) == [levels |-> IF levels = Absent THEN 1 ELSE levels]
ExpectedBoolean(operation, c) ==
  [operation |-> IF operation = "absent" THEN "DIFFERENCE" ELSE operation, cutter |-> c]
VerifyModifier(expected, actual) ==
  IfExists(actual, Differ({"levels", "operation", "cutter"}, expected, actual))

Subdivided(n, levels) == [scene EXCEPT !.objects[n].levels = Stored(Levels(levels))]
AddLevels(n, levels) ==
  LET made == Subdivided(n, levels)
      want == ExpectedLevels(levels)
  IN  \/ (ModifierRefused(n) \/ levels = Bad) /\ Refuse("add_modifier", n)
      \/ ~ModifierRefused(n) /\ levels = Null /\ FinishUnread("add_modifier", n, made, {})
      \/ /\ ~ModifierRefused(n) /\ levels \notin {Bad, Null}
         /\ Finish("add_modifier", n, made, Facts(n, want), VerifyModifier(want, ObjectSnapshot(made, n)))

Cut(n, operation, c) ==
  [scene EXCEPT !.objects[n].operation = Operation(operation), !.objects[n].cutter = c]
AddBoolean(n, operation, c) ==
  LET refused == ModifierRefused(n) \/ operation = "bad" \/ CutterRefused(n, c)
      made    == Cut(n, operation, c)
      want    == ExpectedBoolean(operation, c)
  IN  \/ refused /\ Refuse("add_modifier", n)
      \/ /\ ~refused
         /\ Finish("add_modifier", n, made, Facts(n, want), VerifyModifier(want, ObjectSnapshot(made, n)))

(***************************************************************************)
(* transform_object: absolute, or relative to the current values.          *)
(***************************************************************************)
Moved(v, old, arg, relative) ==
  IF ~relative THEN arg ELSE IF v = "scale" THEN old * arg ELSE old + arg
MovedPlace(old, args, relative) ==
  [v \in Vectors |-> IF v \in Applied(args) THEN Moved(v, old[v], args[v], relative) ELSE old[v]]

\* A relative rotation or scale is added component by component: the bad one may be
\* the second.
LeftPlaces(old, args, relative) ==
  {MovedPlace(old, args, relative)} \union
    {[MovedPlace(old, args, relative) EXCEPT ![v] = x] :
       x \in Values,
       v \in {u \in Vectors \ {"location"} :
                relative /\ args[u] = Bad /\ \A q \in Vectors : args[q] = Bad => Rank[u] <= Rank[q]}}

ExpectedPlace(before, args, relative) ==
  [v \in Given(args) |->
     IF ~relative THEN args[v] ELSE IF v = "scale" THEN before[v] * args[v] ELSE before[v] + args[v]]
VerifyTransform(expected, actual) == IfExists(actual, Differ(Vectors, expected, actual))

TransformRefused(n, args) == Given(args) = {} \/ ~Exists(n)
Transform(n, args, relative) ==
  \/ TransformRefused(n, args) /\ Refuse("transform_object", n)
  \/ /\ ~TransformRefused(n, args)
     /\ LET old  == scene.objects[n].place
            made == [scene EXCEPT !.objects[n].place = MovedPlace(old, args, relative)]
            want == [v \in Given(args) |-> Moved(v, old[v], args[v], relative)]
        IN  IF Sound(args)
            THEN Finish("transform_object", n, made, Facts(n, want),
                        VerifyTransform(ExpectedPlace(old, args, relative), ObjectSnapshot(made, n)))
            ELSE \E left \in LeftPlaces(old, args, relative) :
                   Fail("transform_object", n, [scene EXCEPT !.objects[n].place = left])

(***************************************************************************)
(* delete_object.  Blender unlinks the object from whatever refers to it.  *)
(***************************************************************************)
\* Faulty variant of Removed: nothing is unlinked.
RemovedAlone(n) == [scene EXCEPT !.objects[n] = Fresh("NONE")]

Removed(n) ==
  [scene EXCEPT
     !.camera = IF @ = n THEN NoName ELSE @,
     !.objects = [k \in Names |->
        IF k = n THEN Fresh("NONE")
        ELSE IF @[k].cutter = n THEN [@[k] EXCEPT !.cutter = NoName] ELSE @[k]]]
VerifyDelete(actual) == IF actual.exists THEN {"exists"} ELSE {}

DeleteObject(n) ==
  \/ ~Exists(n) /\ Refuse("delete_object", n)
  \/ /\ Exists(n)
     /\ Finish("delete_object", n, Removed(n), Facts(n, [exists |-> FALSE]),
               VerifyDelete(ObjectSnapshot(Removed(n), n)))

(***************************************************************************)
(* duplicate_object: a name that is asked for must be free.                *)
(***************************************************************************)
\* Faulty variant of DuplicateRefused: the new name may be taken.
DuplicateRefusedForValues(source, n, args) == ~Exists(source) \/ ~Sound(args)

DuplicateRefused(source, n, args) == ~Exists(source) \/ Exists(n) \/ ~Sound(args)
Duplicated(source, n, args) ==
  Put(scene, n, [scene.objects[source] EXCEPT !.place = Placed(@, args)])
\* The type that is expected is the one the mutator reports.
ExpectedDuplicate(n, args, actual) == Overlay(Asked(args), [type |-> actual.type, new_name |-> n])

\* before and after are the source's snapshots; the new object must be another one.
VerifyDuplicate(before, after, expected, actual) ==
  Differ(Vectors, before, after)
    \union IfExists(actual, Differ({"new_name", "type"} \union Vectors, expected, actual))
    \union (IF actual.new_name = after.new_name THEN {"identity_name_distinct"} ELSE {})

Duplicate(source, n, args) ==
  \/ DuplicateRefused(source, n, args) /\ Refuse("duplicate_object", n)
  \/ /\ ~DuplicateRefused(source, n, args)
     /\ LET made   == Duplicated(source, n, args)
            actual == ObjectSnapshot(made, n)
            want   == Overlay(Asked(args), [type |-> scene.objects[source].type])
        IN  Finish("duplicate_object", n, made, Facts(n, want),
                   VerifyDuplicate(ObjectSnapshot(scene, source), ObjectSnapshot(made, source),
                                   ExpectedDuplicate(n, args, actual), actual))

-----------------------------------------------------------------------------
(***************************************************************************)
(* set_material and assign_material: a missing material is created before  *)
(* it is known whether the object can take it.                             *)
(***************************************************************************)
Create(s, m) == IF s.materials[m].exists THEN s ELSE [s EXCEPT !.materials[m] = NewSurface]

\* assign_material_to_slot appends slots up to the one that is asked for; only
\* the data of a mesh has materials to append.
Takes(n, i) == IsA(scene, n, "MESH") \/ i < Len(scene.objects[n].slots)
InSlot(slots, i, m) ==
  [k \in 1..(IF i < Len(slots) THEN Len(slots) ELSE i + 1) |->
     IF k = i + 1 THEN m ELSE IF k <= Len(slots) THEN slots[k] ELSE NoName]
Hold(s, n, i, m) == [s EXCEPT !.objects[n].slots = InSlot(@, i, m)]

\* Both the mutator and the verifier keep factors within [0, 1].
Clamped(v) == IF v > 1 THEN 1 ELSE v
Painted(s, m, args) ==
  LET old == s.materials[m] IN
  [s EXCEPT !.materials[m] =
     [old EXCEPT
        !.base_color = IF "base_color" \in Applied(args) THEN Clamped(args["base_color"]) ELSE @,
        !.metallic   = IF "metallic" \in Applied(args) THEN Clamped(args["metallic"]) ELSE @]]
ExpectedSurface(args) == [p \in Given(args) |-> Clamped(args[p])]
VerifySetMaterial(expected, actual) == Differ(Properties, expected, actual)

SetMaterialRefused(n, m, i, args) ==
  \/ Given(args) = {}
  \/ n = NoName /\ m = NoName
  \/ i = Bad
  \/ n # NoName /\ ~Exists(n)

\* The material meant: the one named, the one in the slot, or a new one.
Meant(n, m, i) ==
  IF m # NoName THEN {m}
  ELSE IF SlotOf(scene, n, i) # NoName THEN {SlotOf(scene, n, i)} ELSE FreeMaterials

SetMaterial(n, m, i, args) ==
  \/ SetMaterialRefused(n, m, i, args) /\ Refuse("set_material", n)
  \/ /\ ~SetMaterialRefused(n, m, i, args)
     /\ \E k \in Meant(n, m, i) :
          LET created == Create(scene, k)
              bound   == IF n = NoName THEN created ELSE Hold(created, n, i, k)
              made    == Painted(bound, k, args)
              want    == ExpectedSurface(args)
          IN  IF n # NoName /\ ~Takes(n, i) THEN Fail("set_material", n, created)
              ELSE IF ~Sound(args) THEN Fail("set_material", n, made)
              ELSE Finish("set_material", n, made,
                          Facts(k, want) \union (IF n = NoName THEN {} ELSE {<<n, i, k>>}),
                          VerifySetMaterial(want, SurfaceSnapshot(made, k)))

ExpectedAssignment(n, i, m) == [object_name |-> n, slot_index |-> i, material_name |-> m]
VerifyAssign(expected, actual) ==
  Differ({"object_name", "slot_index", "material_name"}, expected, actual)

AssignMaterial(n, m, i) ==
  \/ (i = Bad \/ ~Exists(n)) /\ Refuse("assign_material", n)
  \/ /\ i # Bad /\ Exists(n)
     /\ LET created == Create(scene, m)
            made    == Hold(created, n, i, m)
            actual  == [object_name |-> n, slot_index |-> i, material_name |-> SlotOf(made, n, i)]
        IN  IF Takes(n, i)
            THEN Finish("assign_material", n, made, {<<n, i, m>>},
                        VerifyAssign(ExpectedAssignment(n, i, m), actual))
            ELSE Fail("assign_material", n, created)

-----------------------------------------------------------------------------
Tools == {"create_primitive", "create_camera", "create_light", "set_shading", "add_modifier",
          "transform_object", "delete_object", "duplicate_object", "set_material", "assign_material"}

\* The dispatcher: an argument is missing or is not one of the tool's.
Misuse(t) == Refuse(t, NoName)

\* Each tool's arguments, as its schema allows them; only required and unexpected
\* arguments are looked at before the tool runs, never their types.
CreatePrimitiveTool ==
  \E valid \in BOOLEAN, args \in Arguments(Vectors) : CreatePrimitive(valid, args)
CreateCameraTool ==
  \E n \in Names, args \in Arguments(Poses), lens \in Numeric,
     active \in {"absent", "null", "yes", "no"} : CreateCamera(n, args, lens, active)
CreateLightTool ==
  \E n \in Names, args \in Arguments(Poses), energy \in Numeric : CreateLight(n, args, energy)
SetShadingTool == \E n \in Names, shading \in {Bad} \union Values : SetShading(n, shading)
AddModifierTool ==
  \E n \in Names :
    \/ \E levels \in Numeric \union {Null} : AddLevels(n, levels)
    \/ \E operation \in Operations \union {"absent", "null", "bad"}, c \in Names \union {NoName} :
         AddBoolean(n, operation, c)
TransformObjectTool ==
  \E n \in Names, args \in Arguments(Vectors), relative \in BOOLEAN : Transform(n, args, relative)
DeleteObjectTool == \E n \in Names : DeleteObject(n)
DuplicateObjectTool ==
  \E source, n \in Names, args \in Arguments(Vectors) : Duplicate(source, n, args)
SetMaterialTool ==
  \E n \in Names \union {NoName}, m \in Materials \union {NoName}, i \in Slots \union {Bad},
     args \in Arguments(Properties) : SetMaterial(n, m, i, args)
AssignMaterialTool ==
  \E n \in Names, m \in Materials, i \in Slots \union {Bad} : AssignMaterial(n, m, i)

Call ==
  \/ \E t \in Tools : Misuse(t)
  \/ CreatePrimitiveTool \/ CreateCameraTool \/ CreateLightTool \/ SetShadingTool
  \/ AddModifierTool \/ TransformObjectTool \/ DeleteObjectTool \/ DuplicateObjectTool
  \/ SetMaterialTool \/ AssignMaterialTool

Next == calls < MaxCalls /\ Call
Spec == Init /\ [][Next]_vars
-----------------------------------------------------------------------------
\* Typing: the scene and the newest undo step are scenes, outcomes are outcomes.
TypeOKS ==
  /\ scene \in Scene
  /\ saved \in Scene /\ pushed \in BOOLEAN
  /\ tool \in Tools \union {"none"}
  /\ outcome \in {"none", "ok", "unverified", "crashed", "failed"}
  /\ calls \in 0..MaxCalls

\* No sequence of calls leaves a reference to an object or material that is not
\* there, or of the wrong type: not a deletion, not a duplicate of an object with
\* modifiers, not a call that stops half-way (modifier_mutator.py:79,
\* delete_mutator.py:43, material_mutator.py:187).
SceneSound == WellFormed(scene) /\ WellFormed(saved)

\* A result that says "verified" is true of the scene: every property the call asked
\* for has the value asked for, whatever Blender stored (runtime.py:301, verifier.py).
Reads(s, t, f) ==
  IF f[1] \in Materials THEN SurfaceSnapshot(s, f[1])[f[2]]
  ELSE IF t \in {"set_material", "assign_material"} THEN SlotOf(s, f[1], f[2])
  ELSE ObjectSnapshot(s, f[1])[f[2]]
VerifiedMeansDone == outcome = "ok" => \A f \in wanted : Reads(scene, tool, f) = f[3]

\* A call changes no object but its target, except that deleting a cutter unlinks it;
\* and what creates an object never takes the place of another one
\* (duplicate_mutator.py:60, primitive_mutator.py:74).
SparesOthers ==
  \A n \in Names \ {target'} :
    \/ scene'.objects[n] = scene.objects[n]
    \/ /\ tool' = "delete_object" /\ scene.objects[n].cutter = target'
       /\ scene'.objects[n] = [scene.objects[n] EXCEPT !.cutter = NoName]
ReplacesNothing ==
  tool' \in {"create_primitive", "duplicate_object"} /\ scene' # scene => ~Exists(target')
OthersUntouched == [][SparesOthers /\ ReplacesNothing]_vars

\* The tools keep the contract the rest of the agent builds on: every result but an error
\* stands for a scene that was handed to the undo stack, which has it unless Blender
\* refused; an error has changed nothing, four tools excepted (undo_manager.py:11,
\* adapter/mutators/).  ARCHITECTURE.md:295 calls every mutation atomic and recorded:
\* the four tools and the refused undo steps are where it is not.
Scrappy == {"create_primitive", "transform_object", "set_material", "assign_material"}
Promise == INSTANCE ToolContract WITH Readers <- {}
KeepsContract == Promise!Contract
=============================================================================
