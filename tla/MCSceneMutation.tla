-------------------------- MODULE MCSceneMutation --------------------------
(* Scenes for SceneMutation: an empty one, and one with a mesh, a mesh that cuts
   it, an active camera and a material shared by both meshes. *)
EXTENDS SceneMutation

EmptyScene ==
  [objects   |-> [n \in Names |-> Fresh("NONE")],
   camera    |-> NoName,
   materials |-> [m \in Materials |-> [exists |-> FALSE, base_color |-> 0, metallic |-> 0]]]

Body  == [Fresh("MESH") EXCEPT !.cutter = "drill", !.slots = <<"steel">>]
Drill == [Fresh("MESH") EXCEPT !.slots = <<"steel">>]
FurnishedScene ==
  [objects   |-> [n \in Names |->
                    CASE n = "body"   -> Body
                      [] n = "drill"  -> Drill
                      [] n = "camera" -> Fresh("CAMERA")
                      [] OTHER        -> Fresh("NONE")],
   camera    |-> "camera",
   materials |-> [m \in Materials |->
                    IF m = "steel" THEN NewSurface ELSE EmptyScene.materials[m]]]

MCStartScenes == {EmptyScene, FurnishedScene}
=============================================================================
