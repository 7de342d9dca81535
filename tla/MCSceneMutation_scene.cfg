SPECIFICATION Spec
CONSTANTS
  Names = {"body", "drill", "camera", "spare"}
  Materials = {"steel", "glass"}
  Vectors = {"location", "rotation", "scale"}
  Slots = {0, 1}
  MaxValue = 2
  MaxStored = 1
  MaxCalls = 2
  StartScenes <- MCStartScenes
INVARIANTS TypeOKS SceneSound VerifiedMeansDone
PROPERTIES OthersUntouched KeepsContract
CHECK_DEADLOCK FALSE
