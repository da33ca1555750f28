CONSTANTS
    l1 = l1
    l2 = l2
    m1 = m1
    m2 = m2
    None = None
    Labels = {l1, l2}
    Models = {m1, m2}
    BuiltIn = m1
    ModelId <- MCModelId
    Faces <- MCFaces
    Sim <- MCSim
    Candidates <- MCCandidates
    Scenes <- MCScenes
    Files <- MCFiles
    IouThr = 40
    MinFrames = 1
    MaxFrames = 2
SPECIFICATION Spec
SYMMETRY Symmetry
INVARIANT NoneBelowFloor
