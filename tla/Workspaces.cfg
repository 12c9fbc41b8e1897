SPECIFICATION Spec
CONSTANTS
    recon = recon  training = training  retry = retry  detect = detect
    state = state  model = model  None = None
    Runs <- MCRuns
    Upstream <- MCUpstream
    Reuses <- MCReuses
    Kind <- MCKind
    Selected <- MCSelected
    Pods = {pod1, pod2}
    Paths = {state, model}
    Contents = {c1, c2}
    MaxStarts = 3
    Faults = {"kill", "halt", "request"}
    ByHand = {training}
SYMMETRY MCSymmetry
INVARIANTS ArtifactsRestorable ExactInputs WorkKeptUntilPublished
CHECK_DEADLOCK FALSE
