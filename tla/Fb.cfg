SPECIFICATION Spec
CONSTANTS
    d1 = d1
    W = 1
    H = 1
    Frames = 2
    Drawer <- OneDrawer
    Areas <- FewAreas
    Lengths <- FewLengths
    Watched <- LastPixel
    Trouble = 1
INVARIANTS
    
    WorkScheduled
    
PROPERTIES
    LastPanShown
    
