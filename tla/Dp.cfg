SPECIFICATION Spec
CONSTANTS
    xga = xga
    hd = hd
    svga = svga
    none = none
    Geo <- MCGeo
    NoGeo = none
    Size <- MCSize
    Clock <- MCClock
    Lim <- Device
    Unit = 1000000000
    Boot <- Hd
    Inherited <- MCInherited
    Asked <- MCAsked
    Designs <- AllDesigns
    MaxFails = 3
INVARIANTS
    CacheHonest
    ViewsAgree
    MappingFits
    FindsClosest
PROPERTIES
    ReactivationQuiet
    ToolHonest
    Recovers
