CONSTANTS
    villa = villa
    rueA = rueA
    rueB = rueB
    NoProject = NoProject
    NoAdress = NoAdress
    Names <- OneName
    Quoted <- NoApostrophe
    Features <- WithPages
    PageSheets = FALSE
    MaxProjects = 1
    MaxPhotos = 2
    Adresses <- TwoAdresses
    MaxPending = 1
SPECIFICATION TSpec
INVARIANTS SavedPlaceIsRight EverySavedIsMarked FoundStaysSaved
