CONSTANTS
    villa = villa
    lApart = lApart
    NoProject = NoProject
    Names <- TwoNames
    Quoted <- NoApostrophe
    Features <- OnlyCredit
    PageSheets = FALSE
    MaxProjects = 1
    MaxPhotos = 0
SPECIFICATION Spec
PROPERTIES ReplaceKeepsARecord
