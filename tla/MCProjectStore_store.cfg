CONSTANTS
    villa = villa
    lApart = lApart
    NoProject = NoProject
    Names <- TwoNames
    Quoted <- WithApostrophe
    Features <- Everything
    PageSheets = TRUE
    MaxProjects = 3
    MaxPhotos = 1
SPECIFICATION Spec
INVARIANTS TypeOK NoOrphanRecords OneRecordPerProject ChecklistInOrder ChecklistComplete HeldProjectsExist
PROPERTIES CrashNeverTears ImplementsLibrary ChecklistCompletes
CONSTRAINT FewSaved
