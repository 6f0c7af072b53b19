SPECIFICATION Spec
CONSTANTS
    None = None
    Projects <- MCProjects
    Marks <- MCMarks
    Parse <- ParseFile
INVARIANTS FinalizeTypeOK UniqueIds ModulesKeepNames RefsFollow TreeStaysWhole UntouchedFilesKept EverythingHangsTogether FocusShown NothingForged SourcesEnclose TypesHonest MembersHonest
CHECK_DEADLOCK FALSE
