SPECIFICATION Spec
CONSTANT MaxRepairs = 2
INVARIANTS TypeOK SchemaIsWhatRan UpgradesFit HandlersOnlyRead DowngradesLeaveNothing
PROPERTIES ServedSurvive DowngradesSpareOthers
CHECK_DEADLOCK FALSE
