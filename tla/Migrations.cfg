\* Up and down between all revisions while the application fills the tables it can.
SPECIFICATION MigrationsSpec
INVARIANTS
  SchemaOfRevision
  HeadServes
  DowngradePossible
  DeadLettersAloneBlockUpgrade
PROPERTIES
  UpgradesKeepRows
CHECK_DEADLOCK FALSE
