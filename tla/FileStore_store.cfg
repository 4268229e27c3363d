SPECIFICATION Spec
CONSTANTS
  Users = {alice, bob}
  Nobody = Nobody
  Numeric = {alice}
  ShareHours = {0, 1}
  Scenarios <- MCScenarios
VIEW Stored
INVARIANTS RowHasFile SharesSound
PROPERTIES AccessPolicy SessionStaysEnded
