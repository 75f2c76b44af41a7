\* One page, every kind of form, two rules sent, other clients.
SPECIFICATION PagesSpec
CONSTANTS
  Null = Null
  Wildcard = Wildcard
  BadPattern = BadPattern
  RuleIds <- MCIds
  Rows <- MCRows
  Proposals <- MCProposals
  Usages <- MCUsages
  Switches = {"approve"}
  Forms <- MCForms
  uuids <- MCUuids
INVARIANTS
  ToggleTellsTheTruth
  DuplicatesAreExplained
  FormMeansWhatItSays
