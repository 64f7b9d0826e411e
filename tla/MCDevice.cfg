SPECIFICATION Spec
CONSTANTS
  PromptIds = {p1, p2}
  None = None
  SpeciesCount = 2
  HostSpecies = {255}
INVARIANTS
  OverlayIsTheCursorsEntry
  PasskeyNeedsAPeer
PROPERTIES
  HonoursThePanel
