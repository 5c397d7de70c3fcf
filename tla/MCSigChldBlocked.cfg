CONSTANTS
  Children = {1, 2}
SPECIFICATION SigSpec
PROPERTIES EveryChildReaped
