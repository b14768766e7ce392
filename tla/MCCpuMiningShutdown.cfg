SPECIFICATION Spec
CONSTANTS
  Width = 3
  SizeWidth = 3
  GrindNonce = {0}
  GrindIterations = 3
  DEFAULT_MAX_TRIES = 2
  MaxGenerate = 2
  None = None
INVARIANT TemplateExists
