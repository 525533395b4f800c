SPECIFICATION Spec
CONSTANTS
  Handlers = {h1}
  None = None
INVARIANT AcceptedIsQueued
