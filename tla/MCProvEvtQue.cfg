SPECIFICATION RingSpec
CONSTANTS
  Event = {e1, e2, e3}
  NullEvent = NullEvent
  SIZE = 3
PROPERTIES ImplementsQueue
