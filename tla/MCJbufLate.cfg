\* One source, and a network that repeats or delays a packet by up to three others.
CONSTANTS
  MinFrames = 3
  MaxFrames = 6
  Modulus = 32
  Base = 28
  Sources = {1}
  MaxSent = 9
  Overtaken = 3
  Lost = 0
SPECIFICATION JbufSpec
INVARIANT PlayedInOrder
