\* The phone's 3 to 6 frames; numbers of 5 bits that wrap after the third packet; up to
\* two packets lost in a row, packets overtaken by up to four others or repeated as
\* often; two sources that alternate at will.
CONSTANTS
  MinFrames = 3
  MaxFrames = 6
  Modulus = 32
  Base = 28
  Sources = {1, 2}
  MaxSent = 9
  Overtaken = 4
  Lost = 2
SPECIFICATION JbufSpec
INVARIANTS BufferTrue InOrderKept
