\* Frames of one byte (too short), two and three (three takes two reads), of
\* five (too long, also for a buffer that has just been emptied), for this
\* slave, for all, for another, and one with a wrong CRC.
CONSTANTS
  OwnLens = {1, 3, 5}
  AllLens = {2}
  OtherLens = {2}
  BrokenLens = {3}
  MyAddress = 1
  OtherAddress = 7
  SizeMin = 2
  SizeMax = 4
  Chunk = 2
  MaxFrames = 3
SPECIFICATION RtuSpec
PROPERTIES
  TimelyFramesServed
  NeverDeaf
