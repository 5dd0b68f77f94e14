\* Two descriptors, three requests between them, a raw file of one unit in a
\* disc image that goes on for another unit, and reads of two units.
SPECIFICATION FairASpec
CONSTANTS
  NumFiles = 2
  RawLength = 1
  Sizes <- MCSizes
  ImageEnd = 2
  MaxAsked = 3
INVARIANTS ATypeOK RawReadsInFile
PROPERTIES MainReturns ImplementsHandle
