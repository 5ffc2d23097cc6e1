SPECIFICATION FairSpec
CONSTANTS
  d1 = d1
  d2 = d2
  h1 = h1
  h2 = h2
  h3 = h3
  Doc <- TwoDocs
  Handler <- ThreeHandlers
  Deployments <- Sound
INVARIANTS
  StatusAndChunksAgree
  OneParserPerDocument
PROPERTIES
  ParsingEnds
CHECK_DEADLOCK FALSE
