SPECIFICATION FairSpec
CONSTANTS
  Writers = {w1, w2}
  NoWriter = NoWriter
  Readers = {r1, r2}
  Layouts <- TheLayouts
INVARIANTS
  TypeOK
  ManifestCoversWhole
PROPERTIES
  ImplementsAttemptStatus
  ReadersConclude
