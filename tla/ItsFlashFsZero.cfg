CONSTANTS
  Fids = {f1, f2}
  NoFid = NoFid
  Values = {v1, v2}
  Sizes = {0, 2}
  MaxNumFiles = 3
  NumLBlocks = 2
  BlockSize = 4
  MetadataSize = 1
  MaxFileSize = 3
  BufSize = 2
  Erased = Erased
SPECIFICATION FairSpec
PROPERTIES StoreImplemented
