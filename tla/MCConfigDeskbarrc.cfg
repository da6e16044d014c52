CONSTANTS
  Documents <- MCDeskbarrc
  Installed <- MCPluginDir
  HasData <- MCPluginsData
  Broken = {}
  NeedsOptions <- MCTime
  HashSize = 65536
  Beginnings <- MCBeginnings
  Memories <- MCMemories
  Size = 4
  NULL = NULL
SPECIFICATION Spec
INVARIANT StartsUp
