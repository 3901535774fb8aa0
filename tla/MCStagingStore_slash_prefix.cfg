CONSTANTS
  v1 = v1
  v2 = v2
  Chars <- MCChars
  Values <- MCValues
  BackendKeys <- MCCleanKeys
  TomlPrefixes <- MCSlashPrefixes
  ConfigPrefixes <- MCConfigPrefixes
  KeyLists <- MCKeyLists
  DirSemantics = TRUE
SPECIFICATION Spec
INVARIANT ListedKeysVisible
