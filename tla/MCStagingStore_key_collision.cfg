CONSTANTS
  v1 = v1
  v2 = v2
  Chars <- MCChars
  Values <- MCValues
  BackendKeys <- MCSlashKeys
  TomlPrefixes <- MCTomlPrefixes
  ConfigPrefixes <- MCConfigPrefixes
  KeyLists <- MCKeyLists
  DirSemantics = TRUE
SPECIFICATION Spec
PROPERTY OrderIndependent
