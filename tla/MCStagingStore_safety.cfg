CONSTANTS
  v1 = v1
  v2 = v2
  Chars <- MCChars
  Values <- MCValues
  BackendKeys <- MCCleanKeys
  TomlPrefixes <- MCTomlPrefixes
  ConfigPrefixes <- MCConfigPrefixes
  KeyLists <- MCKeyLists
  DirSemantics = TRUE
SPECIFICATION Spec
INVARIANT TypeOK
INVARIANT StoreIsLastFetch
INVARIANT ListedKeysVisible
