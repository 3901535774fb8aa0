--------------------------- MODULE MCStagingStore ---------------------------
(* Small instances of the staging store: keys over the characters a, b,   *)
(* slash and dot.                                                          *)
EXTENDS StagingStore

CONSTANTS v1, v2

MCChars == {"a", "b", "/", "."}
MCValues == {v1, v2}

(* Clean backend keys, as etcd and consul name them *)
MCCleanKeys == {<<"/", "a">>, <<"/", "a", "/", "b">>, <<"/", "a", "b">>, <<"/", "b">>}

(* Clean keys, with a key that differs from another by a trailing slash *)
MCSlashKeys == {<<"/", "a", "/", "b">>, <<"/", "a", "/", "b", "/">>, <<"/", "b">>}

MCTomlPrefixes == {<<>>, <<"a">>, <<"/", "a">>}

(* A descriptor prefix written with a trailing slash, as in "/app/" *)
MCSlashPrefixes == {<<"/", "a", "/">>}
MCConfigPrefixes == {<<>>, <<"/", "b">>}
MCKeyLists == {{<<"b">>}, {<<"/">>}, {<<"/", "b">>, <<"a">>}}
====
