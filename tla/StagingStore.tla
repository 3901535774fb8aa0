---------------------------- MODULE StagingStore ----------------------------
(***************************************************************************)
(* The staging store of a template resource: the prefix the loader settles *)
(* on (NewTemplateResource), the keys setVars asks the backend for         *)
(* (util.AppendPrefix), and the memkv store setVars rebuilds from the      *)
(* answer: Purge, then Set(path.Join("/", TrimPrefix(k, Prefix)), v) for   *)
(* every returned key k, in Go's random map iteration order.               *)
(*                                                                         *)
(* Paths are sequences of characters, because every property of this      *)
(* module is about what the path conversions do to a key.                  *)
(***************************************************************************)
EXTENDS Naturals, Sequences, SequencesExt, Functions

CONSTANTS
  Chars,          \* the characters keys are made of, Slash and Dot included
  Values,         \* the values a backend may hold
  BackendKeys,    \* the keys a backend may hold
  TomlPrefixes,   \* candidate "prefix" fields of the resource descriptor
  ConfigPrefixes, \* candidate -prefix settings of confd (<<>> when unset)
  KeyLists,       \* candidate "keys" fields, each a set of key strings
  DirSemantics    \* TRUE: the backend answers a key with the key and the keys
                  \* below it; FALSE: with every key it is a string prefix of

Slash == "/"
Dot == "."

ASSUME StagingAssumption ==
  /\ {Slash, Dot} \subseteq Chars
  /\ BackendKeys \subseteq Seq(Chars)
  /\ TomlPrefixes \cup ConfigPrefixes \subseteq Seq(Chars)
  /\ \A ks \in KeyLists : ks \subseteq Seq(Chars)
  /\ DirSemantics \in BOOLEAN

(***************************************************************************)
(* path.Clean of a rooted path: split at slashes, drop empty and "."       *)
(* elements, let ".." remove the element before it (or nothing at the      *)
(* root), and join what is left under one leading slash.                   *)
(***************************************************************************)
EndElement(stack, e) ==
  CASE e \in {<<>>, <<Dot>>} -> stack
    [] e = <<Dot, Dot>>      -> IF stack = <<>> THEN stack ELSE Front(stack)
    [] OTHER                 -> Append(stack, e)

ScanChar(st, c) ==
  IF c = Slash THEN [stack |-> EndElement(st.stack, st.cur), cur |-> <<>>]
               ELSE [st EXCEPT !.cur = Append(@, c)]

Elements(s) ==
  LET st == FoldLeft(ScanChar, [stack |-> <<>>, cur |-> <<>>], s)
  IN  EndElement(st.stack, st.cur)

CleanRooted(s) ==
  LET es == Elements(s)
  IN  IF es = <<>> THEN <<Slash>>
      ELSE FlattenSeq([i \in DOMAIN es |-> <<Slash>> \o es[i]])

(* strings.TrimPrefix *)
TrimPrefix(s, p) == IF IsPrefix(p, s) THEN SubSeq(s, Len(p) + 1, Len(s)) ELSE s

(* path.Join(p, k) for a rooted p: Clean(p + "/" + k), or Clean(p) if k = "" *)
JoinPath(p, k) == CleanRooted(p \o <<Slash>> \o k)

(* A mutant: the leading slash is not added *)
ResolvePrefixNoSlash(toml, conf) == IF conf # <<>> THEN conf ELSE toml

(* NewTemplateResource: -prefix overrides the descriptor, then a missing   *)
(* leading slash is added.                                                 *)
ResolvePrefix(toml, conf) ==
  LET p == IF conf # <<>> THEN conf ELSE toml
  IN  IF IsPrefix(<<Slash>>, p) THEN p ELSE <<Slash>> \o p

(* util.AppendPrefix: the keys handed to GetValues *)
AppendPrefix(p, ks) == {JoinPath(p, k) : k \in ks}

(* A mutant: the store keeps only the last path element of a key *)
StoreKeyLastElement(k, p) ==
  LET es == Elements(TrimPrefix(k, p))
  IN  IF es = <<>> THEN <<Slash>> ELSE <<Slash>> \o Last(es)

(* A mutant: the trimmed key is stored without path.Join's re-rooting *)
StoreKeyNoJoin(k, p) == TrimPrefix(k, p)

(* The store key setVars gives a returned key k *)
StoreKey(k, p) == JoinPath(<<Slash>>, TrimPrefix(k, p))

(* Whether GetValues answers the request q with the backend key k *)
Answers(q, k) ==
  /\ IsPrefix(q, k)
  /\ DirSemantics => \/ k = q
                     \/ q[Len(q)] = Slash
                     \/ k[Len(q) + 1] = Slash

(* The partial functions from BackendKeys to Values *)
PartialMaps(D, R) == UNION {[S -> R] : S \in SUBSET D}

VARIABLES prefix, keys, backend, fetched, store

svars == <<prefix, keys, backend, fetched, store>>

TypeOK ==
  /\ prefix \in Seq(Chars)
  /\ keys \in KeyLists
  /\ backend \in PartialMaps(BackendKeys, Values)
  /\ fetched \in PartialMaps(BackendKeys, Values)
  /\ DOMAIN store \subseteq Seq(Chars)
  /\ store \in [DOMAIN store -> Values]
  /\ \A n \in DOMAIN store : CleanRooted(n) = n

Init ==
  /\ \E toml \in TomlPrefixes, conf \in ConfigPrefixes :
        prefix = ResolvePrefix(toml, conf)
  /\ keys \in KeyLists
  /\ backend \in PartialMaps(BackendKeys, Values)
  /\ fetched = <<>>
  /\ store = <<>>

(* The answer of a successful GetValues *)
Response ==
  LET qs == AppendPrefix(prefix, keys)
  IN  Restrict(backend, {k \in DOMAIN backend : \E q \in qs : Answers(q, k)})

(***************************************************************************)
(* A store built by Purge and then Set in some iteration order: every      *)
(* store key holds the value of one of the returned keys that map to it,   *)
(* the last one Set.  Any choice is the result of some order, as the       *)
(* choices for different store keys are independent.                       *)
(***************************************************************************)
Rebuilt(res) ==
  LET sk == {StoreKey(k, prefix) : k \in DOMAIN res}
  IN  {[n \in sk |-> res[last[n]]] :
         last \in {f \in [sk -> DOMAIN res] :
                     \A n \in sk : StoreKey(f[n], prefix) = n}}

(* A mutant: Set without the Purge before it *)
setVarsNoPurge ==
  /\ fetched' = Response
  /\ \E new \in Rebuilt(Response) :
       store' = [n \in DOMAIN store \cup DOMAIN new |->
                   IF n \in DOMAIN new THEN new[n] ELSE store[n]]
  /\ UNCHANGED <<prefix, keys, backend>>

(* setVars when GetValues succeeds; its failure changes nothing *)
setVars ==
  /\ fetched' = Response
  /\ store' \in Rebuilt(Response)
  /\ UNCHANGED <<prefix, keys, backend>>

(* The backend's contents change *)
BackendUpdate ==
  /\ backend' \in PartialMaps(BackendKeys, Values) \ {backend}
  /\ UNCHANGED <<prefix, keys, fetched, store>>

Next == setVars \/ BackendUpdate

Spec == Init /\ [][Next]_svars

-----------------------------------------------------------------------------
(***************************************************************************)
(* The spec's invariant of the staging store: it reflects exactly one      *)
(* fetch, the last successful one.  Every store key is the normalised name *)
(* of a key that fetch returned, with that key's value, and every returned *)
(* key has its name in the store: no key of an earlier fetch survives the  *)
(* Purge in setVars.                                                       *)
(***************************************************************************)
StoreIsLastFetch ==
  /\ DOMAIN store = {StoreKey(k, prefix) : k \in DOMAIN fetched}
  /\ \A n \in DOMAIN store :
       \E k \in DOMAIN fetched : StoreKey(k, prefix) = n /\ fetched[k] = store[n]

(***************************************************************************)
(* A key the descriptor lists is found by the template under its own name: *)
(* when the backend returned the prefix-qualified key AppendPrefix asked   *)
(* for, the store holds that key's value at path.Join("/", key).  This is  *)
(* the round trip of AppendPrefix in setVars' request and TrimPrefix plus  *)
(* path.Join on its answer.                                                *)
(***************************************************************************)
ListedKeysVisible ==
  \A k \in keys :
    LET q == JoinPath(prefix, k)
    IN  q \in DOMAIN fetched =>
          /\ JoinPath(<<Slash>>, k) \in DOMAIN store
          /\ store[JoinPath(<<Slash>>, k)] = fetched[q]

(***************************************************************************)
(* The rendering does not depend on Go's map iteration order: a setVars    *)
(* that gets the same answer as the last one rebuilds the same store.      *)
(* Otherwise an unchanged backend makes the rendered file flap, and every  *)
(* flap is a commit and a reload.                                          *)
(***************************************************************************)
OrderIndependent == [][fetched' = fetched => store' = store]_svars

(***************************************************************************)
(* The store exposes only keys under the prefix: every store key comes     *)
(* from a returned key that is the prefix or lies below it at a path       *)
(* boundary, never from a sibling whose name merely starts with it.        *)
(***************************************************************************)
UnderPrefix(k, p) ==
  /\ IsPrefix(p, k)
  /\ \/ k = p
     \/ p = <<>>
     \/ Last(p) = Slash
     \/ k[Len(p) + 1] = Slash

OnlyUnderPrefix ==
  \A n \in DOMAIN store :
    \E k \in DOMAIN fetched : StoreKey(k, prefix) = n /\ UnderPrefix(k, prefix)
=============================================================================
