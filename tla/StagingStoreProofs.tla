------------------------- MODULE StagingStoreProofs -------------------------
(***************************************************************************)
(* Proofs about the staging store for every value of its constants.       *)
(* StoreIsLastFetch is inductive as it stands: setVars purges the store    *)
(* and rebuilds it from the answer it records, and nothing else touches    *)
(* the store, the answer or the prefix the store keys are computed with.   *)
(***************************************************************************)
EXTENDS StagingStore, TLAPS

(***************************************************************************)
(* What path.Clean computes on every key is induction over its characters, *)
(* beyond the provers; the type theorem takes the one fact about it that   *)
(* it needs, StoreKeysClean, as its premise.                              *)
(***************************************************************************)

(* The prefixes NewTemplateResource can settle on *)
ResolvedPrefixes == {ResolvePrefix(t, c) : t \in TomlPrefixes, c \in ConfigPrefixes}

(* The backend keys GetValues can return for prefix p and key list ks *)
Answered(p, ks) == {b \in BackendKeys : \E q \in AppendPrefix(p, ks) : Answers(q, b)}

(* path.Join("/", ...) yields clean strings: path.Clean is idempotent *)
StoreKeysClean ==
  \A p \in ResolvedPrefixes : \A b \in BackendKeys :
    StoreKey(b, p) \in Seq(Chars) /\ CleanRooted(StoreKey(b, p)) = StoreKey(b, p)

(***************************************************************************)
(* The inductive invariant the store theorems rest on: the prefix and key  *)
(* list are ones the loader produces, every fetched key was answered to    *)
(* setVars' request, and the store is a function reflecting the last      *)
(* fetch.                                                                  *)
(***************************************************************************)
FetchInv ==
  /\ prefix \in ResolvedPrefixes
  /\ keys \in KeyLists
  /\ backend \in PartialMaps(BackendKeys, Values)
  /\ fetched \in PartialMaps(BackendKeys, Values)
  /\ DOMAIN fetched \subseteq Answered(prefix, keys)
  /\ store = [n \in DOMAIN store |-> store[n]]
  /\ StoreIsLastFetch

(* A partial map is defined on part of its domain set *)
LEMMA PartialMapDomain ==
    ASSUME NEW D, NEW R, NEW f \in PartialMaps(D, R)
    PROVE  DOMAIN f \subseteq D
  BY DEF PartialMaps

(* A restriction of a partial map is a partial map *)
LEMMA RestrictPartial ==
    ASSUME NEW D, NEW R, NEW f \in PartialMaps(D, R), NEW S \in SUBSET DOMAIN f
    PROVE  Restrict(f, S) \in PartialMaps(D, R)
  <1>1. PICK T \in SUBSET D : f \in [T -> R]
    BY DEF PartialMaps
  <1>2. Restrict(f, S) \in [S -> R] /\ S \in SUBSET D
    BY <1>1 DEF Restrict
  <1>3. QED
    BY <1>2 DEF PartialMaps

(* The loader's prefixes are strings *)
LEMMA PrefixType == ResolvedPrefixes \subseteq Seq(Chars)
  <1> SUFFICES ASSUME NEW t \in TomlPrefixes, NEW c \in ConfigPrefixes
               PROVE  ResolvePrefix(t, c) \in Seq(Chars)
    BY DEF ResolvedPrefixes
  <1> DEFINE p == IF c # <<>> THEN c ELSE t
  <1>1. p \in Seq(Chars)
    BY StagingAssumption
  <1>2. <<Slash>> \o p \in Seq(Chars)
    BY <1>1, StagingAssumption
  <1>3. QED
    BY <1>1, <1>2 DEF ResolvePrefix

(* What a store of Rebuilt(res) is: a function on the store keys of res,   *)
(* each holding the value of a returned key with that store key.           *)
LEMMA RebuiltStore ==
    ASSUME NEW res, NEW st \in Rebuilt(res)
    PROVE  /\ DOMAIN st = {StoreKey(k, prefix) : k \in DOMAIN res}
           /\ \A n \in DOMAIN st :
                \E k \in DOMAIN res : StoreKey(k, prefix) = n /\ res[k] = st[n]
  BY DEF Rebuilt

(* A store of Rebuilt(res) is a function *)
LEMMA RebuiltFunction ==
    ASSUME NEW res, NEW st \in Rebuilt(res)
    PROVE  st = [n \in DOMAIN st |-> st[n]]
  BY DEF Rebuilt

THEOREM InitLastFetch == Init => StoreIsLastFetch
  BY DEF Init, StoreIsLastFetch

THEOREM NextLastFetch ==
    StoreIsLastFetch /\ [Next]_svars => StoreIsLastFetch'
  <1> SUFFICES ASSUME StoreIsLastFetch, [Next]_svars PROVE StoreIsLastFetch'
    OBVIOUS
  <1>1. CASE setVars
    <2>1. store' \in Rebuilt(fetched') /\ prefix' = prefix
      BY <1>1 DEF setVars
    <2>2. /\ DOMAIN store' = {StoreKey(k, prefix) : k \in DOMAIN fetched'}
          /\ \A n \in DOMAIN store' :
               \E k \in DOMAIN fetched' :
                 StoreKey(k, prefix) = n /\ fetched'[k] = store'[n]
      BY <2>1, RebuiltStore
    <2>3. QED
      BY <2>1, <2>2 DEF StoreIsLastFetch
  <1>2. CASE BackendUpdate
    BY <1>2 DEF BackendUpdate, StoreIsLastFetch
  <1>3. CASE UNCHANGED svars
    BY <1>3 DEF svars, StoreIsLastFetch
  <1>4. QED
    BY <1>1, <1>2, <1>3 DEF Next

(* The store reflects exactly the last successful fetch in every reachable *)
(* state: no key of an earlier GetValues answer survives setVars' Purge,   *)
(* and every returned key is visible under its normalised name.            *)
THEOREM StoreReflectsLastFetch == Spec => []StoreIsLastFetch
  BY InitLastFetch, NextLastFetch, PTL DEF Spec

THEOREM InitFetchInv == Init => FetchInv
  <1> SUFFICES ASSUME Init PROVE FetchInv
    OBVIOUS
  <1>1. prefix \in ResolvedPrefixes /\ keys \in KeyLists
          /\ backend \in PartialMaps(BackendKeys, Values)
    BY DEF Init, ResolvedPrefixes
  <1>2. fetched \in PartialMaps(BackendKeys, Values)
    <2>1. fetched \in [{} -> Values]
      BY DEF Init
    <2>2. QED
      BY <2>1 DEF PartialMaps
  <1>5. DOMAIN fetched = {} /\ store = [n \in {} |-> store[n]] /\ DOMAIN store = {}
    BY DEF Init
  <1>3. StoreIsLastFetch
    BY InitLastFetch
  <1>4. QED
    BY <1>1, <1>2, <1>3, <1>5 DEF FetchInv

THEOREM NextFetchInv == FetchInv /\ [Next]_svars => FetchInv'
  <1> SUFFICES ASSUME FetchInv, [Next]_svars PROVE FetchInv'
    OBVIOUS
  <1>1. CASE setVars
    <2>1. /\ prefix' = prefix /\ keys' = keys /\ backend' = backend
          /\ fetched' = Response /\ store' \in Rebuilt(fetched')
      BY <1>1 DEF setVars
    <2>2. DOMAIN backend \subseteq BackendKeys
      BY PartialMapDomain DEF FetchInv
    <2>3. DOMAIN fetched' \subseteq Answered(prefix, keys)
      BY <2>1, <2>2 DEF Response, Restrict, Answered
    <2>7. fetched' \in PartialMaps(BackendKeys, Values)
      BY <2>1, RestrictPartial DEF Response, FetchInv
    <2>4. store' = [n \in DOMAIN store' |-> store'[n]]
      BY <2>1, RebuiltFunction
    <2>5. StoreIsLastFetch'
      BY <1>1, NextLastFetch DEF FetchInv
    <2>6. QED
      BY <2>1, <2>3, <2>4, <2>5, <2>7 DEF FetchInv
  <1>2. CASE BackendUpdate
    <2>1. StoreIsLastFetch'
      BY <1>2, NextLastFetch DEF FetchInv
    <2>2. QED
      BY <1>2, <2>1 DEF BackendUpdate, FetchInv
  <1>3. CASE UNCHANGED svars
    BY <1>3 DEF svars, FetchInv, StoreIsLastFetch
  <1>4. QED
    BY <1>1, <1>2, <1>3 DEF Next

LEMMA FetchInvariant == Spec => []FetchInv
  BY InitFetchInv, NextFetchInv, PTL DEF Spec

(***************************************************************************)
(* The staging store is well typed in every reachable state, whenever      *)
(* path.Join("/", ...) yields clean strings: the prefix is a string, the   *)
(* backend and the last answer are partial maps from backend keys to       *)
(* values, and every store key is a clean path, the form memkv lookups of  *)
(* the template use.                                                       *)
(***************************************************************************)
THEOREM StoreTyped ==
    ASSUME StoreKeysClean
    PROVE  Spec => []TypeOK
  <1>1. FetchInv => TypeOK
    <2> SUFFICES ASSUME FetchInv PROVE TypeOK
      OBVIOUS
    <2>1. prefix \in Seq(Chars)
      BY PrefixType DEF FetchInv
    <2>2. DOMAIN fetched \subseteq BackendKeys
      BY PartialMapDomain DEF FetchInv
    <2>3. ASSUME NEW n \in DOMAIN store
          PROVE  n \in Seq(Chars) /\ CleanRooted(n) = n /\ store[n] \in Values
      <3>1. PICK k \in DOMAIN fetched : StoreKey(k, prefix) = n /\ fetched[k] = store[n]
        BY DEF FetchInv, StoreIsLastFetch
      <3>2. n \in Seq(Chars) /\ CleanRooted(n) = n
        BY <2>2, <3>1 DEF FetchInv, StoreKeysClean
      <3>3. PICK T \in SUBSET BackendKeys : fetched \in [T -> Values]
        BY DEF FetchInv, PartialMaps
      <3>4. QED
        BY <3>1, <3>2, <3>3
    <2>4. store \in [DOMAIN store -> Values]
      BY <2>3 DEF FetchInv
    <2>5. QED
      BY <2>1, <2>3, <2>4 DEF FetchInv, TypeOK
  <1>2. QED
    BY <1>1, FetchInvariant, PTL
=============================================================================
