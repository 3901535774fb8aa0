# A TLA+ model of confd's template resources

This directory is a verification development for confd's template-resource
pipeline. The pipeline is `src/pkg/template/resource.go`, the code that turns
backend key/values into a configuration file on disk and tells the service
about it. It has TLA+ modules, TLC configurations, and TLAPS proofs.

## The system and its parts

| Part | Source | Modules | Status |
|---|---|---|---|
| Stage-and-commit pipeline: `process`, `setFileMode`, `setVars`, `CreateStageFile`, `sync`, `check`, `reload`, `runCommand` | resource.go 140-351 | `TemplateResource`, `TemplateResourceProofs`; abstract spec `LiveFile` | modelled |
| Staging store and key normalisation (`setVars`, lines 140-158) | resource.go 140-158 | `StagingStore`, `StagingStoreProofs` | modelled: request, answer, Purge, Set under the normalised key in any map order |
| Resource loader `NewTemplateResource` | resource.go 69-138 | `TemplateResource` (Init), `StagingStore` (`ResolvePrefix`) | partly: flags, mode, owner, prefix; uid/gid lookup and load errors not modelled |
| File stat and diff (`util.FileStat`, `util.IsConfigChanged`) | pkg/util/filestat_posix.go; `util.IsConfigChanged` is not in src/ | `TemplateResource` | partly; the diff is modelled from the spec (content only) |
| Template renderer (text/template, memkv) | library | none | not modelled: a render is abstracted to the value it renders, and a failure is an injected error |
| Backend store client | external | none | environment action `BackendUpdate`; `GetValues` may fail |
| Integration script, fork README | src/test, src/unnamed | none | no state machine |

How the pieces interact:

1. One `process()` call runs `setFileMode`, `setVars`, `CreateStageFile` and
   `sync` in that order. It stops at the first error, and the next interval
   starts again from the top.
2. `setFileMode` takes the mode from the descriptor, parsed by
   `ParseUint(mode, 0, 32)`. Without a mode it keeps the destination's current
   mode, or uses 0644 when there is no destination.
3. `setVars` fetches the values. On an error it keeps the previous store.
4. `CreateStageFile` renders into a temp file (mode 0600) next to the
   destination, then calls Chmod and Chown on it. It ignores both errors.
   Go's `os.Chmod` keeps only the permission bits of the mode and the
   setuid, setgid and sticky flags (`syscallMode`); every other bit is
   dropped.
5. `sync` does the commit:
   - a deferred remove of the stage file, unless `keepStageFile` is set;
   - a content diff;
   - an early return in noop mode;
   - the check command, unless `syncOnly` is set;
   - `Rename`;
   - if the destination is a busy mount point: `ReadFile`, `WriteFile`, then
     `Chown`, whose error is ignored;
   - the reload command, unless `syncOnly` is set.

## The model: `TemplateResource.tla`

State. Each variable stands for a piece of the running program:

| Variable | Stands for |
|---|---|
| `cfg` | the loaded `TemplateResource`: mode string, owner, and the `root`, `noop`, `syncOnly`, `keep`, `check`, `reload` flags; `mount` means the destination is a mount point, so `Rename` returns EBUSY |
| `pc` | the step of `process()` that runs next |
| `fileMode` | `t.FileMode` |
| `store` | `t.Store`, abstracted to the rendering it yields |
| `staged` | the stage file |
| `dest` | the destination file: content, mode and owner |
| `backend` | the backend's value |
| `loaded` | the configuration the service last loaded |
| `failures`, `updates`, `crashes` | counters of injected errors, backend changes and crashes, capped by `MaxFailures`, `MaxUpdates` and `MaxCrashes` |

Contents are values, `Empty` (a truncated file) or `Partial` (a half-written
file).

Actions:

- Each pipeline step is one action covering the whole function, error paths
  included: `setFileMode`, `setVars`, `CreateStageFile`, `sync`, `writeFile`
  and `reload`.
- `writeFile` is the second half of the busy-mount fallback. Between the
  truncation and the write, the destination is visibly `Empty`.
- Every error path is `Fail`: it ends the cycle, counts one failure, and runs
  the deferred remove.
- The check and reload commands succeed, fail, or (for the check) reject.
- The environment has three actions:
  - `BackendUpdate` changes the backend's value.
  - `ServiceRead` makes the service reload the current destination on its own.
  - `Crash` restarts confd. Everything in memory is lost, and the files stay
    as they are.
- `ParseUint` is a recursive function that translates strconv's base-0 rule:
  base 8 after a leading 0, otherwise base 10. Its range check is replaced by
  an ASSUME that mode strings have fewer than 10 digits. A second ASSUME,
  `ParseUintRange`, states that it yields a number or `ParseError`; TLC
  evaluates it, and the provers, which cannot unfold the recursive function,
  take it as given.
- `ChmodMode` is what `fs.Chmod` (resource.go:193) does to a mode: it keeps
  `m % 512` and the three flags `ModeSetuid`, `ModeSetgid` and `ModeSticky`
  of Go's `FileMode`. The stage file carries `ChmodMode(fileMode)`, not
  `fileMode`.

Fairness. `process()` is called on every interval tick, and in watch mode on
every change. So whenever a pipeline step is enabled, it eventually runs. The
spec takes weak fairness of the six pipeline actions. It takes none of the
environment actions: failures, updates and crashes may stop at any time.
This fairness holds for interval mode. In watch mode `process()` runs only
when the backend reports a change, so a cycle that failed is not re-run until
the next change; `Convergence` is therefore a statement about interval mode
(or about watch mode with backend changes that keep coming).

## The abstract spec: `LiveFile.tla`

`LiveFile` states what the pipeline promises, whatever steps it takes to get
there. Its variables are the live file's content, what the service loaded,
and the renderings the resource allows. It has two actions:

- `Install` replaces the content with a *different* allowed rendering, whole.
- `Load` makes the service load the live file.

`TemplateResource` instantiates it as `LF` with two substitutions:

- `live <- ContentOf(dest)`;
- `allowed <- AllowedRenderings`: none in noop mode, the accepted values when
  the check runs, all values otherwise.

`Refinement == LF!Spec` is checked by TLC and proved by TLAPS.

## The staging store: `StagingStore.tla`

Keys here are sequences of characters, because every property of this module
is about what the path conversions do to a key. The module has these parts:

- `ResolvePrefix` is the loader's prefix rule: the `-prefix` option overrides
  the descriptor, then a leading `/` is added.
- `AppendPrefix` is `util.AppendPrefix`. It is not under src/, so it is
  modelled from the spec as `path.Join(prefix, key)`.
- `TrimPrefix` is `strings.TrimPrefix`.
- `CleanRooted` is `path.Clean` of a rooted path, written as a fold over the
  characters. It splits at slashes, drops empty and `.` elements, and lets
  `..` pop the element before it.
- `StoreKey` is the key `setVars` stores a returned key under.
- `Answers` is the backend contract. The spec allows both directory semantics
  and string-prefix semantics; the constant `DirSemantics` chooses.
- `setVars` purges the store and Sets every returned key. `Rebuilt` gives
  every store key the value of *some* returned key that maps to it. That
  choice stands for Go's random map iteration order, where the last Set wins.
  Every choice is reachable, because the choices for different store keys are
  independent.
- `BackendUpdate` is the environment's only action.

A failed `GetValues` changes nothing, so it is a stutter.

## Runs

The core runs use `MCTemplateResource.tla`, with:

- two backend values, of which the check accepts one;
- two numeric modes and two mode strings, `"0640"` and `"644"`;
- two owners, with confd running as `root`;
- every combination of the descriptor's flags.

Every run also sets `MaxUpdates = 1` and `MaxCrashes = 1`.

| Run | cfg | Checks | Result |
|---|---|---|---|
| core_safety | `_safety.cfg`: no mount points, `MaxFailures = 1` | `TypeOK`, `ModeResolved`, `Refinement` | pass, about 630k states |
| core_convergence | `_live.cfg`: all configs, mounts included, `MaxFailures = 1` | `Convergence` | pass, about 1.5M states |
| fallback_truncates | `_fallback_partial.cfg`: mounts | `DestWriteAllowed` | violation |
| fallback_keeps_mode | `_fallback_mode.cfg`: mounts | `ModeResolved` | violation |
| chown_error_ignored | `_chown_ignored.cfg` | `OwnerApplied` | violation |
| reload_not_retried | `_reload_lost.cfg` | `ReloadConvergence` | violation |
| decimal_mode | `_decimal_mode.cfg` | `ModeAsConfigured` | violation |

The staging-store runs use `MCStagingStore.tla`. Its instance has:

- keys over the characters `a`, `b`, `/` and `.`;
- descriptor prefixes `""`, `"a"` and `"/a"`, with the `-prefix` option unset
  or `"/b"`;
- key lists `["b"]`, `["/"]` and `["/b", "a"]`;
- any partial map from four backend keys to two values, which change in every
  way.

| Run | cfg | Checks | Result |
|---|---|---|---|
| store_safety | `_safety.cfg`: clean keys, directory semantics | `TypeOK`, `StoreIsLastFetch`, `ListedKeysVisible` | pass, 10,611 states |
| store_order | `_order.cfg`: the same instance | `OrderIndependent` | pass |
| store_slash_prefix | `_slash_prefix.cfg`: prefix `"/a/"` | `ListedKeysVisible` | violation |
| store_sibling_leak | `_sibling_leak.cfg`: string-prefix semantics | `OnlyUnderPrefix` | violation |
| store_key_collision | `_key_collision.cfg`: keys `/a/b` and `/a/b/` | `OrderIndependent` | violation |

`OrderIndependent` has a run of its own because its mutant also breaks
`ListedKeysVisible`, and it does so one step earlier.
What each property says:

- `DestWriteAllowed` is an action property. A change of the live file's
  content is never made in noop mode. It installs a full rendering of a
  backend value, and one the check accepted whenever the check runs.
- `ModeResolved` is an action property: a step that installs a new rendering
  leaves the live file with `ChmodMode` of the mode `setFileMode` resolves
  from the file it replaces (the configured mode, else the old file's mode).
- `Convergence` says that once failures, updates and crashes stop, the live
  file eventually holds the backend's rendering for good (`<>[]`).
- `OwnerApplied` says the live file has the configured owner.
- `ReloadConvergence` says that with a reload configured, the service
  eventually runs the current file.
- `ModeAsConfigured` is an action property stating the spec's reading of
  `mode`: an octal string. A step that installs a new rendering for a
  resource with a configured mode leaves the live file with the octal value
  of that string (`OctalMode`).
- `Refinement` says the pipeline implements `LiveFile`. It subsumes
  `DestWriteAllowed` and adds two things: an install changes the content,
  and the service only loads what the file holds.
- `StoreIsLastFetch` says the store holds exactly the normalised keys of the
  last successful fetch, with their values. This is the spec's "no key from a
  prior cycle persists".
- `ListedKeysVisible` says that a key the descriptor lists, once returned, is
  in the store under `path.Join("/", key)` with its value. This is the round
  trip of `AppendPrefix` against `TrimPrefix` plus `path.Join`.
- `OnlyUnderPrefix` (store_sibling_leak only) says every store key comes from
  a backend key under the prefix, at a path boundary. With directory
  semantics the backend returns only such keys, so it is checked only where
  the spec's other backend semantics can break it.
- `OrderIndependent` is an action property: a `setVars` that gets the same
  answer as the last one builds the same store.

The bounds are enough for the cases that matter:

- One failure covers every error path at every step.
- One update makes the store stale.
- One crash falls between any two steps.
- Two values let the check both accept and reject.

The violations show at depth 4 to 8.

### Findings

- **fallback_truncates** (resource.go:240): on a mount point, the live file is
  empty between the truncation and the write, and half-written if the write
  fails. The spec says it is never partially written.
- **fallback_keeps_mode** (resource.go:240): `WriteFile` ignores its mode on an
  existing file, so a configured mode is never applied to a mount point.
- **chown_error_ignored** (resource.go:194): a non-root confd commits a file it
  owns itself, and reports success.
- **reload_not_retried** (resource.go:251): a failed reload, or a crash between
  the rename and the reload, is never retried, because later diffs find no
  change.
- **decimal_mode** (resource.go:344): `"644"` is read as decimal 644, which is
  0o1204, and `Chmod` keeps only its permission bits: the live file gets
  0o204 (`-w----r--`), not the 0o644 the spec's octal reading gives.
- **store_slash_prefix** (resource.go:155): with prefix `"/app/"` (the spec's
  own example) and `keys = ["/"]`, `AppendPrefix` asks for `/app`. But
  `TrimPrefix` by `"/app/"` does not strip it, so the value shows as `/app`
  instead of `/`.
- **store_sibling_leak** (resource.go:155): with a string-prefix backend,
  prefix `/a` and `keys = ["/"]`, the sibling key `/ab` is exposed as `/b`.
- **store_key_collision** (resource.go:154): `/a/b` and `/a/b/` both become
  `/a/b`. Go's map order picks the winner, so the rendering can flap while
  the backend stays the same.

## Proofs: `TemplateResourceProofs.tla`, `StagingStoreProofs.tla`

TLAPS checks every step of six main theorems, and of the lemmas and step
theorems they rest on, for all values of the constants.

**`TypeCorrect`** proves `Spec => []TypeOK`.

- `TypeOK` alone is not inductive. The strengthening `IInv` adds:
  - the store holds a value when staging starts;
  - a stage file exists during `sync` and `writeFile`;
  - the destination exists during `writeFile` and `reload`, and always on a
    mount point.
- The proof has three parts:
  - `InitIInv`;
  - `NextIInv`, with one case per action;
  - `IInv => TypeOK`.
- It rests on the lemmas `ChownType` and `ChmodClosed` (a Chmod of a file
  mode is a file mode).

**`CommitGate`** proves `NoMount => (Spec => DestWriteAllowed)`.

- It uses `CommitInv`, which is `IInv` plus two facts:
  - the staged content during `sync` is a backend value, never a marker;
  - `writeFile` is reached only on a mount point.
- `CommitInvariant` proves `Spec => []CommitInv`. `CommitStep` shows that
  every step satisfies `DestWriteStep` once `CommitInv` holds. `CommitGate`
  combines the two by PTL.
- The hypothesis `NoMount` is needed: the fallback_truncates run shows the
  property fails on a mount point.

**`RefinesLiveFile`** proves `NoMount => (Spec => Refinement)`.

- `InitRefines`: an initial state maps to an initial state of `LiveFile`.
- `StepRefines`: from a `CommitInv` state, every step is a `LiveFile` step or
  a stutter:
  - `sync`'s rename is `Install`. `IsConfigChanged` makes the content differ,
    and `CommitInv` makes it a rendering.
  - `reload` and `ServiceRead` are `Load`, or stutters.
  - `writeFile` cannot happen without a mount point.
  - Every other step leaves the destination, `loaded` and `cfg` alone.
- `AllowedType` is the lemma that the allowed renderings are backend values.

**`ModeInherited`** proves `MountInherits => (Spec => ModeResolved)`.

- `MountInherits` says every mount-point resource inherits the destination's
  mode. `NoMount` implies it, so the theorem covers core_safety.
- The inductive invariant is `ModeInv`, which is `CommitInv` plus four facts:
  - from `setFileMode` until `sync`, `fileMode` is the mode resolved from the
    destination as it is now;
  - during `sync` the stage file carries `ChmodMode(fileMode)`;
  - the destination's and the stage file's modes are fixed points of
    `ChmodMode`: they are modes a file can really have.
- The last fact is what makes the mount-point case work: `writeFile` keeps
  the destination's mode `m`, the inherited mode is `m`, and `ChmodMode(m) = m`
  because `m` is already a file's mode. The lemmas `ChmodPerm` (a mode of 9
  bits is unchanged), `ChmodIdempotent` and `ExceptKeepsMode` give it.
- It is inductive because only `sync` and `writeFile` write the destination,
  and both end the cycle or lead to `reload`. `Crash` and a failed stat return
  to `idle`, and the next cycle resolves the mode again.
- The fallback_keeps_mode run breaks the property with a configured mode on a
  mount point, so the premise is needed.

**`StoreReflectsLastFetch`** proves `Spec => []StoreIsLastFetch` for the
staging store.

- The invariant is inductive as it stands: `setVars` rebuilds the store from
  the answer it records, and no other step touches the store, the answer or
  the prefix.
- The lemma `RebuiltStore` states what a store in `Rebuilt(res)` is. The proof
  never needs to know what `StoreKey` computes.

**`StoreTyped`** proves `StoreKeysClean => (Spec => []TypeOK)` for the
staging store. It rests on the inductive invariant `FetchInv`
(`FetchInvariant`): `StoreIsLastFetch`, the prefix is one `ResolvePrefix`
yields, the backend and the last answer are partial maps, every fetched key
answered the request, and the store is a function. `StoreKeysClean` is a
constant formula that names no variable: every store key is a string over the
key alphabet that `path.Clean` leaves unchanged. It is a fact about
`path.Clean` on every string, so it is the theorem's premise; store_safety's
`TypeOK` checks its consequence on the instance.

These stay with TLC only:

- Liveness (`Convergence`): TLAPS does not handle ENABLED or fairness here.
- `ListedKeysVisible`, `OnlyUnderPrefix` and `OrderIndependent`: each is a
  fact about what `path.Clean` and `strings.TrimPrefix` do to every string,
  which is induction over data, out of these provers' reach. The runs check
  them on the instance, and the violation runs show where they fail.
- What `ParseUint` computes: it is a recursive function over the digits, and
  the proofs use only its range (`ParseUintRange`).

## Not modelled, and the plan

- **Uid/gid resolution and load errors** (resource.go 69-138): the
  `user.Lookup` and `Atoi` errors, the empty-src error, and the TOML decode
  error all end `NewTemplateResource` before any state exists. The resolved
  uid is the model's `cfg.owner`.
- **External writers**: a chmod of the destination between `setFileMode` and
  the rename (resource.go:341) is reverted by the commit. This is not modelled
  yet.
- **Leaked stage files**: a crash after `TempFile` (resource.go:179) leaves the
  randomly named file behind, and `keepStageFile` (resource.go:206) leaves
  one per cycle by design. The model tracks only the current cycle's stage
  file.
- **`IsConfigChanged` errors** (resource.go:213): `util.IsConfigChanged` is not
  under src/, and the spec gives it no error path.
- **Metadata in the diff**: `util.FileStat` also collects uid, gid and mode,
  and spec section 9 mentions them, but the spec's design note settles on a
  content-only comparison, and that is what the model does. A diff that also
  compared metadata would re-commit, and re-run check and reload, on every
  cycle for a mount point with a configured mode, since the fallback never
  applies that mode.
- **Noop's nil result** (resource.go:219): the model does not keep
  `process()`'s return value.
- **memkv lookups** (`get`, `gets`, `exists`, `ls`) and the template renderer:
  they only read the store, and they are libraries outside src/.
