-------------------------- MODULE TemplateResource --------------------------
(***************************************************************************)
(* One template resource of confd (src/pkg/template/resource.go) and the   *)
(* files it touches: the stage-and-commit pipeline run by process().       *)
(*                                                                         *)
(* process() calls setFileMode, setVars, CreateStageFile and sync in this  *)
(* order and returns at the first error.  Each call is one action here, so *)
(* that the environment (the backend, the dependent service reading the    *)
(* live file, a crash of confd) can act between two calls.  sync is split  *)
(* where it lets the outside world see an intermediate file: after the     *)
(* busy-mount fallback has truncated the destination and before it has    *)
(* written it, and before the reload command runs.                         *)
(*                                                                         *)
(* Data is abstracted to what the properties tell apart: a file is its     *)
(* content, mode and owner; the content a template renders from the store  *)
(* is the backend value it was fetched from (one of Values); Empty and     *)
(* Partial are the contents of a truncated and of a half-written file.     *)
(***************************************************************************)
EXTENDS Naturals, Sequences

CONSTANTS
    Values,        \* renderings of the backend's data for this resource
    CheckAccepts,  \* the renderings the check_cmd exits 0 on
    Modes,         \* permission modes an existing destination can have
    ModeStrings,   \* mode fields of descriptors, as strings of decimal digits
    Owners,        \* uid/gid pairs
    ProcOwner,     \* os.Geteuid()/os.Getegid() of the confd process
    Configs,       \* the descriptors and flags a resource can be loaded with
    Inherit,       \* Mode = "": inherit the destination's mode
    ParseError,    \* the error strconv.ParseUint returns
    NoFile,        \* the path does not exist
    NoValue,       \* empty memkv store / service never loaded a config
    Empty,         \* content of a file truncated by O_TRUNC
    Partial,       \* content of a file whose write failed midway
    MaxFailures,   \* bound on injected errors (backend, I/O, commands)
    MaxUpdates,    \* bound on backend changes
    MaxCrashes     \* bound on crashes of the confd process

Mode0644 == 420    \* the literal 0644 of setFileMode
Mode0600 == 384    \* the mode afero.TempFile creates a file with

(* strconv.ParseUint(s, 0, 32) on a string of decimal digits: base 8 after *)
(* a leading "0", base 10 otherwise; a digit out of base is an error.  The *)
(* range error needs ten digits or more, which ModeStrings rules out.      *)
ParseUint(s) ==
    LET base == IF Len(s) > 1 /\ s[1] = 0 THEN 8 ELSE 10
        val[i \in 0..Len(s)] == IF i = 0 THEN 0 ELSE val[i - 1] * base + s[i]
    IN  IF Len(s) = 0 \/ \E i \in 1..Len(s) : s[i] >= base
        THEN ParseError ELSE val[Len(s)]

(* The os.FileMode flags os.Chmod passes on to chmod(2) besides Perm().   *)
ModeSetuid == 8388608    \* 1 << 23
ModeSetgid == 4194304    \* 1 << 22
ModeSticky == 1048576    \* 1 << 20

HasFlag(m, flag) == (m \div flag) % 2

(* fs.Chmod(name, m) as os.Stat reports it afterwards: os.Chmod keeps      *)
(* m.Perm() and the setuid, setgid and sticky flags, and drops every other *)
(* bit, so os.FileMode(644) = 0o1204 becomes 0o204.                        *)
ChmodMode(m) ==
    (m % 512) + ModeSetuid * HasFlag(m, ModeSetuid)
            + ModeSetgid * HasFlag(m, ModeSetgid)
            + ModeSticky * HasFlag(m, ModeSticky)

ParsedModes == {ParseUint(s) : s \in ModeStrings} \ {ParseError}

(* The modes a FileMode or a file can have: an existing destination's, a   *)
(* parsed mode field and what Chmod makes of it, the 0644 default,         *)
(* afero.TempFile's 0600 and the zero FileMode.                            *)
FileModes ==
    Modes \cup ParsedModes \cup {ChmodMode(m) : m \in ParsedModes}
          \cup {Mode0644, Mode0600, 0}

Contents == Values \cup {Empty, Partial}
File == [content : Contents, mode : FileModes, owner : Owners]

(* A loaded resource: the TemplateResource fields and Config flags that    *)
(* steer process().  check and reload say whether CheckCmd and ReloadCmd   *)
(* are set; root whether the process may chown to another owner; mount     *)
(* whether Dest is a mount point, on which rename reports EBUSY.           *)
ConfigRecords ==
    [mode : ModeStrings \cup {Inherit}, owner : Owners, root : BOOLEAN,
     noop : BOOLEAN, syncOnly : BOOLEAN, keep : BOOLEAN,
     check : BOOLEAN, reload : BOOLEAN, mount : BOOLEAN]

ASSUME ConstantsAssumption ==
    /\ Values # {} /\ CheckAccepts \subseteq Values
    /\ Modes \subseteq 0..511 /\ ProcOwner \in Owners
    /\ \A s \in ModeStrings : s \in Seq(0..9) /\ Len(s) < 10
    /\ Configs \subseteq ConfigRecords /\ Configs # {}
    /\ NoValue \notin Contents /\ Empty \notin Values /\ Partial \notin Values
    /\ Empty # Partial /\ NoFile # NoValue /\ NoFile \notin File
    /\ ParseError \notin Nat
    /\ MaxFailures \in Nat /\ MaxUpdates \in Nat /\ MaxCrashes \in Nat

(* strconv.ParseUint returns a uint64 or an error.  The provers cannot   *)
(* unfold ParseUint's recursive function; TLC evaluates this on every run. *)
ASSUME ParseUintRange == \A s \in ModeStrings : ParseUint(s) \in Nat \cup {ParseError}

VARIABLES
    cfg,       \* the resource (immutable once loaded)
    pc,        \* the next call of process() to run; "idle" between cycles
    fileMode,  \* t.FileMode
    store,     \* t.Store, as the rendering it yields
    staged,    \* t.StageFile on disk
    dest,      \* the file at t.Dest
    backend,   \* what the backend currently holds
    loaded,    \* the config the dependent service runs with
    failures, updates, crashes

vars == <<cfg, pc, fileMode, store, staged, dest, backend, loaded,
          failures, updates, crashes>>

PCs == {"idle", "setVars", "createStageFile", "sync", "writeFile", "reload"}

TypeOK ==
    /\ cfg \in Configs
    /\ pc \in PCs
    /\ fileMode \in FileModes
    /\ store \in Values \cup {NoValue}
    /\ staged \in File \cup {NoFile}
    /\ dest \in File \cup {NoFile}
    /\ backend \in Values
    /\ loaded \in Contents \cup {NoValue}
    /\ failures \in 0..MaxFailures
    /\ updates \in 0..MaxUpdates
    /\ crashes \in 0..MaxCrashes

(* NewTemplateResource: an empty store, FileMode zero, no stage file.  The *)
(* destination may already exist (a mount point always does), and the     *)
(* service runs with whatever it holds.                                    *)
Init ==
    /\ cfg \in Configs
    /\ pc = "idle"
    /\ fileMode = 0
    /\ store = NoValue
    /\ staged = NoFile
    /\ dest \in {NoFile} \cup [content : Values, mode : Modes, owner : Owners]
    /\ cfg.mount => dest # NoFile
    /\ backend \in Values
    /\ loaded = IF dest = NoFile THEN NoValue ELSE dest.content
    /\ failures = 0 /\ updates = 0 /\ crashes = 0

-----------------------------------------------------------------------------
(* One injected error: the call returns err.                               *)
Fail == failures < MaxFailures /\ failures' = failures + 1

(* The check and reload commands run only outside sync-only mode.          *)
CheckRuns == cfg.check /\ ~cfg.syncOnly
ReloadRuns == cfg.reload /\ ~cfg.syncOnly

(* Chown(name, Uid, Gid), whose error is ignored: the owner it leaves.     *)
Chown(cur) == IF cfg.root \/ cfg.owner = ProcOwner THEN cfg.owner ELSE cur

(* The deferred fs.Remove(staged) of sync, skipped with keepStageFile.     *)
RemoveStaged == staged' = IF cfg.keep THEN staged ELSE NoFile

(* Seeded fault: a missing destination counts as unchanged.               *)
IsConfigChangedMissingDest ==
    IF dest = NoFile THEN FALSE ELSE dest.content # staged.content

(* util.IsConfigChanged as the spec states it: a missing destination is   *)
(* always out of date, otherwise only the contents are compared.           *)
IsConfigChanged == IF dest = NoFile THEN TRUE ELSE dest.content # staged.content

(* Where sync goes once the destination is written.                        *)
AfterWrite == IF ReloadRuns THEN "reload" ELSE "idle"

(* Seeded fault: an existing destination's mode is not read again, the     *)
(* FileMode of the previous cycle is reused.                               *)
setFileModeStale ==
    /\ pc = "idle"
    /\ \/ /\ cfg.mode = Inherit /\ dest = NoFile
          /\ fileMode' = Mode0644 /\ pc' = "setVars" /\ UNCHANGED failures
       \/ /\ cfg.mode = Inherit /\ dest # NoFile
          /\ pc' = "setVars" /\ UNCHANGED <<fileMode, failures>>
       \/ /\ cfg.mode # Inherit /\ ParseUint(cfg.mode) # ParseError
          /\ fileMode' = ParseUint(cfg.mode) /\ pc' = "setVars"
          /\ UNCHANGED failures
    /\ UNCHANGED <<cfg, store, staged, dest, backend, loaded, updates, crashes>>

(* setFileMode: inherit the destination's mode, 0644 when it is missing,   *)
(* or the configured mode; fs.Stat may fail.  When ParseUint fails the    *)
(* call returns having changed nothing: a stuttering step.                 *)
setFileMode ==
    /\ pc = "idle"
    /\ \/ /\ cfg.mode = Inherit /\ dest = NoFile
          /\ fileMode' = Mode0644 /\ pc' = "setVars" /\ UNCHANGED failures
       \/ /\ cfg.mode = Inherit /\ dest # NoFile
          /\ fileMode' = dest.mode /\ pc' = "setVars" /\ UNCHANGED failures
       \/ /\ cfg.mode = Inherit /\ dest # NoFile /\ Fail
          /\ UNCHANGED <<fileMode, pc>>
       \/ /\ cfg.mode # Inherit /\ ParseUint(cfg.mode) # ParseError
          /\ fileMode' = ParseUint(cfg.mode) /\ pc' = "setVars"
          /\ UNCHANGED failures
    /\ UNCHANGED <<cfg, store, staged, dest, backend, loaded, updates, crashes>>

(* Seeded fault: the GetValues error is logged and the template is staged  *)
(* from whatever the store holds.                                          *)
setVarsIgnoresError ==
    /\ pc = "setVars"
    /\ \/ Fail /\ pc' = "createStageFile" /\ UNCHANGED store
       \/ store' = backend /\ pc' = "createStageFile" /\ UNCHANGED failures
    /\ UNCHANGED <<cfg, fileMode, staged, dest, backend, loaded, updates, crashes>>

(* setVars: GetValues fails and leaves the store as it was, or the store   *)
(* is purged and refilled from the backend.                                *)
setVars ==
    /\ pc = "setVars"
    /\ \/ Fail /\ pc' = "idle" /\ UNCHANGED store
       \/ store' = backend /\ pc' = "createStageFile" /\ UNCHANGED failures
    /\ UNCHANGED <<cfg, fileMode, staged, dest, backend, loaded, updates, crashes>>

(* CreateStageFile: a missing or unparsable template, TempFile or Execute  *)
(* failing return an error, the temp file removed; otherwise the rendered  *)
(* temp file gets FileMode (it is the process's own file, so Chmod         *)
(* succeeds) and, if Chown succeeds, the configured owner.                 *)
CreateStageFile ==
    /\ pc = "createStageFile"
    /\ \/ Fail /\ pc' = "idle" /\ UNCHANGED staged
       \/ /\ staged' = [content |-> store, mode |-> ChmodMode(fileMode),
                        owner |-> Chown(ProcOwner)]
          /\ pc' = "sync" /\ UNCHANGED failures
    /\ UNCHANGED <<cfg, fileMode, store, dest, backend, loaded, updates, crashes>>

(* Seeded fault: the check command's verdict is not consulted.             *)
syncSkipsCheck ==
    /\ pc = "sync"
    /\ \/ /\ cfg.noop \/ ~IsConfigChanged
          /\ pc' = "idle" /\ RemoveStaged
          /\ UNCHANGED <<dest, failures>>
       \/ /\ ~cfg.noop /\ IsConfigChanged /\ ~cfg.mount
          /\ dest' = staged /\ staged' = NoFile /\ pc' = AfterWrite
          /\ UNCHANGED failures
    /\ UNCHANGED <<cfg, fileMode, store, backend, loaded, updates, crashes>>

(* sync up to the rename: compare, stop in noop mode or when unchanged,    *)
(* run the check, rename the stage file onto the destination.  On a mount  *)
(* the rename fails with EBUSY; the fallback reads the stage file and      *)
(* opens the destination with O_TRUNC (its mode is kept, as the file       *)
(* exists), or fails and still chowns the destination.                     *)
sync ==
    /\ pc = "sync"
    /\ \/ /\ cfg.noop \/ ~IsConfigChanged
          /\ pc' = "idle" /\ RemoveStaged
          /\ UNCHANGED <<dest, failures>>
       \/ /\ ~cfg.noop /\ IsConfigChanged /\ CheckRuns
          /\ staged.content \notin CheckAccepts
          /\ pc' = "idle" /\ RemoveStaged
          /\ UNCHANGED <<dest, failures>>
       \/ /\ ~cfg.noop /\ IsConfigChanged /\ CheckRuns /\ Fail
          /\ pc' = "idle" /\ RemoveStaged /\ UNCHANGED dest
       \/ /\ ~cfg.noop /\ IsConfigChanged
          /\ CheckRuns => staged.content \in CheckAccepts
          /\ \/ /\ ~cfg.mount
                /\ dest' = staged /\ staged' = NoFile /\ pc' = AfterWrite
                /\ UNCHANGED failures
             \/ /\ ~cfg.mount /\ Fail
                /\ pc' = "idle" /\ RemoveStaged /\ UNCHANGED dest
             \/ /\ cfg.mount
                /\ dest' = [dest EXCEPT !.content = Empty]
                /\ pc' = "writeFile" /\ UNCHANGED <<staged, failures>>
             \/ /\ cfg.mount /\ Fail
                /\ pc' = "idle" /\ RemoveStaged /\ UNCHANGED dest
             \/ /\ cfg.mount /\ Fail
                /\ dest' = [dest EXCEPT !.owner = Chown(dest.owner)]
                /\ pc' = "idle" /\ RemoveStaged
    /\ UNCHANGED <<cfg, fileMode, store, backend, loaded, updates, crashes>>

(* The rest of afero.WriteFile and the Chown after it: the write succeeds, *)
(* or fails having written part of the content.                            *)
writeFile ==
    /\ pc = "writeFile"
    /\ \/ /\ dest' = [dest EXCEPT !.content = staged.content,
                                  !.owner = Chown(dest.owner)]
          /\ pc' = AfterWrite
          /\ IF AfterWrite = "idle" THEN RemoveStaged ELSE UNCHANGED staged
          /\ UNCHANGED failures
       \/ /\ Fail
          /\ dest' = [dest EXCEPT !.content = Partial,
                                  !.owner = Chown(dest.owner)]
          /\ pc' = "idle" /\ RemoveStaged
    /\ UNCHANGED <<cfg, fileMode, store, backend, loaded, updates, crashes>>

(* reload: the service picks up the destination, or the command fails;     *)
(* either way sync returns and its deferred remove runs.                   *)
reload ==
    /\ pc = "reload"
    /\ \/ loaded' = dest.content /\ UNCHANGED failures
       \/ Fail /\ UNCHANGED loaded
    /\ pc' = "idle" /\ RemoveStaged
    /\ UNCHANGED <<cfg, fileMode, store, dest, backend, updates, crashes>>

-----------------------------------------------------------------------------
(* The environment.                                                        *)

BackendUpdate ==
    /\ updates < MaxUpdates /\ updates' = updates + 1
    /\ \E v \in Values \ {backend} : backend' = v
    /\ UNCHANGED <<cfg, pc, fileMode, store, staged, dest, loaded,
                   failures, crashes>>

(* The dependent service (re)starts and reads the destination.             *)
ServiceRead ==
    /\ dest # NoFile /\ loaded # dest.content
    /\ loaded' = dest.content
    /\ UNCHANGED <<cfg, pc, fileMode, store, staged, dest, backend,
                   failures, updates, crashes>>

(* confd dies mid-cycle and is restarted: the resource is loaded afresh,   *)
(* the destination stays as it was; a stage file the deferred remove      *)
(* would have deleted stays on disk under its random name, unseen by the  *)
(* model, which tracks only the current cycle's stage file.               *)
Crash ==
    /\ pc # "idle"
    /\ crashes < MaxCrashes /\ crashes' = crashes + 1
    /\ pc' = "idle" /\ fileMode' = 0 /\ store' = NoValue /\ staged' = NoFile
    /\ UNCHANGED <<cfg, dest, backend, loaded, failures, updates>>

Process == setFileMode \/ setVars \/ CreateStageFile \/ sync \/ writeFile \/ reload

Next == Process \/ BackendUpdate \/ ServiceRead \/ Crash

(* process() is called again and again by confd's interval or watch loop,  *)
(* and each call runs to its end: every step of the pipeline is weakly     *)
(* fair.  The environment is not.                                          *)
Fairness ==
    /\ WF_vars(setFileMode) /\ WF_vars(setVars) /\ WF_vars(CreateStageFile)
    /\ WF_vars(sync) /\ WF_vars(writeFile) /\ WF_vars(reload)

Spec == Init /\ [][Next]_vars /\ Fairness

-----------------------------------------------------------------------------
(* Properties.                                                             *)

(* TypeOK strengthened to an inductive invariant: the file a step reads    *)
(* exists where process() has just created or found it.                    *)
IInv ==
    /\ TypeOK
    /\ pc = "createStageFile" => store \in Values
    /\ pc \in {"sync", "writeFile"} => staged \in File
    /\ pc \in {"writeFile", "reload"} => dest \in File
    /\ cfg.mount => dest \in File

(* IInv and what the commit step needs of the stage file: it holds a       *)
(* complete rendering when sync runs, and only a mount point leads to      *)
(* writeFile.                                                              *)
CommitInv ==
    /\ IInv
    /\ pc = "sync" => staged.content \in Values
    /\ pc = "writeFile" => cfg.mount

(* Invariants and action properties.                                      *)

ContentOf(f) == IF f = NoFile THEN NoValue ELSE f.content

(* The live file's content changes only in a step of sync or writeFile     *)
(* that installs a complete rendering (never a truncated or half-written   *)
(* file), one the check command accepted when it runs, and never in noop   *)
(* mode (resource.go sync, lines 204-260).                                 *)
DestWriteStep ==
    ContentOf(dest') # ContentOf(dest) =>
        /\ ~cfg.noop
        /\ ContentOf(dest') \in Values
        /\ CheckRuns => ContentOf(dest') \in CheckAccepts
DestWriteAllowed == [][DestWriteStep]_vars

(* The mode process() resolves for a destination that exists or is about   *)
(* to: the configured one, else the one the destination has, else 0644    *)
(* (setFileMode).                                                          *)
ResolvedMode(d) ==
    IF cfg.mode # Inherit THEN ParseUint(cfg.mode)
    ELSE IF d = NoFile THEN Mode0644 ELSE d.mode

(* Whenever the pipeline installs new content in the live file, the file   *)
(* ends up with the mode Chmod makes of the one setFileMode resolved from  *)
(* the destination as it was: the stage file's Chmod survives the commit   *)
(* (resource.go 193, 229, 240; spec 4.4 step 8 and the mode-inheritance    *)
(* property of section 8).                                                 *)
ModeResolved ==
    [][ContentOf(dest') # ContentOf(dest) /\ ContentOf(dest') \in Values =>
          dest'.mode = ChmodMode(ResolvedMode(dest))]_vars

(* The renderings the resource lets into the live file: none in noop      *)
(* mode, those the check accepts when it runs, any otherwise.              *)
AllowedRenderings ==
    IF cfg.noop THEN {} ELSE IF CheckRuns THEN CheckAccepts ELSE Values

LF == INSTANCE LiveFile WITH live <- ContentOf(dest), allowed <- AllowedRenderings

(* The pipeline implements the live-file abstraction: under the mapping of *)
(* the destination to its content, every step of process() and of the     *)
(* environment replaces the live file by a different allowed rendering,    *)
(* reloads the service from it, or changes neither (resource.go sync,      *)
(* reload; util.IsConfigChanged before the rename).                        *)
Refinement == LF!Spec

(* The mode field read as the octal string the spec says it is.           *)
OctalMode(s) ==
    LET val[i \in 0..Len(s)] == IF i = 0 THEN 0 ELSE val[i - 1] * 8 + s[i]
    IN  val[Len(s)]

(* A configured mode is the one the live file gets: whenever the pipeline  *)
(* installs new content, the file's mode is the descriptor's mode string  *)
(* read in octal (spec 3 and 6: "mode", an octal string such as "0644";   *)
(* resource.go 344-348 parse it, 193 applies it).                          *)
ModeAsConfigured ==
    [][/\ ContentOf(dest') # ContentOf(dest) /\ ContentOf(dest') \in Values
       /\ cfg.mode # Inherit
       => dest'.mode = OctalMode(cfg.mode)]_vars

(* Whenever the pipeline installs new content in the live file, the file   *)
(* is owned by the configured uid/gid, as the comment before the Chown of  *)
(* the stage file says (resource.go 191-194).                              *)
OwnerApplied ==
    [][ContentOf(dest') # ContentOf(dest) /\ ContentOf(dest') \in Values =>
          dest'.owner = cfg.owner]_vars

(* A resource that is not in noop mode and whose data the check accepts    *)
(* is eventually in sync for good: once the backend stops changing and the *)
(* errors stop, some later process() installs the backend's rendering and  *)
(* no later one removes it (process, sync; spec 8 idempotence).            *)
Settles == ~cfg.noop /\ (cfg.mode # Inherit => ParseUint(cfg.mode) # ParseError)
           /\ (CheckRuns => backend \in CheckAccepts)
InSync == dest # NoFile /\ dest.content = backend
Convergence == <>[](Settles => InSync)

(* With a reload command, the dependent service eventually runs with the   *)
(* live file's content: "sync will run a reload command if set to have the *)
(* application or service pick up the changes" (resource.go 199-202).      *)
ReloadConvergence == <>[](ReloadRuns /\ dest # NoFile => loaded = dest.content)

=============================================================================
