----------------------- MODULE TemplateResourceProofs -----------------------
(***************************************************************************)
(* Proofs about TemplateResource for every value of its constants.         *)
(*                                                                         *)
(* TypeOK alone is not inductive: writeFile, reload and the mount branch   *)
(* of sync read the fields of the stage file or of the destination, and    *)
(* CreateStageFile renders the store.  IInv adds that these exist, and     *)
(* that the store is filled, exactly at the program points that use them. *)
(***************************************************************************)
EXTENDS TemplateResource, TLAPS

(* The sets a file's fields range over contain what Init and the steps put *)
(* there.                                                                  *)
LEMMA FileFields ==
    /\ Values \subseteq Contents /\ Empty \in Contents /\ Partial \in Contents
    /\ Modes \subseteq FileModes /\ Mode0644 \in FileModes
    /\ 0 \in FileModes
    /\ \A s \in ModeStrings : ParseUint(s) # ParseError
                                => ParseUint(s) \in FileModes
  BY DEF Contents, FileModes, ParsedModes

(* What Chmod makes of a mode: the identity on permission modes, a mode   *)
(* it has already applied stays as it is, and a FileMode stays one.        *)
LEMMA ChmodPerm == \A m \in 0..511 : ChmodMode(m) = m
  BY DEF ChmodMode, HasFlag, ModeSetuid, ModeSetgid, ModeSticky

LEMMA ChmodIdempotent ==
    ASSUME NEW m \in Nat PROVE ChmodMode(ChmodMode(m)) = ChmodMode(m)
  BY DEF ChmodMode, HasFlag, ModeSetuid, ModeSetgid, ModeSticky

LEMMA ChmodNat == ASSUME NEW m \in Nat PROVE ChmodMode(m) \in Nat
  BY DEF ChmodMode, HasFlag, ModeSetuid, ModeSetgid, ModeSticky

LEMMA FileModesNat == FileModes \subseteq Nat
  <1>1. ParsedModes \subseteq Nat
    BY ParseUintRange DEF ParsedModes
  <1>2. {ChmodMode(m) : m \in ParsedModes} \subseteq Nat
    BY <1>1, ChmodNat
  <1>3. Modes \cup {Mode0644, Mode0600, 0} \subseteq Nat
    BY ConstantsAssumption DEF Mode0644, Mode0600
  <1>4. QED
    BY <1>1, <1>2, <1>3 DEF FileModes

LEMMA ChmodClosed == ASSUME NEW m \in FileModes PROVE ChmodMode(m) \in FileModes
  <1>1. CASE m \in Modes \cup {Mode0644, Mode0600, 0}
    <2>1. m \in 0..511
      BY <1>1, ConstantsAssumption DEF Mode0644, Mode0600
    <2>2. QED
      BY <2>1, ChmodPerm DEF FileModes
  <1>2. CASE m \in ParsedModes
    BY <1>2 DEF FileModes
  <1>3. CASE \E p \in ParsedModes : m = ChmodMode(p)
    <2>1. PICK p \in ParsedModes : m = ChmodMode(p)
      BY <1>3
    <2>2. p \in Nat
      BY ParseUintRange DEF ParsedModes
    <2>3. QED
      BY <2>1, <2>2, ChmodIdempotent DEF FileModes
  <1>4. QED
    BY <1>1, <1>2, <1>3 DEF FileModes

(* Rewriting a file's content or owner keeps its mode.                     *)
LEMMA ExceptKeepsMode ==
    ASSUME NEW f \in File, NEW c, NEW o
    PROVE  /\ [f EXCEPT !.content = c, !.owner = o].mode = f.mode
           /\ [f EXCEPT !.content = c].mode = f.mode
           /\ [f EXCEPT !.owner = o].mode = f.mode
  BY DEF File

(* Chown leaves an owner of Owners.                                        *)
LEMMA ChownType ==
    ASSUME cfg \in Configs, NEW o \in Owners
    PROVE  Chown(o) \in Owners
  BY ConstantsAssumption DEF Chown, ConfigRecords

(* The initial states satisfy the inductive invariant.                     *)
THEOREM InitIInv == Init => IInv
  <1> SUFFICES ASSUME Init PROVE IInv
    OBVIOUS
  <1>1. dest \in File \cup {NoFile}
    BY FileFields DEF Init, File
  <1>2. cfg.mount => dest \in File
    BY FileFields DEF Init, File
  <1>3. loaded \in Contents \cup {NoValue}
    BY <1>1, FileFields DEF Init, File
  <1>4. /\ failures \in 0..MaxFailures /\ updates \in 0..MaxUpdates
        /\ crashes \in 0..MaxCrashes
    BY ConstantsAssumption DEF Init
  <1>5. QED
    BY <1>1, <1>2, <1>3, <1>4, FileFields, ConstantsAssumption
    DEF Init, IInv, TypeOK, PCs

(* Every step of Next, and every stuttering step, preserves IInv.          *)
THEOREM NextIInv == IInv /\ [Next]_vars => IInv'
  <1> SUFFICES ASSUME IInv, [Next]_vars PROVE IInv'
    OBVIOUS
  <1> USE ConstantsAssumption
  <1>0. /\ cfg \in Configs /\ cfg \in ConfigRecords
        /\ cfg.owner \in Owners /\ cfg.mode \in ModeStrings \cup {Inherit}
    BY DEF IInv, TypeOK, ConfigRecords
  <1>1. CASE setFileMode
    <2>1. fileMode' \in FileModes
      BY <1>0, <1>1, FileFields DEF setFileMode, IInv, TypeOK, File, Fail
    <2>2. QED
      BY <1>1, <2>1 DEF setFileMode, IInv, TypeOK, PCs, Fail
  <1>2. CASE setVars
    BY <1>2 DEF setVars, IInv, TypeOK, PCs, Fail
  <1>3. CASE CreateStageFile
    <2>0. ChmodMode(fileMode) \in FileModes
      BY ChmodClosed DEF IInv, TypeOK
    <2>1. [content |-> store, mode |-> ChmodMode(fileMode), owner |-> Chown(ProcOwner)]
            \in File
      BY <1>0, <1>3, <2>0, ChownType, FileFields
      DEF CreateStageFile, IInv, TypeOK, File
    <2>2. QED
      BY <1>3, <2>1 DEF CreateStageFile, IInv, TypeOK, PCs, Fail
  <1>4. CASE sync
    <2>1. dest \in File => [dest EXCEPT !.content = Empty] \in File
      BY FileFields DEF File
    <2>2. dest \in File => [dest EXCEPT !.owner = Chown(dest.owner)] \in File
      BY <1>0, ChownType DEF File
    <2>3. staged' \in File \cup {NoFile}
      BY <1>4 DEF sync, RemoveStaged, IInv, TypeOK
    <2>4. QED
      BY <1>4, <2>1, <2>2, <2>3
      DEF sync, RemoveStaged, AfterWrite, IInv, TypeOK, PCs, Fail
  <1>5. CASE writeFile
    <2>1. dest \in File /\ staged \in File
      BY <1>5 DEF writeFile, IInv
    <2>2. /\ staged.content \in Contents /\ Partial \in Contents
          /\ Chown(dest.owner) \in Owners
      BY <1>0, <2>1, ChownType, FileFields DEF File
    <2>3. \A c \in Contents :
            [dest EXCEPT !.content = c, !.owner = Chown(dest.owner)] \in File
      BY <2>1, <2>2 DEF File
    <2>4. /\ [dest EXCEPT !.content = staged.content,
                          !.owner = Chown(dest.owner)] \in File
          /\ [dest EXCEPT !.content = Partial,
                          !.owner = Chown(dest.owner)] \in File
      BY <2>2, <2>3
    <2>5. staged' \in File \cup {NoFile}
      BY <1>5, <2>1 DEF writeFile, RemoveStaged
    <2>6. QED
      BY <1>5, <2>1, <2>4, <2>5
      DEF writeFile, RemoveStaged, AfterWrite, IInv, TypeOK, PCs, Fail
  <1>6. CASE reload
    <2>1. dest \in File
      BY <1>6 DEF reload, IInv
    <2>2. dest.content \in Contents
      BY <2>1 DEF File
    <2>3. QED
      BY <1>6, <2>2 DEF reload, RemoveStaged, IInv, TypeOK, PCs, Fail
  <1>7. CASE BackendUpdate
    BY <1>7 DEF BackendUpdate, IInv, TypeOK
  <1>8. CASE ServiceRead
    <2>1. dest \in File
      BY <1>8 DEF ServiceRead, IInv, TypeOK
    <2>2. QED
      BY <1>8, <2>1 DEF ServiceRead, IInv, TypeOK, File
  <1>9. CASE Crash
    BY <1>9, FileFields DEF Crash, IInv, TypeOK, PCs
  <1>10. CASE UNCHANGED vars
    BY <1>10 DEF vars, IInv, TypeOK
  <1>11. QED
    BY <1>1, <1>2, <1>3, <1>4, <1>5, <1>6, <1>7, <1>8, <1>9, <1>10
    DEF Next, Process

(* Type correctness: every reachable state of the resource and its files   *)
(* is well typed, whatever the constants.                                  *)
THEOREM TypeCorrect == Spec => []TypeOK
  <1>1. IInv => TypeOK
    BY DEF IInv
  <1>2. QED
    BY InitIInv, NextIInv, <1>1, PTL DEF Spec
-----------------------------------------------------------------------------
(* The commit gate.  On a destination that is not a mount point, sync      *)
(* replaces the live file only by renaming a complete stage file onto it, *)
(* after the noop test and the check; CommitInv records that the stage    *)
(* file holds a rendering when sync runs and that writeFile, the one step  *)
(* that truncates, is reached only on a mount point.                       *)

NoMount == \A c \in Configs : ~c.mount

THEOREM InitCommitInv == Init => CommitInv
  BY InitIInv DEF Init, CommitInv

THEOREM NextCommitInv == CommitInv /\ [Next]_vars => CommitInv'
  <1> SUFFICES ASSUME CommitInv, [Next]_vars PROVE CommitInv'
    OBVIOUS
  <1>1. IInv'
    BY NextIInv DEF CommitInv
  <1>2. CASE CreateStageFile
    BY <1>1, <1>2 DEF CreateStageFile, CommitInv, IInv, Fail
  <1>3. CASE sync
    BY <1>1, <1>3 DEF sync, AfterWrite, RemoveStaged, CommitInv, Fail
  <1>4. CASE writeFile
    BY <1>1, <1>4 DEF writeFile, AfterWrite, CommitInv, Fail
  <1>5. CASE setFileMode \/ setVars \/ reload \/ BackendUpdate
                \/ ServiceRead \/ Crash \/ UNCHANGED vars
    BY <1>1, <1>5 DEF setFileMode, setVars, reload, BackendUpdate, ServiceRead,
                Crash, vars, CommitInv, Fail
  <1>6. QED
    BY <1>1, <1>2, <1>3, <1>4, <1>5 DEF CommitInv, Next, Process

(* CommitInv holds in every reachable state, whatever the constants.      *)
THEOREM CommitInvariant == Spec => []CommitInv
  BY InitCommitInv, NextCommitInv, PTL DEF Spec

(* Every step from a CommitInv state satisfies DestWriteStep when no       *)
(* destination is a mount point.                                           *)
THEOREM CommitStep ==
    ASSUME NoMount, CommitInv, [Next]_vars
    PROVE  [DestWriteStep]_vars
  <1> USE ConstantsAssumption
  <1>0. cfg \in Configs /\ ~cfg.mount
    BY DEF NoMount, CommitInv, IInv, TypeOK
  <1>1. CASE sync
    <2>1. staged \in File /\ staged.content \in Values
      BY <1>1 DEF sync, CommitInv, IInv
    <2>2. ContentOf(staged) = staged.content
      BY <2>1 DEF ContentOf
    <2>3. CASE dest' = dest
      BY <2>3 DEF DestWriteStep
    <2>4. CASE dest' # dest
      <3>1. /\ dest' = staged /\ ~cfg.noop
            /\ CheckRuns => staged.content \in CheckAccepts
        BY <1>0, <1>1, <2>4 DEF sync
      <3>2. QED
        BY <2>1, <2>2, <3>1 DEF DestWriteStep
    <2>5. QED
      BY <2>3, <2>4
  <1>2. CASE writeFile
    BY <1>0, <1>2 DEF writeFile, CommitInv
  <1>3. CASE setFileMode \/ setVars \/ CreateStageFile \/ reload
                \/ BackendUpdate \/ ServiceRead \/ Crash \/ UNCHANGED vars
    BY <1>3 DEF setFileMode, setVars, CreateStageFile, reload, BackendUpdate,
                ServiceRead, Crash, vars, DestWriteStep
  <1>4. QED
    BY <1>1, <1>2, <1>3 DEF Next, Process

(* Commit gate: when no destination is a mount point, every change of the  *)
(* live file's content installs a complete rendering, one the check        *)
(* command accepted if it runs, and none happens in noop mode.             *)
THEOREM CommitGate == NoMount => (Spec => DestWriteAllowed)
  <1> SUFFICES ASSUME NoMount PROVE Spec => DestWriteAllowed
    OBVIOUS
  <1>1. Spec => []CommitInv
    BY InitCommitInv, NextCommitInv, PTL DEF Spec
  <1>2. CommitInv /\ [Next]_vars => [DestWriteStep]_vars
    BY CommitStep
  <1>3. QED
    BY <1>1, <1>2, PTL DEF Spec, DestWriteAllowed
-----------------------------------------------------------------------------
(* Mode inheritance.  setFileMode resolves the mode from the destination  *)
(* as it is at the start of the cycle, CreateStageFile gives the stage    *)
(* file that mode, and nothing touches the destination in between: only   *)
(* sync and writeFile write it, and each ends the cycle or leads to        *)
(* reload.  So when sync renames the stage file onto the destination, the  *)
(* file it installs carries the mode resolved from the file it replaces.   *)

ModeInv ==
    /\ CommitInv
    /\ pc \in {"setVars", "createStageFile", "sync"} => fileMode = ResolvedMode(dest)
    /\ pc = "sync" => staged.mode = ChmodMode(fileMode)
    /\ dest # NoFile => ChmodMode(dest.mode) = dest.mode
    /\ staged # NoFile => ChmodMode(staged.mode) = staged.mode

THEOREM InitModeInv == Init => ModeInv
  <1> SUFFICES ASSUME Init PROVE ModeInv
    OBVIOUS
  <1>1. dest # NoFile => dest.mode \in 0..511
    BY ConstantsAssumption DEF Init
  <1>2. QED
    BY <1>1, InitCommitInv, ChmodPerm DEF Init, ModeInv

THEOREM NextModeInv == ModeInv /\ [Next]_vars => ModeInv'
  <1> SUFFICES ASSUME ModeInv, [Next]_vars PROVE ModeInv'
    OBVIOUS
  <1> DEFINE Fixed(f) == f # NoFile => ChmodMode(f.mode) = f.mode
  <1>0. /\ dest \in File \cup {NoFile} /\ staged \in File \cup {NoFile}
        /\ fileMode \in Nat /\ Fixed(dest) /\ Fixed(staged)
    BY FileModesNat DEF ModeInv, CommitInv, IInv, TypeOK
  <1>1. CommitInv'
    BY NextCommitInv DEF ModeInv
  <1>2. CASE setFileMode
    BY <1>1, <1>2 DEF setFileMode, ModeInv, ResolvedMode, Fail
  <1>3. CASE setVars
    BY <1>1, <1>3 DEF setVars, ModeInv, ResolvedMode, Fail
  <1>4. CASE CreateStageFile
    <2>1. ChmodMode(ChmodMode(fileMode)) = ChmodMode(fileMode)
      BY <1>0, ChmodIdempotent
    <2>2. QED
      BY <1>1, <1>4, <2>1 DEF CreateStageFile, ModeInv, ResolvedMode, Fail
  <1>5. CASE sync \/ writeFile \/ reload
    <2>1. pc' \in {"idle", "writeFile", "reload"}
      BY <1>5 DEF sync, writeFile, reload, AfterWrite
    <2>2. staged' \in {staged, NoFile}
      BY <1>5 DEF sync, writeFile, reload, RemoveStaged
    <2>3. Fixed(staged')
      BY <1>0, <2>2
    <2>4. Fixed(dest')
      <3>1. CASE reload
        BY <1>0, <3>1 DEF reload
      <3>2. CASE writeFile
        <4>1. dest \in File
          BY <3>2 DEF writeFile, ModeInv, CommitInv, IInv
        <4>2. \E c, o : dest' = [dest EXCEPT !.content = c, !.owner = o]
          BY <3>2 DEF writeFile
        <4>3. dest'.mode = dest.mode
          BY <4>1, <4>2, ExceptKeepsMode
        <4>4. QED
          BY <1>0, <4>1, <4>3, ConstantsAssumption DEF Fixed
      <3>3. CASE sync
        <4>1. staged \in File
          BY <3>3 DEF sync, ModeInv, CommitInv, IInv
        <4>2. cfg.mount => dest \in File
          BY DEF ModeInv, CommitInv, IInv
        <4>3. \/ dest' = dest \/ dest' = staged
              \/ dest \in File /\ \E c : dest' = [dest EXCEPT !.content = c]
              \/ dest \in File /\ \E o : dest' = [dest EXCEPT !.owner = o]
          BY <3>3, <4>2 DEF sync
        <4>4. CASE dest' = dest \/ dest' = staged
          BY <1>0, <4>1, <4>4
        <4>5. CASE dest \in File /\ \E c : dest' = [dest EXCEPT !.content = c]
          BY <1>0, <4>5, ExceptKeepsMode, ConstantsAssumption DEF Fixed
        <4>6. CASE dest \in File /\ \E o : dest' = [dest EXCEPT !.owner = o]
          BY <1>0, <4>6, ExceptKeepsMode, ConstantsAssumption DEF Fixed
        <4>7. QED
          BY <4>3, <4>4, <4>5, <4>6
      <3>4. QED
        BY <1>5, <3>1, <3>2, <3>3
    <2>5. QED
      BY <1>1, <2>1, <2>3, <2>4 DEF ModeInv
  <1>6. CASE BackendUpdate \/ ServiceRead \/ UNCHANGED vars
    BY <1>1, <1>6 DEF BackendUpdate, ServiceRead, vars, ModeInv, ResolvedMode
  <1>7. CASE Crash
    BY <1>1, <1>7 DEF Crash, ModeInv
  <1>8. QED
    BY <1>2, <1>3, <1>4, <1>5, <1>6, <1>7 DEF Next, Process

(* The resources on a mount point inherit the destination's mode *)
MountInherits == \A c \in Configs : c.mount => c.mode = Inherit

(* Mode inheritance: every step that installs new rendered content in the  *)
(* live file leaves it with the mode setFileMode resolved from the         *)
(* destination it replaces (the configured mode, else the destination's   *)
(* own, else 0644), unless the destination is a mount point and a mode is  *)
(* configured: the rename carries the staged mode, and the WriteFile       *)
(* fallback keeps the destination's, which is the resolved one exactly     *)
(* when the mode is inherited.  The fallback_keeps_mode run shows a        *)
(* configured mode on a mount point breaks it.                             *)
THEOREM ModeInherited == MountInherits => (Spec => ModeResolved)
  <1> SUFFICES ASSUME MountInherits PROVE Spec => ModeResolved
    OBVIOUS
  <1> DEFINE Step == ContentOf(dest') # ContentOf(dest) /\ ContentOf(dest') \in Values
                       => dest'.mode = ChmodMode(ResolvedMode(dest))
  <1>1. ModeInv /\ [Next]_vars => [Step]_vars
    <2> SUFFICES ASSUME ModeInv, [Next]_vars,
                        ContentOf(dest') # ContentOf(dest), ContentOf(dest') \in Values
                 PROVE  dest'.mode = ChmodMode(ResolvedMode(dest))
      OBVIOUS
    <2>0. cfg \in Configs /\ (cfg.mount => cfg.mode = Inherit /\ dest \in File)
      BY DEF MountInherits, ModeInv, CommitInv, IInv, TypeOK
    <2>1. dest' # dest
      OBVIOUS
    <2>2. Empty \notin Values /\ Partial \notin Values
      BY ConstantsAssumption
    <2>7. dest' \in File /\ ContentOf(dest') = dest'.content
      <3>1. dest' \in File \cup {NoFile}
        BY NextIInv DEF ModeInv, CommitInv, IInv, TypeOK
      <3>2. dest' # NoFile
        BY ConstantsAssumption DEF ContentOf, Contents
      <3>3. QED
        BY <3>1, <3>2 DEF ContentOf
    <2>3. CASE sync
      <3>1. ~cfg.mount
        <4>1. SUFFICES ASSUME cfg.mount PROVE FALSE
          OBVIOUS
        <4>2. dest'.content \in {dest.content, Empty}
          BY <2>0, <2>3, <4>1 DEF sync, File
        <4>3. ContentOf(dest) = dest.content
          BY <2>0, <4>1, ConstantsAssumption DEF ContentOf
        <4>4. QED
          BY <2>2, <2>7, <4>2, <4>3
      <3>2. dest' = staged /\ pc = "sync"
        BY <2>1, <2>3, <3>1 DEF sync
      <3>3. QED
        BY <3>2 DEF ModeInv
    <2>4. CASE writeFile
      <3>1. cfg.mount /\ dest \in File
        BY <2>0, <2>4 DEF writeFile, ModeInv, CommitInv
      <3>2. dest'.mode = dest.mode
        BY <3>1, <2>4 DEF writeFile, File
      <3>3. ChmodMode(dest.mode) = dest.mode
        BY <3>1, ConstantsAssumption DEF ModeInv
      <3>4. QED
        BY <2>0, <3>1, <3>2, <3>3, ConstantsAssumption DEF ResolvedMode
    <2>5. CASE setFileMode \/ setVars \/ CreateStageFile \/ reload
                 \/ BackendUpdate \/ ServiceRead \/ Crash \/ UNCHANGED vars
      BY <2>1, <2>5 DEF setFileMode, setVars, CreateStageFile, reload,
                       BackendUpdate, ServiceRead, Crash, vars
    <2>6. QED
      BY <2>3, <2>4, <2>5 DEF Next, Process
  <1>2. QED
    BY <1>1, InitModeInv, NextModeInv, PTL DEF Spec, ModeResolved

-----------------------------------------------------------------------------
(* Refinement of LiveFile.  Under the mapping of the destination to its    *)
(* content and of the resource to the renderings it allows, the initial    *)
(* states are LiveFile's, and every step is an Install, a Load or a        *)
(* stutter.  The Install is sync's rename: IsConfigChanged makes the stage *)
(* file's content differ from the destination's, and CommitInv makes it   *)
(* a rendering.                                                            *)

(* The renderings a resource allows are backend values.                    *)
LEMMA AllowedType ==
    ASSUME cfg \in Configs PROVE AllowedRenderings \subseteq Values
  BY ConstantsAssumption DEF AllowedRenderings

THEOREM InitRefines == Init => LF!Init
  <1> SUFFICES ASSUME Init PROVE LF!Init
    OBVIOUS
  <1>1. AllowedRenderings \subseteq Values
    BY AllowedType DEF Init
  <1>2. ContentOf(dest) \in Values \cup {NoValue} /\ loaded = ContentOf(dest)
    BY DEF Init, ContentOf
  <1>3. QED
    BY <1>1, <1>2 DEF LF!Init

THEOREM StepRefines ==
    ASSUME NoMount, CommitInv, [Next]_vars
    PROVE  [LF!Next]_LF!lvars
  <1> USE ConstantsAssumption
  <1>0. cfg \in Configs /\ ~cfg.mount /\ dest \in File \cup {NoFile}
    BY DEF NoMount, CommitInv, IInv, TypeOK
  <1>1. CASE sync
    <2>1. staged \in File /\ staged.content \in Values
      BY <1>1 DEF sync, CommitInv, IInv
    <2>2. CASE dest' = dest
      BY <1>1, <2>2 DEF sync, LF!lvars, AllowedRenderings, CheckRuns
    <2>3. CASE dest' # dest
      <3>1. /\ dest' = staged /\ ~cfg.noop /\ IsConfigChanged
            /\ CheckRuns => staged.content \in CheckAccepts
            /\ loaded' = loaded /\ cfg' = cfg
        BY <1>0, <1>1, <2>3 DEF sync
      <3>2. staged.content \in AllowedRenderings
        BY <2>1, <3>1 DEF AllowedRenderings
      <3>3. staged.content # ContentOf(dest)
        BY <1>0, <2>1, <3>1 DEF IsConfigChanged, ContentOf, Contents
      <3>4. ContentOf(dest') = staged.content
        BY <2>1, <3>1 DEF ContentOf
      <3>5. AllowedRenderings' = AllowedRenderings
        BY <3>1 DEF AllowedRenderings, CheckRuns
      <3>6. LF!Install
        BY <3>1, <3>2, <3>3, <3>4, <3>5 DEF LF!Install
      <3>7. QED
        BY <3>6 DEF LF!Next
    <2>4. QED
      BY <2>2, <2>3
  <1>2. CASE writeFile
    BY <1>0, <1>2 DEF writeFile, CommitInv
  <1>3. CASE reload \/ ServiceRead
    <2>1. dest \in File /\ dest' = dest /\ cfg' = cfg
          /\ loaded' \in {loaded, dest.content}
      <3>1. CASE reload
        BY <3>1 DEF reload, CommitInv, IInv
      <3>2. CASE ServiceRead
        BY <1>0, <3>2 DEF ServiceRead
      <3>3. QED
        BY <1>3, <3>1, <3>2
    <2>2. ContentOf(dest) = dest.content
      BY <2>1 DEF ContentOf
    <2>3. AllowedRenderings' = AllowedRenderings
      BY <2>1 DEF AllowedRenderings, CheckRuns
    <2>4. CASE loaded' = loaded
      BY <2>1, <2>3, <2>4 DEF LF!lvars
    <2>5. CASE loaded' = dest.content
      BY <2>1, <2>2, <2>3, <2>5 DEF LF!Next, LF!Load
    <2>6. QED
      BY <2>1, <2>4, <2>5
  <1>4. CASE setFileMode \/ setVars \/ CreateStageFile \/ BackendUpdate
                \/ Crash \/ UNCHANGED vars
    <2>1. dest' = dest /\ loaded' = loaded /\ cfg' = cfg
      BY <1>4 DEF setFileMode, setVars, CreateStageFile, BackendUpdate,
                  Crash, vars
    <2>2. QED
      BY <2>1 DEF LF!lvars, AllowedRenderings, CheckRuns
  <1>5. QED
    BY <1>1, <1>2, <1>3, <1>4 DEF Next, Process

(* Refinement: when no destination is a mount point, the pipeline, with    *)
(* its injected errors, crashes and backend changes, implements LiveFile:  *)
(* the live file only moves, whole, to a different allowed rendering, and  *)
(* the service only loads what the file holds.                             *)
THEOREM RefinesLiveFile == NoMount => (Spec => Refinement)
  <1> SUFFICES ASSUME NoMount PROVE Spec => LF!Spec
    BY DEF Refinement
  <1>1. Spec => []CommitInv
    BY CommitInvariant
  <1>2. CommitInv /\ [Next]_vars => [LF!Next]_LF!lvars
    BY StepRefines
  <1>3. QED
    BY <1>1, <1>2, InitRefines, PTL DEF Spec, LF!Spec
=============================================================================
