---------------------------- MODULE ConfigProofs ----------------------------
(* config set keeps its promises for any writers, readers, keys and values. *)
EXTENDS Config, TLAPS

Reading  == {"idle", "locking", "loading", "validating", "writing", "renaming"}
Computed == {"validating", "writing", "renaming"}
Holding  == Computed \cup {"loading", "syncing"}

\* Whoever is between loading and syncing has the lock.
LockHeld == \A w \in Writers : pc[w] \in Holding => lock = w

\* What a writer has computed is still the change of what is in place.
Fresh ==
    \A w \in Writers : pc[w] \in Computed => loaded[w] = Changed(inodes[path], request[w])

\* A temporary file is renamed when it holds the whole, validated configuration.
Ready ==
    \A w \in Writers : /\ pc[w] \in {"writing", "renaming"} => loaded[w] \in Config
                       /\ pc[w] = "renaming" => inodes[w] = loaded[w]

\* Only renamed files are ever in place, and those are whole and not written to.
InPlace ==
    /\ path = Original \/ path \in renamed
    /\ inodes[Original] \in Config
    /\ \A w \in Writers : /\ pc[w] \in Reading => w \notin renamed
                          /\ pc[w] = "syncing" => w \in renamed
                          /\ w \in renamed => inodes[w] \in Config

\* A command has said something if it is done, and nothing untrue.
Honest ==
    \A w \in Writers : /\ said[w] = "" <=> pc[w] # "done"
                       /\ said[w] = "ok" => w \in renamed

\* A reader has a file open that is, or was, in place.
Opened == \A r \in Readers : handle[r] = Original \/ handle[r] \in renamed

IInv == TypeOK /\ LockHeld /\ Fresh /\ Ready /\ InPlace /\ Honest /\ Opened

-----------------------------------------------------------------------------

LEMMA DefaultIsConfig == Default \in Config
BY DEF Default, Config

LEMMA InitIInv == Init => IInv
<1> SUFFICES ASSUME Init PROVE IInv
  OBVIOUS
<1>1. TypeOK
  BY ConfigConstants DEF Init, TypeOK, Inodes, Default, Config
<1>2. LockHeld /\ Fresh /\ Ready /\ Opened
  BY ConfigConstants DEF Init, LockHeld, Fresh, Ready, Opened, Holding, Computed
<1>3. InPlace /\ Honest
  BY ConfigConstants DEF Init, InPlace, Honest, Reading, Inodes
<1> QED BY <1>1, <1>2, <1>3 DEF IInv

(* A command that returns, with the lock given back and what it had in     *)
(* memory gone, disturbs nobody, whether it removes its temporary file.    *)
LEMMA Returning ==
    ASSUME IInv, NEW w \in Writers, NEW outcome \in {"ok", "failed", "killed"},
           pc[w] # "done", Return(w, outcome),
           outcome = "ok" => w \in renamed,
           \/ inodes' = inodes
           \/ w \notin renamed /\ inodes' = [inodes EXCEPT ![w] = NoText],
           UNCHANGED <<path, request, handle, renamed>>
    PROVE  IInv' /\ inodes'[path'] = inodes[path]
<1> USE DEF IInv, TypeOK, Return, Goto
<1>0. w # Original /\ w \in Inodes /\ path \in Inodes /\ (path # w \/ w \in renamed)
  BY ConfigConstants DEF InPlace, Inodes
<1>1. inodes'[path'] = inodes[path]
  BY <1>0
<1>2. TypeOK'
  BY ConfigConstants DEF Default
<1>3. LockHeld'
  BY DEF LockHeld, Holding, Computed
<1>4. Fresh'
  BY <1>1 DEF Fresh, Computed
<1>5. Ready'
  BY ConfigConstants DEF Ready, Inodes
<1>6. InPlace'
  BY ConfigConstants DEF InPlace, Reading, Inodes
<1>7. Honest' /\ Opened'
  BY DEF Honest, Opened
<1> QED BY <1>1, <1>2, <1>3, <1>4, <1>5, <1>6, <1>7

(* Steps that only move on or look.                                        *)
LEMMA MovingOn ==
    ASSUME IInv, NEW w \in Writers,
           \/ pc[w] = "idle" /\ Goto(w, "locking") /\ UNCHANGED <<lock, loaded>>
           \/ pc[w] = "locking" /\ lock = NoWriter /\ lock' = w /\ Goto(w, "loading") /\ UNCHANGED loaded
           \/ /\ pc[w] = "validating" /\ loaded[w] \in Config /\ Goto(w, "writing")
              /\ UNCHANGED <<lock, loaded>>,
           UNCHANGED <<path, inodes, said, request, handle, renamed>>
    PROVE  IInv'
<1> USE DEF IInv, TypeOK, Goto
<1>1. TypeOK'
  BY ConfigConstants
<1>2. LockHeld'
  BY ConfigConstants DEF LockHeld, Holding, Computed
<1>3. Fresh' /\ Ready'
  BY DEF Fresh, Ready, Computed
<1>4. InPlace'
  BY DEF InPlace, Reading
<1>5. Honest' /\ Opened'
  BY DEF Honest, Opened
<1> QED BY <1>1, <1>2, <1>3, <1>4, <1>5

LEMMA LoadStep ==
    ASSUME IInv, NEW w \in Writers, Load(w), pc'[w] = "validating"
    PROVE  IInv' /\ UNCHANGED <<path, inodes, request, handle, renamed, said>>
<1> USE DEF IInv, TypeOK, Goto
<1>0. /\ pc[w] = "loading" /\ pc' = [pc EXCEPT ![w] = "validating"]
      /\ loaded' = [loaded EXCEPT ![w] = Changed(inodes[path], request[w])]
      /\ inodes[path] \in Config
      /\ UNCHANGED <<path, inodes, request, handle, renamed, said, lock>>
  BY DEF Load, Return
<1>1. Changed(inodes[path], request[w]) \in [Keys -> Values \cup {Invalid, Unset}]
  BY <1>0 DEF Changed, Config
<1> HIDE DEF Goto
<1>2. TypeOK'
  BY <1>0, <1>1
<1>3. LockHeld' /\ Fresh'
  BY <1>0 DEF LockHeld, Fresh, Holding, Computed
<1>4. Ready' /\ InPlace' /\ Honest' /\ Opened'
  BY <1>0 DEF Ready, InPlace, Honest, Opened, Reading
<1> QED BY <1>0, <1>2, <1>3, <1>4

LEMMA WriteStep ==
    ASSUME IInv, NEW w \in Writers, NEW text,
           pc[w] = "writing",
           \/ text = Torn /\ UNCHANGED pc
           \/ text = loaded[w] /\ Goto(w, "renaming"),
           inodes' = [inodes EXCEPT ![w] = text],
           UNCHANGED <<path, lock, request, loaded, handle, renamed, said>>
    PROVE  IInv' /\ inodes'[path'] = inodes[path]
<1> USE DEF IInv, TypeOK, Goto
<1>0. w # Original /\ w \in Inodes /\ path # w /\ w \notin renamed /\ loaded[w] \in Config
  BY ConfigConstants DEF InPlace, Inodes, Reading, Ready
<1>1. inodes'[path'] = inodes[path]
  BY <1>0
<1>2. TypeOK'
  BY <1>0
<1>3. LockHeld'
  BY DEF LockHeld, Holding, Computed
<1>4. Fresh'
  BY <1>1 DEF Fresh, Computed
<1>5. Ready'
  BY <1>0 DEF Ready, Inodes
<1>6. InPlace'
  BY <1>0 DEF InPlace, Reading, Inodes
<1>7. Honest' /\ Opened'
  BY <1>0 DEF Honest, Opened
<1> QED BY <1>1, <1>2, <1>3, <1>4, <1>5, <1>6, <1>7

(* The rename is the change that was asked for.                            *)
LEMMA RenameStep ==
    ASSUME IInv, NEW w \in Writers, Rename(w), path' = w, renamed' = renamed \cup {w},
           UNCHANGED <<inodes, lock, said, loaded, request, handle>>, Goto(w, "syncing")
    PROVE  /\ IInv'
           /\ w \notin renamed /\ said[w] = ""
           /\ inodes'[path'] = Changed(inodes[path], request[w])
<1> USE DEF IInv, TypeOK, Goto
<1>0. /\ pc[w] = "renaming" /\ w \notin renamed /\ w \in Inodes /\ said[w] = ""
      /\ inodes[w] = Changed(inodes[path], request[w]) /\ inodes[w] \in Config
      /\ lock = w
  BY DEF Rename, InPlace, Reading, Inodes, Honest, Fresh, Computed, Ready, LockHeld, Holding
<1>1. TypeOK'
  BY <1>0
<1>2. LockHeld'
  BY <1>0 DEF LockHeld, Holding, Computed
<1>3. Fresh'
  BY <1>0, <1>2 DEF Fresh, LockHeld, Holding, Computed
<1>4. Ready' /\ Honest' /\ Opened'
  BY <1>0 DEF Ready, Honest, Opened
<1>5. InPlace'
  BY <1>0 DEF InPlace, Reading
<1> QED BY <1>0, <1>1, <1>2, <1>3, <1>4, <1>5

(* A function with one value changed.                                      *)
LEMMA Updated ==
    ASSUME NEW D, NEW S, NEW f \in [D -> S], NEW x \in D, NEW y \in S
    PROVE  [f EXCEPT ![x] = y] \in [D -> S]
OBVIOUS

LEMMA ReaderStep ==
    ASSUME IInv, NEW r \in Readers, Open(r) \/ Read(r)
    PROVE  IInv'
<1> USE DEF IInv, TypeOK, Goto, Open, Read
<1>1. r \notin Writers
  BY ConfigConstants
<1>2. TypeOK'
  <2> DEFINE All   == Writers \cup Readers
             Spots == {"idle", "locking", "loading", "validating", "writing",
                       "renaming", "syncing", "opened", "done"}
  <2>1. path \in Inodes /\ Original \in Inodes /\ r \in All
    BY DEF Inodes
  <2>2. PICK spot \in Spots, i \in Inodes : /\ pc' = [pc EXCEPT ![r] = spot]
                                            /\ handle' = [handle EXCEPT ![r] = i]
    BY <2>1
  <2>3. pc \in [All -> Spots] /\ handle \in [Readers -> Inodes]
    OBVIOUS
  <2>4. pc' \in [All -> Spots]
    <3> HIDE DEF All, Spots
    <3> QED BY <2>1, <2>2, <2>3, Updated
  <2>5. handle' \in [Readers -> Inodes]
    BY <2>2, <2>3, Updated
  <2> QED BY <2>4, <2>5
<1>3. LockHeld' /\ Fresh' /\ Ready' /\ Honest'
  BY <1>1 DEF LockHeld, Fresh, Ready, Honest, Holding, Computed
<1>4. InPlace'
  <2>1. \A w \in Writers : pc'[w] = pc[w]
    BY <1>1
  <2>2. UNCHANGED <<path, inodes, renamed>>
    OBVIOUS
  <2> QED BY <2>1, <2>2 DEF InPlace
<1>5. Opened'
  <2>1. \A q \in Readers : handle'[q] \in {handle[q], path, Original}
    OBVIOUS
  <2>2. UNCHANGED renamed
    OBVIOUS
  <2> QED BY <2>1, <2>2 DEF Opened, InPlace
<1> QED BY <1>2, <1>3, <1>4, <1>5

-----------------------------------------------------------------------------

(* Each step keeps the invariant and is a step of Settings, or none.       *)
LEMMA StepImplements ==
    IInv /\ [Next]_vars => IInv' /\ [Promise!SettingsNext]_Promise!settingsVars
<1> SUFFICES ASSUME IInv, [Next]_vars
             PROVE  IInv' /\ [Promise!SettingsNext]_Promise!settingsVars
  OBVIOUS
<1> DEFINE Stutters == UNCHANGED <<inodes[path], request, renamed, said>>
           Reports(w, o) == /\ said[w] = ""
                            /\ o \in {"failed", "killed"} \/ (o = "ok" /\ w \in renamed)
                            /\ said' = [said EXCEPT ![w] = o]
                            /\ UNCHANGED <<inodes[path], request, renamed>>
<1>a. Stutters => UNCHANGED Promise!settingsVars
  BY DEF Promise!settingsVars
<1>b. ASSUME NEW w \in Writers, NEW o, Reports(w, o) PROVE Promise!SettingsNext
  BY <1>b DEF Promise!SettingsNext, Promise!Report
<1>c. ASSUME NEW w \in Writers, NEW o \in {"failed", "killed", "ok"}, Return(w, o), pc[w] # "done",
             o = "ok" => w \in renamed,
             \/ inodes' = inodes
             \/ w \notin renamed /\ inodes' = [inodes EXCEPT ![w] = NoText],
             UNCHANGED <<path, request, handle, renamed>>
      PROVE  IInv' /\ Promise!SettingsNext
  <2>1. IInv' /\ inodes'[path'] = inodes[path]
    BY <1>c, Returning
  <2>2. said[w] = ""
    BY <1>c DEF IInv, Honest
  <2>3. Reports(w, o)
    BY <1>c, <2>1, <2>2 DEF Return
  <2> QED BY <2>1, <2>3, <1>b
<1> HIDE DEF Stutters, Reports
<1> USE DEF IInv
<1>1. ASSUME NEW w \in Writers, Begin(w) PROVE IInv' /\ [Promise!SettingsNext]_Promise!settingsVars
  <2>1. CASE Return(w, "failed")
    BY <1>1, <2>1, <1>c DEF Begin
  <2>2. CASE Goto(w, "locking") /\ UNCHANGED <<lock, said, loaded>>
    <3>1. IInv'
      BY <1>1, <2>2, MovingOn DEF Begin
    <3> QED BY <1>1, <2>2, <3>1, <1>a DEF Begin, Stutters
  <2> QED BY <1>1, <2>1, <2>2 DEF Begin
<1>2. ASSUME NEW w \in Writers, Lock(w) PROVE IInv' /\ [Promise!SettingsNext]_Promise!settingsVars
  <2>1. CASE Return(w, "failed")
    BY <1>2, <2>1, <1>c DEF Lock
  <2>2. CASE LockFree(w) /\ lock' = w /\ Goto(w, "loading") /\ UNCHANGED <<said, loaded>>
    <3>1. IInv'
      BY <1>2, <2>2, MovingOn DEF Lock, LockFree
    <3> QED BY <1>2, <2>2, <3>1, <1>a DEF Lock, Stutters
  <2> QED BY <1>2, <2>1, <2>2 DEF Lock
<1>3. ASSUME NEW w \in Writers, Load(w) PROVE IInv' /\ [Promise!SettingsNext]_Promise!settingsVars
  <2>1. CASE Return(w, "failed")
    BY <1>3, <2>1, <1>c DEF Load
  <2>2. CASE ~Return(w, "failed")
    <3>1. pc'[w] = "validating"
      BY <1>3, <2>2 DEF Load, Goto, TypeOK
    <3> QED BY <1>3, <3>1, LoadStep, <1>a DEF Stutters
  <2> QED BY <2>1, <2>2
<1>4. ASSUME NEW w \in Writers, Validate(w) PROVE IInv' /\ [Promise!SettingsNext]_Promise!settingsVars
  <2>1. CASE Return(w, "failed")
    BY <1>4, <2>1, <1>c DEF Validate
  <2>2. CASE loaded[w] \in Config /\ Goto(w, "writing") /\ UNCHANGED <<lock, said, loaded>>
    <3>1. IInv'
      BY <1>4, <2>2, MovingOn DEF Validate
    <3> QED BY <1>4, <2>2, <3>1, <1>a DEF Validate, Stutters
  <2> QED BY <1>4, <2>1, <2>2 DEF Validate
<1>5. ASSUME NEW w \in Writers, Write(w) PROVE IInv' /\ [Promise!SettingsNext]_Promise!settingsVars
  <2>1. CASE inodes' = [inodes EXCEPT ![w] = NoText] /\ Return(w, "failed")
    <3>1. w \notin renamed
      BY <1>5 DEF Write, InPlace, Reading
    <3> QED BY <1>5, <2>1, <3>1, <1>c DEF Write
  <2>2. CASE inodes' = [inodes EXCEPT ![w] = Torn] /\ UNCHANGED <<pc, lock, said, loaded>>
    <3>1. IInv' /\ inodes'[path'] = inodes[path]
      BY <1>5, <2>2, WriteStep DEF Write
    <3> QED BY <1>5, <2>2, <3>1, <1>a DEF Write, Stutters
  <2>3. CASE /\ inodes' = [inodes EXCEPT ![w] = loaded[w]]
             /\ Goto(w, "renaming") /\ UNCHANGED <<lock, said, loaded>>
    <3>1. IInv' /\ inodes'[path'] = inodes[path]
      BY <1>5, <2>3, WriteStep DEF Write
    <3> QED BY <1>5, <2>3, <3>1, <1>a DEF Write, Stutters
  <2> QED BY <1>5, <2>1, <2>2, <2>3 DEF Write
<1>6. ASSUME NEW w \in Writers, Rename(w) PROVE IInv' /\ [Promise!SettingsNext]_Promise!settingsVars
  <2>1. CASE Return(w, "failed") /\ inodes' = [inodes EXCEPT ![w] = NoText] /\ UNCHANGED <<path, renamed>>
    <3>1. w \notin renamed
      BY <1>6 DEF Rename, InPlace, Reading
    <3> QED BY <1>6, <2>1, <3>1, <1>c DEF Rename
  <2>2. CASE /\ path' = w /\ renamed' = renamed \cup {w}
             /\ Goto(w, "syncing") /\ UNCHANGED <<inodes, lock, said, loaded>>
    <3>1. /\ IInv' /\ w \notin renamed /\ said[w] = ""
          /\ inodes'[path'] = Changed(inodes[path], request[w])
      BY <1>6, <2>2, RenameStep DEF Rename
    <3>2. Promise!Change(w)
      BY <1>6, <2>2, <3>1 DEF Rename, Promise!Change, Changed
    <3> QED BY <3>1, <3>2 DEF Promise!SettingsNext
  <2> QED BY <1>6, <2>1, <2>2 DEF Rename
<1>7. ASSUME NEW w \in Writers, Sync(w) PROVE IInv' /\ [Promise!SettingsNext]_Promise!settingsVars
  <2>1. PICK o \in {"ok", "failed"} : Return(w, o)
    BY <1>7 DEF Sync
  <2>2. w \in renamed
    BY <1>7 DEF Sync, InPlace
  <2> QED BY <1>7, <2>1, <2>2, <1>c DEF Sync
<1>8. ASSUME NEW w \in Writers, Die(w) PROVE IInv' /\ [Promise!SettingsNext]_Promise!settingsVars
  BY <1>8, <1>c DEF Die
<1>9. ASSUME NEW r \in Readers, Open(r) \/ Read(r)
      PROVE  IInv' /\ [Promise!SettingsNext]_Promise!settingsVars
  <2>1. IInv'
    BY <1>9, ReaderStep
  <2> QED BY <1>9, <2>1, <1>a DEF Open, Read, Stutters
<1>10. CASE UNCHANGED vars
  <2>1. IInv'
    BY <1>10 DEF vars, TypeOK, LockHeld, Fresh, Ready, InPlace, Honest, Opened
  <2> QED BY <1>10, <2>1, <1>a DEF vars, Stutters
<1> QED BY <1>1, <1>2, <1>3, <1>4, <1>5, <1>6, <1>7, <1>8, <1>9, <1>10 DEF Next

(* Every reachable state satisfies the invariant, and with it the types.   *)
THEOREM Invariant == Spec => []IInv
<1>1. Init => IInv
  BY InitIInv
<1>2. IInv /\ [Next]_vars => IInv'
  BY StepImplements
<1> QED BY <1>1, <1>2, PTL DEF Spec

(* The types of the variables of config set and of the readers.            *)
THEOREM TypeCorrect == Spec => []TypeOK
<1>1. IInv => TypeOK
  BY DEF IInv
<1> QED BY <1>1, Invariant, PTL

(* A reader never has a torn file open (atomicWriteConfig renames).        *)
THEOREM ReadersSeeWholeFiles == Spec => []ReadsAreWhole
<1>1. IInv => ReadsAreWhole
  BY DEF IInv, InPlace, Opened, ReadsAreWhole, TypeOK, Inodes
<1> QED BY <1>1, Invariant, PTL

(* config set keeps the promises of Settings: no update is lost, none is   *)
(* reported that was not made (updateConfig).                              *)
THEOREM Implements == Spec => ImplementsSettings
<1>1. Init => Promise!SettingsInit
  <2> SUFFICES ASSUME Init PROVE Promise!SettingsInit
    OBVIOUS
  <2>1. PICK c \in Config : inodes = [i \in Inodes |-> IF i = Original THEN c ELSE NoText]
    BY DEF Init
  <2>2. inodes[path] \in Config
    BY <2>1 DEF Init, Inodes
  <2>3. inodes[path] \in [Keys -> Values \cup {Invalid} \cup {Unset}]
    BY <2>2 DEF Config
  <2>4. request \in [Writers -> Promise!Request]
    BY DEF Init, Promise!Request
  <2> QED BY <2>3, <2>4 DEF Init, Promise!SettingsInit
<1>2. IInv /\ [Next]_vars => [Promise!SettingsNext]_Promise!settingsVars
  BY StepImplements
<1> QED BY <1>1, <1>2, Invariant, PTL DEF Spec, ImplementsSettings, Promise!SettingsSpec
=============================================================================
