------------------------------- MODULE Config -------------------------------
(***************************************************************************)
(* config.json (internal/cli/config.go): `hollis config set` reads,        *)
(* changes and replaces the whole file under a lock; every other command   *)
(* reads it without.                                                       *)
(*                                                                         *)
(* A file is an inode with a content; path names one of them.  The file    *)
(* handle of a reader stays with its inode when the path is given another. *)
(* A hand edit does not take the lock and is not modelled.                 *)
(***************************************************************************)
EXTENDS Naturals

CONSTANTS
    Writers,    \* processes of config set
    Readers,    \* processes that load the configuration
    Keys,       \* "default_model", a tier in "bridges", a style in "image_bridges", ...
    Values,     \* valid values of them
    Invalid,    \* a value that validateConfig refuses
    Unset,      \* no value: the key is missing, or deleted by an empty argument
    NoText,     \* an empty file, or none
    Torn        \* a part of the JSON text of a configuration

Config == [Keys -> Values \cup {Unset}]

NoWriter == "free"
Original == "original"

ASSUME ConfigConstants ==
    /\ NoWriter \notin Writers /\ Original \notin Writers
    /\ Writers \cap Readers = {}
    /\ Unset \notin Values \cup {Invalid} /\ Invalid \notin Values
    /\ NoText \notin Config /\ Torn \notin Config

\* The inode that was there at the start, and the temporary file of each writer.
Inodes == Writers \cup {Original}

VARIABLES
    path,       \* the inode that config.json names
    inodes,     \* their contents
    lock,       \* who holds config.json.lock
    request,    \* what each writer is to set
    pc,         \* where each process is
    loaded,     \* what a writer has read and changed
    handle,     \* the inode a process has open
    renamed,    \* the writers whose temporary file has become config.json (tempPath = "")
    said        \* "ok" or "failed", once a writer has returned; "killed"

vars == <<path, inodes, lock, request, pc, loaded, handle, renamed, said>>

Default == [k \in Keys |-> Unset]

TypeOK ==
    /\ path \in Inodes
    /\ inodes \in [Inodes -> Config \cup {NoText, Torn}]
    /\ lock \in Writers \cup {NoWriter}
    /\ request \in [Writers -> [key : Keys, value : Values \cup {Invalid, Unset}]]
    /\ pc \in [Writers \cup Readers -> {"idle", "locking", "loading", "validating", "writing",
                  "renaming", "syncing", "opened", "done"}]
    /\ loaded \in [Writers -> [Keys -> Values \cup {Invalid, Unset}]]
    /\ handle \in [Readers -> Inodes]
    /\ renamed \subseteq Writers
    /\ said \in [Writers -> {"", "ok", "failed", "killed"}]

\* A missing file is a configuration without values.
Init ==
    /\ path = Original
    /\ \E c \in Config : inodes = [i \in Inodes |-> IF i = Original THEN c ELSE NoText]
    /\ lock = NoWriter
    /\ request \in [Writers -> [key : Keys, value : Values \cup {Invalid, Unset}]]
    /\ pc = [p \in Writers \cup Readers |-> "idle"]
    /\ loaded = [w \in Writers |-> Default]
    /\ handle = [r \in Readers |-> Original]
    /\ renamed = {}
    /\ said = [w \in Writers |-> ""]

Goto(p, place) == pc' = [pc EXCEPT ![p] = place]

\* The deferred functions and the error that is returned, in one step with the
\* release of the lock.
Return(w, outcome) ==
    /\ Goto(w, "done")
    /\ said' = [said EXCEPT ![w] = outcome]
    /\ lock' = IF lock = w THEN NoWriter ELSE lock
    /\ loaded' = [loaded EXCEPT ![w] = Default]

-----------------------------------------------------------------------------
(* updateConfig.                                                           *)

\* validateConfigSetArgs and the checks of newConfigSetCmd: a bad model or tier
\* is refused before anything is opened; availability was probed before.
Begin(w) ==
    /\ pc[w] = "idle"
    /\ \/ Goto(w, "locking") /\ UNCHANGED <<lock, said, loaded>>
       \/ Return(w, "failed")
    /\ UNCHANGED <<path, inodes, request, handle, renamed>>

\* Mutant: flock with LOCK_SH.
LockFree_Shared(w) == lock \in Writers \cup {NoWriter}

LockFree(w) == lock = NoWriter

\* withConfigLock waits for the lock; its files may not be usable.
Lock(w) ==
    /\ pc[w] = "locking"
    /\ \/ LockFree(w) /\ lock' = w /\ Goto(w, "loading") /\ UNCHANGED <<said, loaded>>
       \/ Return(w, "failed")
    /\ UNCHANGED <<path, inodes, request, handle, renamed>>

Changed(config, r) == [config EXCEPT ![r.key] = r.value]

\* loadConfigAt opens the path once; a text that is no configuration is an error.
Load(w) ==
    /\ pc[w] = "loading"
    /\ \/ /\ inodes[path] \in Config
          /\ loaded' = [loaded EXCEPT ![w] = Changed(inodes[path], request[w])]
          /\ Goto(w, "validating")
          /\ UNCHANGED <<lock, said>>
       \/ Return(w, "failed")
    /\ UNCHANGED <<path, inodes, request, handle, renamed>>

\* validateConfig, before anything is written.
Validate(w) ==
    /\ pc[w] = "validating"
    /\ \/ loaded[w] \in Config /\ Goto(w, "writing") /\ UNCHANGED <<lock, said, loaded>>
       \/ loaded[w] \notin Config /\ Return(w, "failed")
    /\ UNCHANGED <<path, inodes, request, handle, renamed>>

\* atomicWriteConfig: the text goes piece by piece into a file of its own, which
\* is removed if that fails.
Write(w) ==
    /\ pc[w] = "writing"
    /\ \/ /\ inodes[w] = NoText
          /\ inodes' = [inodes EXCEPT ![w] = Torn]
          /\ UNCHANGED <<pc, lock, said, loaded>>
       \/ /\ inodes[w] = Torn
          /\ inodes' = [inodes EXCEPT ![w] = loaded[w]]
          /\ Goto(w, "renaming")
          /\ UNCHANGED <<lock, said, loaded>>
       \/ /\ inodes' = [inodes EXCEPT ![w] = NoText]
          /\ Return(w, "failed")
    /\ UNCHANGED <<path, request, handle, renamed>>

Rename(w) ==
    /\ pc[w] = "renaming"
    /\ \/ /\ path' = w
          /\ renamed' = renamed \cup {w}
          /\ Goto(w, "syncing")
          /\ UNCHANGED <<inodes, lock, said, loaded>>
       \/ Return(w, "failed") /\ inodes' = [inodes EXCEPT ![w] = NoText] /\ UNCHANGED <<path, renamed>>
    /\ UNCHANGED <<request, handle>>

\* The mode of the file and the directory's sync; the new file stays if they fail.
Sync(w) ==
    /\ pc[w] = "syncing"
    /\ \E outcome \in {"ok", "failed"} : Return(w, outcome)
    /\ UNCHANGED <<path, inodes, request, handle, renamed>>

Die(w) ==
    /\ pc[w] \notin {"idle", "done"}
    /\ Return(w, "killed")
    /\ UNCHANGED <<path, inodes, request, handle, renamed>>

-----------------------------------------------------------------------------
(* loadConfig.                                                             *)

Open(r) ==
    /\ pc[r] = "idle"
    /\ handle' = [handle EXCEPT ![r] = path]
    /\ Goto(r, "opened")
    /\ UNCHANGED <<path, inodes, lock, request, loaded, renamed, said>>

\* The whole inode is read, whatever the path names by now.
Read(r) ==
    /\ pc[r] = "opened"
    /\ handle' = [handle EXCEPT ![r] = Original]
    /\ Goto(r, "idle")
    /\ UNCHANGED <<path, inodes, lock, request, loaded, renamed, said>>

Next ==
    \/ \E w \in Writers : \/ Begin(w) \/ Lock(w) \/ Load(w) \/ Validate(w)
                          \/ Write(w) \/ Rename(w) \/ Sync(w) \/ Die(w)
    \/ \E r \in Readers : Open(r) \/ Read(r)

Spec == Init /\ [][Next]_vars

-----------------------------------------------------------------------------
(* Properties.                                                             *)

\* config set keeps the promises of Settings: the settings are the content of
\* the file that config.json names, a change is made by the rename, and no
\* interleaving of updates, failed write or death of a process loses another
\* one's setting or reports a change that was not made (updateConfig).
Promise == INSTANCE Settings WITH
    Callers  <- Writers,
    Values   <- Values \cup {Invalid},
    settings <- inodes[path],
    asked    <- request,
    made     <- renamed,
    told     <- said

ImplementsSettings == Promise!SettingsSpec

\* Whatever a reader has open is a whole configuration for as long as it reads
\* (atomicWriteConfig).
ReadsAreWhole == \A r \in Readers : pc[r] = "opened" => inodes[handle[r]] \in Config
=============================================================================
