------------------------------ MODULE Respond ------------------------------
(***************************************************************************)
(* `hollis respond` (internal/cli/respond.go) through the Shortcuts        *)
(* transport (internal/runner/shortcut.go): what is refused before         *)
(* anything is spawned, the listing that finds the bridges, the staging of *)
(* the prompt and the images, the run and its deadline, the one automatic  *)
(* fallback, and the exit code.                                            *)
(*                                                                         *)
(* The subprocess runner is taken at its word (Subproc): a call returns    *)
(* once its child was reaped, and by the end of its context.  The child    *)
(* does what it likes, Apple's own texts excepted: a run that failed with  *)
(* a rate limit or a missing shortcut has not answered.  A request for the *)
(* local model goes to the native helper and ends here.                    *)
(***************************************************************************)
EXTENDS Routing

CONSTANTS
    Cases,          \* a command line with its stdin, a configuration, and a Mac
    Paths,          \* paths of images
    Layouts,        \* where the image files are
    Inodes,         \* image files
    MaxEdits        \* bound: image files and shortcuts changed meanwhile

NoInode == "none"    \* nothing at the path, or a symbolic link

Request ==
    [model : Model \cup {"", "gpt"}, text : BOOLEAN, file : {"", "file", "-"},
     docs : BOOLEAN, images : Seq(Paths), schema : BOOLEAN, stream : BOOLEAN,
     stdin : {"tty", "nothing", "piped"}, noInput : BOOLEAN]

Config == [ok : BOOLEAN, model : Model \cup {""}, bridges : [Tier -> References]]

ASSUME RespondConstants ==
    /\ \A c \in Cases : c.request \in Request /\ c.config \in Config
    /\ \A c \in Cases : c.mac.major \in Nat /\ c.mac.installed \subseteq References
    /\ Layouts \subseteq [Paths -> Inodes \cup {NoInode}]
    /\ NoInode \notin Inodes /\ MaxEdits \in Nat

VARIABLES
    req, config, major,  \* as the command finds them
    installed,  \* the shortcuts of this Mac, by name and by UUID
    at, bytes,  \* the inode at each path, and whether its bytes are an image
    edits,      \* changes made to those three so far
    pc,         \* where the command is
    model,      \* the model it asks
    kind,       \* the error in hand, "" for none
    canceled,   \* a signal came
    timer,      \* the deadline of the current call
    ctx,        \* ctx.Err() of its context
    listed,     \* what the listing said
    refs,       \* ShortcutRunner.BridgeRefs
    tier,       \* the tier being asked
    image,      \* the image being staged: its inode at Lstat, and what was read
    staged,     \* the bytes in the private directory
    temp,       \* what is on disk: the directory, the prompt's file
    child,      \* the child of the current call
    result,     \* what the subprocess runner made of it
    asked,      \* ghost: the runs that were spawned
    served      \* ghost: those that a model answered, and what it was given

world   == <<at, bytes, installed, edits>>
inputs  == <<req, config, major>>
context == <<canceled, timer, ctx>>
routing == <<model, listed, refs>>
staging == <<image, staged>>
history == <<asked, served>>
vars == <<world, inputs, context, routing, staging, history,
          pc, kind, tier, temp, child, result>>

Places == {"checking", "native", "listing", "listed", "staging", "tier", "running",
           "judging", "returned", "done"}

\* The errors of the command, "" for none.
Kinds == {"", "usage", "config", "transport", "timeout", "context_canceled", "list_failure",
          "shortcut_missing", "shortcut_no_output", "shortcut_failed", "rate_limited",
          "request_declined", "signal", "sigabrt"}

\* A child, an image on its way, what is on disk; a run, and what one was given.
Process  == [running : BOOLEAN, ended : BOOLEAN, holds : BOOLEAN, res : Result]
Picture  == [inode : Inodes \cup {NoInode}, read : BOOLEAN]
Files    == [dir : BOOLEAN, prompt : BOOLEAN]
Run      == [tier : Tier, ref : References, killed : BOOLEAN]
Reading  == [tier : Tier, prompt : BOOLEAN, images : Seq(BOOLEAN)]

TypeOK ==
    /\ req \in Request /\ config \in Config /\ major \in Nat
    /\ installed \subseteq References /\ listed \subseteq References
    /\ at \in [Paths -> Inodes \cup {NoInode}] /\ bytes \in [Inodes -> BOOLEAN]
    /\ edits \in 0 .. MaxEdits
    /\ pc \in Places /\ kind \in Kinds
    /\ model \in Model \cup {""} /\ tier \in Tier \cup {""}
    /\ canceled \in BOOLEAN /\ timer \in {"off", "armed", "expired"}
    /\ ctx \in {"", "canceled", "deadline"}
    /\ refs \in [Tier -> References]
    /\ image \in Picture /\ staged \in Seq(BOOLEAN) /\ temp \in Files
    /\ child \in Process /\ result \in Result
    /\ asked \in Seq(Run) /\ served \in Seq(Reading)

NoChild == [running |-> FALSE, ended |-> FALSE, holds |-> FALSE, res |-> NotStarted]
NoImage == [inode |-> NoInode, read |-> FALSE]

Init ==
    /\ \E c \in Cases : /\ req = c.request /\ config = c.config
                        /\ major = c.mac.major /\ installed = c.mac.installed
    /\ at \in Layouts
    /\ bytes = [i \in Inodes |-> TRUE]
    /\ edits = 0
    /\ pc = "checking" /\ model = "" /\ kind = ""
    /\ canceled = FALSE /\ timer = "off" /\ ctx = ""
    /\ listed = {} /\ refs = [t \in Tier |-> ""] /\ tier = ""
    /\ image = NoImage /\ staged = <<>>
    /\ temp = [dir |-> FALSE, prompt |-> FALSE]
    /\ child = NoChild /\ result = NotStarted
    /\ asked = <<>> /\ served = <<>>

-----------------------------------------------------------------------------
(* What is refused before anything is spawned.                             *)

WithFiles(r) == r.docs \/ r.images # <<>>
Waits(r)     == r.noInput /\ r.stdin = "tty"

\* Where the instruction is read from, "" for none or more than one.
Instruction(r) ==
    IF r.text /\ r.file # "" THEN ""
    ELSE IF r.text THEN IF WithFiles(r) /\ r.stdin = "piped" THEN "" ELSE "text"
    ELSE IF r.file = "file" THEN IF r.stdin = "piped" THEN "" ELSE "file"
    ELSE IF r.file = "" /\ WithFiles(r) THEN IF r.stdin = "piped" THEN "stdin" ELSE ""
    ELSE IF Waits(r) \/ r.stdin = "nothing" THEN "" ELSE "stdin"

\* The command line, the configured default, or the built-in one.
EffectiveModel(r, c) ==
    IF r.model # "" THEN r.model
    ELSE IF c.model # "" THEN c.model
    ELSE IF r.images = <<>> THEN "auto" ELSE "cloud"

Regular(path) == at[path] # NoInode

\* validateImageRequestShape.
ImagesAccepted(m, paths) ==
    /\ SupportsImages(m)
    /\ Routes[m].images = 1 => Len(paths) = 1
    /\ \A i \in DOMAIN paths : Regular(paths[i])

\* The checks of Args and RunE, in the order that decides the exit code.
Refusal(r, c) ==
    LET m == EffectiveModel(r, c) IN
    IF r.docs /\ r.images # <<>> THEN "usage"
    ELSE IF r.schema /\ r.images # <<>> THEN "usage"
    ELSE IF Instruction(r) = "" THEN "usage"
    ELSE IF r.model = "" /\ ~c.ok THEN "config"
    ELSE IF m \notin Model THEN "usage"
    ELSE IF r.images # <<>> /\ ~ImagesAccepted(m, r.images) THEN "usage"
    ELSE IF r.schema /\ (m # "local" \/ r.stream) THEN "usage"
    ELSE IF r.stream /\ m # "local" THEN "usage"
    ELSE IF m # "local" /\ ~c.ok THEN "config"
    ELSE ""

Goto(place) == pc' = place

Refuse ==
    /\ pc = "checking"
    /\ Refusal(req, config) # ""
    /\ kind' = Refusal(req, config)
    /\ Goto("done")
    /\ UNCHANGED <<world, inputs, context, routing, staging, history, tier, temp, child, result>>

UseHelper ==
    /\ pc = "checking"
    /\ Refusal(req, config) = ""
    /\ EffectiveModel(req, config) = "local"
    /\ model' = "local"
    /\ Goto("native")
    /\ UNCHANGED <<world, inputs, context, listed, refs, staging, history, kind, tier, temp, child, result>>

\* Mutant: the listing is bounded by the caller's deadline only.
ListDeadline_Caller == "off"

\* The listing has 10 seconds of its own; the command's deadline starts later.
ListDeadline == "armed"

StartListing ==
    /\ pc = "checking"
    /\ Refusal(req, config) = ""
    /\ EffectiveModel(req, config) # "local"
    /\ model' = EffectiveModel(req, config)
    /\ timer' = ListDeadline
    /\ Goto("listing")
    /\ UNCHANGED <<world, inputs, canceled, ctx, listed, refs, staging, history, kind, tier, temp, child, result>>

-----------------------------------------------------------------------------
(* One call of the subprocess runner, for the listing and for a run.       *)

Calling == pc \in {"listing", "running"}

Idle == ~child.running /\ ~child.ended

\* The context has ended already, or the program cannot be started.
NotSpawned ==
    /\ Calling /\ Idle
    /\ result' = NotStarted
    /\ Goto(IF pc = "listing" THEN "listed" ELSE "judging")
    /\ UNCHANGED <<world, inputs, context, routing, staging, history, kind, tier, temp, child>>

Spawn ==
    /\ Calling /\ Idle
    /\ ctx = ""
    /\ child' = [NoChild EXCEPT !.running = TRUE]
    /\ asked' = IF pc = "running"
                  THEN Append(asked, [tier |-> tier, ref |-> refs[tier], killed |-> FALSE]) ELSE asked
    /\ UNCHANGED <<world, inputs, context, routing, staging, served, pc, kind, tier, temp, result>>

Ends(leader, stdout, said, holds) ==
    child' = [running |-> FALSE, ended |-> TRUE, holds |-> holds,
              res |-> [started |-> TRUE, runErr |-> "", leader |-> leader,
                       stdout |-> stdout, stderr |-> said]]

\* `shortcuts list` prints names, never UUIDs.
Lists ==
    /\ pc = "listing" /\ child.running
    /\ \/ listed' = installed \ Uuids /\ \E holds \in BOOLEAN : Ends(Exit(0), "text", {}, holds)
       \/ listed' = listed /\ \/ Ends(Exit(1), "empty", {}, FALSE)
                              \/ Ends(Exit(0), "over", {}, FALSE)
    /\ UNCHANGED <<world, inputs, context, model, refs, staging, history, pc, kind, tier, temp, result>>

Reads == [tier |-> tier, prompt |-> temp.prompt, images |-> IF temp.dir THEN staged ELSE <<>>]

\* The model gets the request; its bridge may yet fail to hand the answer over.
Answers ==
    /\ pc = "running" /\ child.running
    /\ refs[tier] \in installed
    /\ served' = Append(served, Reads)
    /\ \E stdout \in {"empty", "text", "over"}, holds \in BOOLEAN :
         \E said \in IF stdout = "text" THEN {{}, {"rate limit"}} ELSE {{}} :
           Ends(Exit(0), stdout, said, holds)
    /\ UNCHANGED <<world, inputs, context, routing, staging, pc, kind, tier, temp, asked, result>>

\* It answers, and the answer is lost.
Crashes ==
    /\ pc = "running" /\ child.running
    /\ refs[tier] \in installed
    /\ served' = Append(served, Reads)
    /\ \E leader \in {Exit(1), Killed, [signal |-> "ABRT", code |-> -1]} :
         Ends(leader, "empty", {}, FALSE)
    /\ UNCHANGED <<world, inputs, context, routing, staging, pc, kind, tier, temp, asked, result>>

\* It does not: no such shortcut, a limit, a refusal, wrong usage; some of
\* what it says may be lost between the two ends of stderr that are kept.
Fails ==
    /\ pc = "running" /\ child.running
    /\ \E said \in SUBSET Diagnostic, code \in {0, 1, 64} :
         /\ refs[tier] \notin installed => "not found" \in said /\ code # 0
         /\ code = 0 => said \subseteq {"rate limit"}
         /\ Ends(Exit(code), "empty", said, FALSE)
    /\ UNCHANGED <<world, inputs, context, routing, staging, history, pc, kind, tier, temp, result>>

\* The end of the context kills the group.
Kill ==
    /\ Calling /\ child.running
    /\ ctx # ""
    /\ Ends(Killed, "empty", {}, FALSE)
    /\ asked' = IF pc = "running" THEN [asked EXCEPT ![Len(asked)].killed = TRUE] ELSE asked
    /\ UNCHANGED <<world, inputs, context, routing, staging, served, pc, kind, tier, temp, result>>

\* A descendant that holds a pipe keeps the call until the context ends.
CallReturns ==
    /\ Calling /\ child.ended
    /\ child.holds => ctx # ""
    /\ \E runErr \in IF ctx # "" THEN {"context"} ELSE {"", "read"} :
         result' = [child.res EXCEPT !.runErr = runErr]
    /\ child' = NoChild
    /\ Goto(IF pc = "listing" THEN "listed" ELSE "judging")
    /\ UNCHANGED <<world, inputs, context, routing, staging, history, kind, tier, temp>>

-----------------------------------------------------------------------------
(* Resolution, the images, the tiers.                                      *)

\* resolveBridges, the two gates, applyResolvedRefs and the deadline; sw_vers
\* is asked anew and may fail.
Decide ==
    /\ pc = "listed"
    /\ \E osMajor \in {major, 0} :
         LET error    == ListKind(result, ctx)
             resolved == ResolveBridges(listed, error = "", osMajor, config.bridges)
             failed   == IF error # "" /\ ~CanAttemptAfterDiscoveryFailure(resolved, model) THEN error
                         ELSE IF ~ModelAvailable(resolved, model) THEN "usage"
                         ELSE ""
         IN  \/ /\ failed # ""
                /\ kind' = failed
                /\ Goto("done")
                /\ UNCHANGED <<refs, tier, timer, ctx>>
             \/ /\ failed = ""
                /\ refs' = ResolvedRefs(resolved)
                /\ tier' = IF model = "auto" THEN "cloud" ELSE model
                /\ timer' = "armed"
                /\ ctx' = IF canceled THEN "canceled" ELSE ""
                /\ Goto(IF req.images # <<>> THEN "staging" ELSE "tier")
                /\ UNCHANGED kind
    /\ result' = NotStarted
    /\ UNCHANGED <<world, inputs, canceled, model, listed, staging, history, temp, child>>

\* Leaving with what is in hand; the deferred removals run first.
Finish(error) ==
    /\ kind' = error
    /\ temp' = [dir |-> FALSE, prompt |-> FALSE]
    /\ Goto("done")

\* RunWithImages: the shape again, then a private directory.
StageDirectory ==
    /\ pc = "staging" /\ ~temp.dir
    /\ \/ /\ ImagesAccepted(model, req.images)
          /\ temp' = [temp EXCEPT !.dir = TRUE]
          /\ UNCHANGED <<kind, pc>>
       \/ ImagesAccepted(model, req.images) /\ Finish("transport")
       \/ ~ImagesAccepted(model, req.images) /\ Finish("usage")
    /\ UNCHANGED <<world, inputs, context, routing, staging, history, tier, child, result>>

Path == req.images[Len(staged) + 1]
Pending == pc = "staging" /\ temp.dir /\ Len(staged) < Len(req.images)

\* Lstat, and an open that follows no link; then both must be one file.
Inspect ==
    /\ Pending /\ image = NoImage
    /\ \/ Regular(Path) /\ image' = [NoImage EXCEPT !.inode = at[Path]] /\ UNCHANGED <<kind, temp, pc>>
       \/ ~Regular(Path) /\ Finish("usage") /\ image' = NoImage
    /\ UNCHANGED <<world, inputs, context, routing, staged, history, tier, child, result>>

SameFile == at[Path] = image.inode

\* The bytes read are decoded; what fails to be an image is refused.
Read ==
    /\ Pending /\ image.inode # NoInode /\ ~image.read
    /\ \/ SameFile /\ bytes[image.inode] /\ image' = [image EXCEPT !.read = TRUE] /\ UNCHANGED <<kind, temp, pc>>
       \/ ~(SameFile /\ bytes[image.inode]) /\ Finish("usage") /\ image' = NoImage
    /\ UNCHANGED <<world, inputs, context, routing, staged, history, tier, child, result>>

\* Mutant: the path is copied, not the bytes that were decoded.
StagedBytes_Path == Regular(Path) /\ bytes[at[Path]]

StagedBytes == image.read

WriteStaged ==
    /\ Pending /\ image.read
    /\ \/ staged' = Append(staged, StagedBytes) /\ UNCHANGED <<kind, temp, pc>>
       \/ Finish("transport") /\ staged' = staged
    /\ image' = NoImage
    /\ UNCHANGED <<world, inputs, context, routing, history, tier, child, result>>

ImagesStaged ==
    /\ pc = "staging" /\ temp.dir /\ Len(staged) = Len(req.images)
    /\ Goto("tier")
    /\ UNCHANGED <<world, inputs, context, routing, staging, history, kind, tier, temp, child, result>>

\* runTierWithImages, before anything is spawned.
TierRefusal ==
    IF Blank(refs[tier]) THEN "shortcut_missing"
    ELSE IF FlagLike(refs[tier]) THEN "usage"
    ELSE IF timer = "expired" THEN "timeout"
    ELSE ""

RefuseTier ==
    /\ pc = "tier"
    /\ TierRefusal # ""
    /\ kind' = TierRefusal
    /\ Goto("returned")
    /\ UNCHANGED <<world, inputs, context, routing, staging, history, tier, temp, child, result>>

\* writePromptFile; when it fails it takes its file away.
StagePrompt ==
    /\ pc = "tier"
    /\ TierRefusal = ""
    /\ \/ temp' = [temp EXCEPT !.prompt = TRUE] /\ Goto("running") /\ kind' = kind
       \/ temp' = temp /\ Goto("returned") /\ kind' = "transport"
    /\ UNCHANGED <<world, inputs, context, routing, staging, history, tier, child, result>>

\* The deferred removal of the prompt runs as the tier returns.
Judge ==
    /\ pc = "judging"
    /\ kind' = KindOf(result, ctx)
    /\ temp' = [temp EXCEPT !.prompt = FALSE]
    /\ Goto("returned")
    /\ UNCHANGED <<world, inputs, context, routing, staging, history, tier, child, result>>

FallsBack == model = "auto" /\ tier = "cloud" /\ FallbackEligible(kind)

\* runAuto: the second tier shares the deadline of the first.
FallBack ==
    /\ pc = "returned" /\ FallsBack
    /\ tier' = "on-device"
    /\ result' = NotStarted
    /\ Goto("tier")
    /\ UNCHANGED <<world, inputs, context, routing, staging, history, kind, temp, child>>

Return ==
    /\ pc = "returned" /\ ~FallsBack
    /\ Finish(kind)
    /\ UNCHANGED <<world, inputs, context, routing, staging, history, tier, child, result>>

-----------------------------------------------------------------------------
(* Time, signals, and others who use the files and the shortcuts.          *)

Expire ==
    /\ timer = "armed"
    /\ timer' = "expired"
    /\ UNCHANGED <<world, inputs, canceled, ctx, routing, staging, history, pc, kind, tier, temp, child, result>>

\* The timer of the context fires a little later.
Fire ==
    /\ timer = "expired" /\ ctx = ""
    /\ ctx' = "deadline"
    /\ UNCHANGED <<world, inputs, canceled, timer, routing, staging, history, pc, kind, tier, temp, child, result>>

Interrupt ==
    /\ pc \notin {"checking", "native", "done"}
    /\ ~canceled
    /\ canceled' = TRUE
    /\ ctx' = IF ctx = "" THEN "canceled" ELSE ctx
    /\ UNCHANGED <<world, inputs, timer, routing, staging, history, pc, kind, tier, temp, child, result>>

Edit ==
    /\ pc \notin {"checking", "native", "done"}
    /\ edits < MaxEdits
    /\ edits' = edits + 1
    /\ \/ /\ req.images # <<>>
          /\ \E p \in Paths, i \in Inodes \cup {NoInode} :
               /\ \A q \in Paths : at[q] # i \/ i = NoInode
               /\ \E good \in BOOLEAN :
                    /\ at' = [at EXCEPT ![p] = i]
                    /\ bytes' = IF i = NoInode THEN bytes ELSE [bytes EXCEPT ![i] = good]
          /\ UNCHANGED installed
       \/ /\ req.images # <<>>
          /\ \E i \in Inodes : bytes' = [bytes EXCEPT ![i] = ~@]
          /\ UNCHANGED <<at, installed>>
       \/ /\ \E s \in installed : installed' = installed \ {s}
          /\ UNCHANGED <<at, bytes>>
    /\ UNCHANGED <<inputs, context, routing, staging, history, pc, kind, tier, temp, child, result>>

Ended == pc \in {"done", "native"} /\ UNCHANGED vars

Command ==
    \/ Refuse \/ UseHelper \/ StartListing
    \/ NotSpawned \/ Spawn \/ Kill \/ CallReturns
    \/ Decide
    \/ StageDirectory \/ Inspect \/ Read \/ WriteStaged \/ ImagesStaged
    \/ RefuseTier \/ StagePrompt \/ Judge \/ FallBack \/ Return

Child == Lists \/ Answers \/ Crashes \/ Fails

Next == Command \/ Child \/ Expire \/ Fire \/ Interrupt \/ Edit \/ Ended

\* The command goes on and clocks advance; the child owes nothing.
Fairness == WF_vars(Command) /\ WF_vars(Expire) /\ WF_vars(Fire)

Spec == Init /\ [][Next]_vars /\ Fairness

-----------------------------------------------------------------------------
(* Properties.                                                             *)

\* At most one model answers a request: the fallback of auto, made after a
\* run whose outcome was not certain, would pay for it twice (runAuto).
NeverAnsweredTwice == Len(served) <= 1

\* What is invoked was listed as a bridge of its tier in this very command, or
\* is what the user configured for it, and Cloud Pro only on a macOS that has
\* it: never the compiled placeholder (ResolveBridges, applyResolvedRefs).
OnlyKnownBridges ==
    \A i \in DOMAIN asked :
      LET t == asked[i].tier ref == asked[i].ref IN
      /\ \/ ref = config.bridges[t] /\ ~Blank(ref)
         \/ ref \in listed /\ ref \in Range(Routes[t].names)
      /\ t \in Candidates(model)
      /\ t = "cloud-pro" => major >= MeasuredOSMajor

\* A child that reads its inputs finds the prompt and, in order, every image,
\* with bytes that were decoded as an image (stageImageInputs, writePromptFile).
InputsAsChecked ==
    \A i \in DOMAIN served :
      /\ served[i].prompt
      /\ served[i].images = [j \in DOMAIN req.images |-> TRUE]

\* The exit code and the kind say what happened: 0 means that the whole output
\* of a child that ended well in time was returned, 7 that a deadline passed, 3
\* that the bridge is not there or Apple said so; a cancellation means that a
\* signal came, a crash one that this command did not cause; and nothing that
\* was staged is left (runTierWithImages, toCLIError).
OutcomeIsTrue ==
    pc = "done" =>
      /\ ExitCode(kind) = 0 =>
                      /\ Clean(result.leader) /\ result.started
                      /\ result.stdout = "text" /\ result.runErr = ""
                      /\ Len(served) = 1 /\ served[1].tier = tier
      /\ ExitCode(kind) = 7 => timer = "expired" \/ ctx = "deadline"
      /\ kind = "context_canceled" => canceled
      /\ kind \in {"signal", "sigabrt"} => ~asked[Len(asked)].killed
      /\ ExitCode(kind) = 3 => Blank(refs[tier]) \/ "not found" \in result.stderr
      /\ temp = [dir |-> FALSE, prompt |-> FALSE]
      /\ ~child.running

\* The command ends, whatever its children do.
CommandEnds == <>(pc \in {"done", "native"})
=============================================================================
