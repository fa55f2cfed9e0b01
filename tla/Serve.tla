------------------------------- MODULE Serve -------------------------------
(***************************************************************************)
(* `hollis serve` (internal/cli/serve.go) and the handlers of its HTTP     *)
(* server (internal/server): what may be bound and who may ask, the slots  *)
(* for model runs that are taken without waiting, the staging of images    *)
(* and the cleaning of generated pictures, the one answer of a request,    *)
(* and a shutdown that ends every run and waits five seconds.              *)
(*                                                                         *)
(* Clients are handled concurrently.  net/http is taken at its word: a    *)
(* handler's context ends when its client goes, Shutdown closes the        *)
(* listener and waits for the connections that are not idle.  The frames   *)
(* of a streamed answer are in NativeStream, a child in Subproc.           *)
(***************************************************************************)
EXTENDS Integers, Sequences, FiniteSets

CONSTANTS
    Clients,        \* clients, with a connection each
    Kinds,          \* what they may ask for
    Startups        \* command lines of serve, with their environment

\* The list of models; an answer in one piece, of a bridge or of the helper; one
\* to images; a generated picture; a streamed answer.
Kind == {"models", "text", "images", "picture", "stream"}

Startup ==
    [host : {"loopback", "remote", "name"},
     token : {"unset", "both", "unreadable", "empty", "short", "long"},
     noAuth : BOOLEAN, allowRemote : BOOLEAN, maxConcurrency : Int]

\* How a run fails: at its deadline or for want of its client; by the limit of
\* the provider; for a reason with a status line of its own, which is the
\* model's capacity, the want of its helper or a locked session; or otherwise.
Failures(k) ==
    {"failed", "late"}
        \cup (IF k = "picture" THEN {} ELSE {"limited"})
        \cup (IF k = "images" THEN {} ELSE {"refused"})

Results == {"", "ok", "failed", "late", "limited", "refused"}

\* The status lines: 200; 400 and what else is said to a request that cannot be
\* met; 401; 429 with a Retry-After, and 429 without; 413, 503 or 409; 500; 502; 504.
Status == {"ok", "invalid", "unauthorized", "server_busy", "rate_limited", "refused",
           "broken", "bad_gateway", "timeout"}

\* Where a handler is.
Places == {"idle", "checking", "admitted", "prepared", "running", "judging",
           "processing", "writing", "leaving", "flushing"}

ASSUME ServeConstants ==
    /\ IsFiniteSet(Clients)
    /\ Kinds \subseteq Kind
    /\ Startups \subseteq Startup

VARIABLES
    start,      \* the command line
    phase,      \* where the command is
    address,    \* what is bound: "", "loopback" or "remote"
    stopped,    \* stopCtx is done
    grace,      \* the deadline of Shutdown
    code,       \* the exit code
    slots,      \* the slots that are taken: len(Server.capacity)
    kind, auth, \* what each request asks for, and whether it has the token
    pc,         \* where its handler is
    over,       \* its context has ended
    child,      \* "none" or "running"
    outcome,    \* what its run came to, "" before that
    dir,        \* its private directory: "none", "there" or "stuck"
    answer      \* the status lines it has written

command == <<start, phase, address, stopped, grace, code>>
asked   == <<kind, auth>>
work    == <<over, child, outcome, dir>>
vars    == <<command, slots, asked, pc, work, answer>>

TypeOK ==
    /\ start \in Startups
    /\ phase \in {"starting", "bound", "probed", "serving", "stopping", "exited"}
    /\ address \in {"", "loopback", "remote"}
    /\ stopped \in BOOLEAN
    /\ grace \in {"off", "armed", "expired"}
    /\ code \in {-1, 0, 2, 5, 7, 10}
    /\ slots \in Nat
    /\ kind \in [Clients -> Kinds \cup {""}] /\ auth \in [Clients -> BOOLEAN]
    /\ pc \in [Clients -> Places]
    /\ over \in [Clients -> BOOLEAN]
    /\ child \in [Clients -> {"none", "running"}]
    /\ outcome \in [Clients -> Results]
    /\ dir \in [Clients -> {"none", "there", "stuck"}]
    /\ answer \in [Clients -> Seq(Status)]

Init ==
    /\ start \in Startups
    /\ phase = "starting" /\ address = "" /\ stopped = FALSE /\ grace = "off" /\ code = -1
    /\ slots = 0
    /\ kind = [r \in Clients |-> ""]
    /\ auth = [r \in Clients |-> FALSE]
    /\ pc = [r \in Clients |-> "idle"]
    /\ over = [r \in Clients |-> FALSE]
    /\ child = [r \in Clients |-> "none"]
    /\ outcome = [r \in Clients |-> ""]
    /\ dir = [r \in Clients |-> "none"]
    /\ answer = [r \in Clients |-> <<>>]

-----------------------------------------------------------------------------
(* The start of the command.                                               *)

Literal(c) == c.host # "name"
RemoteAuthorized(c) == c.allowRemote /\ c.token = "long"

\* The exit code of the checks that come before anything is bound.
StartRefusal(c) ==
    IF c.maxConcurrency \notin 1..4 THEN 2
    ELSE IF c.noAuth /\ (c.token # "unset" \/ c.allowRemote) THEN 2
    ELSE IF ~c.noAuth /\ c.token = "unset" THEN 2
    ELSE IF c.token \in {"both", "unreadable"} THEN 10
    ELSE IF ~c.noAuth /\ c.token # "long" THEN 2
    ELSE IF c.host = "remote" /\ ~RemoteAuthorized(c) THEN 2
    ELSE 0

\* The deferred Close of the listener runs on every return.
Exit(with) ==
    /\ phase' = "exited" /\ code' = with
    /\ UNCHANGED <<start, address, stopped, grace, slots, asked, pc, work, answer>>

Refuse ==
    /\ phase = "starting"
    /\ StartRefusal(start) # 0
    /\ Exit(StartRefusal(start))

\* Mutant: a host name that sounds local is believed.
Trusted_Name(c, bound) == ~Literal(c) \/ bound = "loopback" \/ RemoteAuthorized(c)

Trusted(c, bound) == bound = "loopback" \/ RemoteAuthorized(c)

\* A name is bound first, and the address it came to is judged.
BindName ==
    /\ phase = "starting"
    /\ StartRefusal(start) = 0
    /\ ~Literal(start)
    /\ \/ Exit(5)
       \/ \E bound \in {"loopback", "remote"} :
            \/ Trusted(start, bound)
               /\ phase' = "bound" /\ address' = bound
               /\ UNCHANGED <<start, stopped, grace, code, slots, asked, pc, work, answer>>
            \/ ~Trusted(start, bound) /\ Exit(2)

\* The configuration, the helper's status and the bridges.
Probe ==
    /\ \/ phase = "starting" /\ StartRefusal(start) = 0 /\ Literal(start)
       \/ phase = "bound"
    /\ \/ \E failed \in {5, 7, 10} : Exit(failed)
       \/ phase' = "probed" /\ UNCHANGED <<start, address, stopped, grace, code, slots, asked, pc, work, answer>>

Serve ==
    /\ phase = "probed"
    /\ \/ /\ phase' = "serving"
          /\ address' = IF Literal(start) THEN start.host ELSE address
          /\ UNCHANGED <<start, stopped, grace, code, slots, asked, pc, work, answer>>
       \/ Literal(start) /\ Exit(5)

-----------------------------------------------------------------------------
(* One handler.                                                            *)

\* The handler has not returned; it holds a slot.
Handling(r) == pc[r] \notin {"idle", "flushing"}
Admitted(r) == pc[r] \in {"admitted", "prepared", "running", "judging", "processing", "writing", "leaving"}

Goes(r, place) == pc' = [pc EXCEPT ![r] = place]
Says(r, status) == answer' = [answer EXCEPT ![r] = Append(@, status)]

\* A server without a token does not look for one.
Arrive(r) ==
    /\ phase = "serving"
    /\ pc[r] = "idle"
    /\ \E k \in Kinds, a \in IF start.noAuth THEN {FALSE} ELSE BOOLEAN :
         /\ kind' = [kind EXCEPT ![r] = k]
         /\ auth' = [auth EXCEPT ![r] = a]
    /\ over' = [over EXCEPT ![r] = stopped]
    /\ Goes(r, "checking")
    /\ UNCHANGED <<command, slots, child, outcome, dir, answer>>

Allowed(r) == auth[r] \/ start.noAuth

\* guard, decodeRequest and the validation of what was asked.
Reject(r) ==
    /\ pc[r] = "checking"
    /\ \/ ~Allowed(r) /\ Says(r, "unauthorized")
       \/ Allowed(r) /\ Says(r, "invalid")
    /\ Goes(r, "flushing")
    /\ UNCHANGED <<command, slots, asked, work>>

ListModels(r) ==
    /\ pc[r] = "checking" /\ Allowed(r)
    /\ kind[r] = "models"
    /\ Says(r, "ok")
    /\ Goes(r, "flushing")
    /\ UNCHANGED <<command, slots, asked, work>>

Limit == IF start.maxConcurrency \in 1..4 THEN start.maxConcurrency ELSE 1

\* acquireCapacity never waits.
Admit(r) ==
    /\ pc[r] = "checking" /\ Allowed(r) /\ kind[r] # "models"
    /\ \/ /\ slots < Limit
          /\ slots' = slots + 1
          /\ Goes(r, "admitted")
          /\ answer' = answer
       \/ /\ slots >= Limit
          /\ Says(r, "server_busy")
          /\ Goes(r, "flushing")
          /\ slots' = slots
    /\ UNCHANGED <<command, asked, work>>

\* Mutant: what is wrong with an image is found out before the release is deferred.
Freed_LateDefer(r) == IF answer[r] = <<"invalid">> THEN slots ELSE slots - 1

Freed(r) == slots - 1

\* stageImages checks what it was sent and writes it into a directory, which it
\* removes if it fails, if it can; the reference of a picture is decoded.
Prepare(r) ==
    /\ pc[r] = "admitted"
    /\ \/ /\ kind[r] = "images" => ~over[r]
          /\ dir' = IF kind[r] = "images" THEN [dir EXCEPT ![r] = "there"] ELSE dir
          /\ Goes(r, "prepared")
          /\ answer' = answer
       \/ /\ kind[r] \in {"images", "picture"}
          /\ Says(r, "invalid")
          /\ dir' = dir
          /\ Goes(r, "leaving")
       \/ /\ kind[r] = "images"
          /\ Says(r, "broken") \/ (over[r] /\ Says(r, "timeout"))
          /\ \E left \in {"none", "stuck"} : dir' = [dir EXCEPT ![r] = left]
          /\ Goes(r, "leaving")
    /\ UNCHANGED <<command, slots, asked, over, child, outcome>>

\* A picture gets a directory of its own; nothing starts on a context that ended,
\* without the bridge or helper, or with more than the helper is given.
Start(r) ==
    /\ pc[r] = "prepared"
    /\ \/ /\ ~over[r]
          /\ child' = [child EXCEPT ![r] = "running"]
          /\ dir' = IF kind[r] = "picture" THEN [dir EXCEPT ![r] = "there"] ELSE dir
          /\ Goes(r, "running")
          /\ outcome' = outcome
       \/ /\ \E why \in Failures(kind[r]) \ {"limited"} :
               outcome' = [outcome EXCEPT ![r] = why]
          /\ Goes(r, "judging")
          /\ UNCHANGED <<child, dir>>
    /\ UNCHANGED <<command, slots, asked, over, answer>>

\* The first frame of a stream sends its status.
Frame(r) ==
    /\ pc[r] = "running" /\ kind[r] = "stream" /\ answer[r] = <<>>
    /\ ~over[r]
    /\ Says(r, "ok")
    /\ UNCHANGED <<command, slots, asked, pc, work>>

\* The call returns once its child was reaped: well, badly, or killed.  What a
\* failed generation had staged it removes itself, if it can.
RunEnds(r) ==
    /\ pc[r] = "running"
    /\ \E result \in Failures(kind[r]) \cup (IF over[r] THEN {} ELSE {"ok"}) :
         /\ result = "ok" /\ kind[r] = "stream" => answer[r] = <<"ok">>
         /\ outcome' = [outcome EXCEPT ![r] = result]
         /\ dir' \in IF kind[r] = "picture" /\ result # "ok"
                       THEN {[dir EXCEPT ![r] = left] : left \in {"none", "stuck"}} ELSE {dir}
    /\ child' = [child EXCEPT ![r] = "none"]
    /\ Goes(r, "judging")
    /\ UNCHANGED <<command, slots, asked, over, answer>>

\* Mutant: both limits are answered alike, and the client is told to come again.
Line_Merged(failure) ==
    CASE failure = "late"    -> "timeout"
      [] failure = "limited" -> "server_busy"
      [] failure = "refused" -> "refused"
      [] OTHER               -> "bad_gateway"

\* What a failed run is answered, by the kind of its error.
Line(failure) ==
    CASE failure = "late"    -> "timeout"
      [] failure = "limited" -> "rate_limited"
      [] failure = "refused" -> "refused"
      [] OTHER               -> "bad_gateway"

\* An error is answered at once; the directory of the images goes as the
\* handler leaves (a removal that fails is not noticed), and so does the slot.
Judge(r) ==
    /\ pc[r] = "judging"
    /\ CASE outcome[r] = "ok" /\ kind[r] = "picture" -> Goes(r, "processing") /\ answer' = answer
         [] outcome[r] # "ok" /\ answer[r] = <<>> ->
              Goes(r, "leaving") /\ Says(r, Line(outcome[r]))
         [] OTHER -> Goes(r, "leaving") /\ answer' = answer
    /\ dir' \in IF kind[r] = "images"
                  THEN {[dir EXCEPT ![r] = left] : left \in {"none", "stuck"}} ELSE {dir}
    /\ UNCHANGED <<command, slots, asked, over, child, outcome>>

\* Mutant: whether the directory of the picture went is not looked at.
CleanupStatus_Ignored(left) == IF left \in {"none", "stuck"} THEN "ok" ELSE "broken"

CleanupStatus(left) == IF left = "none" THEN "ok" ELSE "broken"

\* generateImageAdmitted: transform, read back, clean; once, and on each path.
Process(r) ==
    /\ pc[r] = "processing"
    /\ \E left \in {"none", "stuck"} :
         /\ dir' = [dir EXCEPT ![r] = left]
         /\ \/ over[r] /\ Says(r, "timeout") /\ Goes(r, "leaving")
            \/ Says(r, "bad_gateway") /\ Goes(r, "leaving")
            \/ CleanupStatus(left) # "ok" /\ Says(r, CleanupStatus(left)) /\ Goes(r, "leaving")
            \/ CleanupStatus(left) = "ok" /\ answer' = answer /\ Goes(r, "writing")
    /\ UNCHANGED <<command, slots, asked, over, child, outcome>>

\* A picture is too big for the buffers: its slot is held until the client has
\* read it, is gone, or the write times out.
WritePicture(r) ==
    /\ pc[r] = "writing"
    /\ Says(r, "ok")
    /\ Goes(r, "leaving")
    /\ UNCHANGED <<command, slots, asked, work>>

\* The deferred cancel and release; a text is written after that.
Leave(r) ==
    /\ pc[r] = "leaving"
    /\ slots' = Freed(r)
    /\ answer' = IF answer[r] = <<>> THEN [answer EXCEPT ![r] = <<"ok">>] ELSE answer
    /\ Goes(r, "flushing")
    /\ UNCHANGED <<command, asked, work>>

Handle(r) ==
    \/ Reject(r) \/ ListModels(r) \/ Admit(r) \/ Prepare(r) \/ Start(r)
    \/ RunEnds(r) \/ Judge(r) \/ Process(r) \/ WritePicture(r) \/ Leave(r)

\* The connection has written what was left and may carry another request.
Flush(r) ==
    /\ pc[r] = "flushing"
    /\ Goes(r, "idle")
    /\ kind' = [kind EXCEPT ![r] = ""] /\ auth' = [auth EXCEPT ![r] = FALSE]
    /\ over' = [over EXCEPT ![r] = FALSE]
    /\ outcome' = [outcome EXCEPT ![r] = ""]
    /\ dir' = [dir EXCEPT ![r] = "none"]
    /\ answer' = [answer EXCEPT ![r] = <<>>]
    /\ UNCHANGED <<command, slots, child>>

\* Mutant: a run has no deadline of its own.
Bounded_ByClient(r) == FALSE

Bounded(r) == Admitted(r)

RunDeadline(r) ==
    /\ Bounded(r) /\ ~over[r]
    /\ over' = [over EXCEPT ![r] = TRUE]
    /\ UNCHANGED <<command, slots, asked, pc, child, outcome, dir, answer>>

ClientGoes(r) ==
    /\ Handling(r) /\ ~over[r]
    /\ over' = [over EXCEPT ![r] = TRUE]
    /\ UNCHANGED <<command, slots, asked, pc, child, outcome, dir, answer>>

-----------------------------------------------------------------------------
(* The end of the command.                                                 *)

\* Every context derives from stopCtx.
Signal ==
    /\ phase = "serving" /\ ~stopped
    /\ stopped' = TRUE
    /\ over' = [r \in Clients |-> over[r] \/ Handling(r)]
    /\ UNCHANGED <<start, phase, address, grace, code, slots, asked, pc, child, outcome, dir, answer>>

Shutdown ==
    /\ phase = "serving" /\ stopped
    /\ phase' = "stopping"
    /\ grace' = "armed"
    /\ UNCHANGED <<start, address, stopped, code, slots, asked, pc, work, answer>>

GraceEnds ==
    /\ grace = "armed"
    /\ grace' = "expired"
    /\ UNCHANGED <<start, phase, address, stopped, code, slots, asked, pc, work, answer>>

\* Mutant: the error of Shutdown is dropped.
LateCode_Dropped == 0

LateCode == 5

ShutdownReturns ==
    /\ phase = "stopping"
    /\ \/ (\A r \in Clients : pc[r] = "idle") /\ Exit(0)
       \/ grace = "expired" /\ Exit(LateCode)

\* Accepting fails: the command ends and waits for nobody.
ServeFails ==
    /\ phase = "serving"
    /\ Exit(5)

Ended == phase = "exited" /\ UNCHANGED vars

Command == Refuse \/ BindName \/ Probe \/ Serve \/ Shutdown \/ ShutdownReturns

Alive == phase \in {"serving", "stopping"}

Next ==
    \/ Command \/ Signal \/ GraceEnds \/ ServeFails \/ Ended
    \/ /\ Alive
       /\ \E r \in Clients :
            Arrive(r) \/ Handle(r) \/ Frame(r) \/ Flush(r) \/ RunDeadline(r) \/ ClientGoes(r)

\* A run ends once its context has, a write by the write timeout.  For a bridge
\* the first is CallReturns of Subproc; the helper is sent its request on the
\* standard input, and it is assumed that no process it detached keeps that
\* unread (the package comment of subproc.go: a trusted child).
Fairness ==
    /\ WF_vars(Command) /\ WF_vars(GraceEnds)
    /\ \A r \in Clients :
         /\ WF_vars(Alive /\ pc[r] # "running" /\ Handle(r))
         /\ WF_vars(Alive /\ over[r] /\ RunEnds(r))
         /\ WF_vars(Alive /\ RunDeadline(r))

Spec == Init /\ [][Next]_vars /\ Fairness

-----------------------------------------------------------------------------
(* Properties.                                                             *)

\* The slots taken are those of the requests in hand: none is kept by a return
\* (after at most four of which all would be told the server is busy), none is
\* given back twice, and no more models run at a time than was asked for
\* (acquireCapacity and the deferred releases).
CapacityIsExact ==
    /\ slots = Cardinality({r \in Clients : Admitted(r)})
    /\ Cardinality({r \in Clients : child[r] = "running"}) <= Limit

\* Whoever is answered by a model had the token, or the server was told to do
\* without one and listens on this machine only; a server that others can
\* reach always has a token and the flag (guard and the checks of serve).
OnlyTheAuthorized ==
    /\ \A r \in Clients : Admitted(r) => auth[r] \/ (start.noAuth /\ address = "loopback")
    /\ address = "remote" => start.token = "long" /\ start.allowRemote

\* A request is answered exactly once; "server_busy", which asks the client to
\* come again, only if nothing was staged or run for it, and "rate_limited",
\* the other 429, only if the provider turned its run away (the contract of
\* rate_limit_contract_test.go: whoever repeats the first repeats nothing); 200
\* only if its run was good, and with a picture only when that is off the disk
\* again (acquireCapacity, writeRunResult, generateImageAdmitted).
AnswerIsTrue ==
    \A r \in Clients :
      /\ Len(answer[r]) <= 1
      /\ pc[r] = "flushing" => Len(answer[r]) = 1
      /\ pc[r] = "flushing" /\ answer[r] = <<"ok">> /\ kind[r] \notin {"models", "stream"} => outcome[r] = "ok"
      /\ answer[r] = <<"ok">> /\ kind[r] = "picture" => dir[r] = "none"
      /\ answer[r] = <<"server_busy">> => outcome[r] = "" /\ child[r] = "none" /\ dir[r] = "none"
      /\ answer[r] = <<"rate_limited">> => outcome[r] = "limited"

\* A child has its images as long as it runs; a handler leaves neither child
\* nor directory behind, except one that could not be removed; and a command
\* that ends with 0 has waited for all of them (runPrepared, serve).
NothingLeftBehind ==
    /\ \A r \in Clients : /\ child[r] = "running" /\ kind[r] = "images" => dir[r] = "there"
                          /\ ~Handling(r) => child[r] = "none" /\ dir[r] # "there"
    /\ code = 0 => \A r \in Clients : child[r] = "none" /\ dir[r] # "there"

\* Every handler returns, with its slot, whatever its model and its client do,
\* and a command that was told to stop stops.
AllEnds ==
    /\ \A r \in Clients : Handling(r) ~> (~Handling(r) \/ phase = "exited")
    /\ stopped ~> phase = "exited"
=============================================================================
