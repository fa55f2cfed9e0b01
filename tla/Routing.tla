------------------------------ MODULE Routing ------------------------------
(***************************************************************************)
(* Which bridge answers for a model (internal/runner: routespec.go,        *)
(* resolve.go, runner.go; internal/cli/bridges.go) and what one run of     *)
(* `shortcuts` is said to have been (internal/runner/shortcut.go): the     *)
(* pure part of the Shortcuts transport, used by Respond.                  *)
(*                                                                         *)
(* A bridge is referred to by the name of a shortcut, by a UUID, or by     *)
(* what a user wrote in the configuration, "" for none.                    *)
(***************************************************************************)
EXTENDS Integers, Sequences, FiniteSets, SequencesExt

CONSTANTS
    References,     \* what a bridge may be referred to by
    Uuids           \* those with the shape of a UUID

\* The concrete tiers; auto is a policy and local needs no bridge.
Tier  == {"cloud", "cloud-pro", "on-device", "chatgpt"}
Model == Tier \cup {"auto", "local"}

MeasuredOSMajor == 27

\* The route table: whether a tier takes images and how many, the names its
\* bridge is looked for under, in order, and a UUID that no Mac has.
Routes ==
    [ t \in Tier |->
        CASE t = "cloud" ->
               [images |-> 3, names |-> <<"Cloud.signed", "Cloud">>, compiled |-> "uuid-1"]
          [] t = "cloud-pro" ->
               [images |-> 3, names |-> <<"Cloud Pro.signed", "Cloud Pro">>, compiled |-> "uuid-2"]
          [] t = "on-device" ->
               [images |-> 0, names |-> <<"On-Device.signed", "On-Device">>, compiled |-> "uuid-3"]
          [] t = "chatgpt" ->
               [images |-> 1, names |-> <<"ChatGPT.signed", "ChatGPT">>, compiled |-> "uuid-4"] ]

Compiled == {Routes[t].compiled : t \in Tier}

\* validateRouteTable, and what is assumed of the references.
ASSUME RouteTable ==
    /\ \A t \in Tier : Routes[t].names # <<>> /\ Routes[t].images \in Nat
    /\ Cardinality(Compiled) = Cardinality(Tier)
    /\ \A t \in Tier : Range(Routes[t].names) \subseteq References \ {"", " "}
    /\ Compiled \subseteq Uuids /\ Uuids \subseteq References /\ "" \in References

SupportsImages(m) == m \in Tier /\ Routes[m].images > 0

\* The on-device run of auto is made only after a bridge that is missing or a
\* rate limit that was reported.

\* Mutant: an empty answer is tried elsewhere too.
FallbackEligible_NoOutput(kind) ==
    kind \in {"shortcut_missing", "rate_limited", "shortcut_no_output"}

FallbackEligible(kind) == kind \in {"shortcut_missing", "rate_limited"}

-----------------------------------------------------------------------------
(* Resolution.                                                             *)

Bridge(ref, source, available, verified) ==
    [ref |-> ref, source |-> source, available |-> available, verified |-> verified]

\* An override cannot be verified without a listing, nor ever if it is a UUID.
Overridden(ref, installed, listOK) ==
    IF ~listOK \/ ref \in Uuids
      THEN Bridge(ref, "configured-unverified", TRUE, FALSE)
      ELSE Bridge(ref, "config", ref \in installed, ref \in installed)

\* The first name in the listing, or the placeholder, which is no evidence.
Discovered(t, installed, listOK) ==
    LET names == Routes[t].names
        found == {i \in DOMAIN names : names[i] \in installed}
    IN  IF listOK /\ found # {}
          THEN Bridge(names[Min(found)], "shortcuts-list", TRUE, TRUE)
          ELSE Bridge(Routes[t].compiled, "compiled-uuid", FALSE, FALSE)

\* 0: the version could not be found out.
TooOld(t, osMajor) == t = "cloud-pro" /\ osMajor < MeasuredOSMajor

ResolveBridges(installed, listOK, osMajor, overrides) ==
    [ t \in Tier |->
        LET found == IF overrides[t] # "" THEN Overridden(overrides[t], installed, listOK)
                                          ELSE Discovered(t, installed, listOK)
        IN  IF TooOld(t, osMajor)
              THEN [found EXCEPT !.available = FALSE, !.verified = FALSE] ELSE found ]

\* Tiers a run of the model may ask.
Candidates(m) == IF m = "auto" THEN {"cloud", "on-device"} ELSE {m} \cap Tier

\* Only what the user configured survives a listing that failed.
CanAttemptAfterDiscoveryFailure(resolved, m) ==
    \E t \in Candidates(m) : /\ resolved[t].available
                             /\ resolved[t].source = "configured-unverified"

ModelAvailable(resolved, m) == \E t \in Candidates(m) : resolved[t].available

\* Mutant: what did not resolve is retargeted at its placeholder.
ResolvedRefs_All(resolved) == [t \in Tier |-> resolved[t].ref]

ResolvedRefs(resolved) ==
    [t \in Tier |-> IF resolved[t].available THEN resolved[t].ref ELSE ""]

\* An override of spaces, and one that `shortcuts` would read as a flag.
Blank(ref)    == ref \in {"", " "}
FlagLike(ref) == ref = "-x"

-----------------------------------------------------------------------------
(* The result of a child, as the subprocess runner hands it over.          *)

\* What Apple's texts on stderr say.
Diagnostic == {"declined", "rate limit", "not found"}

\* code -1: ended by the signal.  A stream is captured up to its cap.
Leader == [signal : {"", "ABRT", "KILL"}, code : {-1, 0, 1, 64}]
Exit(code) == [signal |-> "", code |-> code]
Killed     == [signal |-> "KILL", code |-> -1]
Clean(leader) == leader = Exit(0)

\* runErr: the context ended before the result was handed over, or a pipe
\* could not be read.
Result == [started : BOOLEAN, runErr : {"", "context", "read"}, leader : Leader,
           stdout : {"empty", "text", "over"}, stderr : SUBSET Diagnostic]
NotStarted == [started |-> FALSE, runErr |-> "", leader |-> Killed, stdout |-> "empty", stderr |-> {}]

\* ctx.Err(): what ended the context, or kind if nothing did.
ContextKind(ctx, kind) ==
    CASE ctx = "canceled" -> "context_canceled"
      [] ctx = "deadline" -> "timeout"
      [] OTHER            -> kind

FailureKind(leader, stderr) ==
    IF leader.signal = "ABRT" THEN "sigabrt"
    ELSE IF leader.signal # "" THEN "signal"
    ELSE IF leader.code < 0 THEN "transport"
    ELSE IF leader.code # 64 /\ "declined" \in stderr THEN "request_declined"
    ELSE IF "rate limit" \in stderr THEN "rate_limited"
    ELSE IF "not found" \in stderr THEN "shortcut_missing"
    ELSE IF leader.code = 64 THEN "usage"
    ELSE "shortcut_failed"

\* Mutant: the context is not asked again about a child that was killed.
KindOf_Stale(res, ctx) ==
    IF ~res.started THEN ContextKind(ctx, "transport")
    ELSE IF Clean(res.leader) /\ res.stdout = "empty"
      THEN IF "rate limit" \in res.stderr THEN "rate_limited" ELSE "shortcut_no_output"
    ELSE IF ~Clean(res.leader) THEN FailureKind(res.leader, res.stderr)
    ELSE IF res.stdout = "over" THEN "transport"
    ELSE ""

\* The error of a run, "" for an answer; ctx is read after the run returned.
KindOf(res, ctx) ==
    IF ~res.started \/ res.runErr # "" THEN ContextKind(ctx, "transport")
    ELSE IF Clean(res.leader) /\ res.stdout = "empty"
      THEN IF "rate limit" \in res.stderr THEN "rate_limited" ELSE "shortcut_no_output"
    ELSE IF ~Clean(res.leader) THEN ContextKind(ctx, FailureKind(res.leader, res.stderr))
    ELSE IF res.stdout = "over" THEN "transport"
    ELSE ""

\* ListShortcuts and listShortcutsResult: the error of a listing, "" when its
\* names are to be used; ctx is that of the listing, with its own deadline.
ListKind(res, ctx) ==
    IF ~res.started THEN ContextKind(ctx, "list_failure")
    ELSE IF ctx # "" THEN ContextKind(ctx, "list_failure")
    ELSE IF res.stdout = "over" \/ ~Clean(res.leader) \/ res.runErr # "" THEN "list_failure"
    ELSE ""

\* toCLIError: the exit code of the command.
ExitCode(kind) ==
    CASE kind = ""                              -> 0
      [] kind \in {"usage", "empty_prompt"}     -> 2
      [] kind = "shortcut_missing"              -> 3
      [] kind = "timeout"                       -> 7
      [] kind = "config"                        -> 10
      [] OTHER                                  -> 5
=============================================================================
