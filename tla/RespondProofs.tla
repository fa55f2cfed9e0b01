--------------------------- MODULE RespondProofs ---------------------------
(* `hollis respond` asks only the bridges it knows, with what it checked,  *)
(* is never answered twice and tells the truth about it, for any command   *)
(* lines, configurations, Macs and files.                                  *)
EXTENDS Respond, TLAPS

NoTemp == [dir |-> FALSE, prompt |-> FALSE]

\* A reference that a bridge of the tier was found under, or that was configured.
KnownAs(t, ref) ==
    /\ ref = config.bridges[t] \/ (ref \in listed /\ ref \in Range(Routes[t].names))
    /\ t = "cloud-pro" => major >= MeasuredOSMajor

Early == {"checking", "listing", "listed"}
Late  == {"tier", "running", "judging", "returned"}

\* Before the decision nothing was found, staged or asked.
Fresh ==
    /\ pc \in Early =>
         /\ (\A t \in Tier : refs[t] = "") /\ tier = "" /\ asked = <<>> /\ served = <<>>
         /\ staged = <<>> /\ temp = NoTemp
    /\ pc \in Early \cup {"staging"} => kind = ""
    /\ pc = "staging" => asked = <<>> /\ served = <<>>

\* What was decided about the bridges.
Routed ==
    /\ \A t \in Tier : refs[t] # "" => KnownAs(t, refs[t])
    /\ tier # "" => tier \in Candidates(model)
    /\ pc \in {"staging"} \cup Late => tier # ""
    /\ pc = "running" => ~Blank(refs[tier])

\* The child of the call that is made.
Called ==
    /\ child.running \/ child.ended => Calling
    /\ child.running => ~child.ended
    /\ child.ended => child.res.started
    /\ pc = "running" /\ (child.running \/ child.ended) => asked # <<>>
    /\ pc = "judging" /\ result.started => asked # <<>>

\* The images and the prompt that are on disk.
OnDisk ==
    /\ \A i \in DOMAIN staged : staged[i] = TRUE
    /\ Len(staged) <= Len(req.images)
    /\ pc \in Late => /\ Len(staged) = Len(req.images)
                      /\ req.images # <<>> => temp.dir
    /\ pc = "running" => temp.prompt
    /\ pc = "done" => temp = NoTemp

\* The result of a child that had answered.
Told(res) ==
    /\ res.started
    /\ \/ res.leader = Exit(0) /\ (res.stdout = "empty" => res.stderr = {})
       \/ res.leader \in {Exit(1), Killed, [signal |-> "ABRT", code |-> -1]} /\ res.stderr = {}

Answered ==
    /\ Len(served) <= 1
    /\ served # <<>> =>
         /\ served[1].tier = tier
         /\ \/ pc = "running" /\ child.ended /\ Told(child.res)
            \/ pc = "judging" /\ Told(result)
            \/ pc = "returned" /\ ~FallbackEligible(kind)
            \/ pc = "done"
    /\ pc = "running" /\ child.ended /\ child.res.stdout = "text" => served # <<>>
    /\ pc = "judging" /\ result.stdout = "text" => served # <<>>

\* What the error in hand says, and why.
Said ==
    /\ ctx = "canceled" => canceled
    /\ kind = "timeout" => timer = "expired" \/ ctx = "deadline"
    /\ kind = "context_canceled" => canceled
    /\ \A i \in DOMAIN asked : asked[i].killed => ctx # ""
    /\ pc \in {"returned", "done"} =>
         /\ kind = "" => /\ Clean(result.leader) /\ result.started /\ result.stdout = "text"
                         /\ result.runErr = "" /\ served # <<>>
         /\ kind \in {"signal", "sigabrt"} => asked # <<>> /\ ~asked[Len(asked)].killed
         /\ kind = "shortcut_missing" => Blank(refs[tier]) \/ "not found" \in result.stderr

IInv ==
    /\ TypeOK /\ Fresh /\ Routed /\ Called /\ OnDisk /\ Answered /\ Said
    /\ OnlyKnownBridges /\ InputsAsChecked
-----------------------------------------------------------------------------
(* The pure part.                                                          *)

\* Errors of runs and listings are errors.
LEMMA Errors ==
    ASSUME NEW res \in Result, NEW c \in {"", "canceled", "deadline"}
    PROVE  KindOf(res, c) \in Kinds /\ ListKind(res, c) \in Kinds
<1>1. \A k \in Kinds : ContextKind(c, k) \in Kinds
  BY DEF ContextKind, Kinds
<1>2. FailureKind(res.leader, res.stderr) \in Kinds
  BY DEF FailureKind, Kinds
<1>3. KindOf(res, c) \in Kinds
  BY <1>1, <1>2 DEF KindOf, Kinds
<1>4. ListKind(res, c) \in Kinds
  BY <1>1 DEF ListKind, Kinds
<1> QED BY <1>3, <1>4

\* What the kind of a run says about it.
LEMMA Kinded ==
    ASSUME NEW res \in Result, NEW c \in {"", "canceled", "deadline"}
    PROVE  /\ KindOf(res, c) = "timeout" => c = "deadline"
           /\ KindOf(res, c) = "context_canceled" => c = "canceled"
           /\ KindOf(res, c) \in {"signal", "sigabrt"} => res.started /\ c = ""
           /\ KindOf(res, c) = "shortcut_missing" => "not found" \in res.stderr
           /\ KindOf(res, c) = "" =>
                /\ Clean(res.leader) /\ res.started /\ res.stdout = "text" /\ res.runErr = ""
<1>1. FailureKind(res.leader, res.stderr) \notin {"timeout", "context_canceled", ""}
  BY DEF FailureKind
<1>2. FailureKind(res.leader, res.stderr) = "shortcut_missing" => "not found" \in res.stderr
  BY DEF FailureKind
<1>3. \A k : /\ ContextKind(c, k) = "timeout" => c = "deadline" \/ k = "timeout"
             /\ ContextKind(c, k) = "context_canceled" => c = "canceled" \/ k = "context_canceled"
             /\ ContextKind(c, k) \in {"signal", "sigabrt", "shortcut_missing", ""} =>
                  c = "" /\ ContextKind(c, k) = k
  BY DEF ContextKind
<1>4. res.stdout \in {"empty", "text", "over"}
  BY DEF Result
<1>5. CASE ~res.started \/ res.runErr # ""
  <2>1. KindOf(res, c) = ContextKind(c, "transport")
    BY <1>5 DEF KindOf
  <2> QED BY <1>3, <2>1
<1>6. CASE res.started /\ res.runErr = "" /\ ~Clean(res.leader)
  BY <1>1, <1>2, <1>3, <1>6 DEF KindOf
<1>7. CASE res.started /\ res.runErr = "" /\ Clean(res.leader)
  BY <1>4, <1>7 DEF KindOf
<1> QED BY <1>5, <1>6, <1>7

\* The code of a child that failed is neither a signal nor a usage error.
LEMMA Ordinary == ~(1 < 0) /\ 1 # 64
  OBVIOUS

\* A child that has answered is never asked a second time.
LEMMA NotAgain ==
    ASSUME NEW res \in Result, NEW c \in {"", "canceled", "deadline"}, Told(res)
    PROVE  ~FallbackEligible(KindOf(res, c))
<1>1. \A k : ContextKind(c, k) \in {k, "context_canceled", "timeout"}
  BY DEF ContextKind
<1>2. res.leader # Exit(0) => res.stderr = {}
  BY DEF Told
<1>3. res.leader # Exit(0) => FailureKind(res.leader, res.stderr) \in {"sigabrt", "signal", "shortcut_failed"}
  <2>1. /\ Killed.signal = "KILL"
        /\ [signal |-> "ABRT", code |-> -1].signal = "ABRT"
    BY DEF Exit, Killed
  <2>2. res.leader # Exit(0) =>
          res.leader \in {Exit(1), Killed, [signal |-> "ABRT", code |-> -1]} /\ res.stderr = {}
    BY DEF Told
  <2>3. CASE res.leader = Exit(1) /\ res.stderr = {}
    <3>1. res.leader.signal = Exit(1).signal /\ res.leader.code = Exit(1).code
      BY <2>3
    <3>2. Exit(1).signal = "" /\ Exit(1).code = 1
      BY DEF Exit
    <3>3. \A d : d \notin res.stderr
      BY <2>3
    <3> HIDE DEF Exit
    <3> QED BY <3>1, <3>2, <3>3, Ordinary DEF FailureKind
  <2>4. CASE res.leader = Killed
    BY <2>1, <2>4 DEF FailureKind
  <2>5. CASE res.leader = [signal |-> "ABRT", code |-> -1]
    BY <2>1, <2>5 DEF FailureKind
  <2> QED BY <2>2, <2>3, <2>4, <2>5
<1> QED BY <1>1, <1>2, <1>3 DEF KindOf, Clean, Told, FallbackEligible

\* The first name that is found is one of the names, and is there.
LEMMA FirstFound ==
    ASSUME NEW t \in Tier, NEW known, NEW found,
           found = {i \in DOMAIN Routes[t].names : Routes[t].names[i] \in known}, found # {}
    PROVE  /\ Routes[t].names[Min(found)] \in known
           /\ Routes[t].names[Min(found)] \in Range(Routes[t].names)
<1>1. DOMAIN Routes[t].names = {1, 2}
  <2>1. /\ Routes["cloud"].names = <<"Cloud.signed", "Cloud">>
        /\ Routes["cloud-pro"].names = <<"Cloud Pro.signed", "Cloud Pro">>
        /\ Routes["on-device"].names = <<"On-Device.signed", "On-Device">>
        /\ Routes["chatgpt"].names = <<"ChatGPT.signed", "ChatGPT">>
    BY DEF Routes, Tier
  <2>2. \A a, b : DOMAIN <<a, b>> = {1, 2}
    OBVIOUS
  <2>3. DOMAIN Routes["cloud"].names = {1, 2} /\ DOMAIN Routes["cloud-pro"].names = {1, 2}
    BY <2>1, <2>2
  <2>4. DOMAIN Routes["on-device"].names = {1, 2} /\ DOMAIN Routes["chatgpt"].names = {1, 2}
    BY <2>1, <2>2
  <2> QED BY <2>3, <2>4 DEF Tier
<1>2. \E i \in found : \A j \in found : i <= j
  BY <1>1
<1>3. Min(found) \in found
  BY <1>2 DEF Min
<1> QED BY <1>3 DEF Range

\* What an available bridge of a tier refers to.
LEMMA Resolution ==
    ASSUME NEW known, known \subseteq References, NEW ok \in BOOLEAN, NEW os \in Nat,
           NEW overrides \in [Tier -> References], NEW t \in Tier
    PROVE  LET resolved == ResolveBridges(known, ok, os, overrides)
               ref == ResolvedRefs(resolved)[t]
           IN  /\ ref \in References
               /\ ref # "" => /\ ref = overrides[t] \/ (ref \in known /\ ref \in Range(Routes[t].names))
                              /\ t = "cloud-pro" => os >= MeasuredOSMajor
<1> DEFINE found == IF overrides[t] # "" THEN Overridden(overrides[t], known, ok)
                                         ELSE Discovered(t, known, ok)
           resolved == ResolveBridges(known, ok, os, overrides)
<1>1. resolved[t] = IF TooOld(t, os)
                      THEN [found EXCEPT !.available = FALSE, !.verified = FALSE] ELSE found
  BY DEF ResolveBridges
<1>3. resolved[t].available => ~TooOld(t, os) /\ resolved[t] = found
  <2>1. \A ref, source, available, verified :
          ([Bridge(ref, source, available, verified) EXCEPT !.available = FALSE, !.verified = FALSE]).available = FALSE
    BY DEF Bridge
  <2>2. \E ref, source, available, verified : found = Bridge(ref, source, available, verified)
    BY DEF Overridden, Discovered
  <2> HIDE DEF found
  <2> QED BY <1>1, <2>1, <2>2
<1>4. overrides[t] # "" => found.ref = overrides[t]
  <2>1. Overridden(overrides[t], known, ok).ref = overrides[t]
    BY DEF Overridden, Bridge
  <2> QED BY <2>1
<1>5. found.available /\ overrides[t] = "" =>
        found.ref \in known /\ found.ref \in Range(Routes[t].names)
  <2> SUFFICES ASSUME found.available, overrides[t] = ""
               PROVE  found.ref \in known /\ found.ref \in Range(Routes[t].names)
    OBVIOUS
  <2> DEFINE names == Routes[t].names
             there == {i \in DOMAIN names : names[i] \in known}
  <2>1. found = Discovered(t, known, ok)
    OBVIOUS
  <2>2. CASE ok /\ there # {}
    <3>1. found = Bridge(names[Min(there)], "shortcuts-list", TRUE, TRUE)
      BY <2>1, <2>2 DEF Discovered
    <3>2. found.ref = names[Min(there)]
      <4> HIDE DEF found, there, names
      <4> QED BY <3>1 DEF Bridge
    <3> QED BY <2>2, <3>2, FirstFound
  <2>3. CASE ~(ok /\ there # {})
    <3>1. found = Bridge(Routes[t].compiled, "compiled-uuid", FALSE, FALSE)
      BY <2>1, <2>3 DEF Discovered
    <3>2. ~found.available
      <4> HIDE DEF found, there, names
      <4> QED BY <3>1 DEF Bridge
    <3> QED BY <3>2
  <2> QED BY <2>2, <2>3
<1>6. ResolvedRefs(resolved)[t] = IF resolved[t].available THEN resolved[t].ref ELSE ""
  BY DEF ResolvedRefs
<1>7. "" \in References
  BY RouteTable
<1>8. t = "cloud-pro" /\ ~TooOld(t, os) => os >= MeasuredOSMajor
  BY DEF TooOld, MeasuredOSMajor
<1> HIDE DEF found, resolved
<1>9. LET ref == ResolvedRefs(resolved)[t]
      IN  /\ ref \in References
          /\ ref # "" => /\ ref = overrides[t] \/ (ref \in known /\ ref \in Range(Routes[t].names))
                         /\ t = "cloud-pro" => os >= MeasuredOSMajor
  BY <1>3, <1>4, <1>5, <1>6, <1>7, <1>8
<1> QED BY <1>9 DEF resolved

-----------------------------------------------------------------------------
(* Types.                                                                  *)

\* Records that are assigned as a whole.
LEMMA Records ==
    /\ NotStarted \in Result /\ NoChild \in Process /\ NoImage \in Picture /\ NoTemp \in Files
    /\ ~NotStarted.started /\ NotStarted.stdout = "empty"
    /\ ~NoChild.running /\ ~NoChild.ended /\ ~NoTemp.dir /\ ~NoTemp.prompt
<1>1. Killed \in Leader
  BY DEF Killed, Leader
<1>2. NotStarted \in Result /\ ~NotStarted.started /\ NotStarted.stdout = "empty"
  BY <1>1 DEF NotStarted, Result
<1>3. NoChild \in Process /\ ~NoChild.running /\ ~NoChild.ended
  BY <1>2 DEF NoChild, Process
<1> QED BY <1>2, <1>3 DEF NoImage, Picture, NoTemp, Files

\* How a child may end.
LEMMA Ending ==
    ASSUME NEW leader, leader \in {Exit(0), Exit(1), Exit(64), Killed, [signal |-> "ABRT", code |-> -1]},
           NEW stdout \in {"empty", "text", "over"}, NEW said \in SUBSET Diagnostic,
           NEW holds \in BOOLEAN, Ends(leader, stdout, said, holds)
    PROVE  /\ child' \in Process /\ child'.res \in Result
           /\ ~child'.running /\ child'.ended /\ child'.res.started
           /\ child'.res.leader = leader /\ child'.res.stdout = stdout /\ child'.res.stderr = said
<1>1. leader \in Leader
  <2>1. Exit(0) \in Leader /\ Exit(1) \in Leader /\ Exit(64) \in Leader
    BY DEF Exit, Leader
  <2>2. Killed \in Leader /\ [signal |-> "ABRT", code |-> -1] \in Leader
    BY DEF Killed, Leader
  <2> QED BY <2>1, <2>2
<1> DEFINE res == [started |-> TRUE, runErr |-> "", leader |-> leader, stdout |-> stdout, stderr |-> said]
<1>2. res \in Result
  BY <1>1 DEF Result
<1>3. child' = [running |-> FALSE, ended |-> TRUE, holds |-> holds, res |-> res]
  BY DEF Ends
<1>4. res.started /\ res.leader = leader /\ res.stdout = stdout /\ res.stderr = said
  OBVIOUS
<1> HIDE DEF res
<1> QED BY <1>2, <1>3, <1>4 DEF Process

\* What the checks refuse with, and what they let through.
LEMMA Checks ==
    /\ Refusal(req, config) \in {"usage", "config", ""}
    /\ Refusal(req, config) = "" => EffectiveModel(req, config) \in Model
<1>1. Refusal(req, config) \in {"usage", "config", ""}
  BY DEF Refusal
<1>2. Refusal(req, config) = "" => EffectiveModel(req, config) \in Model
  BY DEF Refusal
<1> QED BY <1>1, <1>2

\* What is decided about the bridges is what an available one refers to.
LEMMA Decision ==
    ASSUME TypeOK, Decide
    PROVE  /\ kind' \in Kinds /\ refs' \in [Tier -> References] /\ tier' \in Tier \cup {""}
           /\ \/ pc' = "done" /\ kind' # "" /\ refs' = refs /\ tier' = tier /\ timer' = timer /\ ctx' = ctx
              \/ /\ pc' = IF req.images # <<>> THEN "staging" ELSE "tier"
                 /\ kind' = kind
                 /\ tier' \in Candidates(model) /\ tier' # ""
                 /\ \A t \in Tier : refs'[t] # "" => KnownAs(t, refs'[t])
                 /\ timer' = "armed" /\ ctx' = IF canceled THEN "canceled" ELSE ""
           /\ kind' # kind => /\ kind' = "timeout" => ctx = "deadline"
                              /\ kind' = "context_canceled" => ctx = "canceled"
                              /\ kind' \notin {"shortcut_missing", "signal", "sigabrt"}
<1>1. PICK osMajor \in {major, 0} :
        LET error    == ListKind(result, ctx)
            resolved == ResolveBridges(listed, error = "", osMajor, config.bridges)
            failed   == IF error # "" /\ ~CanAttemptAfterDiscoveryFailure(resolved, model) THEN error
                        ELSE IF ~ModelAvailable(resolved, model) THEN "usage"
                        ELSE ""
        IN  \/ /\ failed # ""
               /\ kind' = failed
               /\ Goto("done")
               /\ UNCHANGED <<refs, tier, timer, ctx>>
            \/ /\ failed = ""
               /\ refs' = ResolvedRefs(resolved)
               /\ tier' = IF model = "auto" THEN "cloud" ELSE model
               /\ timer' = "armed"
               /\ ctx' = IF canceled THEN "canceled" ELSE ""
               /\ Goto(IF req.images # <<>> THEN "staging" ELSE "tier")
               /\ UNCHANGED kind
  BY DEF Decide
<1> DEFINE error    == ListKind(result, ctx)
           resolved == ResolveBridges(listed, error = "", osMajor, config.bridges)
           failed   == IF error # "" /\ ~CanAttemptAfterDiscoveryFailure(resolved, model) THEN error
                       ELSE IF ~ModelAvailable(resolved, model) THEN "usage"
                       ELSE ""
<1>2. /\ result \in Result /\ ctx \in {"", "canceled", "deadline"} /\ listed \subseteq References
      /\ config \in Config /\ major \in Nat /\ kind \in Kinds /\ refs \in [Tier -> References]
      /\ tier \in Tier \cup {""}
  BY DEF TypeOK
<1>3. error \in Kinds
  BY <1>2, Errors
<1>4. /\ error = "timeout" => ctx = "deadline"
      /\ error = "context_canceled" => ctx = "canceled"
      /\ error \notin {"shortcut_missing", "signal", "sigabrt"}
  BY <1>2 DEF ListKind, ContextKind
<1>5. failed \in Kinds /\ failed \in {error, "usage", ""}
  BY <1>3 DEF Kinds
<1>6. failed = "" => ModelAvailable(resolved, model)
  <2> HIDE DEF resolved
  <2> QED OBVIOUS
<1>7. ModelAvailable(resolved, model) =>
        (IF model = "auto" THEN "cloud" ELSE model) \in Candidates(model)
  <2>1. ModelAvailable(resolved, model) => \E t \in Candidates(model) : TRUE
    BY DEF ModelAvailable
  <2> QED BY <2>1 DEF Candidates
<1>8. Candidates(model) \subseteq Tier /\ "" \notin Tier
  BY DEF Candidates, Tier
<1>9. \A t \in Tier : /\ ResolvedRefs(resolved)[t] \in References
                      /\ ResolvedRefs(resolved)[t] # "" => KnownAs(t, ResolvedRefs(resolved)[t])
  <2> TAKE t \in Tier
  <2>1. config.bridges \in [Tier -> References]
    BY <1>2 DEF Config
  <2> DEFINE ok == error = ""
             ref == ResolvedRefs(ResolveBridges(listed, ok, osMajor, config.bridges))[t]
  <2>2. /\ ResolvedRefs(resolved)[t] \in References
        /\ ResolvedRefs(resolved)[t] # "" =>
             /\ \/ ResolvedRefs(resolved)[t] = config.bridges[t]
                \/ ResolvedRefs(resolved)[t] \in listed /\ ResolvedRefs(resolved)[t] \in Range(Routes[t].names)
             /\ t = "cloud-pro" => osMajor >= MeasuredOSMajor
    <3>1. osMajor \in Nat
      <4>1. major \in Nat
        BY <1>2
      <4>2. osMajor = major \/ osMajor = 0
        OBVIOUS
      <4>3. 0 \in Nat
        OBVIOUS
      <4> QED BY <4>1, <4>2, <4>3
    <3>2. ok \in BOOLEAN
      OBVIOUS
    <3>3. /\ ref \in References
          /\ ref # "" => /\ ref = config.bridges[t] \/ (ref \in listed /\ ref \in Range(Routes[t].names))
                         /\ t = "cloud-pro" => osMajor >= MeasuredOSMajor
      <4> HIDE DEF ok
      <4>1. listed \subseteq References
        BY <1>2
      <4> QED BY <2>1, <3>1, <3>2, <4>1, Resolution, ZenonT(40)
    <3> QED BY <3>3
  <2>3. osMajor >= MeasuredOSMajor => major >= MeasuredOSMajor
    <3>1. ~(0 >= MeasuredOSMajor)
      BY DEF MeasuredOSMajor
    <3> QED BY <3>1
  <2> HIDE DEF resolved
  <2> QED BY <2>2, <2>3 DEF KnownAs
<1>10. ResolvedRefs(resolved) \in [Tier -> References]
  <2>1. \A t \in Tier : (IF resolved[t].available THEN resolved[t].ref ELSE "") = ResolvedRefs(resolved)[t]
    BY DEF ResolvedRefs
  <2>2. ResolvedRefs(resolved) = [t \in Tier |-> IF resolved[t].available THEN resolved[t].ref ELSE ""]
    BY DEF ResolvedRefs
  <2> HIDE DEF resolved
  <2> QED BY <1>9, <2>1, <2>2
<1>11. \/ /\ failed # "" /\ kind' = failed /\ pc' = "done"
          /\ refs' = refs /\ tier' = tier /\ timer' = timer /\ ctx' = ctx
       \/ /\ failed = ""
          /\ refs' = ResolvedRefs(resolved)
          /\ tier' = IF model = "auto" THEN "cloud" ELSE model
          /\ timer' = "armed"
          /\ ctx' = IF canceled THEN "canceled" ELSE ""
          /\ pc' = IF req.images # <<>> THEN "staging" ELSE "tier"
          /\ kind' = kind
  BY <1>1 DEF Goto
<1> HIDE DEF error, resolved, failed
<1> QED BY <1>2, <1>4, <1>5, <1>6, <1>7, <1>8, <1>9, <1>10, <1>11

\* Types: the checks and the calls.
LEMMA TypeCall ==
    ASSUME IInv, Refuse \/ UseHelper \/ StartListing \/ NotSpawned \/ Spawn \/ Kill \/ CallReturns
    PROVE  TypeOK'
<1> USE DEF world, inputs, context, routing, staging, history
<1>1. CASE Refuse
  <2>1. kind' \in Kinds /\ pc' \in Places
    BY <1>1, Checks DEF Refuse, Goto, Kinds, Places
  <2> QED BY <1>1, <2>1 DEF Refuse, TypeOK, IInv
<1>2. CASE UseHelper
  <2>1. model' \in Model \cup {""} /\ pc' \in Places
    BY <1>2 DEF UseHelper, Goto, Model, Places
  <2> QED BY <1>2, <2>1 DEF UseHelper, TypeOK, IInv
<1>3. CASE StartListing
  <2>1. model' \in Model \cup {""} /\ pc' \in Places /\ timer' \in {"off", "armed", "expired"}
    BY <1>3, Checks DEF StartListing, Goto, Places, ListDeadline
  <2> QED BY <1>3, <2>1 DEF StartListing, TypeOK, IInv
<1>4. CASE NotSpawned
  <2>1. pc' \in Places /\ result' \in Result
    BY <1>4, Records DEF NotSpawned, Goto, Places
  <2> QED BY <1>4, <2>1 DEF NotSpawned, TypeOK, IInv
<1>5. CASE Spawn
  <2>1. child' \in Process
    BY <1>5, Records DEF Spawn, Process, NoChild
  <2>2. pc = "running" => [tier |-> tier, ref |-> refs[tier], killed |-> FALSE] \in Run
    <3>1. pc = "running" => tier \in Tier
      BY DEF IInv, TypeOK, Routed, Late
    <3>2. tier \in Tier => refs[tier] \in References
      BY DEF IInv, TypeOK
    <3> QED BY <3>1, <3>2 DEF Run
  <2>3. asked' \in Seq(Run)
    <3>1. asked \in Seq(Run)
      BY DEF IInv, TypeOK
    <3>2. asked' = asked \/ \E run \in Run : asked' = Append(asked, run)
      BY <1>5, <2>2 DEF Spawn
    <3> QED BY <3>1, <3>2
  <2> QED BY <1>5, <2>1, <2>3 DEF Spawn, TypeOK, IInv
<1>6. CASE Kill
  <2>1. child' \in Process
    BY <1>6, Ending DEF Kill
  <2>2. asked' \in Seq(Run)
    <3>1. asked \in Seq(Run)
      BY DEF IInv, TypeOK
    <3>2. asked' = asked \/ (asked' = [asked EXCEPT ![Len(asked)].killed = TRUE] /\ asked # <<>>)
      BY <1>6 DEF Kill, Called, IInv
    <3>3. asked # <<>> => [asked EXCEPT ![Len(asked)].killed = TRUE] \in Seq(Run)
      <4>1. \A run \in Run : [run EXCEPT !.killed = TRUE] \in Run
        BY DEF Run
      <4>2. asked # <<>> => Len(asked) \in DOMAIN asked /\ asked[Len(asked)] \in Run
        BY <3>1
      <4> QED BY <3>1, <4>1, <4>2
    <3> QED BY <3>1, <3>2, <3>3
  <2> QED BY <1>6, <2>1, <2>2 DEF Kill, TypeOK, IInv
<1>7. CASE CallReturns
  <2>1. child.res \in Result
    BY DEF IInv, TypeOK, Process
  <2>2. PICK runErr \in {"", "context", "read"} : result' = [child.res EXCEPT !.runErr = runErr]
    BY <1>7 DEF CallReturns
  <2>3. result' \in Result
    BY <2>1, <2>2 DEF Result
  <2>4. child' \in Process /\ pc' \in Places
    BY <1>7, Records DEF CallReturns, Goto, Places
  <2> QED BY <1>7, <2>3, <2>4 DEF CallReturns, TypeOK, IInv
<1> QED BY <1>1, <1>2, <1>3, <1>4, <1>5, <1>6, <1>7

\* What the child of a call does to it.
LEMMA Childhood ==
    ASSUME IInv, Child
    PROVE  /\ child' \in Process /\ child'.res \in Result
           /\ ~child'.running /\ child'.ended /\ child'.res.started
           /\ \/ pc = "listing" /\ served' = served
              \/ pc = "running" /\ child'.res.stdout = "empty" /\ served' = served
              \/ pc = "running" /\ Told(child'.res) /\ served' = Append(served, Reads)
<1>1. CASE Lists
  <2>1. PICK stdout \in {"empty", "text", "over"}, holds \in BOOLEAN :
          \E leader \in {Exit(0), Exit(1)} : Ends(leader, stdout, {}, holds)
    BY <1>1 DEF Lists
  <2> QED BY <1>1, <2>1, Ending DEF Lists, history
<1>2. CASE Answers
  <2>1. PICK stdout \in {"empty", "text", "over"}, holds \in BOOLEAN :
          \E said \in IF stdout = "text" THEN {{}, {"rate limit"}} ELSE {{}} :
            Ends(Exit(0), stdout, said, holds)
    BY <1>2 DEF Answers
  <2>2. PICK said \in SUBSET Diagnostic :
          Ends(Exit(0), stdout, said, holds) /\ (stdout = "empty" => said = {})
    BY <2>1 DEF Diagnostic
  <2>3. /\ child' \in Process /\ child'.res \in Result
        /\ ~child'.running /\ child'.ended /\ child'.res.started
        /\ child'.res.leader = Exit(0) /\ child'.res.stdout = stdout /\ child'.res.stderr = said
    BY <2>2, Ending
  <2>4. Told(child'.res)
    BY <2>2, <2>3 DEF Told
  <2> QED BY <1>2, <2>3, <2>4 DEF Answers
<1>3. CASE Crashes
  <2>1. PICK leader \in {Exit(1), Killed, [signal |-> "ABRT", code |-> -1]} :
          Ends(leader, "empty", {}, FALSE)
    BY <1>3 DEF Crashes
  <2>2. /\ child' \in Process /\ child'.res \in Result
        /\ ~child'.running /\ child'.ended /\ child'.res.started
        /\ child'.res.leader = leader /\ child'.res.stderr = {}
    <3>1. {} \in SUBSET Diagnostic
      OBVIOUS
    <3>2. leader \in {Exit(0), Exit(1), Exit(64), Killed, [signal |-> "ABRT", code |-> -1]}
      OBVIOUS
    <3> QED BY <2>1, <3>1, <3>2, Ending, ZenonT(40)
  <2>3. Told(child'.res)
    BY <2>2 DEF Told
  <2> QED BY <1>3, <2>2, <2>3 DEF Crashes
<1>4. CASE Fails
  <2>1. PICK said \in SUBSET Diagnostic, code \in {0, 1, 64} : Ends(Exit(code), "empty", said, FALSE)
    BY <1>4 DEF Fails
  <2> QED BY <1>4, <2>1, Ending DEF Fails, history
<1> QED BY <1>1, <1>2, <1>3, <1>4 DEF Child

\* Types: the children and the decision.
LEMMA TypeChild ==
    ASSUME IInv, Child \/ Decide
    PROVE  TypeOK'
<1> USE DEF world, inputs, context, routing, staging, history
<1>1. CASE Lists
  <2>1. child' \in Process
    BY <1>1, Childhood DEF Child
  <2>2. listed' \subseteq References
    BY <1>1 DEF Lists, IInv, TypeOK
  <2> QED BY <1>1, <2>1, <2>2 DEF Lists, TypeOK, IInv
<1>2. CASE Answers \/ Crashes
  <2>1. child' \in Process
    BY <1>2, Childhood DEF Child
  <2>2. Reads \in Reading
    <3>1. tier \in Tier
      BY <1>2 DEF Answers, Crashes, IInv, TypeOK, Routed, Late
    <3>2. temp.prompt \in BOOLEAN
      BY DEF IInv, TypeOK, Files
    <3>3. (IF temp.dir THEN staged ELSE <<>>) \in Seq(BOOLEAN)
      <4>1. staged \in Seq(BOOLEAN)
        BY DEF IInv, TypeOK
      <4>2. <<>> \in Seq(BOOLEAN)
        OBVIOUS
      <4> QED BY <4>1, <4>2
    <3> QED BY <3>1, <3>2, <3>3 DEF Reads, Reading
  <2>3. served' \in Seq(Reading)
    <3>1. served \in Seq(Reading) /\ served' = Append(served, Reads)
      BY <1>2 DEF Answers, Crashes, IInv, TypeOK
    <3> QED BY <2>2, <3>1
  <2> QED BY <1>2, <2>1, <2>3 DEF Answers, Crashes, TypeOK, IInv
<1>3. CASE Fails
  <2>1. child' \in Process
    BY <1>3, Childhood DEF Child
  <2> QED BY <1>3, <2>1 DEF Fails, TypeOK, IInv
<1>4. CASE Decide
  <2>1. kind' \in Kinds /\ refs' \in [Tier -> References] /\ tier' \in Tier \cup {""}
    BY <1>4, Decision DEF IInv
  <2>2. pc' \in Places /\ timer' \in {"off", "armed", "expired"} /\ ctx' \in {"", "canceled", "deadline"}
    BY <1>4, Decision DEF IInv, TypeOK, Places
  <2>3. result' \in Result
    BY <1>4, Records DEF Decide
  <2> QED BY <1>4, <2>1, <2>2, <2>3 DEF Decide, TypeOK, IInv
<1> QED BY <1>1, <1>2, <1>3, <1>4 DEF Child

\* Types: the images.
LEMMA TypeStage ==
    ASSUME IInv, StageDirectory \/ Inspect \/ Read \/ WriteStaged \/ ImagesStaged
    PROVE  TypeOK'
<1> USE DEF world, inputs, context, routing, staging, history
<1>1. /\ temp \in Files /\ pc \in Places /\ kind \in Kinds /\ image \in Picture /\ staged \in Seq(BOOLEAN)
      /\ [temp EXCEPT !.dir = TRUE] \in Files
  BY DEF IInv, TypeOK, Files
<1>2. \A error : Finish(error) => kind' = error /\ temp' \in Files /\ pc' \in Places
  BY Records DEF Finish, Goto, Places, NoTemp
<1>3. CASE StageDirectory
  <2>1. kind' \in Kinds /\ temp' \in Files /\ pc' \in Places
    BY <1>1, <1>2, <1>3 DEF StageDirectory, Kinds
  <2> QED BY <1>3, <2>1 DEF StageDirectory, TypeOK, IInv
<1>4. CASE Inspect
  <2>1. kind' \in Kinds /\ temp' \in Files /\ pc' \in Places
    BY <1>1, <1>2, <1>4 DEF Inspect, Kinds
  <2>2. image' \in Picture
    <3>1. req.images \in Seq(Paths) /\ at \in [Paths -> Inodes \cup {NoInode}] /\ staged \in Seq(BOOLEAN)
      BY DEF IInv, TypeOK, Request
    <3>2. Len(staged) < Len(req.images)
      BY <1>4 DEF Inspect, Pending
    <3>3. Path \in Paths
      BY <3>1, <3>2 DEF Path
    <3>4. [NoImage EXCEPT !.inode = at[Path]] \in Picture
      BY <3>1, <3>3 DEF NoImage, Picture
    <3> QED BY <1>4, <3>4, Records DEF Inspect
  <2> QED BY <1>4, <2>1, <2>2 DEF Inspect, TypeOK, IInv
<1>5. CASE Read
  <2>1. kind' \in Kinds /\ temp' \in Files /\ pc' \in Places
    BY <1>1, <1>2, <1>5 DEF Read, Kinds
  <2>2. image' \in Picture
    BY <1>1, <1>5, Records DEF Read, Picture
  <2> QED BY <1>5, <2>1, <2>2 DEF Read, TypeOK, IInv
<1>6. CASE WriteStaged
  <2>1. kind' \in Kinds /\ temp' \in Files /\ pc' \in Places
    BY <1>1, <1>2, <1>6 DEF WriteStaged, Kinds
  <2>2. image' \in Picture
    BY <1>6, Records DEF WriteStaged
  <2>3. staged' \in Seq(BOOLEAN)
    <3>1. StagedBytes \in BOOLEAN
      BY <1>1 DEF StagedBytes, Picture
    <3> QED BY <1>1, <1>6, <3>1 DEF WriteStaged
  <2> QED BY <1>6, <2>1, <2>2, <2>3 DEF WriteStaged, TypeOK, IInv
<1>7. CASE ImagesStaged
  <2>1. pc' \in Places
    BY <1>7 DEF ImagesStaged, Goto, Places
  <2> QED BY <1>7, <2>1 DEF ImagesStaged, TypeOK, IInv
<1> QED BY <1>3, <1>4, <1>5, <1>6, <1>7

\* Types: the tiers.
LEMMA TypeTier ==
    ASSUME IInv, RefuseTier \/ StagePrompt \/ Judge \/ FallBack \/ Return
    PROVE  TypeOK'
<1> USE DEF world, inputs, context, routing, staging, history
<1>1. /\ temp \in Files /\ pc \in Places /\ kind \in Kinds
      /\ [temp EXCEPT !.prompt = TRUE] \in Files /\ [temp EXCEPT !.prompt = FALSE] \in Files
  BY DEF IInv, TypeOK, Files
<1>2. CASE RefuseTier
  <2>1. kind' \in Kinds /\ pc' \in Places
    BY <1>2 DEF RefuseTier, TierRefusal, Goto, Kinds, Places
  <2> QED BY <1>2, <2>1 DEF RefuseTier, TypeOK, IInv
<1>3. CASE StagePrompt
  <2>1. kind' \in Kinds /\ temp' \in Files /\ pc' \in Places
    BY <1>1, <1>3 DEF StagePrompt, Goto, Kinds, Places
  <2> QED BY <1>3, <2>1 DEF StagePrompt, TypeOK, IInv
<1>4. CASE Judge
  <2>1. kind' \in Kinds
    BY <1>4, Errors DEF Judge, IInv, TypeOK
  <2>2. temp' \in Files /\ pc' \in Places
    BY <1>1, <1>4 DEF Judge, Goto, Places
  <2> QED BY <1>4, <2>1, <2>2 DEF Judge, TypeOK, IInv
<1>5. CASE FallBack
  <2>1. tier' \in Tier \cup {""} /\ result' \in Result /\ pc' \in Places
    BY <1>5, Records DEF FallBack, Goto, Places, Tier
  <2> QED BY <1>5, <2>1 DEF FallBack, TypeOK, IInv
<1>6. CASE Return
  <2>1. kind' \in Kinds /\ temp' \in Files /\ pc' \in Places
    BY <1>1, <1>6, Records DEF Return, Finish, Goto, Places, NoTemp
  <2> QED BY <1>6, <2>1 DEF Return, TypeOK, IInv
<1> QED BY <1>2, <1>3, <1>4, <1>5, <1>6

\* Types: time, signals, others.
LEMMA TypeWorld ==
    ASSUME IInv, Expire \/ Fire \/ Interrupt \/ Edit \/ UNCHANGED vars
    PROVE  TypeOK'
<1> USE DEF world, inputs, context, routing, staging, history
<1>1. CASE Expire
  BY <1>1 DEF Expire, TypeOK, IInv
<1>2. CASE Fire
  BY <1>2 DEF Fire, TypeOK, IInv
<1>3. CASE Interrupt
  BY <1>3 DEF Interrupt, TypeOK, IInv
<1>4. CASE Edit
  <2>1. at \in [Paths -> Inodes \cup {NoInode}] /\ bytes \in [Inodes -> BOOLEAN] /\ installed \subseteq References
    BY DEF IInv, TypeOK
  <2>2. /\ at' \in [Paths -> Inodes \cup {NoInode}] /\ bytes' \in [Inodes -> BOOLEAN]
        /\ installed' \subseteq References
    BY <1>4, <2>1 DEF Edit
  <2>3. edits' \in 0 .. MaxEdits
    <3>1. edits \in 0 .. MaxEdits /\ edits' = edits + 1 /\ edits < MaxEdits
      BY <1>4 DEF Edit, IInv, TypeOK
    <3>2. MaxEdits \in Nat
      BY RespondConstants
    <3> QED BY <3>1, <3>2
  <2> QED BY <1>4, <2>2, <2>3 DEF Edit, TypeOK, IInv
<1>5. CASE UNCHANGED vars
  BY <1>5 DEF vars, TypeOK, IInv
<1> QED BY <1>1, <1>2, <1>3, <1>4, <1>5

\* Every step keeps the types.
LEMMA TypeStep ==
    ASSUME IInv, [Next]_vars
    PROVE  TypeOK'
BY TypeCall, TypeChild, TypeStage, TypeTier, TypeWorld DEF Next, Command, Child, Ended

-----------------------------------------------------------------------------
(* Each part of the invariant is kept.                                     *)

\* What comes before the decision is left once.
LEMMA FreshStep ==
    ASSUME IInv, [Next]_vars
    PROVE  Fresh'
<1> USE DEF world, inputs, context, routing, staging, history, Fresh, Early, Goto
<1> Fresh /\ TypeOK
  BY DEF IInv
<1>1. CASE Refuse \/ UseHelper \/ StartListing
  BY <1>1 DEF Refuse, UseHelper, StartListing
<1>2. CASE NotSpawned
  BY <1>2 DEF NotSpawned, Calling
<1>3. CASE Spawn \/ Kill
  BY <1>3 DEF Spawn, Kill
<1>4. CASE CallReturns
  BY <1>4 DEF CallReturns, Calling
<1>5. CASE Child
  BY <1>5 DEF Child, Lists, Answers, Crashes, Fails
<1>6. CASE Decide
  <2>1. pc = "listed" /\ staging' = staging /\ history' = history /\ temp' = temp
    BY <1>6 DEF Decide
  <2>2. pc' \in {"done", "tier"} \/ (pc' = "staging" /\ kind' = kind)
    BY <1>6, Decision
  <2> QED BY <2>1, <2>2
<1>7. CASE StageDirectory \/ Inspect \/ Read \/ WriteStaged \/ ImagesStaged
  BY <1>7 DEF StageDirectory, Inspect, Read, WriteStaged, ImagesStaged, Pending, Finish
<1>8. CASE RefuseTier \/ StagePrompt \/ Judge \/ FallBack \/ Return
  BY <1>8 DEF RefuseTier, StagePrompt, Judge, FallBack, Return, Finish
<1>9. CASE Expire \/ Fire \/ Interrupt \/ Edit \/ UNCHANGED vars
  BY <1>9 DEF Expire, Fire, Interrupt, Edit, vars
<1> QED
  BY <1>1, <1>2, <1>3, <1>4, <1>5, <1>6, <1>7, <1>8, <1>9 DEF Next, Command, Ended

\* What was decided stays true of what is asked.
LEMMA RoutedStep ==
    ASSUME IInv, [Next]_vars
    PROVE  Routed'
<1> USE DEF inputs, routing, Goto
<1>1. /\ refs \in [Tier -> References] /\ tier \in Tier \cup {""} /\ Routed /\ Fresh
  BY DEF IInv, TypeOK
<1> DEFINE Kept == /\ refs' = refs /\ tier' = tier /\ model' = model
                   /\ config' = config /\ listed' = listed /\ major' = major
<1>2. Kept /\ (pc' \in {"staging"} \cup Late => pc \in {"staging"} \cup Late) /\ (pc' = "running" => pc = "running")
        => Routed'
  BY <1>1 DEF Routed, KnownAs
<1>3. CASE Refuse
  BY <1>2, <1>3 DEF Refuse, Late
<1>4. CASE UseHelper \/ StartListing
  BY <1>1, <1>4 DEF UseHelper, StartListing, Routed, Fresh, Early, Late
<1>5. CASE NotSpawned \/ CallReturns
  BY <1>2, <1>5 DEF NotSpawned, CallReturns, Calling, Late
<1>6. CASE Spawn \/ Kill
  BY <1>2, <1>6 DEF Spawn, Kill
<1>7. CASE Lists
  BY <1>1, <1>7 DEF Lists, Routed, Fresh, Early, Late
<1>8. CASE Answers \/ Crashes \/ Fails
  BY <1>2, <1>8 DEF Answers, Crashes, Fails
<1>9. CASE Decide
  <2>1. /\ config' = config /\ major' = major /\ listed' = listed /\ model' = model
    BY <1>9 DEF Decide
  <2>2. CASE pc' = "done" /\ refs' = refs /\ tier' = tier
    BY <1>2, <2>1, <2>2 DEF Late
  <2>3. CASE /\ pc' \in {"staging", "tier"} /\ tier' \in Candidates(model) /\ tier' # ""
             /\ \A t \in Tier : refs'[t] # "" => KnownAs(t, refs'[t])
    BY <2>1, <2>3 DEF Routed, KnownAs
  <2> QED BY <1>9, <2>2, <2>3, Decision DEF IInv
<1>10. CASE StageDirectory \/ Inspect \/ Read \/ WriteStaged
  BY <1>2, <1>10 DEF StageDirectory, Inspect, Read, WriteStaged, Pending, Finish, Late
<1>11. CASE ImagesStaged
  BY <1>2, <1>11 DEF ImagesStaged, Late
<1>12. CASE RefuseTier \/ Judge \/ Return
  BY <1>2, <1>12 DEF RefuseTier, Judge, Return, Finish, Late
<1>13. CASE StagePrompt
  <2>1. ~Blank(refs[tier])
    BY <1>13 DEF StagePrompt, TierRefusal
  <2> QED BY <1>1, <1>13, <2>1 DEF StagePrompt, Routed, KnownAs, Late
<1>14. CASE FallBack
  BY <1>1, <1>14 DEF FallBack, FallsBack, Candidates, Routed, KnownAs
<1>15. CASE Expire \/ Fire \/ Interrupt \/ Edit \/ UNCHANGED vars
  BY <1>2, <1>15 DEF Expire, Fire, Interrupt, Edit, vars
<1> QED
  BY <1>3, <1>4, <1>5, <1>6, <1>7, <1>8, <1>9, <1>10, <1>11, <1>12, <1>13, <1>14, <1>15
     DEF Next, Command, Child, Ended

\* There is nobody in the empty sequence.
LEMMA Nobody ==
    /\ \A i \in DOMAIN <<>> : FALSE
    /\ Len(<<>>) = 0
    /\ \A S : <<>> \in Seq(S)
<1>1. \A i \in DOMAIN <<>> : FALSE
  OBVIOUS
<1>2. Len(<<>>) = 0
  OBVIOUS
<1>3. \A S : <<>> \in Seq(S)
  OBVIOUS
<1> QED BY <1>1, <1>2, <1>3

\* There is somebody in a sequence that is not empty.
LEMMA Somebody ==
    ASSUME NEW S, NEW s \in Seq(S)
    PROVE  /\ s # <<>> <=> 1 \in DOMAIN s
           /\ \A r : DOMAIN r = DOMAIN s /\ s # <<>> => r # <<>>
           /\ \A x : Append(s, x) # <<>>
<1>1. s # <<>> <=> 1 \in DOMAIN s
  OBVIOUS
<1>2. 1 \notin DOMAIN <<>>
  OBVIOUS
<1>3. ASSUME NEW x
      PROVE  Append(s, x) # <<>>
  <2>1. Len(Append(s, x)) = Len(s) + 1 /\ Len(s) \in Nat
    OBVIOUS
  <2>2. Len(<<>>) = 0
    OBVIOUS
  <2> QED BY <2>1, <2>2
<1> QED BY <1>1, <1>2, <1>3

\* A call has a child, and a child a call.
LEMMA CalledStep ==
    ASSUME IInv, [Next]_vars
    PROVE  Called'
<1> USE DEF history, Calling, Goto
<1>1. Called /\ TypeOK
  BY DEF IInv
<1> DEFINE Kept == child' = child /\ asked' = asked /\ result' = result
<1>2. Kept /\ pc' = pc => Called'
  BY <1>1 DEF Called
<1>3. Kept /\ pc \notin {"listing", "running"} /\ pc' # "judging" => Called'
  BY <1>1 DEF Called
<1>4. CASE Refuse \/ UseHelper \/ StartListing
  BY <1>3, <1>4 DEF Refuse, UseHelper, StartListing
<1>5. CASE NotSpawned
  BY <1>1, <1>5, Records DEF NotSpawned, Idle, Called
<1>6. CASE Spawn
  <2>1. child'.running /\ ~child'.ended
    BY <1>6, Records DEF Spawn, NoChild
  <2>2. pc = "running" => asked' # <<>>
    <3>1. asked \in Seq(Run)
      BY <1>1 DEF TypeOK
    <3> QED BY <1>6, <3>1, Somebody DEF Spawn
  <2> QED BY <1>6, <2>1, <2>2 DEF Spawn, Called
<1>7. CASE Child
  <2>1. ~child'.running /\ child'.ended /\ child'.res.started
    BY <1>7, Childhood
  <2>2. /\ pc' = pc /\ pc \in {"listing", "running"} /\ asked' = asked /\ result' = result
        /\ child.running
    BY <1>7 DEF Child, Lists, Answers, Crashes, Fails
  <2> QED BY <1>1, <2>1, <2>2 DEF Called
<1>8. CASE Kill
  <2>1. ~child'.running /\ child'.ended /\ child'.res.started
    BY <1>8, Ending DEF Kill
  <2>2. pc = "running" => asked' # <<>>
    <3>1. pc = "running" => asked # <<>> /\ asked \in Seq(Run)
      BY <1>1, <1>8 DEF Kill, Called, TypeOK
    <3>2. pc = "running" => DOMAIN asked' = DOMAIN asked
      BY <1>8 DEF Kill
    <3> QED BY <3>1, <3>2, Somebody
  <2> QED BY <1>8, <2>1, <2>2 DEF Kill, Called
<1>9. CASE CallReturns
  <2>1. pc = "running" => asked' # <<>>
    BY <1>1, <1>9 DEF CallReturns, Called
  <2> QED BY <1>9, <2>1, Records DEF CallReturns, Called
<1>10. CASE Decide
  <2>1. pc = "listed" /\ child' = child
    BY <1>10 DEF Decide
  <2>2. pc' \notin {"listing", "running", "judging"}
    BY <1>1, <1>10, Decision
  <2> QED BY <1>1, <2>1, <2>2 DEF Called
<1>11. CASE StageDirectory \/ Inspect \/ Read \/ WriteStaged \/ ImagesStaged
  BY <1>3, <1>11 DEF StageDirectory, Inspect, Read, WriteStaged, ImagesStaged, Pending, Finish
<1>12. CASE RefuseTier \/ StagePrompt \/ Judge \/ Return
  BY <1>3, <1>12 DEF RefuseTier, StagePrompt, Judge, Return, Finish
<1>13. CASE FallBack
  BY <1>1, <1>13 DEF FallBack, Called
<1>14. CASE Expire \/ Fire \/ Interrupt \/ Edit \/ UNCHANGED vars
  BY <1>2, <1>14 DEF Expire, Fire, Interrupt, Edit, vars
<1> QED
  BY <1>4, <1>5, <1>6, <1>7, <1>8, <1>9, <1>10, <1>11, <1>12, <1>13, <1>14
     DEF Next, Command, Ended

\* What is on disk is whole before it is used, and gone in the end.
LEMMA OnDiskStep ==
    ASSUME IInv, [Next]_vars
    PROVE  OnDisk'
<1> USE DEF inputs, staging, Goto
<1>1. OnDisk /\ TypeOK /\ Fresh
  BY DEF IInv
<1> DEFINE Kept == staged' = staged /\ req' = req /\ temp' = temp
<1>2. Kept /\ pc' = pc => OnDisk'
  BY <1>1 DEF OnDisk
<1>3. ASSUME Kept, pc' \in Late => pc \in Late, pc' \notin {"running", "done"}
      PROVE  OnDisk'
  BY <1>1, <1>3 DEF OnDisk
<1>4. ASSUME staged' = staged, req' = req, \E error : Finish(error)
      PROVE  OnDisk'
  BY <1>1, <1>4 DEF OnDisk, Finish, NoTemp, Late
<1>5. CASE Refuse \/ UseHelper \/ StartListing
  <2>1. Kept /\ pc = "checking" /\ pc' \in {"done", "native", "listing"}
    BY <1>5 DEF Refuse, UseHelper, StartListing
  <2> QED BY <1>1, <2>1 DEF OnDisk, Fresh, Early, Late
<1>6. CASE NotSpawned \/ CallReturns
  <2>1. Kept /\ pc \in {"listing", "running"} /\ pc' = IF pc = "listing" THEN "listed" ELSE "judging"
    BY <1>6 DEF NotSpawned, CallReturns, Calling
  <2> QED BY <1>3, <2>1 DEF Late
<1>7. CASE Spawn \/ Kill
  BY <1>2, <1>7 DEF Spawn, Kill
<1>8. CASE Child
  BY <1>2, <1>8 DEF Child, Lists, Answers, Crashes, Fails
<1>9. CASE Decide
  <2>1. Kept /\ pc = "listed"
    BY <1>9 DEF Decide
  <2>2. staged = <<>> /\ temp = NoTemp
    BY <1>1, <2>1 DEF Fresh, Early
  <2>3. pc' = "done" \/ pc' = IF req.images # <<>> THEN "staging" ELSE "tier"
    BY <1>1, <1>9, Decision
  <2> QED BY <1>1, <2>1, <2>2, <2>3 DEF OnDisk, Late
<1>10. CASE StageDirectory
  <2>1. CASE temp' = [temp EXCEPT !.dir = TRUE] /\ pc' = pc
    BY <1>1, <1>10, <2>1 DEF StageDirectory, OnDisk, Late
  <2> QED BY <1>4, <1>10, <2>1 DEF StageDirectory
<1>11. CASE Inspect \/ Read
  BY <1>2, <1>4, <1>11 DEF Inspect, Read
<1>12. CASE WriteStaged
  <2>1. CASE staged' = staged
    BY <1>2, <1>4, <1>12, <2>1 DEF WriteStaged
  <2>2. CASE staged' = Append(staged, StagedBytes) /\ temp' = temp /\ pc' = pc
    <3>1. /\ pc = "staging" /\ Len(staged) < Len(req.images) /\ req' = req /\ StagedBytes = TRUE
      BY <1>1, <1>12 DEF WriteStaged, Pending, StagedBytes, TypeOK, Picture
    <3>2. staged \in Seq(BOOLEAN) /\ req.images \in Seq(Paths)
      BY <1>1 DEF TypeOK, Request
    <3>3. \A i \in DOMAIN staged : staged[i] = TRUE
      BY <1>1 DEF OnDisk
    <3>4. (\A i \in DOMAIN staged' : staged'[i] = TRUE) /\ Len(staged') <= Len(req'.images)
      BY <2>2, <3>1, <3>2, <3>3
    <3> QED BY <2>2, <3>1, <3>4 DEF OnDisk, Late
  <2> QED BY <1>12, <2>1, <2>2 DEF WriteStaged
<1>13. CASE ImagesStaged
  BY <1>1, <1>13 DEF ImagesStaged, OnDisk, Late
<1>14. CASE RefuseTier
  BY <1>3, <1>14 DEF RefuseTier, Late
<1>15. CASE StagePrompt
  <2>1. CASE temp' = [temp EXCEPT !.prompt = TRUE] /\ pc' = "running"
    <3>1. temp'.prompt = TRUE /\ temp'.dir = temp.dir
      BY <1>1, <2>1 DEF TypeOK, Files
    <3> QED BY <1>1, <1>15, <2>1, <3>1 DEF StagePrompt, OnDisk, Late
  <2>2. CASE temp' = temp /\ pc' = "returned"
    BY <1>3, <1>15, <2>2 DEF StagePrompt, Late
  <2> QED BY <1>15, <2>1, <2>2 DEF StagePrompt
<1>16. CASE Judge
  <2>1. temp'.dir = temp.dir
    BY <1>1, <1>16 DEF Judge, TypeOK, Files
  <2> QED BY <1>1, <1>16, <2>1 DEF Judge, OnDisk, Late
<1>17. CASE FallBack
  BY <1>3, <1>17 DEF FallBack, Late
<1>18. CASE Return
  BY <1>4, <1>18 DEF Return
<1>19. CASE Expire \/ Fire \/ Interrupt \/ Edit \/ UNCHANGED vars
  BY <1>2, <1>19 DEF Expire, Fire, Interrupt, Edit, vars
<1> QED
  BY <1>5, <1>6, <1>7, <1>8, <1>9, <1>10, <1>11, <1>12, <1>13, <1>14, <1>15, <1>16, <1>17, <1>18, <1>19
     DEF Next, Command, Ended

\* One answer at most, and where it is on its way back.
LEMMA AnsweredStep ==
    ASSUME IInv, [Next]_vars
    PROVE  Answered'
<1> USE DEF history, Goto
<1>1. Answered /\ TypeOK /\ Fresh /\ Called
  BY DEF IInv
<1> DEFINE Kept == served' = served /\ tier' = tier
<1>2. Kept /\ pc' = pc /\ child' = child /\ result' = result /\ kind' = kind => Answered'
  BY <1>1 DEF Answered
<1>3. /\ Len(<<>>) = 0
      /\ \A run : Len(Append(<<>>, run)) = 1 /\ Append(<<>>, run)[1] = run
  OBVIOUS
<1>4. served' = <<>> /\ child'.res.stdout # "text" /\ pc' # "judging" => Answered'
  BY <1>3 DEF Answered
<1>5. served' = <<>> /\ pc' \notin {"running", "judging"} => Answered'
  BY <1>3 DEF Answered
<1>6. served # <<>> =>
        \/ pc = "running" /\ child.ended
        \/ pc \in {"judging", "done"}
        \/ pc = "returned" /\ ~FallbackEligible(kind)
  BY <1>1 DEF Answered
<1>7. CASE Refuse \/ UseHelper \/ StartListing
  BY <1>5, <1>6, <1>7 DEF Refuse, UseHelper, StartListing
<1>8. CASE NotSpawned
  <2>1. served' = <<>> /\ result' = NotStarted /\ pc' \in {"listed", "judging"}
    BY <1>6, <1>8 DEF NotSpawned, Calling, Idle
  <2> QED BY <1>3, <2>1, Records DEF Answered
<1>9. CASE Spawn
  <2>1. served' = <<>> /\ ~child'.ended /\ pc' # "judging"
    BY <1>6, <1>9 DEF Spawn, Calling, Idle, NoChild
  <2> QED BY <1>3, <2>1 DEF Answered
<1>10. CASE Kill
  <2>1. child'.res.stdout = "empty"
    BY <1>10, Ending DEF Kill
  <2>2. served' = <<>> /\ pc' # "judging"
    BY <1>1, <1>6, <1>10 DEF Kill, Calling, Called
  <2> QED BY <1>4, <2>1, <2>2
<1>11. CASE Child
  <2>1. /\ child'.ended
        /\ \/ pc = "listing" /\ served' = served
           \/ pc = "running" /\ child'.res.stdout = "empty" /\ served' = served
           \/ pc = "running" /\ Told(child'.res) /\ served' = Append(served, Reads)
    BY <1>11, Childhood
  <2>2. pc' = pc /\ tier' = tier /\ child.running
    BY <1>11 DEF Child, Lists, Answers, Crashes, Fails
  <2>3. served = <<>>
    BY <1>1, <1>6, <2>1, <2>2 DEF Called
  <2>4. Reads.tier = tier
    BY DEF Reads
  <2>5. CASE pc = "running" /\ Told(child'.res) /\ served' = Append(served, Reads)
    <3>1. Len(served') = 1 /\ served'[1] = Reads /\ served' # <<>>
      BY <1>3, <2>3, <2>5
    <3> QED BY <2>1, <2>2, <2>4, <2>5, <3>1 DEF Answered
  <2> QED BY <1>4, <1>5, <2>1, <2>2, <2>3, <2>5
<1>12. CASE CallReturns
  <2>1. CASE pc = "listing"
    BY <1>5, <1>6, <1>12, <2>1 DEF CallReturns
  <2>2. CASE pc = "running"
    <3>1. PICK runErr \in {"", "context", "read"} : result' = [child.res EXCEPT !.runErr = runErr]
      BY <1>12 DEF CallReturns
    <3>2. child.res \in Result
      BY <1>1 DEF TypeOK, Process
    <3>3. /\ result'.started = child.res.started /\ result'.leader = child.res.leader
          /\ result'.stdout = child.res.stdout /\ result'.stderr = child.res.stderr
      BY <3>1, <3>2 DEF Result
    <3>4. Told(child.res) => Told(result')
      BY <3>3 DEF Told
    <3>5. Kept /\ pc' = "judging" /\ child.ended
      BY <1>12, <2>2 DEF CallReturns, context, routing
    <3> QED BY <1>1, <2>2, <3>3, <3>4, <3>5 DEF Answered
  <2> QED BY <1>12, <2>1, <2>2 DEF CallReturns, Calling
<1>13. CASE Decide
  <2>1. pc = "listed" /\ served' = served
    BY <1>13 DEF Decide
  <2>2. pc' \notin {"running", "judging"}
    BY <1>1, <1>13, Decision
  <2> QED BY <1>5, <1>6, <2>1, <2>2
<1>14. CASE StageDirectory \/ Inspect \/ Read \/ WriteStaged \/ ImagesStaged
  BY <1>5, <1>6, <1>14 DEF StageDirectory, Inspect, Read, WriteStaged, ImagesStaged, Pending, Finish
<1>15. CASE RefuseTier
  BY <1>5, <1>6, <1>15 DEF RefuseTier
<1>16. CASE StagePrompt
  <2>1. served' = <<>> /\ child' = child /\ pc = "tier" /\ pc' # "judging"
    BY <1>6, <1>16 DEF StagePrompt
  <2>2. ~child.ended
    BY <1>1, <2>1 DEF Called, Calling
  <2> QED BY <1>3, <2>1, <2>2 DEF Answered
<1>17. CASE Judge
  <2>1. Told(result) => ~FallbackEligible(kind')
    BY <1>1, <1>17, NotAgain DEF Judge, TypeOK
  <2> QED BY <1>1, <1>17, <2>1 DEF Judge, Answered
<1>18. CASE FallBack
  BY <1>5, <1>6, <1>18 DEF FallBack, FallsBack
<1>19. CASE Return
  BY <1>1, <1>19 DEF Return, Finish, Answered
<1>20. CASE Expire \/ Fire \/ Interrupt \/ Edit \/ UNCHANGED vars
  BY <1>2, <1>20 DEF Expire, Fire, Interrupt, Edit, vars
<1> QED
  BY <1>7, <1>8, <1>9, <1>10, <1>11, <1>12, <1>13, <1>14, <1>15, <1>16, <1>17, <1>18, <1>19, <1>20
     DEF Next, Command, Ended

\* What the error in hand says keeps its reason.
LEMMA SaidStep ==
    ASSUME IInv, [Next]_vars
    PROVE  Said'
<1> USE DEF history, Goto
<1>1. Said /\ TypeOK /\ Fresh /\ Called /\ Answered
  BY DEF IInv
<1> DEFINE Kept   == refs' = refs /\ tier' = tier /\ result' = result
           Same   == served' = served /\ asked' = asked
           Timely == ctx' = ctx /\ canceled' = canceled /\ timer' = timer
<1>2. ASSUME Kept, Same, Timely, kind' = kind, pc' = pc
      PROVE  Said'
  BY <1>1, <1>2 DEF Said
<1>3. ASSUME Same, Timely, kind' = kind, pc' \notin {"returned", "done"}
      PROVE  Said'
  BY <1>1, <1>3 DEF Said
<1>4. ASSUME Same, Timely, kind' \in {"usage", "config", "transport"}
      PROVE  Said'
  BY <1>1, <1>4 DEF Said
<1>5. CASE Refuse
  <2>1. Same /\ Timely /\ kind' \in {"usage", "config", ""} /\ kind' # ""
    BY <1>5, Checks DEF Refuse, context
  <2> QED BY <1>4, <2>1
<1>6. CASE UseHelper
  BY <1>3, <1>6 DEF UseHelper, context
<1>7. CASE StartListing
  <2>1. kind' = "" /\ ctx' = ctx /\ canceled' = canceled /\ Same /\ pc' = "listing"
    BY <1>1, <1>7 DEF StartListing, Fresh, Early
  <2> QED BY <1>1, <2>1 DEF Said
<1>8. CASE NotSpawned \/ CallReturns
  BY <1>3, <1>8 DEF NotSpawned, CallReturns, Calling, context
<1>9. CASE Spawn
  <2>1. /\ pc' = pc /\ pc \in {"listing", "running"} /\ kind' = kind /\ Timely
        /\ \/ asked' = asked
           \/ asked' = Append(asked, [tier |-> tier, ref |-> refs[tier], killed |-> FALSE])
    BY <1>9 DEF Spawn, Calling, context
  <2>2. \A i \in DOMAIN asked' : asked'[i].killed => i \in DOMAIN asked /\ asked[i].killed
    <3>1. asked \in Seq(Run)
      BY <1>1 DEF TypeOK
    <3>2. ~([tier |-> tier, ref |-> refs[tier], killed |-> FALSE]).killed
      OBVIOUS
    <3> DEFINE run == [tier |-> tier, ref |-> refs[tier], killed |-> FALSE]
    <3>3. asked' = asked \/ asked' = Append(asked, run)
      BY <2>1
    <3>4. ~run.killed
      BY <3>2
    <3> HIDE DEF run
    <3> QED BY <3>1, <3>3, <3>4
  <2> QED BY <1>1, <2>1, <2>2 DEF Said
<1>10. CASE Kill
  <2>1. pc' = pc /\ pc \in {"listing", "running"} /\ kind' = kind /\ Timely /\ ctx # ""
    BY <1>10 DEF Kill, Calling, context
  <2> QED BY <1>1, <2>1 DEF Said
<1>11. CASE Child
  <2>1. pc' = pc /\ pc \in {"listing", "running"} /\ kind' = kind /\ Timely /\ asked' = asked
    BY <1>11 DEF Child, Lists, Answers, Crashes, Fails, context
  <2> QED BY <1>1, <2>1 DEF Said
<1>12. CASE Decide
  <2>1. pc = "listed" /\ Same /\ canceled' = canceled
    BY <1>12 DEF Decide
  <2>2. kind = "" /\ asked' = <<>>
    BY <1>1, <2>1 DEF Fresh, Early
  <2>3. CASE pc' = "done" /\ kind' # "" /\ timer' = timer /\ ctx' = ctx
    <3>1. /\ kind' = "timeout" => ctx = "deadline"
          /\ kind' = "context_canceled" => ctx = "canceled"
          /\ kind' \notin {"shortcut_missing", "signal", "sigabrt"}
      BY <1>1, <1>12, <2>2, <2>3, Decision
    <3> QED BY <1>1, <2>1, <2>3, <3>1 DEF Said
  <2>4. CASE /\ pc' \in {"staging", "tier"} /\ kind' = kind
             /\ ctx' = IF canceled THEN "canceled" ELSE ""
    <3>1. \A i \in DOMAIN asked' : FALSE
      BY <2>2, Nobody
    <3> QED BY <2>1, <2>2, <2>4, <3>1 DEF Said
  <2> QED BY <1>1, <1>12, <2>3, <2>4, Decision
<1>13. CASE StageDirectory \/ Inspect \/ Read \/ WriteStaged \/ ImagesStaged
  <2>1. Same /\ Timely
    BY <1>13 DEF StageDirectory, Inspect, Read, WriteStaged, ImagesStaged, context
  <2>2. kind' \in {"usage", "transport"} \/ (kind' = kind /\ pc' \in {"staging", "tier"})
    BY <1>13 DEF StageDirectory, Inspect, Read, WriteStaged, ImagesStaged, Pending, Finish
  <2> QED BY <1>3, <1>4, <2>1, <2>2
<1>14. CASE RefuseTier
  <2>1. /\ kind' # "" /\ kind' \in {"shortcut_missing", "usage", "timeout"}
        /\ kind' = "shortcut_missing" => Blank(refs[tier])
        /\ kind' = "timeout" => timer = "expired"
    BY <1>14 DEF RefuseTier, TierRefusal
  <2>2. Same /\ Timely /\ refs' = refs /\ tier' = tier
    BY <1>14 DEF RefuseTier, context, routing
  <2> QED BY <1>1, <2>1, <2>2 DEF Said
<1>15. CASE StagePrompt
  <2>1. Same /\ Timely
    BY <1>15 DEF StagePrompt, context
  <2>2. kind' = "transport" \/ (kind' = kind /\ pc' = "running")
    BY <1>15 DEF StagePrompt
  <2> QED BY <1>3, <1>4, <2>1, <2>2
<1>16. CASE Judge
  <2>1. Kept /\ Same /\ Timely /\ pc = "judging" /\ kind' = KindOf(result, ctx)
    BY <1>16 DEF Judge, context, routing
  <2>2. /\ kind' = "timeout" => ctx = "deadline"
        /\ kind' = "context_canceled" => ctx = "canceled"
        /\ kind' \in {"signal", "sigabrt"} => result.started /\ ctx = ""
        /\ kind' = "shortcut_missing" => "not found" \in result.stderr
        /\ kind' = "" => /\ Clean(result.leader) /\ result.started /\ result.stdout = "text"
                         /\ result.runErr = ""
    BY <1>1, <2>1, Kinded DEF TypeOK
  <2>3. /\ result.started => asked # <<>>
        /\ result.stdout = "text" => served # <<>>
    BY <1>1, <2>1 DEF Called, Answered
  <2>4. asked # <<>> => Len(asked) \in DOMAIN asked
    <3>1. asked \in Seq(Run)
      BY <1>1 DEF TypeOK
    <3> QED BY <3>1
  <2> QED BY <1>1, <2>1, <2>2, <2>3, <2>4 DEF Said
<1>17. CASE FallBack
  BY <1>3, <1>17 DEF FallBack, context
<1>18. CASE Return
  <2>1. Kept /\ Same /\ Timely /\ kind' = kind /\ pc = "returned"
    BY <1>18 DEF Return, Finish, context, routing
  <2> QED BY <1>1, <2>1 DEF Said
<1>19. CASE Expire \/ Fire \/ Interrupt
  <2>1. Kept /\ Same /\ kind' = kind /\ pc' = pc
    BY <1>19 DEF Expire, Fire, Interrupt, routing
  <2>2. /\ ctx' = "canceled" => canceled' /\ (ctx = "canceled" => canceled)
        /\ timer = "expired" => timer' = "expired"
        /\ ctx # "" => ctx' = ctx
        /\ canceled => canceled'
    BY <1>1, <1>19 DEF Expire, Fire, Interrupt, Said
  <2> QED BY <1>1, <2>1, <2>2 DEF Said
<1>20. CASE Edit \/ UNCHANGED vars
  BY <1>2, <1>20 DEF Edit, vars, context, routing
<1> QED
  BY <1>5, <1>6, <1>7, <1>8, <1>9, <1>10, <1>11, <1>12, <1>13, <1>14, <1>15, <1>16, <1>17, <1>18, <1>19, <1>20
     DEF Next, Command, Ended

\* The bridges that were asked stay the right ones.
LEMMA BridgesStep ==
    ASSUME IInv, [Next]_vars
    PROVE  OnlyKnownBridges'
<1>1. OnlyKnownBridges /\ TypeOK /\ Fresh /\ Routed /\ Called /\ asked \in Seq(Run)
  BY DEF IInv, TypeOK
<1> DEFINE Fits(run) == /\ \/ run.ref = config.bridges[run.tier] /\ ~Blank(run.ref)
                           \/ run.ref \in listed /\ run.ref \in Range(Routes[run.tier].names)
                        /\ run.tier \in Candidates(model)
                        /\ run.tier = "cloud-pro" => major >= MeasuredOSMajor
<1>2. \A i \in DOMAIN asked : Fits(asked[i])
  BY <1>1 DEF OnlyKnownBridges
<1>3. ASSUME config' = config, listed' = listed, model' = model, major' = major,
             \A i \in DOMAIN asked' : Fits(asked'[i])
      PROVE  OnlyKnownBridges'
  BY <1>3 DEF OnlyKnownBridges
<1>4. ASSUME config' = config, listed' = listed, model' = model, major' = major, asked' = asked
      PROVE  OnlyKnownBridges'
  BY <1>2, <1>3, <1>4
<1>5. ASSUME asked' = asked, pc \in Early
      PROVE  OnlyKnownBridges'
  <2>1. asked' = <<>>
    BY <1>1, <1>5 DEF Fresh
  <2> QED BY <2>1 DEF OnlyKnownBridges
<1>6. CASE Spawn
  <2>1. /\ config' = config /\ listed' = listed /\ model' = model /\ major' = major
        /\ asked' = IF pc = "running"
                      THEN Append(asked, [tier |-> tier, ref |-> refs[tier], killed |-> FALSE]) ELSE asked
    BY <1>6 DEF Spawn, inputs, routing
  <2>2. pc = "running" => Fits([tier |-> tier, ref |-> refs[tier], killed |-> FALSE])
    BY <1>1 DEF Routed, KnownAs, Late, Blank, TypeOK
  <2>3. \A i \in DOMAIN asked' : Fits(asked'[i])
    <3> DEFINE run == [tier |-> tier, ref |-> refs[tier], killed |-> FALSE]
    <3>1. asked' = asked \/ (asked' = Append(asked, run) /\ Fits(run))
      BY <2>1, <2>2
    <3> HIDE DEF run, Fits
    <3>2. \A i \in DOMAIN asked' : (i \in DOMAIN asked /\ asked'[i] = asked[i]) \/ (asked'[i] = run /\ Fits(run))
      BY <1>1, <3>1
    <3> QED BY <1>2, <3>2
  <2> QED BY <1>3, <2>1, <2>3
<1>7. CASE Kill
  <2>1. /\ config' = config /\ listed' = listed /\ model' = model /\ major' = major
        /\ asked' = IF pc = "running" THEN [asked EXCEPT ![Len(asked)].killed = TRUE] ELSE asked
    BY <1>7 DEF Kill, inputs, routing
  <2>2. \A i \in DOMAIN asked' : /\ i \in DOMAIN asked
                                 /\ asked'[i].ref = asked[i].ref /\ asked'[i].tier = asked[i].tier
    <3>1. \A i \in DOMAIN asked : asked[i] \in Run
      BY <1>1
    <3>2. \A r \in Run : /\ [r EXCEPT !.killed = TRUE].ref = r.ref
                         /\ [r EXCEPT !.killed = TRUE].tier = r.tier
      BY DEF Run
    <3>3. /\ DOMAIN asked' = DOMAIN asked
          /\ \A i \in DOMAIN asked : asked'[i] = asked[i] \/ asked'[i] = [asked[i] EXCEPT !.killed = TRUE]
      BY <2>1
    <3> QED BY <3>1, <3>2, <3>3
  <2>3. \A i \in DOMAIN asked' : Fits(asked'[i])
    BY <1>2, <2>2
  <2> QED BY <1>3, <2>1, <2>3
<1>8. CASE UseHelper \/ StartListing \/ Lists
  BY <1>5, <1>8 DEF UseHelper, StartListing, Lists, Early, history
<1>9. CASE Refuse \/ NotSpawned \/ CallReturns \/ Answers \/ Crashes \/ Fails
  BY <1>4, <1>9 DEF Refuse, NotSpawned, CallReturns, Answers, Crashes, Fails, inputs, routing, history
<1>10. CASE Decide
  BY <1>4, <1>10 DEF Decide, inputs, history
<1>11. CASE StageDirectory \/ Inspect \/ Read \/ WriteStaged \/ ImagesStaged
  BY <1>4, <1>11 DEF StageDirectory, Inspect, Read, WriteStaged, ImagesStaged, inputs, routing, history
<1>12. CASE RefuseTier \/ StagePrompt \/ Judge \/ FallBack \/ Return
  BY <1>4, <1>12 DEF RefuseTier, StagePrompt, Judge, FallBack, Return, inputs, routing, history
<1>13. CASE Expire \/ Fire \/ Interrupt \/ Edit \/ UNCHANGED vars
  BY <1>4, <1>13 DEF Expire, Fire, Interrupt, Edit, vars, inputs, routing, history
<1> QED
  BY <1>6, <1>7, <1>8, <1>9, <1>10, <1>11, <1>12, <1>13 DEF Next, Command, Child, Ended

\* A child is given the prompt and every image that was decoded.
LEMMA InputsStep ==
    ASSUME IInv, [Next]_vars
    PROVE  InputsAsChecked'
<1>1. InputsAsChecked /\ TypeOK /\ Fresh /\ OnDisk /\ served \in Seq(Reading)
  BY DEF IInv, TypeOK
<1>2. ASSUME served' = served, req' = req
      PROVE  InputsAsChecked'
  BY <1>1, <1>2 DEF InputsAsChecked
<1>3. CASE Answers \/ Crashes
  <2>1. pc = "running" /\ served' = Append(served, Reads) /\ req' = req
    BY <1>3 DEF Answers, Crashes, inputs
  <2>2. Reads.prompt
    BY <1>1, <2>1 DEF Reads, OnDisk
  <2>3. staged \in Seq(BOOLEAN) /\ req.images \in Seq(Paths)
    BY <1>1 DEF TypeOK, Request
  <2>4. /\ Len(staged) = Len(req.images) /\ (req.images # <<>> => temp.dir)
        /\ \A i \in DOMAIN staged : staged[i] = TRUE
    BY <1>1, <2>1 DEF OnDisk, Late
  <2>5. staged = [j \in DOMAIN req.images |-> TRUE]
    BY <2>3, <2>4
  <2>6. req.images = <<>> => staged = <<>>
    BY <2>3, <2>4
  <2>7. Reads.images = staged
    <3>1. Reads.images = IF temp.dir THEN staged ELSE <<>>
      BY DEF Reads
    <3>2. temp.dir \/ staged = <<>>
      BY <2>4, <2>6
    <3> QED BY <3>1, <3>2
  <2>8. \A i \in DOMAIN served' : (i \in DOMAIN served /\ served'[i] = served[i]) \/ served'[i] = Reads
    BY <1>1, <2>1
  <2> QED BY <1>1, <2>1, <2>2, <2>5, <2>7, <2>8 DEF InputsAsChecked
<1>4. CASE Refuse \/ UseHelper \/ StartListing \/ NotSpawned \/ Spawn \/ Kill \/ CallReturns
  BY <1>2, <1>4 DEF Refuse, UseHelper, StartListing, NotSpawned, Spawn, Kill, CallReturns, inputs, history
<1>5. CASE Lists \/ Fails \/ Decide
  BY <1>2, <1>5 DEF Lists, Fails, Decide, inputs, history
<1>6. CASE StageDirectory \/ Inspect \/ Read \/ WriteStaged \/ ImagesStaged
  BY <1>2, <1>6 DEF StageDirectory, Inspect, Read, WriteStaged, ImagesStaged, inputs, history
<1>7. CASE RefuseTier \/ StagePrompt \/ Judge \/ FallBack \/ Return
  BY <1>2, <1>7 DEF RefuseTier, StagePrompt, Judge, FallBack, Return, inputs, history
<1>8. CASE Expire \/ Fire \/ Interrupt \/ Edit \/ UNCHANGED vars
  BY <1>2, <1>8 DEF Expire, Fire, Interrupt, Edit, vars, inputs, history
<1> QED
  BY <1>3, <1>4, <1>5, <1>6, <1>7, <1>8 DEF Next, Command, Child, Ended

-----------------------------------------------------------------------------
(* The invariant, and what it is for.                                      *)

\* A command starts with nothing found, staged or asked.
LEMMA Beginning ==
    ASSUME Init
    PROVE  IInv
<1>1. PICK c \in Cases : /\ req = c.request /\ config = c.config
                         /\ major = c.mac.major /\ installed = c.mac.installed
  BY DEF Init
<1>2. req \in Request /\ config \in Config /\ major \in Nat /\ installed \subseteq References
  BY <1>1, RespondConstants
<1>3. at \in [Paths -> Inodes \cup {NoInode}] /\ bytes \in [Inodes -> BOOLEAN] /\ edits \in 0 .. MaxEdits
  <2>1. at \in [Paths -> Inodes \cup {NoInode}]
    BY RespondConstants DEF Init
  <2>2. bytes \in [Inodes -> BOOLEAN]
    BY DEF Init
  <2>3. MaxEdits \in Nat /\ edits = 0
    BY RespondConstants DEF Init
  <2> QED BY <2>1, <2>2, <2>3
<1>4. /\ refs \in [Tier -> References] /\ listed \subseteq References
      /\ \A t \in Tier : refs[t] = ""
  BY RouteTable DEF Init
<1>5. /\ staged = <<>> /\ asked = <<>> /\ served = <<>> /\ temp = NoTemp
      /\ child = NoChild /\ result = NotStarted /\ image = NoImage
      /\ pc = "checking" /\ model = "" /\ kind = "" /\ canceled = FALSE
      /\ timer = "off" /\ ctx = "" /\ tier = ""
  BY DEF Init, NoTemp
<1>6. staged \in Seq(BOOLEAN) /\ asked \in Seq(Run) /\ served \in Seq(Reading) /\ Len(staged) = 0
  BY <1>5, Nobody
<1>7. TypeOK
  BY <1>2, <1>3, <1>4, <1>5, <1>6, Records DEF TypeOK, Places, Kinds
<1>8. Fresh /\ Routed /\ Called
  BY <1>4, <1>5, Records DEF Fresh, Routed, Called, Calling, Late
<1>9. (\A i \in DOMAIN staged : FALSE) /\ (\A i \in DOMAIN asked : FALSE) /\ (\A i \in DOMAIN served : FALSE)
  BY <1>5, Nobody
<1>10. OnDisk
  <2>1. Len(req.images) \in Nat
    <3>1. req.images \in Seq(Paths)
      BY <1>2 DEF Request
    <3> QED BY <3>1
  <2>2. Len(staged) <= Len(req.images)
    BY <1>6, <2>1
  <2> QED BY <1>5, <1>9, <2>2 DEF OnDisk, Late
<1>11. Answered
  <2>1. Len(served) <= 1
    <3>1. 0 <= 1
      OBVIOUS
    <3> QED BY <1>5, <3>1, Nobody
  <2>2. ~child.ended
    BY <1>5, Records
  <2> QED BY <1>5, <2>1, <2>2 DEF Answered
<1>12. Said /\ OnlyKnownBridges /\ InputsAsChecked
  BY <1>5, <1>9 DEF Said, OnlyKnownBridges, InputsAsChecked
<1> QED BY <1>7, <1>8, <1>10, <1>11, <1>12 DEF IInv

\* The inductive invariant of the command.
THEOREM Invariance == Spec => []IInv
<1>1. Init => IInv
  BY Beginning
<1>2. IInv /\ [Next]_vars => IInv'
  BY TypeStep, FreshStep, RoutedStep, CalledStep, OnDiskStep, AnsweredStep, SaidStep,
     BridgesStep, InputsStep DEF IInv
<1> QED BY <1>1, <1>2, PTL DEF Spec

\* Every variable keeps its type, the images and runs of any command included.
THEOREM TypeCorrect == Spec => []TypeOK
<1>1. IInv => TypeOK
  BY DEF IInv
<1> QED BY <1>1, Invariance, PTL

\* At most one model answers, whatever the first run's child did and whenever
\* the deadline or a signal came (runAuto).
THEOREM AnsweredOnce == Spec => []NeverAnsweredTwice
<1>1. IInv => NeverAnsweredTwice
  BY DEF IInv, Answered, NeverAnsweredTwice
<1> QED BY <1>1, Invariance, PTL

\* What is invoked was found or configured for its tier (ResolveBridges,
\* applyResolvedRefs), for any table of installed shortcuts and overrides.
THEOREM BridgesAreKnown == Spec => []OnlyKnownBridges
<1>1. IInv => OnlyKnownBridges
  BY DEF IInv
<1> QED BY <1>1, Invariance, PTL

\* A child is given what was checked, however many images there are and
\* whatever others do to the files (stageImageInputs).
THEOREM InputsAreChecked == Spec => []InputsAsChecked
<1>1. IInv => InputsAsChecked
  BY DEF IInv
<1> QED BY <1>1, Invariance, PTL

\* What three of the exit codes stand for.
LEMMA ExitCodes ==
    ASSUME NEW error
    PROVE  /\ ExitCode(error) = 0 => error = ""
           /\ ExitCode(error) = 7 => error = "timeout"
           /\ ExitCode(error) = 3 => error = "shortcut_missing"
<1>1. error \in {"usage", "empty_prompt"} => ExitCode(error) = 2
  BY DEF ExitCode
<1>2. error = "config" => ExitCode(error) = 10
  BY DEF ExitCode
<1>3. error \notin {"", "usage", "empty_prompt", "shortcut_missing", "timeout", "config"} => ExitCode(error) = 5
  BY DEF ExitCode
<1>4. /\ error = "" => ExitCode(error) = 0
      /\ error = "shortcut_missing" => ExitCode(error) = 3
      /\ error = "timeout" => ExitCode(error) = 7
  BY DEF ExitCode
<1>5. error # "" => ExitCode(error) # 0
  <2>1. ExitCode(error) \in {2, 3, 5, 7, 10} => ExitCode(error) # 0
    OBVIOUS
  <2> QED BY <1>1, <1>2, <1>3, <1>4, <2>1
<1>6. error # "timeout" => ExitCode(error) # 7
  <2>1. ExitCode(error) \in {0, 2, 3, 5, 10} => ExitCode(error) # 7
    OBVIOUS
  <2> QED BY <1>1, <1>2, <1>3, <1>4, <2>1
<1>7. error # "shortcut_missing" => ExitCode(error) # 3
  <2>1. ExitCode(error) \in {0, 2, 5, 7, 10} => ExitCode(error) # 3
    OBVIOUS
  <2> QED BY <1>1, <1>2, <1>3, <1>4, <2>1
<1> QED BY <1>5, <1>6, <1>7

\* The exit code and the kind of the error are true (toCLIError).
THEOREM OutcomesAreTrue == Spec => []OutcomeIsTrue
<1>1. ASSUME IInv
      PROVE  OutcomeIsTrue
  <2> SUFFICES ASSUME pc = "done"
               PROVE  /\ ExitCode(kind) = 0 =>
                           /\ Clean(result.leader) /\ result.started
                           /\ result.stdout = "text" /\ result.runErr = ""
                           /\ Len(served) = 1 /\ served[1].tier = tier
                      /\ ExitCode(kind) = 7 => timer = "expired" \/ ctx = "deadline"
                      /\ kind = "context_canceled" => canceled
                      /\ kind \in {"signal", "sigabrt"} => ~asked[Len(asked)].killed
                      /\ ExitCode(kind) = 3 => Blank(refs[tier]) \/ "not found" \in result.stderr
                      /\ temp = NoTemp
                      /\ ~child.running
    BY DEF OutcomeIsTrue, NoTemp
  <2>1. Said /\ Answered /\ OnDisk /\ Called /\ served \in Seq(Reading)
    BY <1>1 DEF IInv, TypeOK
  <2>2. /\ ExitCode(kind) = 0 => kind = ""
        /\ ExitCode(kind) = 7 => kind = "timeout"
        /\ ExitCode(kind) = 3 => kind = "shortcut_missing"
    BY ExitCodes
  <2>3. served # <<>> => Len(served) = 1 /\ served[1].tier = tier
    <3>1. served # <<>> => Len(served) # 0 /\ Len(served) \in Nat
      BY <2>1
    <3>2. Len(served) <= 1 /\ (served # <<>> => served[1].tier = tier)
      BY <2>1 DEF Answered
    <3> QED BY <3>1, <3>2
  <2>4. temp = NoTemp
    BY <2>1 DEF OnDisk
  <2>5. ~child.running
    BY <2>1 DEF Called, Calling
  <2> QED BY <2>1, <2>2, <2>3, <2>4, <2>5 DEF Said
<1> QED BY <1>1, Invariance, PTL
=============================================================================
