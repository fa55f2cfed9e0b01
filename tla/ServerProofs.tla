---------------------------- MODULE ServerProofs ----------------------------
(* The server counts its slots exactly, answers whoever may ask, once and  *)
(* truthfully, and leaves nothing behind, for any clients and command line; *)
(* and what it streams is in order, never revised and, when it says so,     *)
(* whole, for any texts, events and pipe.                                   *)
EXTENDS Serve, NativeStream, SequenceTheorems, FiniteSetTheorems, TLAPS

\* The requests that hold a slot.
InHand == {r \in Clients : Admitted(r)}

\* What the command has made sure of before anybody can reach it.
Started ==
    /\ phase \in {"bound", "probed"} => StartRefusal(start) = 0
    /\ phase = "bound" => address # ""
    /\ phase = "probed" => Literal(start) \/ address # ""
    /\ phase \in {"serving", "stopping"} => address # ""
    /\ address # "" => StartRefusal(start) = 0 /\ Trusted(start, address)

\* A command that ended well has waited for every handler.
Waited == code = 0 => phase = "exited" /\ \A r \in Clients : pc[r] = "idle"

Counted == slots = Cardinality(InHand) /\ slots <= Limit

\* Nothing, and one line that says how it went.
Silent  == <<>>
Good    == <<"ok">>
Busy    == <<"server_busy">>
Limited == <<"rate_limited">>
Fails(lines) == \E s \in Status \ {"ok", "server_busy", "rate_limited"} : lines = <<s>>

\* A failure, or the provider's limit and nothing else.
Admits(r) == Fails(answer[r]) \/ (answer[r] = Limited /\ outcome[r] = "limited")

\* What has been written, place by place.
Answered(r) ==
    /\ pc[r] \in {"idle", "checking", "admitted", "prepared", "processing", "writing"} => answer[r] = Silent
    /\ pc[r] \in {"running", "judging"} =>
         answer[r] = Silent \/ (kind[r] = "stream" /\ answer[r] = Good)
    /\ pc[r] = "judging" /\ outcome[r] = "ok" /\ kind[r] = "stream" => answer[r] = Good
    /\ pc[r] = "leaving" =>
         \/ answer[r] = Silent /\ outcome[r] = "ok" /\ kind[r] \notin {"picture", "stream", "models"}
         \/ answer[r] = Good /\ kind[r] = "stream"
         \/ answer[r] = Good /\ kind[r] = "picture" /\ outcome[r] = "ok" /\ dir[r] = "none"
         \/ Admits(r)
    /\ pc[r] = "flushing" =>
         \/ answer[r] = Good /\ kind[r] \in {"models", "stream"}
         \/ answer[r] = Good /\ outcome[r] = "ok" /\ (kind[r] = "picture" => dir[r] = "none")
         \/ answer[r] = Busy /\ outcome[r] = "" /\ dir[r] = "none"
         \/ Admits(r)

\* Runs and directories, place by place.
Holds(r) ==
    /\ child[r] = "running" => pc[r] = "running"
    /\ pc[r] \in {"idle", "checking", "admitted", "prepared", "running"} => outcome[r] = ""
    /\ pc[r] \in {"judging"} => outcome[r] \in Results \ {""}
    /\ pc[r] \in {"processing", "writing"} => kind[r] = "picture" /\ outcome[r] = "ok"
    /\ Admitted(r) => kind[r] # "models"
    /\ pc[r] \in {"idle", "checking", "admitted", "writing"} => dir[r] = "none"
    /\ pc[r] = "prepared" /\ kind[r] # "images" => dir[r] = "none"
    /\ pc[r] \in {"prepared", "running", "judging"} /\ kind[r] = "images" => dir[r] = "there"
    /\ pc[r] \in {"running", "judging"} /\ kind[r] \notin {"images", "picture"} => dir[r] = "none"
    /\ pc[r] = "judging" /\ kind[r] = "picture" /\ outcome[r] # "ok" => dir[r] # "there"
    /\ pc[r] \in {"leaving", "flushing"} => dir[r] # "there"

\* Whoever holds a slot may, and nobody is there before the port is.
Welcome(r) ==
    /\ Admitted(r) => Allowed(r)
    /\ pc[r] # "idle" => address # ""

Faring == \A r \in Clients : Answered(r) /\ Holds(r) /\ Welcome(r)

IInv == TypeOK /\ Started /\ Waited /\ Counted /\ Faring

-----------------------------------------------------------------------------
(* Types.                                                                  *)

\* Sequences of one status line.
LEMMA Singles ==
    /\ Len(<<>>) = 0
    /\ \A x : Append(<<>>, x) = <<x>> /\ Len(<<x>>) = 1 /\ <<x>> # <<>>
    /\ \A x, y : <<x>> = <<y>> => x = y
<1>1. Len(<<>>) = 0
  OBVIOUS
<1>2. ASSUME NEW x
      PROVE  Append(<<>>, x) = <<x>> /\ Len(<<x>>) = 1 /\ <<x>> # <<>>
  OBVIOUS
<1>3. ASSUME NEW x, NEW y, <<x>> = <<y>>
      PROVE  x = y
  BY <1>3
<1> QED BY <1>1, <1>2, <1>3

\* What a run may come to.
LEMMA Endings ==
    ASSUME NEW k
    PROVE  Failures(k) \subseteq Results \ {"", "ok"} /\ "ok" \in Results \ {""}
BY DEF Failures, Results

\* What a step may do to a variable that every client has its own of.
Assigned(f, g, r, S) == g = f \/ \E c \in S : g = [f EXCEPT ![r] = c]

\* An assigned function keeps its type.
LEMMA Assignment ==
    ASSUME NEW D, NEW S, NEW f \in [D -> S], NEW g, NEW r \in D, Assigned(f, g, r, S)
    PROVE  g \in [D -> S]
BY DEF Assigned

Assigns(r) ==
    /\ Assigned(kind, kind', r, Kinds \cup {""}) /\ Assigned(auth, auth', r, BOOLEAN)
    /\ Assigned(pc, pc', r, Places) /\ Assigned(over, over', r, BOOLEAN)
    /\ Assigned(child, child', r, {"none", "running"})
    /\ Assigned(outcome, outcome', r, Results)
    /\ Assigned(dir, dir', r, {"none", "there", "stuck"})
    /\ Assigned(answer, answer', r, Seq(Status))

\* The other clients are left alone.
Elsewhere(r) ==
    \A q \in Clients \ {r} :
      /\ kind'[q] = kind[q] /\ auth'[q] = auth[q] /\ pc'[q] = pc[q] /\ child'[q] = child[q]
      /\ outcome'[q] = outcome[q] /\ dir'[q] = dir[q] /\ answer'[q] = answer[q]

\* A step of one client, typed.
LEMMA Typing ==
    ASSUME TypeOK, NEW r \in Clients, Assigns(r), command' = command, slots' \in Nat
    PROVE  TypeOK' /\ Elsewhere(r)
<1>1. TypeOK'
  BY Assignment DEF TypeOK, Assigns, command
<1>2. ASSUME NEW f, NEW g, NEW S, f \in [Clients -> S], Assigned(f, g, r, S), NEW q \in Clients \ {r}
      PROVE  g[q] = f[q]
  BY <1>2 DEF Assigned
<1>3. ASSUME NEW q \in Clients \ {r}
      PROVE  /\ kind'[q] = kind[q] /\ auth'[q] = auth[q] /\ pc'[q] = pc[q] /\ child'[q] = child[q]
             /\ outcome'[q] = outcome[q] /\ dir'[q] = dir[q] /\ answer'[q] = answer[q]
  <2>1. kind'[q] = kind[q]
    <3>1. kind \in [Clients -> Kinds \cup {""}] /\ Assigned(kind, kind', r, Kinds \cup {""})
      BY DEF TypeOK, Assigns
    <3> QED BY <1>2, <3>1
  <2>2. auth'[q] = auth[q]
    <3>1. auth \in [Clients -> BOOLEAN] /\ Assigned(auth, auth', r, BOOLEAN)
      BY DEF TypeOK, Assigns
    <3> QED BY <1>2, <3>1
  <2>3. pc'[q] = pc[q]
    <3>1. pc \in [Clients -> Places] /\ Assigned(pc, pc', r, Places)
      BY DEF TypeOK, Assigns
    <3> QED BY <1>2, <3>1
  <2>4. child'[q] = child[q]
    <3>1. child \in [Clients -> {"none", "running"}] /\ Assigned(child, child', r, {"none", "running"})
      BY DEF TypeOK, Assigns
    <3> QED BY <1>2, <3>1
  <2>5. outcome'[q] = outcome[q]
    <3>1. outcome \in [Clients -> Results] /\ Assigned(outcome, outcome', r, Results)
      BY DEF TypeOK, Assigns
    <3> QED BY <1>2, <3>1
  <2>6. dir'[q] = dir[q]
    <3>1. dir \in [Clients -> {"none", "there", "stuck"}] /\ Assigned(dir, dir', r, {"none", "there", "stuck"})
      BY DEF TypeOK, Assigns
    <3> QED BY <1>2, <3>1
  <2>7. answer'[q] = answer[q]
    <3>1. answer \in [Clients -> Seq(Status)] /\ Assigned(answer, answer', r, Seq(Status))
      BY DEF TypeOK, Assigns
    <3> QED BY <1>2, <3>1
  <2> QED BY <2>1, <2>2, <2>3, <2>4, <2>5, <2>6, <2>7
<1> QED BY <1>1, <1>3 DEF Elsewhere

\* A status line more is a sequence of status lines.
LEMMA Lines ==
    ASSUME TypeOK, NEW r \in Clients
    PROVE  /\ answer' = answer => Assigned(answer, answer', r, Seq(Status))
           /\ \A s \in Status :
                Says(r, s) => Assigned(answer, answer', r, Seq(Status))
           /\ answer' = [answer EXCEPT ![r] = <<"ok">>] => Assigned(answer, answer', r, Seq(Status))
<1>1. answer[r] \in Seq(Status)
  BY DEF TypeOK
<1>2. \A s \in Status : <<s>> \in Seq(Status)
  OBVIOUS
<1>4. \A s \in Status : Append(answer[r], s) \in Seq(Status)
  BY <1>1
<1>5. ASSUME NEW s \in Status, Says(r, s)
      PROVE  Assigned(answer, answer', r, Seq(Status))
  <2>1. Append(answer[r], s) \in Seq(Status)
    BY <1>4
  <2>2. answer' = [answer EXCEPT ![r] = Append(answer[r], s)]
    BY <1>5 DEF Says
  <2> QED BY <2>1, <2>2 DEF Assigned
<1>6. ASSUME NEW line \in Seq(Status), answer' = [answer EXCEPT ![r] = line]
      PROVE  Assigned(answer, answer', r, Seq(Status))
  BY <1>6 DEF Assigned
<1>7. <<"ok">> \in Seq(Status)
  BY <1>2 DEF Status
<1>8. answer' = answer => Assigned(answer, answer', r, Seq(Status))
  BY DEF Assigned
<1>9. answer' = [answer EXCEPT ![r] = <<"ok">>] => Assigned(answer, answer', r, Seq(Status))
  BY <1>6, <1>7
<1> QED BY <1>5, <1>8, <1>9

\* Types: the handlers.
LEMMA TypeHandle ==
    ASSUME TypeOK, Counted, IsFiniteSet(Clients), NEW r \in Clients, Handle(r)
    PROVE  TypeOK' /\ Elsewhere(r)
<1>1. CASE Reject(r)
  <2>1. Assigns(r)
    <3>1. /\ Assigned(kind, kind', r, Kinds \cup {""})
          /\ Assigned(auth, auth', r, BOOLEAN)
          /\ Assigned(pc, pc', r, Places)
          /\ Assigned(over, over', r, BOOLEAN)
          /\ Assigned(child, child', r, {"none", "running"})
          /\ Assigned(outcome, outcome', r, Results)
          /\ Assigned(dir, dir', r, {"none", "there", "stuck"})
      BY <1>1 DEF Reject, Assigned, Goes, Places, asked, work
    <3>2. Assigned(answer, answer', r, Seq(Status))
      BY <1>1, Lines DEF Reject, Status, asked, work
    <3> QED BY <3>1, <3>2 DEF Assigns
  <2> QED BY <1>1, <2>1, Typing DEF Reject, TypeOK
<1>2. CASE ListModels(r)
  <2>1. Assigns(r)
    <3>1. /\ Assigned(kind, kind', r, Kinds \cup {""})
          /\ Assigned(auth, auth', r, BOOLEAN)
          /\ Assigned(pc, pc', r, Places)
          /\ Assigned(over, over', r, BOOLEAN)
          /\ Assigned(child, child', r, {"none", "running"})
          /\ Assigned(outcome, outcome', r, Results)
          /\ Assigned(dir, dir', r, {"none", "there", "stuck"})
      BY <1>2 DEF ListModels, Assigned, Goes, Places, asked, work
    <3>2. Assigned(answer, answer', r, Seq(Status))
      BY <1>2, Lines DEF ListModels, Status, asked, work
    <3> QED BY <3>1, <3>2 DEF Assigns
  <2> QED BY <1>2, <2>1, Typing DEF ListModels, TypeOK
<1>3. CASE Admit(r)
  <2>1. Assigns(r)
    <3>1. /\ Assigned(kind, kind', r, Kinds \cup {""})
          /\ Assigned(auth, auth', r, BOOLEAN)
          /\ Assigned(pc, pc', r, Places)
          /\ Assigned(over, over', r, BOOLEAN)
          /\ Assigned(child, child', r, {"none", "running"})
          /\ Assigned(outcome, outcome', r, Results)
          /\ Assigned(dir, dir', r, {"none", "there", "stuck"})
      BY <1>3 DEF Admit, Assigned, Goes, Places, asked, work
    <3>2. Assigned(answer, answer', r, Seq(Status))
      BY <1>3, Lines DEF Admit, Status, asked, work
    <3> QED BY <3>1, <3>2 DEF Assigns
  <2>2. slots' \in Nat
    <3>1. slots \in Nat
      BY DEF TypeOK
    <3> QED BY <1>3, <3>1 DEF Admit
  <2> QED BY <1>3, <2>1, <2>2, Typing DEF Admit
<1>4. CASE Prepare(r)
  <2>1. Assigns(r)
    <3>1. /\ Assigned(kind, kind', r, Kinds \cup {""})
          /\ Assigned(auth, auth', r, BOOLEAN)
          /\ Assigned(pc, pc', r, Places)
          /\ Assigned(over, over', r, BOOLEAN)
          /\ Assigned(child, child', r, {"none", "running"})
          /\ Assigned(outcome, outcome', r, Results)
          /\ Assigned(dir, dir', r, {"none", "there", "stuck"})
      BY <1>4 DEF Prepare, Assigned, Goes, Places, asked, work
    <3>2. Assigned(answer, answer', r, Seq(Status))
      BY <1>4, Lines DEF Prepare, Status, asked, work
    <3> QED BY <3>1, <3>2 DEF Assigns
  <2> QED BY <1>4, <2>1, Typing DEF Prepare, TypeOK
<1>5. CASE Start(r)
  <2>1. Assigns(r)
    <3>1. /\ Assigned(kind, kind', r, Kinds \cup {""})
          /\ Assigned(auth, auth', r, BOOLEAN)
          /\ Assigned(pc, pc', r, Places)
          /\ Assigned(over, over', r, BOOLEAN)
          /\ Assigned(child, child', r, {"none", "running"})
          /\ Assigned(outcome, outcome', r, Results)
          /\ Assigned(dir, dir', r, {"none", "there", "stuck"})
      BY <1>5, Endings DEF Start, Assigned, Goes, Places, asked, work
    <3>2. Assigned(answer, answer', r, Seq(Status))
      BY <1>5, Lines DEF Start, asked, work
    <3> QED BY <3>1, <3>2 DEF Assigns
  <2> QED BY <1>5, <2>1, Typing DEF Start, TypeOK
<1>6. CASE RunEnds(r)
  <2>1. Assigns(r)
    <3>1. /\ Assigned(kind, kind', r, Kinds \cup {""})
          /\ Assigned(auth, auth', r, BOOLEAN)
          /\ Assigned(pc, pc', r, Places)
          /\ Assigned(over, over', r, BOOLEAN)
          /\ Assigned(child, child', r, {"none", "running"})
      BY <1>6 DEF RunEnds, Assigned, Goes, Places, asked
    <3>2. PICK result \in Results \ {""} : outcome' = [outcome EXCEPT ![r] = result]
      BY <1>6, Endings DEF RunEnds
    <3>3. /\ Assigned(outcome, outcome', r, Results)
          /\ Assigned(answer, answer', r, Seq(Status))
      <4>1. answer' = answer
        BY <1>6 DEF RunEnds
      <4>2. Assigned(answer, answer', r, Seq(Status))
        BY <4>1, Lines
      <4> QED BY <3>2, <4>2 DEF Assigned
    <3>4. dir' = dir \/ \E left \in {"none", "stuck"} : dir' = [dir EXCEPT ![r] = left]
      BY <1>6 DEF RunEnds
    <3>5. Assigned(dir, dir', r, {"none", "there", "stuck"})
      BY <3>4 DEF Assigned
    <3> QED BY <3>1, <3>3, <3>5 DEF Assigns
  <2> QED BY <1>6, <2>1, Typing DEF RunEnds, TypeOK
<1>7. CASE Judge(r)
  <2>1. Assigns(r)
    <3>1. /\ Assigned(kind, kind', r, Kinds \cup {""})
          /\ Assigned(auth, auth', r, BOOLEAN)
          /\ Assigned(pc, pc', r, Places)
          /\ Assigned(over, over', r, BOOLEAN)
          /\ Assigned(child, child', r, {"none", "running"})
          /\ Assigned(outcome, outcome', r, Results)
          /\ Assigned(dir, dir', r, {"none", "there", "stuck"})
      BY <1>7 DEF Judge, Assigned, Goes, Places, asked, work
    <3>2. Assigned(answer, answer', r, Seq(Status))
      <4>1. Line(outcome[r]) \in Status
        BY DEF Line, Status
      <4> QED BY <1>7, <4>1, Lines DEF Judge
    <3> QED BY <3>1, <3>2 DEF Assigns
  <2> QED BY <1>7, <2>1, Typing DEF Judge, TypeOK
<1>8. CASE Process(r)
  <2>1. Assigns(r)
    <3>1. /\ Assigned(kind, kind', r, Kinds \cup {""})
          /\ Assigned(auth, auth', r, BOOLEAN)
          /\ Assigned(over, over', r, BOOLEAN)
          /\ Assigned(child, child', r, {"none", "running"})
          /\ Assigned(outcome, outcome', r, Results)
      BY <1>8 DEF Process, Assigned, asked
    <3>2. PICK left \in {"none", "stuck"} :
            /\ dir' = [dir EXCEPT ![r] = left]
            /\ \/ over[r] /\ Says(r, "timeout") /\ Goes(r, "leaving")
               \/ Says(r, "bad_gateway") /\ Goes(r, "leaving")
               \/ CleanupStatus(left) # "ok" /\ Says(r, CleanupStatus(left)) /\ Goes(r, "leaving")
               \/ CleanupStatus(left) = "ok" /\ answer' = answer /\ Goes(r, "writing")
      BY <1>8 DEF Process
    <3>3. /\ Assigned(dir, dir', r, {"none", "there", "stuck"})
          /\ Assigned(pc, pc', r, Places)
      BY <3>2 DEF Assigned, Goes, Places
    <3>4. CleanupStatus(left) \in {"ok", "broken"}
      BY DEF CleanupStatus
    <3>5. Assigned(answer, answer', r, Seq(Status))
      BY <3>2, <3>4, Lines DEF Status
    <3> QED BY <3>1, <3>3, <3>5 DEF Assigns
  <2> QED BY <1>8, <2>1, Typing DEF Process, TypeOK
<1>9. CASE WritePicture(r)
  <2>1. Assigns(r)
    <3>1. /\ Assigned(kind, kind', r, Kinds \cup {""})
          /\ Assigned(auth, auth', r, BOOLEAN)
          /\ Assigned(pc, pc', r, Places)
          /\ Assigned(over, over', r, BOOLEAN)
          /\ Assigned(child, child', r, {"none", "running"})
          /\ Assigned(outcome, outcome', r, Results)
          /\ Assigned(dir, dir', r, {"none", "there", "stuck"})
      BY <1>9 DEF WritePicture, Assigned, Goes, Places, asked, work
    <3>2. Assigned(answer, answer', r, Seq(Status))
      BY <1>9, Lines DEF WritePicture, Status, asked, work
    <3> QED BY <3>1, <3>2 DEF Assigns
  <2> QED BY <1>9, <2>1, Typing DEF WritePicture, TypeOK
<1>10. CASE Leave(r)
  <2>0. Assigns(r)
    <3>1. /\ Assigned(kind, kind', r, Kinds \cup {""})
          /\ Assigned(auth, auth', r, BOOLEAN)
          /\ Assigned(pc, pc', r, Places)
          /\ Assigned(over, over', r, BOOLEAN)
          /\ Assigned(child, child', r, {"none", "running"})
          /\ Assigned(outcome, outcome', r, Results)
          /\ Assigned(dir, dir', r, {"none", "there", "stuck"})
      BY <1>10 DEF Leave, Assigned, Goes, Places, asked, work
    <3>2. answer' = answer \/ answer' = [answer EXCEPT ![r] = <<"ok">>]
      BY <1>10 DEF Leave
    <3>3. Assigned(answer, answer', r, Seq(Status))
      BY <3>2, Lines
    <3> QED BY <3>1, <3>3 DEF Assigns
  <2>1. InHand # {} /\ IsFiniteSet(InHand)
    BY <1>10, FS_Subset DEF InHand, Admitted, Leave
  <2>2. slots - 1 \in Nat
    BY <2>1, FS_EmptySet, FS_CardinalityType DEF Counted
  <2> QED BY <1>10, <2>0, <2>2, Typing DEF Leave, Freed, TypeOK
<1> QED BY <1>1, <1>2, <1>3, <1>4, <1>5, <1>6, <1>7, <1>8, <1>9, <1>10 DEF Handle

\* Types: the other steps of a client.
LEMMA TypeClient ==
    ASSUME TypeOK, NEW r \in Clients,
           Arrive(r) \/ Frame(r) \/ Flush(r) \/ RunDeadline(r) \/ ClientGoes(r)
    PROVE  TypeOK' /\ Elsewhere(r)
<1>1. CASE Arrive(r)
  <2>1. Assigns(r)
    <3>1. /\ Assigned(over, over', r, BOOLEAN)
          /\ Assigned(pc, pc', r, Places)
          /\ Assigned(child, child', r, {"none", "running"})
          /\ Assigned(outcome, outcome', r, Results)
          /\ Assigned(dir, dir', r, {"none", "there", "stuck"})
      BY <1>1 DEF Arrive, Assigned, Goes, Places, TypeOK
    <3>2. /\ Assigned(kind, kind', r, Kinds \cup {""})
          /\ Assigned(auth, auth', r, BOOLEAN)
      BY <1>1 DEF Arrive, Assigned
    <3>3. Assigned(answer, answer', r, Seq(Status))
      BY <1>1, Lines DEF Arrive
    <3> QED BY <3>1, <3>2, <3>3 DEF Assigns
  <2> QED BY <1>1, <2>1, Typing DEF Arrive, TypeOK
<1>2. CASE Frame(r)
  <2>1. Assigns(r)
    <3>1. /\ Assigned(kind, kind', r, Kinds \cup {""})
          /\ Assigned(auth, auth', r, BOOLEAN)
          /\ Assigned(pc, pc', r, Places)
          /\ Assigned(over, over', r, BOOLEAN)
          /\ Assigned(child, child', r, {"none", "running"})
          /\ Assigned(outcome, outcome', r, Results)
          /\ Assigned(dir, dir', r, {"none", "there", "stuck"})
      BY <1>2 DEF Frame, Assigned, Goes, Places, asked, work
    <3>2. Assigned(answer, answer', r, Seq(Status))
      BY <1>2, Lines DEF Frame, Status, asked, work
    <3> QED BY <3>1, <3>2 DEF Assigns
  <2> QED BY <1>2, <2>1, Typing DEF Frame, TypeOK
<1>3. CASE Flush(r)
  <2>1. Assigns(r)
    <3>1. /\ Assigned(kind, kind', r, Kinds \cup {""})
          /\ Assigned(auth, auth', r, BOOLEAN)
          /\ Assigned(pc, pc', r, Places)
          /\ Assigned(over, over', r, BOOLEAN)
          /\ Assigned(child, child', r, {"none", "running"})
          /\ Assigned(outcome, outcome', r, Results)
          /\ Assigned(dir, dir', r, {"none", "there", "stuck"})
      BY <1>3 DEF Flush, Assigned, Goes, Places, Results
    <3>2. Assigned(answer, answer', r, Seq(Status))
      <4>1. answer' = [answer EXCEPT ![r] = <<>>]
        BY <1>3 DEF Flush
      <4>2. <<>> \in Seq(Status)
        OBVIOUS
      <4> QED BY <4>1, <4>2 DEF Assigned
    <3> QED BY <3>1, <3>2 DEF Assigns
  <2> QED BY <1>3, <2>1, Typing DEF Flush, TypeOK
<1>4. CASE RunDeadline(r)
  <2>1. Assigns(r)
    <3>1. /\ Assigned(kind, kind', r, Kinds \cup {""})
          /\ Assigned(auth, auth', r, BOOLEAN)
          /\ Assigned(pc, pc', r, Places)
          /\ Assigned(over, over', r, BOOLEAN)
          /\ Assigned(child, child', r, {"none", "running"})
          /\ Assigned(outcome, outcome', r, Results)
          /\ Assigned(dir, dir', r, {"none", "there", "stuck"})
      BY <1>4 DEF RunDeadline, Assigned, Goes, Places, asked, work
    <3>2. Assigned(answer, answer', r, Seq(Status))
      BY <1>4, Lines DEF RunDeadline, asked, work
    <3> QED BY <3>1, <3>2 DEF Assigns
  <2> QED BY <1>4, <2>1, Typing DEF RunDeadline, TypeOK
<1>5. CASE ClientGoes(r)
  <2>1. Assigns(r)
    <3>1. /\ Assigned(kind, kind', r, Kinds \cup {""})
          /\ Assigned(auth, auth', r, BOOLEAN)
          /\ Assigned(pc, pc', r, Places)
          /\ Assigned(over, over', r, BOOLEAN)
          /\ Assigned(child, child', r, {"none", "running"})
          /\ Assigned(outcome, outcome', r, Results)
          /\ Assigned(dir, dir', r, {"none", "there", "stuck"})
      BY <1>5 DEF ClientGoes, Assigned, Goes, Places, asked, work
    <3>2. Assigned(answer, answer', r, Seq(Status))
      BY <1>5, Lines DEF ClientGoes, asked, work
    <3> QED BY <3>1, <3>2 DEF Assigns
  <2> QED BY <1>5, <2>1, Typing DEF ClientGoes, TypeOK
<1> QED BY <1>1, <1>2, <1>3, <1>4, <1>5

\* What the command has of its own.
CommandType ==
    /\ phase \in {"starting", "bound", "probed", "serving", "stopping", "exited"}
    /\ address \in {"", "loopback", "remote"}
    /\ stopped \in BOOLEAN
    /\ grace \in {"off", "armed", "expired"}
    /\ code \in {-1, 0, 2, 5, 7, 10}

\* A step that leaves the requests alone.
LEMMA TypeAlone ==
    ASSUME TypeOK, CommandType', UNCHANGED <<start, slots, asked, pc, child, outcome, dir, answer>>,
           over' \in [Clients -> BOOLEAN]
    PROVE  TypeOK'
BY DEF TypeOK, CommandType, asked

\* Types: the command.
LEMMA TypeCommand ==
    ASSUME TypeOK,
           Command \/ Signal \/ GraceEnds \/ ServeFails \/ UNCHANGED vars
    PROVE  TypeOK'
<1>1. CommandType /\ over \in [Clients -> BOOLEAN]
  BY DEF TypeOK, CommandType
<1>2. Literal(start) => start.host \in {"loopback", "remote"}
  BY ServeConstants DEF TypeOK, Literal, Startup
<1>3. CommandType' /\ UNCHANGED <<start, slots, asked, pc, child, outcome, dir, answer>>
  <2> USE <1>1 DEF CommandType, Exit, asked, work
  <2>1. CASE Refuse
    <3>1. StartRefusal(start) \in {0, 2, 10}
      BY DEF StartRefusal
    <3> QED BY <2>1, <3>1 DEF Refuse
  <2>2. CASE BindName
    BY <2>2 DEF BindName
  <2>3. CASE Probe
    BY <2>3 DEF Probe
  <2>4. CASE Serve
    BY <2>4, <1>2 DEF Serve
  <2>5. CASE Shutdown
    BY <2>5 DEF Shutdown
  <2>6. CASE ShutdownReturns
    BY <2>6 DEF ShutdownReturns, LateCode
  <2>7. CASE Signal
    BY <2>7 DEF Signal
  <2>8. CASE GraceEnds
    BY <2>8 DEF GraceEnds
  <2>9. CASE ServeFails
    BY <2>9 DEF ServeFails
  <2>10. CASE UNCHANGED vars
    BY <2>10 DEF vars, command
  <2> QED BY <2>1, <2>2, <2>3, <2>4, <2>5, <2>6, <2>7, <2>8, <2>9, <2>10 DEF Command
<1>4. over' \in [Clients -> BOOLEAN]
  <2>1. CASE Signal
    BY <2>1 DEF Signal
  <2>2. CASE over' = over
    BY <1>1, <2>2
  <2>3. Command \/ GraceEnds \/ ServeFails \/ UNCHANGED vars => over' = over
    BY DEF Command, Refuse, BindName, Probe, Serve, Shutdown, ShutdownReturns, GraceEnds,
           ServeFails, Exit, vars, work
  <2> QED BY <2>1, <2>2, <2>3
<1> QED BY <1>3, <1>4, TypeAlone

-----------------------------------------------------------------------------
(* The steps.                                                              *)

\* What the variables of a client are at its step, once for all.
LEMMA OneClient ==
    ASSUME IInv, NEW r \in Clients
    PROVE  /\ pc[r] \in Places /\ Answered(r) /\ Holds(r) /\ Welcome(r)
           /\ DOMAIN answer = Clients /\ DOMAIN pc = Clients
BY DEF IInv, TypeOK, Faring

\* A step of one client that says what it must of that client.
LEMMA Fares ==
    ASSUME Faring, NEW r \in Clients, Elsewhere(r), start' = start, address' = address,
           Answered(r)' /\ Holds(r)' /\ Welcome(r)'
    PROVE  Faring'
<1> SUFFICES ASSUME NEW q \in Clients \ {r}
             PROVE  (Answered(q) /\ Holds(q) /\ Welcome(q))'
  BY DEF Faring
<1>1. Answered(q) /\ Holds(q) /\ Welcome(q)
  BY DEF Faring
<1>2. Answered(q)'
  <2>1. pc'[q] = pc[q] /\ kind'[q] = kind[q] /\ outcome'[q] = outcome[q]
    BY DEF Elsewhere
  <2>2. answer'[q] = answer[q] /\ dir'[q] = dir[q]
    BY DEF Elsewhere
  <2> QED BY <1>1, <2>1, <2>2 DEF Answered, Admits
<1>3. Holds(q)'
  BY <1>1 DEF Elsewhere, Holds, Admitted
<1>4. Welcome(q)'
  BY <1>1 DEF Elsewhere, Welcome, Admitted, Allowed
<1> QED BY <1>2, <1>3, <1>4

\* How many slots there are does not change.
LEMMA Limits ==
    ASSUME TypeOK, start' = start
    PROVE  Limit' = Limit /\ Limit \in Nat /\ slots \in Nat
<1>1. start.maxConcurrency \in Int
  BY ServeConstants DEF TypeOK, Startup
<1>2. slots \in Nat
  BY DEF TypeOK
<1> QED BY <1>1, <1>2 DEF Limit

\* A step that neither takes nor gives back a slot.
LEMMA Keeps ==
    ASSUME TypeOK, Counted, NEW r \in Clients, NEW to, Goes(r, to), start' = start,
           slots' = slots, Admitted(r) <=> Admitted(r)'
    PROVE  Counted'
<1>1. \A q \in Clients : Admitted(q) <=> Admitted(q)'
  BY DEF Goes, TypeOK, Admitted
<1>2. InHand' = InHand
  BY <1>1 DEF InHand
<1> QED BY <1>2 DEF Counted, Limit

\* A step that takes a slot.
LEMMA Takes ==
    ASSUME TypeOK, Counted, NEW r \in Clients, Admit(r), slots < Limit, slots' = slots + 1,
           Goes(r, "admitted")
    PROVE  Counted'
<1>1. IsFiniteSet(InHand) /\ r \notin InHand
  BY ServeConstants, FS_Subset DEF InHand, Admitted, Admit
<1>2. InHand' = InHand \cup {r}
  BY DEF Goes, TypeOK, Admitted, InHand
<1>3. Cardinality(InHand') = Cardinality(InHand) + 1
  BY <1>1, <1>2, FS_AddElement
<1>4. Limit' = Limit /\ Limit \in Nat /\ slots \in Nat
  BY Limits DEF Admit, command
<1> QED BY <1>3, <1>4 DEF Counted

\* A step that gives one back.
LEMMA Gives ==
    ASSUME TypeOK, Counted, NEW r \in Clients, Leave(r)
    PROVE  Counted'
<1>1. IsFiniteSet(InHand) /\ r \in InHand
  BY ServeConstants, FS_Subset DEF InHand, Admitted, Leave
<1>2. InHand' = InHand \ {r}
  BY DEF Goes, TypeOK, Admitted, InHand, Leave
<1>3. Cardinality(InHand') = Cardinality(InHand) - 1
  BY <1>1, <1>2, FS_RemoveElement
<1>4. Limit' = Limit /\ Limit \in Nat /\ slots \in Nat
  BY Limits DEF Leave, command
<1>5. slots' = slots - 1
  BY DEF Leave, Freed
<1> QED BY <1>3, <1>4, <1>5 DEF Counted

\* What it means to say something first.
LEMMA Said ==
    ASSUME TypeOK, NEW r \in Clients, answer[r] = Silent, NEW s, Says(r, s)
    PROVE  /\ s = "ok" => answer'[r] = Good
           /\ s = "server_busy" => answer'[r] = Busy
           /\ s = "rate_limited" => answer'[r] = Limited
           /\ s \in Status \ {"ok", "server_busy", "rate_limited"} => Fails(answer'[r])
<1>1. answer'[r] = Append(answer[r], s)
  BY DEF TypeOK, Says
<1>2. answer'[r] = <<s>>
  BY <1>1, Singles DEF Silent
<1> QED BY <1>2 DEF Good, Busy, Limited, Fails

\* The step of a handler before its run.
LEMMA Before ==
    ASSUME IInv, NEW r \in Clients, TypeOK', Elsewhere(r),
           Reject(r) \/ ListModels(r) \/ Admit(r) \/ Prepare(r) \/ Start(r)
    PROVE  Faring' /\ Counted'
<1> USE OneClient DEF Goes
<1>0. TypeOK /\ Faring /\ Counted
  BY DEF IInv
<1>1. CASE Reject(r)
  <2>1. pc'[r] = "flushing" /\ pc[r] = "checking" /\ command' = command
    BY <1>1 DEF Reject
  <2>2. Fails(answer'[r])
    <3>1. answer[r] = Silent
      BY <2>1 DEF Answered
    <3>2. Says(r, "unauthorized") \/ Says(r, "invalid")
      BY <1>1 DEF Reject
    <3> QED BY <1>0, <3>1, <3>2, Said DEF Status
  <2>3. Answered(r)'
    BY <2>1, <2>2 DEF Answered, Admits
  <2>4. Holds(r)'
    BY <1>1, <2>1 DEF Reject, Holds, asked, work, Admitted
  <2>5. Welcome(r)'
    BY <1>1, <2>1 DEF Reject, Welcome, command, Admitted
  <2>6. Faring'
    BY <1>0, <2>1, <2>3, <2>4, <2>5, Fares DEF command
  <2>7. Counted'
    BY <1>0, <1>1, <2>1, Keeps DEF Reject, Admitted, command
  <2> QED BY <2>6, <2>7
<1>2. CASE ListModels(r)
  <2>1. /\ pc'[r] = "flushing" /\ pc[r] = "checking" /\ command' = command
       /\ kind' = kind /\ kind[r] = "models" /\ auth' = auth /\ child' = child
       /\ outcome' = outcome /\ dir' = dir /\ Says(r, "ok")
    BY <1>2 DEF ListModels, asked, work
  <2>2. answer'[r] = Good
    BY <1>0, <2>1, Said DEF Answered
  <2>3. Answered(r)'
    BY <2>1, <2>2 DEF Answered, Holds
  <2>4. Holds(r)'
    BY <2>1 DEF Holds, Admitted
  <2>5. Welcome(r)'
    BY <2>1 DEF Welcome, Allowed, Admitted, command
  <2>6. Faring'
    BY <1>0, <2>1, <2>3, <2>4, <2>5, Fares DEF command
  <2>7. Counted'
    BY <1>0, <1>2, <2>1, Keeps DEF ListModels, Admitted, command
  <2> QED BY <2>6, <2>7
<1>3. CASE Admit(r)
  <2>1. /\ pc[r] = "checking" /\ command' = command /\ Allowed(r)
        /\ kind' = kind /\ kind[r] # "models" /\ auth' = auth /\ child' = child
        /\ outcome' = outcome /\ dir' = dir
    BY <1>3 DEF Admit, asked, work
  <2>2. CASE slots < Limit /\ slots' = slots + 1 /\ Goes(r, "admitted") /\ answer' = answer
    <3>1. Answered(r)'
      BY <2>1, <2>2 DEF Answered
    <3>2. Holds(r)'
      BY <2>1, <2>2 DEF Holds, Admitted
    <3>3. Welcome(r)'
      BY <2>1, <2>2 DEF Welcome, Allowed, Admitted, command
    <3>4. Faring'
      BY <1>0, <2>1, <3>1, <3>2, <3>3, Fares DEF command
    <3>5. Counted'
      BY <1>0, <1>3, <2>2, Takes
    <3> QED BY <3>4, <3>5
  <2>3. CASE Says(r, "server_busy") /\ Goes(r, "flushing") /\ slots' = slots
    <3>1. answer'[r] = Busy
      BY <1>0, <2>1, <2>3, Said DEF Answered
    <3>2. Answered(r)'
      BY <2>1, <2>3, <3>1 DEF Answered, Holds
    <3>3. Holds(r)'
      BY <2>1, <2>3 DEF Holds, Admitted
    <3>4. Welcome(r)'
      BY <2>1, <2>3 DEF Welcome, Allowed, Admitted, command
    <3>5. Faring'
      BY <1>0, <2>1, <3>2, <3>3, <3>4, Fares DEF command
    <3>6. Counted'
      BY <1>0, <2>1, <2>3, Keeps DEF Admitted, command
    <3> QED BY <3>5, <3>6
  <2> QED BY <1>3, <2>2, <2>3 DEF Admit
<1>4. CASE Prepare(r)
  <2>1. /\ pc[r] = "admitted" /\ command' = command /\ slots' = slots
        /\ kind' = kind /\ auth' = auth /\ child' = child /\ outcome' = outcome
    BY <1>4 DEF Prepare, asked
  <2>2. CASE /\ dir' = IF kind[r] = "images" THEN [dir EXCEPT ![r] = "there"] ELSE dir
             /\ Goes(r, "prepared") /\ answer' = answer
    <3>1. Answered(r)'
      BY <2>1, <2>2 DEF Answered
    <3>2. dir'[r] = IF kind[r] = "images" THEN "there" ELSE dir[r]
      <4>1. dir \in [Clients -> {"none", "there", "stuck"}]
        BY <1>0 DEF TypeOK
      <4> QED BY <2>2, <4>1
    <3>3. Holds(r)'
      BY <2>1, <2>2, <3>2 DEF Holds, Admitted
    <3>4. Welcome(r)'
      BY <2>1, <2>2 DEF Welcome, Allowed, Admitted, command
    <3>5. Faring'
      BY <1>0, <2>1, <3>1, <3>3, <3>4, Fares DEF command
    <3>6. Counted'
      BY <1>0, <2>1, <2>2, Keeps DEF Admitted, command
    <3> QED BY <3>5, <3>6
  <2>3. CASE /\ Says(r, "invalid") \/ Says(r, "broken") \/ Says(r, "timeout")
             /\ Goes(r, "leaving")
             /\ dir' = dir \/ \E left \in {"none", "stuck"} : dir' = [dir EXCEPT ![r] = left]
    <3>1. Fails(answer'[r])
      <4>1. answer[r] = Silent
        BY <2>1 DEF Answered
      <4> QED BY <1>0, <2>3, <4>1, Said DEF Status
    <3>2. Answered(r)'
      BY <2>1, <2>3, <3>1 DEF Answered, Admits
    <3>3. dir'[r] \in {"none", "stuck"}
      <4>1. dir \in [Clients -> {"none", "there", "stuck"}] /\ dir[r] = "none"
        BY <1>0, <2>1 DEF TypeOK, Holds
      <4> QED BY <2>3, <4>1
    <3>4. Holds(r)'
      BY <2>1, <2>3, <3>3 DEF Holds, Admitted
    <3>5. Welcome(r)'
      BY <2>1, <2>3 DEF Welcome, Allowed, Admitted, command
    <3>6. Faring'
      BY <1>0, <2>1, <3>2, <3>4, <3>5, Fares DEF command
    <3>7. Counted'
      BY <1>0, <2>1, <2>3, Keeps DEF Admitted, command
    <3> QED BY <3>6, <3>7
  <2> QED BY <1>4, <2>2, <2>3 DEF Prepare
<1>5. CASE Start(r)
  <2>1. /\ pc[r] = "prepared" /\ command' = command /\ slots' = slots /\ answer' = answer
        /\ kind' = kind /\ auth' = auth
    BY <1>5 DEF Start, asked
  <2>2. CASE /\ child' = [child EXCEPT ![r] = "running"]
             /\ dir' = IF kind[r] = "picture" THEN [dir EXCEPT ![r] = "there"] ELSE dir
             /\ Goes(r, "running") /\ outcome' = outcome
    <3>1. Answered(r)'
      BY <2>1, <2>2 DEF Answered
    <3>2. dir'[r] = IF kind[r] = "picture" THEN "there" ELSE dir[r]
      <4>1. dir \in [Clients -> {"none", "there", "stuck"}]
        BY <1>0 DEF TypeOK
      <4> QED BY <2>2, <4>1
    <3>3. Holds(r)'
      BY <2>1, <2>2, <3>2 DEF Holds, Admitted
    <3>4. Welcome(r)'
      BY <2>1, <2>2 DEF Welcome, Allowed, Admitted, command
    <3>5. Faring'
      BY <1>0, <2>1, <3>1, <3>3, <3>4, Fares DEF command
    <3>6. Counted'
      BY <1>0, <2>1, <2>2, Keeps DEF Admitted, command
    <3> QED BY <3>5, <3>6
  <2>3. CASE /\ \E why \in Failures(kind[r]) : outcome' = [outcome EXCEPT ![r] = why]
             /\ Goes(r, "judging") /\ child' = child /\ dir' = dir
    <3>1. outcome'[r] \in Results \ {"", "ok"}
      <4>1. outcome \in [Clients -> Results]
        BY <1>0 DEF TypeOK
      <4> QED BY <2>3, <4>1, Endings
    <3>2. Answered(r)'
      BY <2>1, <2>3, <3>1 DEF Answered
    <3>3. Holds(r)'
      BY <2>1, <2>3, <3>1 DEF Holds, Admitted
    <3>4. Welcome(r)'
      BY <2>1, <2>3 DEF Welcome, Allowed, Admitted, command
    <3>5. Faring'
      BY <1>0, <2>1, <3>2, <3>3, <3>4, Fares DEF command
    <3>6. Counted'
      BY <1>0, <2>1, <2>3, Keeps DEF Admitted, command
    <3> QED BY <3>5, <3>6
  <2> QED BY <1>5, <2>2, <2>3 DEF Start
<1> QED BY <1>1, <1>2, <1>3, <1>4, <1>5

\* The run and its first frame, and what is made of it.
LEMMA Ran ==
    ASSUME IInv, NEW r \in Clients, TypeOK', Elsewhere(r),
           Frame(r) \/ RunEnds(r) \/ Judge(r)
    PROVE  Faring' /\ Counted'
<1> USE OneClient DEF Goes
<1>0. TypeOK /\ Faring /\ Counted
  BY DEF IInv
<1>1. CASE Frame(r)
  <2>1. /\ pc[r] = "running" /\ kind[r] = "stream" /\ answer[r] = <<>> /\ Says(r, "ok")
        /\ UNCHANGED <<command, slots, kind, auth, pc, child, outcome, dir>>
    BY <1>1 DEF Frame, asked, work
  <2>2. answer'[r] = Good
    BY <1>0, <2>1, Said DEF Silent
  <2>3. Answered(r)'
    BY <2>1, <2>2 DEF Answered
  <2>4. Holds(r)'
    BY <2>1 DEF Holds, Admitted
  <2>5. Welcome(r)'
    BY <2>1 DEF Welcome, Allowed, Admitted, command
  <2>6. Faring'
    BY <1>0, <2>1, <2>3, <2>4, <2>5, Fares DEF command
  <2>7. Counted'
    BY <1>0, <2>1 DEF Counted, InHand, Admitted, Limit, command
  <2> QED BY <2>6, <2>7
<1>2. CASE RunEnds(r)
  <2>1. /\ pc[r] = "running" /\ Goes(r, "judging")
        /\ child' = [child EXCEPT ![r] = "none"]
        /\ UNCHANGED <<command, slots, kind, auth, answer>>
    BY <1>2 DEF RunEnds, asked
  <2>2. PICK result \in Results \ {""} :
          /\ result = "ok" /\ kind[r] = "stream" => answer[r] = <<"ok">>
          /\ outcome' = [outcome EXCEPT ![r] = result]
          /\ dir' \in IF kind[r] = "picture" /\ result # "ok"
                        THEN {[dir EXCEPT ![r] = left] : left \in {"none", "stuck"}} ELSE {dir}
    BY <1>2, Endings DEF RunEnds
  <2>3. outcome'[r] = result /\ child'[r] = "none" /\ pc'[r] = "judging"
    <3>1. outcome \in [Clients -> Results] /\ child \in [Clients -> {"none", "running"}]
      BY <1>0 DEF TypeOK
    <3> QED BY <2>1, <2>2, <3>1
  <2>4. IF kind[r] = "picture" /\ result # "ok"
          THEN dir'[r] \in {"none", "stuck"} ELSE dir'[r] = dir[r]
    <3>1. dir \in [Clients -> {"none", "there", "stuck"}]
      BY <1>0 DEF TypeOK
    <3> QED BY <2>2, <3>1
  <2>5. Answered(r)'
    BY <2>1, <2>2, <2>3 DEF Answered, Good
  <2>6. Holds(r)'
    BY <2>1, <2>3, <2>4 DEF Holds, Admitted
  <2>7. Welcome(r)'
    BY <2>1, <2>3 DEF Welcome, Allowed, Admitted, command
  <2>8. Faring'
    BY <1>0, <2>1, <2>5, <2>6, <2>7, Fares DEF command
  <2>9. Counted'
    BY <1>0, <2>1, <2>3, Keeps DEF Admitted, command
  <2> QED BY <2>8, <2>9
<1>3. CASE Judge(r)
  <2>1. /\ pc[r] = "judging"
        /\ UNCHANGED <<command, slots, kind, auth, child, outcome>>
    BY <1>3 DEF Judge, asked
  <2>2. \/ /\ outcome[r] = "ok" /\ kind[r] = "picture" /\ Goes(r, "processing") /\ answer' = answer
        \/ /\ outcome[r] # "ok" /\ answer[r] = Silent /\ Goes(r, "leaving")
           /\ Says(r, Line(outcome[r]))
        \/ /\ ~(outcome[r] = "ok" /\ kind[r] = "picture")
           /\ ~(outcome[r] # "ok" /\ answer[r] = Silent)
           /\ Goes(r, "leaving") /\ answer' = answer
    BY <1>3 DEF Judge, Silent
  <2>3. IF kind[r] = "images" THEN dir'[r] \in {"none", "stuck"} ELSE dir'[r] = dir[r]
    <3>1. dir \in [Clients -> {"none", "there", "stuck"}]
      BY <1>0 DEF TypeOK
    <3>2. dir' \in IF kind[r] = "images"
                     THEN {[dir EXCEPT ![r] = left] : left \in {"none", "stuck"}} ELSE {dir}
      BY <1>3 DEF Judge
    <3> QED BY <3>1, <3>2
  <2>4. CASE outcome[r] = "ok" /\ kind[r] = "picture" /\ Goes(r, "processing") /\ answer' = answer
    <3>1. Answered(r)'
      BY <2>1, <2>4 DEF Answered
    <3>2. Holds(r)'
      BY <2>1, <2>3, <2>4 DEF Holds, Admitted
    <3>3. Welcome(r)'
      BY <2>1, <2>4 DEF Welcome, Allowed, Admitted, command
    <3>4. Faring'
      BY <1>0, <2>1, <3>1, <3>2, <3>3, Fares DEF command
    <3>5. Counted'
      BY <1>0, <2>1, <2>4, Keeps DEF Admitted, command
    <3> QED BY <3>4, <3>5
  <2>5. CASE ~(outcome[r] = "ok" /\ kind[r] = "picture") /\ Goes(r, "leaving")
    <3>1. outcome[r] # "ok" /\ kind[r] = "picture" => dir[r] # "there"
      BY <2>1 DEF Holds
    <3>2. Holds(r)'
      BY <2>1, <2>3, <2>5, <3>1 DEF Holds, Admitted
    <3>3. Welcome(r)'
      BY <2>1, <2>5 DEF Welcome, Allowed, Admitted, command
    <3>4. Answered(r)'
      <4>1. CASE outcome[r] # "ok" /\ answer[r] = Silent /\ Says(r, Line(outcome[r]))
        <5>1. \/ outcome[r] = "limited" /\ Line(outcome[r]) = "rate_limited"
              \/ Line(outcome[r]) \in Status \ {"ok", "server_busy", "rate_limited"}
          BY DEF Line, Status
        <5>2. Admits(r)'
          BY <1>0, <2>1, <4>1, <5>1, Said DEF Admits
        <5> QED BY <2>1, <2>5, <5>2 DEF Answered
      <4>2. CASE ~(outcome[r] # "ok" /\ answer[r] = Silent) /\ answer' = answer
        <5>1. outcome[r] \in Results \ {""} /\ kind[r] # "models"
          BY <2>1 DEF Holds, Admitted
        <5>2. \/ answer[r] = Silent /\ outcome[r] = "ok" /\ kind[r] # "stream"
              \/ answer[r] = Good /\ kind[r] = "stream"
          BY <2>1, <4>2, <5>1 DEF Answered, Silent, Good
        <5> QED BY <2>1, <2>5, <4>2, <5>1, <5>2 DEF Answered
      <4> QED BY <2>2, <2>5, <4>1, <4>2
    <3>5. Faring'
      BY <1>0, <2>1, <3>2, <3>3, <3>4, Fares DEF command
    <3>6. Counted'
      BY <1>0, <2>1, <2>5, Keeps DEF Admitted, command
    <3> QED BY <3>5, <3>6
  <2> QED BY <2>2, <2>4, <2>5
<1> QED BY <1>1, <1>2, <1>3

\* A picture is looked after, and a handler returns.
LEMMA Returning ==
    ASSUME IInv, NEW r \in Clients, TypeOK', Elsewhere(r),
           Process(r) \/ WritePicture(r) \/ Leave(r)
    PROVE  Faring' /\ Counted'
<1> USE OneClient DEF Goes
<1>0. TypeOK /\ Faring /\ Counted
  BY DEF IInv
<1>1. CASE Process(r)
  <2>1. /\ pc[r] = "processing"
        /\ UNCHANGED <<command, slots, kind, auth, child, outcome>>
    BY <1>1 DEF Process, asked
  <2>2. answer[r] = Silent /\ kind[r] = "picture" /\ outcome[r] = "ok" /\ child[r] # "running"
    BY <2>1 DEF Answered, Holds
  <2>3. PICK left \in {"none", "stuck"} :
          /\ dir' = [dir EXCEPT ![r] = left]
          /\ \/ over[r] /\ Says(r, "timeout") /\ Goes(r, "leaving")
             \/ Says(r, "bad_gateway") /\ Goes(r, "leaving")
             \/ CleanupStatus(left) # "ok" /\ Says(r, CleanupStatus(left)) /\ Goes(r, "leaving")
             \/ CleanupStatus(left) = "ok" /\ answer' = answer /\ Goes(r, "writing")
    BY <1>1 DEF Process
  <2>4. dir'[r] = left
    <3>1. dir \in [Clients -> {"none", "there", "stuck"}]
      BY <1>0 DEF TypeOK
    <3> QED BY <2>3, <3>1
  <2>5. CASE CleanupStatus(left) = "ok" /\ answer' = answer /\ Goes(r, "writing")
    <3>1. left = "none"
      BY <2>5 DEF CleanupStatus
    <3>2. Answered(r)'
      BY <2>1, <2>2, <2>5 DEF Answered
    <3>3. Holds(r)'
      BY <2>1, <2>2, <2>4, <2>5, <3>1 DEF Holds, Admitted
    <3>4. Welcome(r)'
      BY <2>1, <2>5 DEF Welcome, Allowed, Admitted, command
    <3>5. Faring'
      BY <1>0, <2>1, <3>2, <3>3, <3>4, Fares DEF command
    <3>6. pc'[r] = "writing" /\ start' = start /\ slots' = slots
      BY <2>1, <2>5 DEF command
    <3>7. Counted'
      BY <1>0, <2>1, <2>5, <3>6, Keeps DEF Admitted
    <3> QED BY <3>5, <3>7
  <2>6. CASE Fails(answer'[r]) /\ Goes(r, "leaving")
    <3>1. Answered(r)'
      BY <2>1, <2>6 DEF Answered, Admits
    <3>2. Holds(r)'
      BY <2>1, <2>2, <2>4, <2>6 DEF Holds, Admitted
    <3>3. Welcome(r)'
      BY <2>1, <2>6 DEF Welcome, Allowed, Admitted, command
    <3>4. Faring'
      BY <1>0, <2>1, <3>1, <3>2, <3>3, Fares DEF command
    <3>5. Counted'
      BY <1>0, <2>1, <2>6, Keeps DEF Admitted, command
    <3> QED BY <3>4, <3>5
  <2>7. CleanupStatus(left) # "ok" => CleanupStatus(left) = "broken"
    BY DEF CleanupStatus
  <2>8. (Says(r, "timeout") \/ Says(r, "bad_gateway") \/ Says(r, "broken")) => Fails(answer'[r])
    BY <1>0, <2>2, Said DEF Status
  <2> QED BY <2>3, <2>5, <2>6, <2>7, <2>8
<1>2. CASE WritePicture(r)
  <2>1. /\ pc[r] = "writing" /\ Says(r, "ok") /\ Goes(r, "leaving")
        /\ UNCHANGED <<command, slots, kind, auth, child, outcome, dir>>
    BY <1>2 DEF WritePicture, asked, work
  <2>2. /\ answer[r] = Silent /\ kind[r] = "picture" /\ outcome[r] = "ok" /\ dir[r] = "none"
    BY <2>1 DEF Answered, Holds
  <2>3. answer'[r] = Good
    BY <1>0, <2>1, <2>2, Said
  <2>4. Answered(r)'
    BY <2>1, <2>2, <2>3 DEF Answered
  <2>5. Holds(r)'
    BY <2>1, <2>2 DEF Holds, Admitted
  <2>6. Welcome(r)'
    BY <2>1 DEF Welcome, Allowed, Admitted, command
  <2>7. Faring'
    BY <1>0, <2>1, <2>4, <2>5, <2>6, Fares DEF command
  <2>8. Counted'
    BY <1>0, <2>1, Keeps DEF Admitted, command
  <2> QED BY <2>7, <2>8
<1>3. CASE Leave(r)
  <2>1. /\ pc[r] = "leaving" /\ Goes(r, "flushing")
        /\ answer' = IF answer[r] = Silent THEN [answer EXCEPT ![r] = Good] ELSE answer
        /\ UNCHANGED <<command, kind, auth, child, outcome, dir>>
    BY <1>3 DEF Leave, asked, work, Silent, Good
  <2>2. answer'[r] = IF answer[r] = Silent THEN Good ELSE answer[r]
    <3>1. answer \in [Clients -> Seq(Status)]
      BY <1>0 DEF TypeOK
    <3> QED BY <2>1, <3>1
  <2>3. ~Fails(Silent) /\ Silent # Limited
    BY Singles DEF Fails, Silent, Limited
  <2>4. Answered(r)'
    BY <2>1, <2>2, <2>3 DEF Answered, Admits
  <2>5. Holds(r)'
    BY <2>1 DEF Holds, Admitted
  <2>6. Welcome(r)'
    BY <2>1 DEF Welcome, Allowed, Admitted, command
  <2>7. Faring'
    BY <1>0, <2>1, <2>4, <2>5, <2>6, Fares DEF command
  <2>8. Counted'
    BY <1>0, <1>3, Gives
  <2> QED BY <2>7, <2>8
<1> QED BY <1>1, <1>2, <1>3

\* A request arrives or is over.
LEMMA Coming ==
    ASSUME IInv, NEW r \in Clients, TypeOK', Elsewhere(r), Arrive(r) \/ Flush(r)
    PROVE  Faring' /\ Counted'
<1> USE OneClient DEF Goes
<1>0. TypeOK /\ Faring /\ Counted /\ Started
  BY DEF IInv
<1>1. CASE Arrive(r)
  <2>1. /\ pc[r] = "idle" /\ Goes(r, "checking") /\ phase = "serving"
        /\ UNCHANGED <<command, slots, child, outcome, dir, answer>>
    BY <1>1 DEF Arrive
  <2>2. address # ""
    BY <1>0, <2>1 DEF Started
  <2>3. Answered(r)'
    BY <2>1 DEF Answered
  <2>4. Holds(r)'
    BY <2>1 DEF Holds, Admitted
  <2>5. Welcome(r)'
    BY <2>1, <2>2 DEF Welcome, Admitted, command
  <2>6. Faring'
    BY <1>0, <2>1, <2>3, <2>4, <2>5, Fares DEF command
  <2>7. Counted'
    BY <1>0, <2>1, Keeps DEF Admitted, command
  <2> QED BY <2>6, <2>7
<1>2. CASE Flush(r)
  <2>1. /\ pc[r] = "flushing" /\ Goes(r, "idle")
        /\ UNCHANGED <<command, slots, child>>
    BY <1>2 DEF Flush
  <2>2. outcome'[r] = "" /\ dir'[r] = "none" /\ answer'[r] = Silent
    <3>1. /\ outcome \in [Clients -> Results]
          /\ dir \in [Clients -> {"none", "there", "stuck"}]
          /\ answer \in [Clients -> Seq(Status)]
      BY <1>0 DEF TypeOK
    <3> QED BY <1>2, <3>1 DEF Flush, Silent
  <2>3. Answered(r)'
    BY <2>1, <2>2 DEF Answered
  <2>4. Holds(r)'
    BY <2>1, <2>2 DEF Holds, Admitted
  <2>5. Welcome(r)'
    BY <2>1 DEF Welcome, Admitted, command
  <2>6. Faring'
    BY <1>0, <2>1, <2>3, <2>4, <2>5, Fares DEF command
  <2>7. Counted'
    BY <1>0, <2>1, Keeps DEF Admitted, command
  <2> QED BY <2>6, <2>7
<1> QED BY <1>1, <1>2

\* Nothing happens to the requests, but for their contexts.
LEMMA Alone ==
    ASSUME Faring, Counted, start' = start, (address # "" => address' # ""),
           UNCHANGED <<slots, kind, auth, pc, child, outcome, dir, answer>>
    PROVE  Faring' /\ Counted'
<1>1. Counted'
  BY DEF Counted, InHand, Admitted, Limit
<1>2. ASSUME NEW r \in Clients
      PROVE  (Answered(r) /\ Holds(r) /\ Welcome(r))'
  <2>1. Answered(r) /\ Holds(r) /\ Welcome(r)
    BY DEF Faring
  <2>2. Answered(r)'
    BY <2>1 DEF Answered, Admits
  <2>3. Holds(r)'
    BY <2>1 DEF Holds, Admitted
  <2>4. Welcome(r)'
    BY <2>1 DEF Welcome, Allowed, Admitted
  <2> QED BY <2>2, <2>3, <2>4
<1> QED BY <1>1, <1>2 DEF Faring

-----------------------------------------------------------------------------
(* The command, and what holds of all that is reached.                     *)

\* A command line that is not refused, judged.
LEMMA Judged ==
    ASSUME TypeOK, StartRefusal(start) = 0
    PROVE  Literal(start) => start.host \in {"loopback", "remote"} /\ Trusted(start, start.host)
<1>1. start \in Startup
  BY ServeConstants DEF TypeOK
<1>2. start.host \in {"loopback", "remote", "name"}
  BY <1>1 DEF Startup
<1>3. start.host = "remote" => RemoteAuthorized(start)
  BY DEF StartRefusal
<1> QED BY <1>2, <1>3 DEF Literal, Trusted

\* The steps of the command.
LEMMA Commanding ==
    ASSUME IInv, Command \/ Signal \/ GraceEnds \/ ServeFails \/ UNCHANGED vars
    PROVE  Started' /\ Waited' /\ Faring' /\ Counted'
<1>0. TypeOK /\ Started /\ Waited /\ Faring /\ Counted
  BY DEF IInv
<1>1. start' = start /\ UNCHANGED <<slots, kind, auth, pc, child, outcome, dir, answer>>
  <2> USE DEF Exit, asked, work
  <2>1. CASE Refuse \/ BindName
    BY <2>1 DEF Refuse, BindName
  <2>2. CASE Probe \/ Serve
    BY <2>2 DEF Probe, Serve
  <2>3. CASE Shutdown \/ ShutdownReturns
    BY <2>3 DEF Shutdown, ShutdownReturns
  <2>4. CASE Signal \/ GraceEnds \/ ServeFails
    BY <2>4 DEF Signal, GraceEnds, ServeFails
  <2>5. CASE UNCHANGED vars
    BY <2>5 DEF vars, command
  <2> QED BY <2>1, <2>2, <2>3, <2>4, <2>5 DEF Command
<1>2. /\ phase' = "exited" \/ code' = code
      /\ phase = "exited" => phase' = phase /\ code' = code
      /\ phase # "exited" /\ code' = 0 => code = 0 \/ \A r \in Clients : pc[r] = "idle"
  <2> USE DEF Exit
  <2>1. CASE Refuse
    BY <2>1 DEF Refuse
  <2>2. CASE BindName
    BY <2>2 DEF BindName
  <2>3. CASE Probe
    BY <2>3 DEF Probe
  <2>4. CASE Serve
    BY <2>4 DEF Serve
  <2>5. CASE Shutdown \/ Signal \/ GraceEnds
    BY <2>5 DEF Shutdown, Signal, GraceEnds
  <2>6. CASE ShutdownReturns
    BY <2>6 DEF ShutdownReturns, LateCode
  <2>7. CASE ServeFails
    BY <2>7 DEF ServeFails
  <2>8. CASE UNCHANGED vars
    BY <2>8 DEF vars, command
  <2> QED BY <2>1, <2>2, <2>3, <2>4, <2>5, <2>6, <2>7, <2>8 DEF Command
<1>3. Waited'
  BY <1>0, <1>1, <1>2 DEF Waited
<1>4. Started' /\ (address # "" => address' # "")
  <2> USE <1>0, <1>1 DEF Started, Exit
  <2>1. CASE Refuse
    BY <2>1 DEF Refuse
  <2>2. CASE BindName
    BY <2>2 DEF BindName
  <2>3. CASE Probe
    BY <2>3 DEF Probe
  <2>4. CASE Serve
    BY <2>4, Judged DEF Serve
  <2>5. CASE Shutdown \/ Signal \/ GraceEnds
    BY <2>5 DEF Shutdown, Signal, GraceEnds
  <2>6. CASE ShutdownReturns
    BY <2>6 DEF ShutdownReturns
  <2>7. CASE ServeFails
    BY <2>7 DEF ServeFails
  <2>8. CASE UNCHANGED vars
    BY <2>8 DEF vars, command
  <2> QED BY <2>1, <2>2, <2>3, <2>4, <2>5, <2>6, <2>7, <2>8 DEF Command
<1>5. Faring' /\ Counted'
  BY <1>0, <1>1, <1>4, Alone
<1> QED BY <1>3, <1>4, <1>5

\* The steps of the clients.
LEMMA Serving ==
    ASSUME IInv, Alive, NEW r \in Clients,
           Arrive(r) \/ Handle(r) \/ Frame(r) \/ Flush(r) \/ RunDeadline(r) \/ ClientGoes(r)
    PROVE  IInv'
<1>0. TypeOK /\ Started /\ Waited /\ Faring /\ Counted /\ IsFiniteSet(Clients)
  BY ServeConstants DEF IInv
<1>1. TypeOK' /\ Elsewhere(r)
  BY <1>0, TypeHandle, TypeClient
<1>2. command' = command
  BY DEF Handle, Arrive, Reject, ListModels, Admit, Prepare, Start, RunEnds, Judge, Process,
         WritePicture, Leave, Frame, Flush, RunDeadline, ClientGoes, command
<1>3. Started'
  BY <1>0, <1>2 DEF Started, command
<1>4. Waited'
  BY <1>0, <1>2 DEF Waited, command, Alive
<1>5. Faring' /\ Counted'
  <2>1. CASE RunDeadline(r) \/ ClientGoes(r)
    BY <1>0, <2>1, Alone DEF RunDeadline, ClientGoes, command, asked
  <2> QED BY <1>1, <2>1, Before, Ran, Returning, Coming DEF Handle
<1> QED BY <1>1, <1>3, <1>4, <1>5 DEF IInv

\* Every step.
LEMMA Stepping ==
    ASSUME IInv, [Next]_vars
    PROVE  IInv'
<1>1. CASE Command \/ Signal \/ GraceEnds \/ ServeFails \/ UNCHANGED vars
  <2>1. TypeOK'
    BY <1>1, TypeCommand DEF IInv
  <2> QED BY <1>1, <2>1, Commanding DEF IInv
<1> QED BY <1>1, Serving DEF Next, Ended

\* The beginning.
LEMMA Beginning ==
    ASSUME Init
    PROVE  IInv
<1>1. TypeOK
  <2>1. <<>> \in Seq(Status)
    OBVIOUS
  <2> QED BY <2>1 DEF Init, TypeOK, Places, Results
<1>2. Started
  BY DEF Init, Started
<1>5. Waited
  <2>1. code = -1
    BY DEF Init
  <2> QED BY <2>1 DEF Waited
<1>3. Faring
  BY DEF Init, Faring, Answered, Holds, Welcome, Admitted, Silent
<1>4. Counted
  <2>1. InHand = {}
    BY DEF Init, InHand, Admitted
  <2>2. slots = 0
    BY DEF Init
  <2>3. 0 <= Limit
    <3>1. start.maxConcurrency \in Int
      BY <1>1, ServeConstants DEF TypeOK, Startup
    <3> QED BY <3>1 DEF Limit
  <2> QED BY <2>1, <2>2, <2>3, FS_EmptySet DEF Counted
<1> QED BY <1>1, <1>2, <1>3, <1>4, <1>5 DEF IInv

(* Every variable keeps its type, and so does everything the requests, the *)
(* slots and the command rely upon, for any clients and any command line.  *)
THEOREM Invariance == Spec => []IInv
<1>1. Init => IInv
  BY Beginning
<1>2. IInv /\ [Next]_vars => IInv'
  BY Stepping
<1> QED BY <1>1, <1>2, PTL DEF Spec

(* Every variable keeps its type.                                          *)
THEOREM TypeCorrect == Spec => []TypeOK
<1>1. IInv => TypeOK
  BY DEF IInv
<1> QED BY <1>1, Invariance, PTL

(* acquireCapacity and the deferred releases: the slots that are taken are *)
(* those of the requests in hand, and no more models run than may.         *)
THEOREM SlotsAreCounted == Spec => []CapacityIsExact
<1>1. ASSUME IInv
      PROVE  CapacityIsExact
  <2> DEFINE Running == {r \in Clients : child[r] = "running"}
  <2>1. TypeOK /\ Counted /\ Faring
    BY <1>1 DEF IInv
  <2>2. Running \in SUBSET InHand
    BY <2>1 DEF Faring, Holds, InHand, Admitted
  <2>3. IsFiniteSet(InHand)
    BY ServeConstants, FS_Subset DEF InHand
  <2>4. Cardinality(Running) <= Cardinality(InHand)
    BY <2>2, <2>3, FS_Subset
  <2>5. Cardinality(Running) \in Nat /\ Cardinality(InHand) \in Nat
    BY <2>2, <2>3, FS_Subset, FS_CardinalityType
  <2>6. Limit \in Nat
    <3>1. start.maxConcurrency \in Int
      BY <2>1, ServeConstants DEF TypeOK, Startup
    <3> QED BY <3>1 DEF Limit
  <2>7. slots = Cardinality(InHand) /\ slots <= Limit
    BY <2>1 DEF Counted
  <2>8. Cardinality(Running) <= Limit
    BY <2>4, <2>5, <2>6, <2>7
  <2> QED BY <2>7, <2>8 DEF CapacityIsExact, InHand
<1> QED BY <1>1, Invariance, PTL

(* guard and the checks of serve: whoever is answered by a model had the   *)
(* token, or needs none on this machine; others need it always.            *)
THEOREM StrangersAreTurnedAway == Spec => []OnlyTheAuthorized
<1>1. ASSUME IInv
      PROVE  OnlyTheAuthorized
  <2>1. TypeOK /\ Started /\ Faring
    BY <1>1 DEF IInv
  <2>2. address = "remote" => start.token = "long" /\ start.allowRemote
    BY <2>1 DEF Started, Trusted, RemoteAuthorized
  <2>3. address # "" /\ start.noAuth => address = "loopback"
    <3>1. start.noAuth /\ StartRefusal(start) = 0 => ~start.allowRemote
      BY DEF StartRefusal
    <3> QED BY <2>1, <3>1 DEF Started, Trusted, RemoteAuthorized
  <2>4. ASSUME NEW r \in Clients, Admitted(r)
        PROVE  auth[r] \/ (start.noAuth /\ address = "loopback")
    <3>1. Allowed(r) /\ address # ""
      BY <2>1, <2>4 DEF Faring, Welcome, Admitted
    <3> QED BY <2>3, <3>1 DEF Allowed
  <2> QED BY <2>2, <2>4 DEF OnlyTheAuthorized
<1> QED BY <1>1, Invariance, PTL

(* One answer, and a true one (writeRunResult, generateImageAdmitted): who *)
(* is told to come again had nothing run, whoever met the provider's limit *)
(* is told so and not to repeat it (acquireCapacity, nativeError).         *)
THEOREM AnswersAreTrue == Spec => []AnswerIsTrue
<1>1. ASSUME IInv
      PROVE  AnswerIsTrue
  <2> SUFFICES ASSUME NEW r \in Clients
               PROVE  /\ Len(answer[r]) <= 1
                      /\ pc[r] = "flushing" => Len(answer[r]) = 1
                      /\ pc[r] = "flushing" /\ answer[r] = Good /\ kind[r] \notin {"models", "stream"}
                           => outcome[r] = "ok"
                      /\ answer[r] = Good /\ kind[r] = "picture" => dir[r] = "none"
                      /\ answer[r] = Busy => outcome[r] = "" /\ child[r] = "none" /\ dir[r] = "none"
                      /\ answer[r] = Limited => outcome[r] = "limited"
    BY DEF AnswerIsTrue, Good, Busy, Limited
  <2>1. Answered(r) /\ Holds(r) /\ pc[r] \in Places /\ child[r] \in {"none", "running"}
    BY <1>1, OneClient DEF IInv, TypeOK
  <2>2. /\ Good # Silent /\ Busy # Silent /\ Busy # Good
        /\ Limited # Silent /\ Limited # Good /\ Limited # Busy
    BY Singles DEF Good, Busy, Limited, Silent
  <2>3. Fails(answer[r]) => answer[r] \notin {Good, Busy, Limited, Silent} /\ Len(answer[r]) = 1
    BY Singles DEF Fails, Good, Busy, Limited, Silent
  <2>4. Len(Good) = 1 /\ Len(Busy) = 1 /\ Len(Limited) = 1 /\ Len(Silent) = 0
    BY Singles DEF Good, Busy, Limited, Silent
  <2>5. answer[r] \in {Silent, Good, Busy} \/ Admits(r)
    BY <2>1 DEF Answered, Places
  <2>6. answer[r] = Busy => pc[r] = "flushing"
    BY <2>1, <2>2, <2>3 DEF Answered, Admits, Places
  <2>7. answer[r] = Good => pc[r] \in {"running", "judging", "leaving", "flushing"}
    BY <2>1, <2>2, <2>3 DEF Answered, Admits, Places
  <2>8. Len(answer[r]) <= 1 /\ (pc[r] = "flushing" => Len(answer[r]) = 1)
    <3>1. pc[r] = "flushing" => answer[r] \in {Good, Busy} \/ Admits(r)
      BY <2>1 DEF Answered
    <3>2. Admits(r) => Len(answer[r]) = 1
      BY <2>3, <2>4 DEF Admits
    <3>3. Len(answer[r]) = 0 \/ Len(answer[r]) = 1
      BY <2>4, <2>5, <3>2
    <3>4. pc[r] = "flushing" => Len(answer[r]) = 1
      BY <2>4, <3>1, <3>2
    <3>5. ASSUME NEW n, n = 0 \/ n = 1
          PROVE  n <= 1
      BY <3>5
    <3> QED BY <3>3, <3>4, <3>5
  <2>9. answer[r] = Busy => outcome[r] = "" /\ dir[r] = "none" /\ child[r] = "none"
    <3>1. child[r] = "running" => pc[r] = "running"
      BY <2>1 DEF Holds
    <3> QED BY <2>1, <2>2, <2>3, <2>6, <3>1 DEF Answered, Admits
  <2>10. answer[r] = Good /\ kind[r] = "picture" => dir[r] = "none"
    BY <2>1, <2>2, <2>3, <2>7 DEF Answered, Admits
  <2>11. pc[r] = "flushing" /\ answer[r] = Good /\ kind[r] \notin {"models", "stream"}
           => outcome[r] = "ok"
    BY <2>1, <2>2, <2>3 DEF Answered, Admits
  <2>12. answer[r] = Limited => outcome[r] = "limited"
    BY <2>2, <2>3, <2>5 DEF Admits
  <2> QED BY <2>8, <2>9, <2>10, <2>11, <2>12
<1> QED BY <1>1, Invariance, PTL

(* runPrepared and serve: no child and no directory is left by a handler,  *)
(* and a command that ends well has waited for all of them.                *)
THEOREM NothingIsLeft == Spec => []NothingLeftBehind
<1>1. ASSUME IInv
      PROVE  NothingLeftBehind
  <2>1. ASSUME NEW r \in Clients
        PROVE  /\ child[r] = "running" /\ kind[r] = "images" => dir[r] = "there"
               /\ pc[r] \in {"idle", "flushing"} => child[r] = "none" /\ dir[r] # "there"
    <3>1. Holds(r) /\ child[r] \in {"none", "running"}
      BY <1>1, OneClient DEF IInv, TypeOK
    <3> QED BY <3>1 DEF Holds
  <2>2. code = 0 => \A r \in Clients : pc[r] = "idle"
    BY <1>1 DEF IInv, Waited
  <2> QED BY <2>1, <2>2 DEF NothingLeftBehind, Handling
<1> QED BY <1>1, Invariance, PTL

-----------------------------------------------------------------------------
(***************************************************************************)
(* One streamed answer.  The invariant says of every place of the handler  *)
(* what is on the wire and what is still to come, and that the deltas that *)
(* were sent, flattened, are the text that was accepted.                   *)
(***************************************************************************)

\* A frame that is still to be sent.
Pending == [name : FrameNames, text : Texts]

\* What each frame on the wire adds to the text: Shown is this, flattened.
Parts(w) == [k \in DOMAIN w |-> IF w[k].name = "delta" THEN w[k].text ELSE <<>>]

\* The function by which FlattenSeq is defined, and a sequence it makes a text of.
Flattening(f, s) == f = [i \in 1..Len(s) |-> IF i = 1 THEN s[i] ELSE f[i-1] \o s[i]]

Flattens(s, t) ==
    IF Len(s) = 0 THEN t = <<>>
    ELSE (\E f : Flattening(f, s)) /\ (\A f : Flattening(f, s) => f[Len(s)] = t)

\* Nothing more can be written to the client.
Cut == client = "gone" \/ writeDeadline

\* The wire begins with the opening and d deltas.
Opened(w, d) ==
    /\ Len(Begin) + d <= Len(w)
    /\ \A k \in 1..Len(Begin) : w[k].name = Begin[k].name
    /\ \A k \in Len(Begin) + 1..Len(Begin) + d : w[k].name = "delta"

\* Nothing of the opening is wrong, as far as it came.
Opening(w) ==
    /\ Len(w) <= Len(Begin)
    /\ \A k \in 1..Len(w) : w[k].name = Begin[k].name

\* What the wire is when nothing is under way: untouched, an opening with
\* deltas, or what was left of a delta that could not be written.
Untouched == wire = <<>> /\ ~started /\ previous = <<>>

Streaming ==
    /\ started
    /\ Len(wire) > Len(Begin)
    /\ Opened(wire, Len(wire) - Len(Begin))

Broken == Cut /\ rejected /\ Opening(wire)

\* The frames of a delta, of an error and of the ending that are still to come.
Emitting ==
    /\ todo[Len(todo)].name = "delta" /\ todo[Len(todo)].text # <<>>
    /\ snapshot = previous \o todo[Len(todo)].text
    /\ \/ Len(todo) = 1 /\ Streaming
       \/ /\ Len(wire) + Len(todo) = Len(Begin) + 1
          /\ Opening(wire)
          /\ \A k \in 1..Len(todo) - 1 : todo[k] = Begin[Len(wire) + k]

Failing ==
    /\ Len(todo) = 1 /\ todo[1].text = <<>>
    /\ \/ todo[1].name = "error_body" /\ Untouched
       \/ todo[1].name = "failed" /\ Streaming
       \/ todo[1].name \in {"error_body", "failed"} /\ Broken

\* The completion is the text that was sent, from a helper that ended well.
Whole ==
    /\ completion = accumulated /\ completion # <<>>
    /\ terminal /\ helper = "exited" /\ ~rejected

\* The opening, d deltas and the first of the frames of Done.
Closing(w, d) ==
    /\ Opened(w, d)
    /\ Len(w) <= Len(Begin) + d + Len(Done)
    /\ \A k \in 1..Len(w) - Len(Begin) - d : w[Len(Begin) + d + k].name = Done[k].name

Finishing ==
    /\ Whole
    /\ Len(todo) <= Len(Done)
    /\ \A k \in 1..Len(todo) : todo[k] = Done[Len(Done) - Len(todo) + k]
    /\ \E d \in 1..Len(wire) :
         /\ Len(wire) + Len(todo) = Len(Begin) + d + Len(Done)
         /\ Closing(wire, d)

\* WireInOrder, frame by frame.
Ordered(w) ==
    \/ Opening(w)
    \/ Len(w) = 1 /\ w[1].name = "error_body"
    \/ \E d \in 1..Len(w) :
         \/ Closing(w, d)
         \/ Opened(w, d) /\ Len(w) = Len(Begin) + d + 1 /\ w[Len(w)].name = "failed"

Shape ==
    /\ place = "scanning" => Untouched \/ Streaming
    /\ place = "emitting" => Emitting
    /\ place = "judging" => Untouched \/ Streaming \/ Broken
    /\ place = "failing" => Failing
    /\ place = "finishing" => Finishing
    /\ place \in {"returning", "closed"} => Ordered(wire)

Spoken ==
    /\ accumulated = previous
    /\ IsPrefix(previous, snapshot)
    /\ place = "scanning" => snapshot = previous
    /\ terminal => completion = previous /\ completion # <<>> /\ place # "emitting"

Told ==
    (\E k \in 1..Len(wire) : wire[k].name = "completed") =>
        place \in {"returning", "closed"} /\ Whole

SequenceOK ==
    responses =>
        /\ \A k \in 1..Len(wire) : wire[k].seq = k - 1
        /\ place \in {"returning", "closed"} \/ Cut \/ sequence = Len(wire)

StreamInv ==
    /\ StreamTypeOK
    /\ Spoken
    /\ Flattens(Parts(wire), accumulated)
    /\ Shape
    /\ Told
    /\ SequenceOK

-----------------------------------------------------------------------------
(* Texts and frames.                                                       *)

\* A text is a sequence of letters within the bound.
LEMMA TextsAre == \A s : s \in Texts <=> s \in Seq(Letters) /\ Len(s) <= MaxText
<1> TAKE s
<1>1. ASSUME s \in Texts
      PROVE  s \in Seq(Letters) /\ Len(s) <= MaxText
  <2>1. PICK n \in 0..MaxText : s \in [1..n -> Letters]
    BY <1>1 DEF Texts
  <2>2. s \in Seq(Letters) /\ Len(s) = n
    BY <2>1, StreamConstants
  <2> QED BY <2>1, <2>2, StreamConstants
<1>2. ASSUME s \in Seq(Letters), Len(s) <= MaxText
      PROVE  s \in Texts
  <2>1. Len(s) \in 0..MaxText /\ s \in [1..Len(s) -> Letters]
    BY <1>2, StreamConstants
  <2> QED BY <2>1 DEF Texts
<1> QED BY <1>1, <1>2

LEMMA NoText == <<>> \in Texts /\ Len(<<>>) = 0
<1>1. <<>> \in Seq(Letters) /\ Len(<<>>) = 0
  OBVIOUS
<1>2. Len(<<>>) <= MaxText
  BY <1>1, StreamConstants
<1> QED BY <1>1, <1>2, TextsAre

\* What a text that extends another adds to it.
LEMMA Growth ==
    ASSUME NEW s \in Texts, NEW t \in Texts, IsPrefix(s, t)
    PROVE  LET rest == SubSeq(t, Len(s) + 1, Len(t)) IN
           /\ rest \in Texts /\ s \o rest = t
           /\ rest = <<>> => s = t
<1> DEFINE rest == SubSeq(t, Len(s) + 1, Len(t))
<1>1. s \in Seq(Letters) /\ t \in Seq(Letters) /\ Len(t) <= MaxText
  BY TextsAre
<1>2. Len(s) \in Nat /\ Len(t) \in Nat /\ Len(s) <= Len(t) /\ SubSeq(t, 1, Len(s)) = s
  BY <1>1, SubSeqFull DEF IsPrefix
<1>3. rest \in Seq(Letters) /\ Len(rest) <= Len(t)
  <2>1. \A i \in Len(s) + 1..Len(t) : t[i] \in Letters
    BY <1>1, <1>2
  <2> QED BY <2>1, <1>2, SubSeqProperties
<1>4. s \o rest = t
  BY <1>1, <1>2, ConcatAdjacentSubSeq, SubSeqFull
<1>5. rest = <<>> => s = t
  BY <1>1, <1>4, ConcatEmptySeq
<1>6. rest \in Texts
  <2>1. Len(rest) \in Nat /\ Len(rest) <= MaxText
    <3> HIDE DEF rest
    <3> QED BY <1>1, <1>2, <1>3, StreamConstants
  <2> HIDE DEF rest
  <2> QED BY <2>1, <1>3, TextsAre
<1> QED BY <1>4, <1>5, <1>6

\* A text comes first in what it is continued to, and in itself.
LEMMA Continued ==
    ASSUME NEW s \in Texts, NEW u \in Texts
    PROVE  IsPrefix(s, s \o u) /\ IsPrefix(s, s)
<1>1. s \in Seq(Letters) /\ u \in Seq(Letters)
  BY TextsAre
<1>2. s \o u \in Seq(Letters) /\ Len(s \o u) = Len(s) + Len(u)
      /\ \A i \in 1..Len(s) : (s \o u)[i] = s[i]
  BY <1>1, ConcatProperties
<1>3. SubSeq(s \o u, 1, Len(s)) = s
  BY <1>1, <1>2
<1>4. SubSeq(s, 1, Len(s)) = s
  BY <1>1, SubSeqFull
<1> QED BY <1>1, <1>2, <1>3, <1>4 DEF IsPrefix

\* Frames without text.
LEMMA NamedIs ==
    ASSUME NEW names \in Seq(FrameNames)
    PROVE  /\ Named(names) \in Seq(Pending)
           /\ Len(Named(names)) = Len(names)
           /\ \A k \in 1..Len(names) : Named(names)[k] = [name |-> names[k], text |-> <<>>]
<1>1. DOMAIN names = 1..Len(names) /\ Len(names) \in Nat
  OBVIOUS
<1>2. \A k \in 1..Len(names) : [name |-> names[k], text |-> <<>>] \in Pending
  BY NoText DEF Pending
<1>3. Named(names) \in [1..Len(names) -> Pending]
  BY <1>1, <1>2 DEF Named
<1> QED BY <1>1, <1>3 DEF Named

\* The frames of an opening and of an ending: none of them is taken for another.
LEMMA BeginIs ==
    ASSUME responses \in BOOLEAN
    PROVE  /\ Begin \in Seq(Pending)
           /\ Len(Begin) \in Nat \ {0}
           /\ \A k \in 1..Len(Begin) :
                /\ Begin[k].name \notin {"delta", "failed", "error_body", "completed"}
                /\ Begin[k].text = <<>>
<1>1. CASE responses
  <2> DEFINE names == <<"created", "in_progress", "item_added", "part_added">>
  <2>1. Begin = Named(names)
    BY <1>1 DEF Begin
  <2>2. names \in Seq(FrameNames) /\ Len(names) = 4
    BY DEF FrameNames
  <2>3. names[1] = "created" /\ names[2] = "in_progress" /\ names[3] = "item_added" /\ names[4] = "part_added"
    OBVIOUS
  <2> HIDE DEF names
  <2>4. Begin \in Seq(Pending) /\ Len(Begin) = 4
        /\ \A k \in 1..4 : Begin[k] = [name |-> names[k], text |-> <<>>]
    BY <2>1, <2>2, NamedIs
  <2> QED BY <2>3, <2>4
<1>2. CASE ~responses
  <2> DEFINE names == <<"role">>
  <2>1. Begin = Named(names)
    BY <1>2 DEF Begin
  <2>2. names \in Seq(FrameNames) /\ Len(names) = 1
    BY DEF FrameNames
  <2>3. names[1] = "role"
    OBVIOUS
  <2> HIDE DEF names
  <2>4. Begin \in Seq(Pending) /\ Len(Begin) = 1
        /\ \A k \in 1..1 : Begin[k] = [name |-> names[k], text |-> <<>>]
    BY <2>1, <2>2, NamedIs
  <2> QED BY <2>3, <2>4
<1> QED BY <1>1, <1>2

LEMMA DoneIs ==
    ASSUME responses \in BOOLEAN
    PROVE  /\ Done \in Seq(Pending)
           /\ Len(Done) \in Nat \ {0}
           /\ \A k \in 1..Len(Done) :
                /\ Done[k].name = "completed" <=> k = Len(Done)
                /\ Done[k].name \notin {"delta", "failed", "error_body"}
                /\ Done[k].text = <<>>
<1>1. CASE responses
  <2> DEFINE names == <<"text_done", "part_done", "item_done", "completed">>
  <2>1. Done = Named(names)
    BY <1>1 DEF Done
  <2>2. names \in Seq(FrameNames) /\ Len(names) = 4
    BY DEF FrameNames
  <2>3. names[1] = "text_done" /\ names[2] = "part_done" /\ names[3] = "item_done" /\ names[4] = "completed"
    OBVIOUS
  <2> HIDE DEF names
  <2>4. Done \in Seq(Pending) /\ Len(Done) = 4
        /\ \A k \in 1..4 : Done[k] = [name |-> names[k], text |-> <<>>]
    BY <2>1, <2>2, NamedIs
  <2> QED BY <2>3, <2>4
<1>2. CASE ~responses
  <2> DEFINE names == <<"stop", "completed">>
  <2>1. Done = Named(names)
    BY <1>2 DEF Done
  <2>2. names \in Seq(FrameNames) /\ Len(names) = 2
    BY DEF FrameNames
  <2>3. names[1] = "stop" /\ names[2] = "completed"
    OBVIOUS
  <2> HIDE DEF names
  <2>4. Done \in Seq(Pending) /\ Len(Done) = 2
        /\ \A k \in 1..2 : Done[k] = [name |-> names[k], text |-> <<>>]
    BY <2>1, <2>2, NamedIs
  <2> QED BY <2>3, <2>4
<1> QED BY <1>1, <1>2

-----------------------------------------------------------------------------
(* Flattening.  The behaviour is the induction: the relation holds of the  *)
(* empty wire and every frame keeps it.                                    *)

LEMMA FlattensNothing == Flattens(<<>>, <<>>)
BY DEF Flattens

LEMMA FlattensMore ==
    ASSUME NEW S, NEW s \in Seq(Seq(S)), NEW t \in Seq(S), NEW x \in Seq(S), Flattens(s, t)
    PROVE  Flattens(Append(s, x), t \o x)
<1> DEFINE r == Append(s, x)
           n == Len(s)
<1>1. n \in Nat /\ Len(r) = n + 1 /\ r[n + 1] = x /\ \A i \in 1..n : r[i] = s[i]
  OBVIOUS
<1>2. CASE n = 0
  <2> t \o x = x
    BY <1>2, ConcatEmptySeq DEF Flattens
  <2>1. ASSUME NEW f, Flattening(f, r)
        PROVE  f[Len(r)] = t \o x
    BY <1>1, <1>2, <2>1 DEF Flattening
  <2>2. Flattening([i \in 1..Len(r) |-> x], r)
    BY <1>1, <1>2 DEF Flattening
  <2> QED BY <1>1, <2>1, <2>2 DEF Flattens
<1>3. CASE n # 0
  <2>1. PICK f : Flattening(f, s)
    BY <1>3 DEF Flattens
  <2>2. \A g : Flattening(g, s) => g[n] = t
    BY <1>3 DEF Flattens
  <2>3. DEFINE g == [i \in 1..n + 1 |-> IF i = n + 1 THEN f[n] \o x ELSE f[i]]
  <2>4. Flattening(g, r)
    <3>1. \A i \in 1..n : f[i] = IF i = 1 THEN s[i] ELSE f[i - 1] \o s[i]
      BY <2>1 DEF Flattening
    <3>2. ASSUME NEW i \in 1..n + 1
          PROVE  g[i] = IF i = 1 THEN r[i] ELSE g[i - 1] \o r[i]
      <4>1. CASE i = n + 1
        <5>1. i - 1 \in 1..n + 1 /\ i - 1 = n /\ n # n + 1 /\ i # 1 /\ i \in 1..n + 1
          BY <4>1, <1>1, <1>3
        <5>2. g[i] = f[n] \o x /\ g[i - 1] = f[n]
          BY <5>1, <4>1
        <5> QED BY <4>1, <5>1, <5>2, <1>1
      <4>2. CASE i # n + 1
        BY <4>2, <1>1, <3>1
      <4> QED BY <4>1, <4>2
    <3> HIDE DEF r, n
    <3>3. g = [i \in 1..n + 1 |-> IF i = 1 THEN r[i] ELSE g[i - 1] \o r[i]]
      BY <3>2
    <3> QED BY <3>3, <1>1 DEF Flattening
  <2>5. ASSUME NEW h, Flattening(h, r)
        PROVE  h[Len(r)] = t \o x
    <3>1. \A i \in 1..n + 1 : h[i] = IF i = 1 THEN r[i] ELSE h[i - 1] \o r[i]
      BY <2>5, <1>1 DEF Flattening
    <3>2. DEFINE k == [i \in 1..n |-> h[i]]
    <3>3. Flattening(k, s)
      <4>1. ASSUME NEW i \in 1..n
            PROVE  k[i] = IF i = 1 THEN s[i] ELSE k[i - 1] \o s[i]
        BY <3>1, <1>1
      <4> HIDE DEF r
      <4>2. k = [i \in 1..n |-> IF i = 1 THEN s[i] ELSE k[i - 1] \o s[i]]
        BY <4>1
      <4> QED BY <4>2 DEF Flattening
    <3>4. h[n] = t
      BY <3>3, <2>2, <1>1, <1>3
    <3>5. PICK i \in 1..n + 1 : i = n + 1 /\ i # 1 /\ i - 1 = n
      BY <1>1, <1>3
    <3>6. h[i] = h[n] \o r[i]
      <4> HIDE DEF r, n
      <4> QED BY <3>1, <3>5
    <3> QED BY <3>4, <3>5, <3>6, <1>1
  <2> QED BY <1>1, <2>4, <2>5 DEF Flattens
<1> QED BY <1>2, <1>3

LEMMA FlattensIs ==
    ASSUME NEW S, NEW s \in Seq(S), NEW t, Flattens(s, t)
    PROVE  FlattenSeq(s) = t
<1>1. CASE Len(s) = 0
  BY <1>1 DEF FlattenSeq, Flattens
<1>2. CASE Len(s) # 0
  <2> DEFINE f == CHOOSE f : Flattening(f, s)
  <2>1. Flattening(f, s) /\ f[Len(s)] = t
    BY <1>2 DEF Flattens
  <2>2. FlattenSeq(s) = f[Len(s)]
    BY <1>2 DEF FlattenSeq, Flattening
  <2> QED BY <2>1, <2>2
<1> QED BY <1>1, <1>2

-----------------------------------------------------------------------------
(* The wire, frame by frame.                                               *)

LEMMA SameFrames == responses' = responses => Begin' = Begin /\ Done' = Done
BY DEF Begin, Done, Named

\* One more frame of the opening, one more delta, one more of the ending.
LEMMA OneMore ==
    ASSUME responses \in BOOLEAN, NEW w \in Seq(Frames), NEW f \in Frames, NEW d \in Nat
    PROVE  LET v == Append(w, f) IN
           /\ /\ Opening(w) /\ Len(w) < Len(Begin)
              /\ f.name = Begin[Len(w) + 1].name
              => Opening(v)
           /\ Opened(w, d) => Opened(v, d)
           /\ /\ Opened(w, d) /\ Len(w) = Len(Begin) + d
              /\ f.name = "delta"
              => Opened(v, d + 1)
           /\ /\ Closing(w, d) /\ Len(w) < Len(Begin) + d + Len(Done)
              /\ f.name = Done[Len(w) - Len(Begin) - d + 1].name
              => Closing(v, d)
<1> DEFINE v == Append(w, f)
           n == Len(w)
           b == Len(Begin)
           e == Len(Done)
<1>1. n \in Nat /\ Len(v) = n + 1 /\ v[n + 1] = f /\ \A i \in 1..n : v[i] = w[i]
  OBVIOUS
<1>2. b \in Nat /\ e \in Nat
  BY BeginIs, DoneIs
<1>3. ASSUME Opening(w), n < b, f.name = Begin[n + 1].name
      PROVE  Opening(v)
  <2> HIDE DEF v, n, b
  <2>1. n <= b /\ \A k \in 1..n : w[k].name = Begin[k].name
    BY <1>3 DEF Opening, n, b
  <2>2. \A k \in 1..n + 1 : v[k].name = Begin[k].name
    BY <1>1, <1>2, <1>3, <2>1
  <2> QED BY <2>2, <1>1, <1>2, <1>3 DEF Opening, b
<1>4. ASSUME Opened(w, d)
      PROVE  Opened(v, d)
  <2> HIDE DEF v, n, b
  <2>1. b + d <= n /\ (\A k \in 1..b : w[k].name = Begin[k].name)
        /\ \A k \in b + 1..b + d : w[k].name = "delta"
    BY <1>4 DEF Opened, n, b
  <2>2. (\A k \in 1..b : v[k].name = Begin[k].name) /\ \A k \in b + 1..b + d : v[k].name = "delta"
    BY <1>1, <1>2, <2>1
  <2> QED BY <2>1, <2>2, <1>1, <1>2 DEF Opened, b
<1>5. ASSUME Opened(w, d), n = b + d, f.name = "delta"
      PROVE  Opened(v, d + 1)
  <2>1. Opened(v, d)
    BY <1>4, <1>5
  <2> HIDE DEF v, n, b
  <2>2. (\A k \in 1..b : v[k].name = Begin[k].name) /\ \A k \in b + 1..b + d : v[k].name = "delta"
    BY <2>1 DEF Opened, b
  <2>3. \A k \in b + 1..b + (d + 1) : v[k].name = "delta"
    BY <1>1, <1>2, <1>5, <2>2
  <2> QED BY <2>2, <2>3, <1>1, <1>2, <1>5 DEF Opened, b
<1>6. ASSUME Closing(w, d), n < b + d + e, f.name = Done[n - b - d + 1].name
      PROVE  Closing(v, d)
  <2>1. Opened(w, d) /\ Opened(v, d)
    BY <1>4, <1>6 DEF Closing
  <2> HIDE DEF v, n, b, e
  <2>2. b + d <= n /\ \A k \in 1..n - b - d : w[b + d + k].name = Done[k].name
    BY <1>6, <2>1 DEF Closing, Opened, n, b, e
  <2>3. \A k \in 1..n + 1 - b - d : v[b + d + k].name = Done[k].name
    <3> SUFFICES ASSUME NEW k \in 1..n + 1 - b - d
                 PROVE  v[b + d + k].name = Done[k].name
      OBVIOUS
    <3>1. CASE b + d + k = n + 1
      <4>1. k = n - b - d + 1
        BY <1>1, <1>2, <3>1
      <4> QED BY <1>1, <1>6, <3>1, <4>1
    <3>2. CASE b + d + k # n + 1
      <4>1. k \in 1..n - b - d /\ b + d + k \in 1..n
        BY <1>1, <1>2, <3>2, <2>2
      <4> QED BY <1>1, <2>2, <4>1
    <3> QED BY <3>1, <3>2
  <2> QED BY <2>1, <2>3, <1>1, <1>2, <1>6 DEF Closing, b, e
<1> QED BY <1>3, <1>4, <1>5, <1>6

\* What may be on the wire in between may be there at the end.
LEMMA InBetween ==
    ASSUME StreamTypeOK, Untouched \/ Streaming \/ Broken
    PROVE  Ordered(wire)
<1>1. Len(Begin) \in Nat /\ Len(wire) \in Nat
  BY BeginIs DEF StreamTypeOK
<1>2. CASE Untouched
  BY <1>1, <1>2 DEF Untouched, Ordered, Opening
<1>3. CASE Broken
  BY <1>3 DEF Broken, Ordered
<1>4. CASE Streaming
  <2> DEFINE d == Len(wire) - Len(Begin)
  <2>1. d \in 1..Len(wire) /\ Opened(wire, d) /\ Len(Begin) + d = Len(wire)
    BY <1>1, <1>4 DEF Streaming
  <2>2. Len(Done) \in Nat
    BY DoneIs DEF StreamTypeOK
  <2> HIDE DEF d
  <2>3. Closing(wire, d)
    BY <1>1, <2>1, <2>2 DEF Closing
  <2> QED BY <2>1, <2>3 DEF Ordered
<1> QED BY <1>2, <1>3, <1>4

-----------------------------------------------------------------------------
(* The steps.                                                              *)

LEMMA SameText ==
    ASSUME StreamInv, wire' = wire, accumulated' = accumulated
    PROVE  Flattens(Parts(wire), accumulated)'
<1>1. Parts(wire)' = Parts(wire)
  BY DEF Parts
<1> QED BY <1>1 DEF StreamInv, Flattens, Flattening

\* Steps at which nothing is written and no text is sent.
LEMMA Quiet ==
    ASSUME StreamInv, UNCHANGED <<responses, wire, sequence, accumulated>>, Cut => Cut',
           place \notin {"returning", "closed"},
           place' \notin {"returning", "closed"}
    PROVE  Flattens(Parts(wire), accumulated)' /\ Told' /\ SequenceOK'
<1>1. Flattens(Parts(wire), accumulated)'
  BY SameText
<1>2. Told'
  BY DEF StreamInv, Told
<1>3. SequenceOK'
  BY DEF StreamInv, SequenceOK
<1> QED BY <1>1, <1>2, <1>3

\* The predicates on the wire at a step that leaves it alone.
LEMMA WireStays ==
    ASSUME UNCHANGED <<responses, stream>>
    PROVE  /\ Opening(wire)' <=> Opening(wire)
           /\ \A d : Closing(wire, d)' <=> Closing(wire, d)
           /\ Streaming' <=> Streaming
           /\ Ordered(wire)' <=> Ordered(wire)
BY SameFrames DEF stream, Opening, Opened, Closing, Streaming, Ordered

\* The helper, the client and the clock.
LEMMA Aside ==
    ASSUME StreamInv,
           UNCHANGED <<responses, protocol, place, snapshot, todo, stream, accumulated>>,
           Cut => Cut', helper = "exited" => helper' = "exited"
    PROVE  Spoken' /\ Flattens(Parts(wire), accumulated)' /\ Shape' /\ Told' /\ SequenceOK'
<1> USE DEF protocol, stream
<1>1. Spoken'
  BY DEF StreamInv, Spoken
<1>2. Flattens(Parts(wire), accumulated)'
  BY SameText
<1>3. Shape'
  <2>1. Begin' = Begin /\ Done' = Done
    BY SameFrames
  <2>2. Untouched' = Untouched /\ (Broken => Broken') /\ (Whole => Whole')
    BY <2>1 DEF Untouched, Broken, Whole, Opening
  <2>3. Emitting => Emitting'
    BY <2>1, WireStays DEF Emitting
  <2>4. Failing => Failing'
    BY <2>2, WireStays DEF Failing
  <2>5. Finishing => Finishing'
    BY <2>1, <2>2, WireStays DEF Finishing
  <2> QED BY <2>2, <2>3, <2>4, <2>5, WireStays DEF StreamInv, Shape
<1>4. Told'
  BY DEF StreamInv, Told, Whole
<1>5. SequenceOK'
  BY DEF StreamInv, SequenceOK
<1> QED BY <1>1, <1>2, <1>3, <1>4, <1>5

\* The end of the scan: what was sent stays, what was not is not sent.
LEMMA EndOfScan ==
    ASSUME StreamInv, place = "scanning", place' = "judging",
           UNCHANGED <<responses, ready, terminal, previous, completion, snapshot, todo, stream,
                       accumulated, client, writeDeadline>>
    PROVE  Spoken' /\ Flattens(Parts(wire), accumulated)' /\ Shape' /\ Told' /\ SequenceOK'
<1>1. Spoken'
  BY DEF StreamInv, Spoken
<1>2. Flattens(Parts(wire), accumulated)' /\ Told' /\ SequenceOK'
  BY Quiet DEF stream, Cut
<1>3. Shape'
  <2>1. Untouched \/ Streaming
    BY DEF StreamInv, Shape
  <2>2. Untouched' = Untouched
    BY DEF Untouched, stream
  <2> QED BY <2>1, <2>2, WireStays DEF Shape
<1> QED BY <1>1, <1>2, <1>3

\* An event that says nothing new: the scan goes on.
LEMMA Unmoved ==
    ASSUME StreamInv, place = "scanning",
           UNCHANGED <<responses, previous, place, snapshot, todo, stream, accumulated, client,
                       writeDeadline>>,
           terminal' => completion' = previous /\ completion' # <<>>
    PROVE  Spoken' /\ Flattens(Parts(wire), accumulated)' /\ Shape' /\ Told' /\ SequenceOK'
<1>1. Spoken'
  BY DEF StreamInv, Spoken
<1>2. Flattens(Parts(wire), accumulated)' /\ Told' /\ SequenceOK'
  BY Quiet DEF stream, Cut
<1>3. Shape'
  <2>1. Untouched \/ Streaming
    BY DEF StreamInv, Shape
  <2>2. Untouched' = Untouched
    BY DEF Untouched, stream
  <2> QED BY <2>1, <2>2, WireStays DEF Shape
<1> QED BY <1>1, <1>2, <1>3

\* What the next line says, when it is a text.
LEMMA NextLine ==
    ASSUME StreamTypeOK, pipe # <<>>, Head(pipe).kind \in {"snapshot", "complete"}
    PROVE  Head(pipe).text \in Texts
<1>1. Head(pipe) \in Events
  BY DEF StreamTypeOK
<1> QED BY <1>1 DEF Events

LEMMA Reading ==
    ASSUME StreamInv, Available \/ Repeat \/ Complete
    PROVE  Spoken' /\ Flattens(Parts(wire), accumulated)' /\ Shape' /\ Told' /\ SequenceOK'
<1>1. CASE Available
  BY <1>1, Unmoved DEF Available, Reads, Take, StreamInv, Spoken
<1>2. CASE Repeat
  <2>1. Reads("snapshot") /\ Grown = <<>> /\ previous' = Head(pipe).text
    BY <1>2 DEF Repeat
  <2>2. Head(pipe).text \in Texts /\ previous \in Texts /\ IsPrefix(previous, Head(pipe).text)
    BY <2>1, NextLine DEF Reads, Refused, Extends, StreamInv, StreamTypeOK
  <2>3. previous' = previous
    BY <2>1, <2>2, Growth DEF Grown
  <2> QED BY <1>2, <2>3, Unmoved DEF Repeat, Reads, Take, StreamInv, Spoken
<1>3. CASE Complete
  <2>1. Head(pipe).text = previous /\ Head(pipe).text # <<>>
    BY <1>3 DEF Complete, Reads, Refused
  <2> QED BY <1>3, <2>1, Unmoved DEF Complete, Reads, Take
<1> QED BY <1>1, <1>2, <1>3

\* A snapshot that adds to the text: its growth is to be sent, after the
\* opening when nothing was sent before.
LEMMA Emitted ==
    ASSUME StreamInv, Emit
    PROVE  Spoken' /\ Flattens(Parts(wire), accumulated)' /\ Shape' /\ Told' /\ SequenceOK'
<1> DEFINE frame == [name |-> "delta", text |-> Grown]
<1>1. /\ place = "scanning" /\ place' = "emitting" /\ ~terminal /\ Grown # <<>>
      /\ snapshot' = Head(pipe).text
      /\ todo' = (IF started THEN <<>> ELSE Begin) \o <<frame>>
      /\ UNCHANGED <<responses, stream, accumulated, previous, terminal, completion, client,
                     writeDeadline>>
  BY DEF Emit, Reads, Refused, Take, Goto, Delta
<1>2. /\ Head(pipe).text \in Texts /\ previous \in Texts
      /\ IsPrefix(previous, Head(pipe).text)
  BY NextLine DEF Emit, Reads, Refused, Extends, StreamInv, StreamTypeOK
<1>3. Grown \in Texts /\ previous \o Grown = Head(pipe).text
  BY <1>2, Growth DEF Grown
<1>4. Spoken'
  BY <1>1, <1>2 DEF StreamInv, Spoken
<1>5. Flattens(Parts(wire), accumulated)' /\ Told' /\ SequenceOK'
  BY <1>1, Quiet DEF stream, Cut
<1>6. Emitting'
  <2>1. frame \in Pending
    BY <1>3 DEF Pending, FrameNames
  <2>2. Begin \in Seq(Pending) /\ Len(Begin) \in Nat \ {0} /\ Begin' = Begin
    BY <1>1, BeginIs, SameFrames DEF StreamInv, StreamTypeOK
  <2> HIDE DEF frame
  <2>3. CASE started
    <3>1. todo' = <<frame>> /\ Len(todo') = 1 /\ todo'[1] = frame
      BY <1>1, <2>1, <2>3
    <3>2. Streaming
      BY <1>1, <2>3 DEF StreamInv, Shape, Untouched
    <3> QED BY <1>1, <1>3, <3>1, <3>2, WireStays DEF Emitting, frame
  <2>4. CASE ~started
    <3>1. todo' = Begin \o <<frame>> /\ Len(todo') = Len(Begin) + 1 /\ todo'[Len(Begin) + 1] = frame
          /\ \A k \in 1..Len(Begin) : todo'[k] = Begin[k]
      BY <1>1, <2>1, <2>2, <2>4
    <3>2. wire' = <<>> /\ Len(wire') = 0
      BY <1>1, <2>4 DEF StreamInv, Shape, Untouched, Streaming, stream
    <3>3. Opening(wire)'
      BY <2>2, <3>2 DEF Opening
    <3>4. \A k \in 1..Len(todo') - 1 : todo'[k] = Begin'[Len(wire') + k]
      BY <2>2, <3>1, <3>2
    <3>5. Len(wire') + Len(todo') = Len(Begin') + 1
      BY <2>2, <3>1, <3>2
    <3>6. todo'[Len(todo')] = frame
      BY <3>1
    <3>7. todo'[Len(todo')].name = "delta" /\ todo'[Len(todo')].text = Grown
      BY <3>6 DEF frame
    <3>8. snapshot' = previous' \o todo'[Len(todo')].text /\ todo'[Len(todo')].text # <<>>
      BY <1>1, <1>3, <3>7
    <3> QED BY <3>3, <3>4, <3>5, <3>7, <3>8 DEF Emitting
  <2> QED BY <2>3, <2>4
<1>7. Shape'
  BY <1>1, <1>6 DEF Shape
<1> QED BY <1>4, <1>5, <1>7

\* The verdict: an ending only for a stream that said the whole text.
LEMMA Concluded ==
    ASSUME StreamInv, Conclude
    PROVE  Spoken' /\ Flattens(Parts(wire), accumulated)' /\ Shape' /\ Told' /\ SequenceOK'
<1>1. /\ place = "judging"
      /\ UNCHANGED <<responses, stream, accumulated, previous, snapshot, terminal, completion,
                     helper, rejected, client, writeDeadline>>
      /\ \/ Succeeded /\ todo' = Done /\ place' = "finishing"
         \/ todo' = Failure /\ place' = "failing"
  BY DEF Conclude, Goto, process, protocol
<1>2. Spoken'
  BY <1>1 DEF StreamInv, Spoken
<1>3. Flattens(Parts(wire), accumulated)' /\ Told' /\ SequenceOK'
  BY <1>1, Quiet DEF stream, Cut
<1>4. Untouched \/ Streaming \/ Broken
  BY <1>1 DEF StreamInv, Shape
<1>5. /\ Len(Begin) \in Nat \ {0} /\ Len(Done) \in Nat \ {0} /\ Len(wire) \in Nat
      /\ Begin' = Begin /\ Done' = Done
  BY <1>1, BeginIs, DoneIs, SameFrames DEF StreamInv, StreamTypeOK
<1>6. CASE Succeeded /\ todo' = Done /\ place' = "finishing"
  <2>1. Whole /\ Whole'
    BY <1>1, <1>6 DEF Whole, Succeeded, StreamInv, Spoken
  <2>2. Streaming
    BY <1>4, <2>1 DEF Untouched, Broken, Whole, StreamInv, Spoken
  <2>3. PICK d \in 1..Len(wire) : Opened(wire, d) /\ Len(wire) = Len(Begin) + d
    <3>1. Len(wire) - Len(Begin) \in 1..Len(wire)
          /\ Len(wire) = Len(Begin) + (Len(wire) - Len(Begin))
      BY <1>5, <2>2 DEF Streaming
    <3> QED BY <2>2, <3>1 DEF Streaming
  <2>4. Closing(wire, d)
    BY <1>5, <2>3 DEF Closing
  <2>5. Finishing'
    <3>1. \A k \in 1..Len(Done) : Done[k] = Done[Len(Done) - Len(Done) + k]
      BY <1>5
    <3>2. /\ wire' = wire /\ Closing(wire, d)'
          /\ Len(wire') + Len(todo') = Len(Begin') + d + Len(Done')
      BY <1>1, <1>5, <1>6, <2>3, <2>4, WireStays DEF stream
    <3>3. \E i \in 1..Len(wire') : Len(wire') + Len(todo') = Len(Begin') + i + Len(Done')
                                   /\ Closing(wire, i)'
      BY <2>3, <3>2
    <3> QED BY <1>5, <1>6, <2>1, <3>1, <3>3 DEF Finishing
  <2> QED BY <1>2, <1>3, <1>6, <2>5 DEF Shape
<1>7. CASE todo' = Failure /\ place' = "failing"
  <2>1. todo' = <<[name |-> IF started THEN "failed" ELSE "error_body", text |-> <<>>]>>
    BY <1>7 DEF Failure, Named
  <2>2. /\ Len(todo') = 1 /\ todo'[1].text = <<>>
        /\ todo'[1].name = IF started THEN "failed" ELSE "error_body"
    BY <2>1
  <2>3. (Untouched => Untouched' /\ ~started) /\ (Streaming => Streaming' /\ started)
        /\ (Broken => Broken')
    BY <1>1, <1>5, WireStays DEF Untouched, Streaming, Broken, Cut, stream
  <2>4. Failing'
    BY <1>4, <2>2, <2>3 DEF Failing
  <2> QED BY <1>2, <1>3, <1>7, <2>4 DEF Shape
<1> QED BY <1>1, <1>6, <1>7

LEMMA Returned ==
    ASSUME StreamInv, Return
    PROVE  Spoken' /\ Flattens(Parts(wire), accumulated)' /\ Shape' /\ Told' /\ SequenceOK'
<1>1. /\ place = "returning" /\ place' = "closed"
      /\ UNCHANGED <<responses, stream, accumulated, previous, snapshot, terminal, completion,
                     helper, rejected>>
  BY DEF Return, Goto, process, protocol
<1>2. Spoken'
  BY <1>1 DEF StreamInv, Spoken
<1>3. Flattens(Parts(wire), accumulated)'
  BY <1>1, SameText DEF stream
<1>4. Shape'
  BY <1>1, WireStays DEF StreamInv, Shape
<1>5. Told' /\ SequenceOK'
  BY <1>1 DEF StreamInv, Told, Whole, SequenceOK, stream
<1> QED BY <1>2, <1>3, <1>4, <1>5

\* A frame that could not be written is never on the wire, and none follows it.
LEMMA Failed ==
    ASSUME StreamInv, SendFails
    PROVE  Spoken' /\ Flattens(Parts(wire), accumulated)' /\ Shape' /\ Told' /\ SequenceOK'
<1>1. /\ Cut /\ Cut' /\ place \in Sending
      /\ UNCHANGED <<responses, wire, accumulated, previous, snapshot, terminal, completion>>
      /\ started' = (started \/ Head(todo).name # "error_body")
      /\ \/ place = "emitting" /\ place' = "judging" /\ rejected' = TRUE
         \/ place # "emitting" /\ place' = "returning" /\ rejected' = rejected
  BY DEF SendFails, Numbered, Cut, Goto, StreamInv, StreamTypeOK
<1>2. Spoken'
  BY <1>1 DEF StreamInv, Spoken, Sending
<1>3. Flattens(Parts(wire), accumulated)'
  BY <1>1, SameText
<1>4. Told' /\ SequenceOK'
  BY <1>1 DEF StreamInv, Told, SequenceOK, Sending
<1>5. Begin' = Begin /\ Done' = Done
  BY <1>1, SameFrames
<1>6. CASE place = "emitting"
  <2>1. Streaming \/ Opening(wire)
    BY <1>6 DEF StreamInv, Shape, Emitting
  <2>2. Opening(wire) => Broken'
    BY <1>1, <1>5, <1>6 DEF Broken, Opening
  <2>3. Streaming => Streaming'
    BY <1>1, <1>5 DEF Streaming, Opened
  <2> QED BY <1>1, <1>2, <1>3, <1>4, <1>6, <2>1, <2>2, <2>3 DEF Shape
<1>7. CASE place # "emitting"
  <2>1. Ordered(wire)
    <3>1. CASE place = "failing"
      BY <3>1, InBetween DEF StreamInv, Shape, Failing
    <3>2. CASE place = "finishing"
      BY <3>2 DEF StreamInv, Shape, Finishing, Ordered
    <3> QED BY <1>1, <1>7, <3>1, <3>2 DEF Sending
  <2>2. Ordered(wire)'
    BY <1>1, <1>5, <2>1 DEF Ordered, Opening, Opened, Closing
  <2> QED BY <1>1, <1>2, <1>3, <1>4, <1>7, <2>2 DEF Shape
<1> QED BY <1>6, <1>7

\* What is sent is what was to be sent next, with the number it is due.
LEMMA NextFrame ==
    ASSUME StreamInv, SendFrame
    PROVE  LET f == [name |-> Head(todo).name, seq |-> sequence, text |-> Head(todo).text] IN
           /\ f \in Frames /\ wire' = Append(wire, f) /\ wire' \in Seq(Frames)
           /\ Len(wire') = Len(wire) + 1 /\ wire'[Len(wire) + 1] = f
           /\ \A k \in 1..Len(wire) : wire'[k] = wire[k]
<1> DEFINE f == [name |-> Head(todo).name, seq |-> sequence, text |-> Head(todo).text]
<1>1. todo \in Seq(Pending) /\ todo # <<>> /\ sequence \in Nat /\ wire \in Seq(Frames)
  BY DEF SendFrame, StreamInv, StreamTypeOK, Pending
<1>2. Head(todo) \in Pending
  BY <1>1
<1>3. f \in Frames
  BY <1>1, <1>2 DEF Frames, Pending
<1>4. wire' = Append(wire, f)
  BY DEF SendFrame
<1> HIDE DEF f
<1>5. wire' \in Seq(Frames) /\ Len(wire') = Len(wire) + 1 /\ wire'[Len(wire) + 1] = f
      /\ \A k \in 1..Len(wire) : wire'[k] = wire[k]
  BY <1>1, <1>3, <1>4
<1> QED BY <1>3, <1>4, <1>5 DEF f

LEMMA AppendIs ==
    ASSUME NEW S, NEW s \in Seq(S), NEW x \in S
    PROVE  Append(s, x) = [k \in 1..Len(s) + 1 |-> IF k = Len(s) + 1 THEN x ELSE s[k]]
<1> DEFINE t == [k \in 1..Len(s) + 1 |-> IF k = Len(s) + 1 THEN x ELSE s[k]]
<1>1. t \in [1..Len(s) + 1 -> S] /\ Append(s, x) \in [1..Len(s) + 1 -> S]
  <2>1. Append(s, x) \in Seq(S) /\ Len(Append(s, x)) = Len(s) + 1 /\ Len(s) \in Nat
    OBVIOUS
  <2>2. \A k \in 1..Len(s) + 1 : k # Len(s) + 1 => k \in 1..Len(s)
    BY <2>1
  <2>3. \A k \in 1..Len(s) : s[k] \in S
    OBVIOUS
  <2>4. t \in [1..Len(s) + 1 -> S]
    BY <2>2, <2>3
  <2>5. Append(s, x) \in [1..Len(s) + 1 -> S]
    BY <2>1, LenProperties
  <2> QED BY <2>4, <2>5
<1>2. \A k \in 1..Len(s) + 1 : Append(s, x)[k] = t[k]
  OBVIOUS
<1> HIDE DEF t
<1>3. Append(s, x) = t
  BY <1>1, <1>2
<1> QED BY <1>3 DEF t

\* What the frame adds to the text.
LEMMA SentText ==
    ASSUME StreamInv, SendFrame
    PROVE  Flattens(Parts(wire)', accumulated \o (IF Head(todo).name = "delta" THEN Head(todo).text
                                                                             ELSE <<>>))
<1> DEFINE x == IF Head(todo).name = "delta" THEN Head(todo).text ELSE <<>>
           p == Parts(wire)
<1>1. /\ wire \in Seq(Frames) /\ Len(wire) \in Nat /\ wire' \in Seq(Frames)
      /\ Len(wire') = Len(wire) + 1 /\ \A k \in 1..Len(wire) : wire'[k] = wire[k]
      /\ wire'[Len(wire) + 1].name = Head(todo).name
      /\ wire'[Len(wire) + 1].text = Head(todo).text
  <2>1. wire \in Seq(Frames) /\ Len(wire) \in Nat
    BY DEF StreamInv, StreamTypeOK
  <2> QED BY <2>1, NextFrame
<1>2. \A k \in 1..Len(wire) : wire[k].text \in Seq(Letters)
  <2>1. \A k \in 1..Len(wire) : wire[k] \in Frames
    BY <1>1
  <2>2. \A k \in 1..Len(wire) : wire[k].text \in Texts
    BY <2>1 DEF Frames
  <2> QED BY <2>2, TextsAre
<1>3. x \in Seq(Letters)
  <2>1. wire'[Len(wire) + 1] \in Frames
    BY <1>1
  <2>2. Head(todo).text \in Seq(Letters)
    BY <1>1, <2>1, TextsAre DEF Frames
  <2> QED BY <2>2
<1>4. p \in Seq(Seq(Letters)) /\ Len(p) = Len(wire)
      /\ \A k \in 1..Len(wire) : p[k] = IF wire[k].name = "delta" THEN wire[k].text ELSE <<>>
  <2>1. DOMAIN wire = 1..Len(wire)
    BY <1>1
  <2>2. p \in [1..Len(wire) -> Seq(Letters)]
    BY <1>2, <2>1 DEF Parts
  <2> QED BY <1>1, <2>1, <2>2 DEF Parts
<1>5. p' = Append(p, x)
  <2>1. DOMAIN wire' = 1..Len(wire) + 1
    BY <1>1
  <2>2. p' = [k \in 1..Len(wire) + 1 |-> IF wire'[k].name = "delta" THEN wire'[k].text ELSE <<>>]
    BY <2>1 DEF Parts
  <2>3. p' = [k \in 1..Len(wire) + 1 |-> IF k = Len(wire) + 1 THEN x ELSE p[k]]
    <3>1. ASSUME NEW k \in 1..Len(wire) + 1
          PROVE  (IF wire'[k].name = "delta" THEN wire'[k].text ELSE <<>>)
                 = IF k = Len(wire) + 1 THEN x ELSE p[k]
      <4>1. CASE k = Len(wire) + 1
        BY <1>1, <4>1
      <4>2. CASE k # Len(wire) + 1
        <5>1. k \in 1..Len(wire)
          BY <1>1, <4>2
        <5> HIDE DEF p
        <5> QED BY <1>1, <1>4, <4>2, <5>1
      <4> QED BY <4>1, <4>2
    <3> HIDE DEF p, x
    <3> QED BY <2>2, <3>1
  <2> HIDE DEF p, x
  <2> QED BY <1>1, <1>3, <1>4, <2>3, AppendIs
<1>6. accumulated \in Seq(Letters) /\ Flattens(p, accumulated)
  BY TextsAre DEF StreamInv, StreamTypeOK
<1> HIDE DEF p, x
<1>7. Flattens(Append(p, x), accumulated \o x)
  BY <1>3, <1>4, <1>6, FlattensMore
<1> QED BY <1>5, <1>7 DEF p, x

\* The frames that are in order stay so, and the new one has the next number.
LEMMA NextNumber ==
    ASSUME StreamInv, SendFrame, place' \in {"returning", "closed"} \/ Head(todo).name # "error_body"
    PROVE  SequenceOK'
<1>1. ~Cut /\ place \in Sending /\ responses' = responses /\ Len(wire) \in Nat
      /\ sequence' = sequence + IF responses /\ Head(todo).name # "error_body" THEN 1 ELSE 0
  BY DEF SendFrame, Numbered, Cut, StreamInv, StreamTypeOK
<1>2. CASE responses
  <2>1. sequence = Len(wire) /\ \A k \in 1..Len(wire) : wire[k].seq = k - 1
    BY <1>1, <1>2 DEF StreamInv, SequenceOK, Sending
  <2>2. Len(wire') = Len(wire) + 1 /\ wire'[Len(wire) + 1].seq = sequence
        /\ \A k \in 1..Len(wire) : wire'[k] = wire[k]
    BY NextFrame
  <2>3. \A k \in 1..Len(wire') : wire'[k].seq = k - 1
    BY <1>1, <2>1, <2>2
  <2> QED BY <1>1, <1>2, <2>1, <2>2, <2>3 DEF SequenceOK
<1>3. CASE ~responses
  BY <1>1, <1>3 DEF SequenceOK
<1> QED BY <1>2, <1>3

\* No frame completes the answer but the last of an ending.
LEMMA NextEnding ==
    ASSUME StreamInv, SendFrame,
           Head(todo).name = "completed" => place' = "returning" /\ Whole'
    PROVE  Told'
<1>1. place \in Sending /\ Len(wire) \in Nat
  BY DEF SendFrame, StreamInv, StreamTypeOK
<1>2. \A k \in 1..Len(wire) : wire[k].name # "completed"
  BY <1>1 DEF StreamInv, Told, Sending
<1>3. Len(wire') = Len(wire) + 1 /\ wire'[Len(wire) + 1].name = Head(todo).name
      /\ \A k \in 1..Len(wire) : wire'[k] = wire[k]
  BY NextFrame
<1>4. \A k \in 1..Len(wire') : wire'[k].name = "completed" => k = Len(wire) + 1
  BY <1>1, <1>2, <1>3
<1> QED BY <1>3, <1>4 DEF Told

\* What a frame that is sent leaves behind, whatever it is.
LEMMA OneSent ==
    ASSUME StreamInv, SendFrame
    PROVE  /\ todo \in Seq(Pending) /\ todo # <<>> /\ Len(todo) \in Nat \ {0}
           /\ Head(todo) = todo[1] /\ todo' = Tail(todo)
           /\ Len(todo') = Len(todo) - 1 /\ \A k \in 1..Len(todo) - 1 : todo'[k] = todo[k + 1]
           /\ ~Cut /\ place \in Sending /\ Len(wire) \in Nat
           /\ started' = (started \/ todo[1].name # "error_body")
           /\ Begin' = Begin /\ Done' = Done
           /\ Len(Begin) \in Nat \ {0} /\ Len(Done) \in Nat \ {0}
           /\ UNCHANGED <<responses, terminal, completion, rejected, helper, snapshot>>
<1>1. todo \in Seq(Pending) /\ todo # <<>> /\ todo' = Tail(todo)
  BY DEF SendFrame, StreamInv, StreamTypeOK, Pending
<1>2. Len(todo) \in Nat \ {0} /\ Head(todo) = todo[1] /\ Len(todo') = Len(todo) - 1
      /\ \A k \in 1..Len(todo) - 1 : todo'[k] = todo[k + 1]
  BY <1>1
<1>3. ~Cut /\ place \in Sending /\ Len(wire) \in Nat
      /\ UNCHANGED <<responses, terminal, completion, rejected, helper, snapshot>>
  BY DEF SendFrame, Cut, StreamInv, StreamTypeOK, process
<1>4. started' = (started \/ todo[1].name # "error_body")
  BY <1>2 DEF SendFrame, Numbered
<1> QED BY <1>1, <1>2, <1>3, <1>4, SameFrames, BeginIs, DoneIs DEF StreamInv, StreamTypeOK

\* A frame of the opening.
LEMMA OpeningSent ==
    ASSUME StreamInv, SendFrame, place = "emitting", Len(todo) > 1
    PROVE  Spoken' /\ Flattens(Parts(wire), accumulated)' /\ Shape' /\ Told' /\ SequenceOK'
<1>1. UNCHANGED <<place, previous, accumulated>>
  BY DEF SendFrame, Sent
<1>2. Emitting
  BY DEF StreamInv, Shape
<1>3. /\ Len(wire) + Len(todo) = Len(Begin) + 1 /\ Opening(wire)
      /\ \A k \in 1..Len(todo) - 1 : todo[k] = Begin[Len(wire) + k]
  BY <1>2 DEF Emitting
<1>4. Len(wire) + 1 \in 1..Len(Begin) /\ todo[1] = Begin[Len(wire) + 1]
  BY <1>3, OneSent
<1>5. todo[1].name \notin {"delta", "error_body", "completed"}
  BY <1>4, BeginIs DEF StreamInv, StreamTypeOK
<1>6. Spoken'
  BY <1>1, OneSent DEF StreamInv, Spoken
<1>7. Flattens(Parts(wire), accumulated)'
  <2>1. accumulated \in Seq(Letters)
    BY TextsAre DEF StreamInv, StreamTypeOK
  <2>2. accumulated \o <<>> = accumulated
    BY <2>1, ConcatEmptySeq
  <2> QED BY <1>1, <1>5, <2>2, OneSent, SentText
<1>8. Told' /\ SequenceOK'
  BY <1>5, OneSent, NextEnding, NextNumber
<1>9. Emitting'
  <2>1. Opening(wire)'
    <3>1. Opening(Append(wire, [name |-> Head(todo).name, seq |-> sequence,
                                text |-> Head(todo).text]))
      BY <1>3, <1>4, OneSent, NextFrame, OneMore DEF StreamInv, StreamTypeOK
    <3>2. Opening(wire')
      BY <3>1, NextFrame
    <3> QED BY <3>2, OneSent DEF Opening
  <2>2. Len(wire') = Len(wire) + 1
    BY NextFrame
  <2>3. /\ Len(wire') + Len(todo') = Len(Begin') + 1
        /\ \A k \in 1..Len(todo') - 1 : todo'[k] = Begin'[Len(wire') + k]
    <3>1. ASSUME NEW k \in 1..Len(todo') - 1
          PROVE  todo'[k] = Begin'[Len(wire') + k]
      <4>1. k \in 1..Len(todo) - 2
        BY OneSent
      <4>2. k \in 1..Len(todo) - 1 /\ k + 1 \in 1..Len(todo) - 1
            /\ Len(wire) + (k + 1) = Len(wire') + k
        <5>1. Len(wire) \in Nat /\ Len(todo) \in Nat
          BY OneSent
        <5> QED BY <2>2, <4>1, <5>1
      <4> QED BY <1>3, <4>2, OneSent
    <3>2. Len(wire') + Len(todo') = Len(Begin) + 1
      <4>1. Len(todo') = Len(todo) - 1 /\ Len(wire) \in Nat /\ Len(todo) \in Nat
        BY OneSent
      <4>2. Len(wire) + Len(todo) = Len(Begin) + 1
        BY <1>3
      <4>3. Len(Begin) \in Nat
        BY OneSent
      <4> HIDE DEF Begin
      <4> QED BY <2>2, <4>1, <4>2, <4>3
    <3>3. Len(wire') + Len(todo') = Len(Begin') + 1
      BY <3>2, OneSent
    <3> QED BY <3>1, <3>3
  <2>4. todo'[Len(todo')] = todo[Len(todo)]
    BY OneSent
  <2> QED BY <1>1, <1>2, <2>1, <2>3, <2>4, OneSent DEF Emitting
<1> QED BY <1>1, <1>6, <1>7, <1>8, <1>9 DEF Shape

\* The delta itself.
LEMMA DeltaSent ==
    ASSUME StreamInv, SendFrame, place = "emitting", Len(todo) = 1
    PROVE  Spoken' /\ Flattens(Parts(wire), accumulated)' /\ Shape' /\ Told' /\ SequenceOK'
<1>1. /\ place' = "scanning" /\ previous' = snapshot
      /\ accumulated' = accumulated \o Head(todo).text
  BY DEF SendFrame, Sent, Goto
<1>2. Emitting
  BY DEF StreamInv, Shape
<1>3. Head(todo).name = "delta" /\ snapshot = previous \o Head(todo).text
  BY <1>2, OneSent DEF Emitting
<1>4. Spoken'
  <2>1. IsPrefix(snapshot, snapshot)
    BY Continued DEF StreamInv, StreamTypeOK
  <2>2. accumulated' = snapshot /\ previous' = snapshot /\ snapshot' = snapshot
    BY <1>1, <1>3, OneSent DEF StreamInv, Spoken
  <2>3. ~terminal'
    BY OneSent DEF StreamInv, Spoken
  <2> QED BY <2>1, <2>2, <2>3 DEF Spoken
<1>5. Flattens(Parts(wire), accumulated)'
  BY <1>1, <1>3, SentText
<1>6. Told' /\ SequenceOK'
  BY <1>3, NextEnding, NextNumber
<1>7. Streaming'
  <2>1. PICK d \in Nat : Opened(wire, d) /\ Len(wire) = Len(Begin) + d
    <3>1. CASE Streaming
      <4>1. Len(wire) - Len(Begin) \in Nat /\ Len(wire) = Len(Begin) + (Len(wire) - Len(Begin))
        BY <3>1, OneSent DEF Streaming
      <4> QED BY <3>1, <4>1 DEF Streaming
    <3>2. CASE Opening(wire) /\ Len(wire) = Len(Begin)
      <4>1. Opened(wire, 0) /\ Len(wire) = Len(Begin) + 0
        BY <3>2, OneSent DEF Opening, Opened
      <4> QED BY <4>1
    <3>3. Streaming \/ (Opening(wire) /\ Len(wire) = Len(Begin))
      BY <1>2, OneSent DEF Emitting
    <3> QED BY <3>1, <3>2, <3>3
  <2>2. Opened(Append(wire, [name |-> Head(todo).name, seq |-> sequence,
                             text |-> Head(todo).text]), d + 1)
    BY <1>3, <2>1, NextFrame, OneMore DEF StreamInv, StreamTypeOK
  <2>3. Opened(wire', d + 1) /\ Len(wire') = Len(Begin) + (d + 1)
    <3>1. Opened(wire', d + 1)
      BY <2>2, NextFrame
    <3>2. Len(wire') = Len(wire) + 1
      BY NextFrame
    <3>3. Len(wire') = Len(Begin) + (d + 1)
      BY <2>1, <3>2, OneSent
    <3> QED BY <3>1, <3>3
  <2>4. Opened(wire', Len(wire') - Len(Begin))
    <3>1. Len(wire') - Len(Begin) = d + 1
      BY <2>3, OneSent
    <3> QED BY <2>3, <3>1
  <2>5. Len(wire') > Len(Begin)
    BY <2>3, OneSent
  <2> QED BY <1>3, <2>4, <2>5, OneSent DEF Streaming, Opened
<1> QED BY <1>1, <1>4, <1>5, <1>6, <1>7 DEF Shape

\* A frame of the ending, the last of which completes the answer.
LEMMA EndingSent ==
    ASSUME StreamInv, SendFrame, place = "finishing"
    PROVE  Spoken' /\ Flattens(Parts(wire), accumulated)' /\ Shape' /\ Told' /\ SequenceOK'
<1>1. UNCHANGED <<previous, accumulated>> /\ (Len(todo) > 1 => place' = place)
      /\ (Len(todo) = 1 => place' = "returning")
  <2>1. CASE Len(todo) > 1
    BY <2>1 DEF SendFrame, Sent
  <2>2. CASE ~(Len(todo) > 1)
    BY <2>2 DEF SendFrame, Sent, Goto
  <2> QED BY <2>1, <2>2
<1>2. Finishing
  BY DEF StreamInv, Shape
<1>3. Whole /\ Whole'
  BY <1>1, <1>2, OneSent DEF Finishing, Whole
<1>4. PICK d \in 1..Len(wire) :
        Len(wire) + Len(todo) = Len(Begin) + d + Len(Done) /\ Closing(wire, d)
  BY <1>2 DEF Finishing
<1> DEFINE e == Len(Done) - Len(todo) + 1
<1>5. e \in 1..Len(Done) /\ todo[1] = Done[e] /\ e = Len(wire) - Len(Begin) - d + 1
      /\ (e = Len(Done) <=> Len(todo) = 1) /\ Len(wire) < Len(Begin) + d + Len(Done)
  <2>1. Len(todo) <= Len(Done) /\ 1 \in 1..Len(todo) /\ Len(Done) - Len(todo) + 1 \in 1..Len(Done)
    BY <1>2, OneSent DEF Finishing
  <2>2. todo[1] = Done[Len(Done) - Len(todo) + 1]
    BY <1>2, <2>1 DEF Finishing
  <2>3. Len(todo) \in Nat \ {0} /\ Len(Done) \in Nat /\ Len(Begin) \in Nat /\ Len(wire) \in Nat
    BY OneSent
  <2>4. Len(wire) + Len(todo) = Len(Begin) + d + Len(Done) /\ d \in Nat
    BY <1>4, <2>3
  <2>5. /\ Len(Done) - Len(todo) + 1 = Len(wire) - Len(Begin) - d + 1
        /\ Len(Done) - Len(todo) + 1 = Len(Done) <=> Len(todo) = 1
        /\ Len(wire) < Len(Begin) + d + Len(Done)
    <3>1. ASSUME NEW b \in Nat, NEW c \in Nat, NEW w \in Nat, NEW t \in Nat \ {0},
                 NEW i \in Nat, w + t = b + i + c
          PROVE  c - t + 1 = w - b - i + 1 /\ (c - t + 1 = c <=> t = 1) /\ w < b + i + c
      BY <3>1
    <3>2. PICK b \in Nat, c \in Nat, w \in Nat, t \in Nat \ {0} :
            b = Len(Begin) /\ c = Len(Done) /\ w = Len(wire) /\ t = Len(todo)
      BY <2>3
    <3>3. w + t = b + d + c
      BY <2>4, <3>2
    <3>4. c - t + 1 = w - b - d + 1 /\ (c - t + 1 = c <=> t = 1) /\ w < b + d + c
      BY <2>4, <3>1, <3>3
    <3> QED BY <3>2, <3>4
  <2> QED BY <2>1, <2>2, <2>5
<1> HIDE DEF e
<1>6. todo[1].name \notin {"delta", "error_body"} /\ (todo[1].name = "completed" <=> Len(todo) = 1)
  BY <1>5, DoneIs DEF StreamInv, StreamTypeOK
<1>7. Spoken'
  <2>1. place' \in {"finishing", "returning"}
    BY <1>1, OneSent
  <2> QED BY <1>1, <2>1, OneSent DEF StreamInv, Spoken
<1>8. Flattens(Parts(wire), accumulated)'
  <2>1. accumulated \in Seq(Letters)
    BY TextsAre DEF StreamInv, StreamTypeOK
  <2>2. accumulated \o <<>> = accumulated
    BY <2>1, ConcatEmptySeq
  <2> QED BY <1>1, <1>6, <2>2, OneSent, SentText
<1>9. Told' /\ SequenceOK'
  BY <1>1, <1>3, <1>6, OneSent, NextEnding, NextNumber
<1>10. d \in 1..Len(wire') /\ Closing(wire, d)' /\ Len(wire') = Len(wire) + 1
  <2>1. Closing(Append(wire, [name |-> Head(todo).name, seq |-> sequence,
                            text |-> Head(todo).text]), d)
    <3>1. Head(todo).name = Done[Len(wire) - Len(Begin) - d + 1].name
      BY <1>5, OneSent
    <3>2. [name |-> Head(todo).name, seq |-> sequence, text |-> Head(todo).text] \in Frames
      BY NextFrame
    <3>3. wire \in Seq(Frames) /\ responses \in BOOLEAN /\ d \in Nat
      BY DEF StreamInv, StreamTypeOK
    <3> QED BY <1>4, <1>5, <3>1, <3>2, <3>3, OneMore
  <2>2. Closing(wire', d)
    BY <2>1, NextFrame
  <2>3. Closing(wire, d)'
    BY <2>2, OneSent DEF Closing, Opened
  <2>4. Len(wire') = Len(wire) + 1
    BY NextFrame
  <2> QED BY <2>3, <2>4, OneSent
<1>11. CASE Len(todo) > 1
  <2>1. /\ Len(todo') <= Len(Done')
        /\ Len(wire') + Len(todo') = Len(Begin') + d + Len(Done')
    <3>1. Len(todo) \in Nat /\ Len(wire) \in Nat /\ Len(Done) \in Nat /\ Len(todo') = Len(todo) - 1
          /\ Done' = Done /\ Begin' = Begin
      BY OneSent
    <3>2. Len(todo) <= Len(Done)
      BY <1>2 DEF Finishing
    <3> QED BY <1>4, <1>10, <3>1, <3>2
  <2>2. ASSUME NEW k \in 1..Len(todo')
        PROVE  todo'[k] = Done'[Len(Done') - Len(todo') + k]
    <3>1. Len(todo) \in Nat /\ Len(Done) \in Nat /\ Len(todo') = Len(todo) - 1 /\ Done' = Done
      BY OneSent
    <3>2. k \in 1..Len(todo) - 1 /\ k + 1 \in 1..Len(todo)
          /\ Len(Done) - Len(todo) + (k + 1) = Len(Done) - Len(todo') + k
      BY <3>1
    <3>3. todo'[k] = todo[k + 1]
      BY <3>2, OneSent
    <3>4. todo[k + 1] = Done[Len(Done) - Len(todo) + (k + 1)]
      BY <1>2, <3>2 DEF Finishing
    <3> QED BY <3>1, <3>2, <3>3, <3>4
  <2>3. Finishing'
    BY <1>3, <1>10, <2>1, <2>2 DEF Finishing
  <2> QED BY <1>1, <1>7, <1>8, <1>9, <1>11, <2>3 DEF Shape
<1>12. CASE Len(todo) = 1
  <2>1. Ordered(wire)'
    BY <1>10 DEF Ordered
  <2> QED BY <1>1, <1>7, <1>8, <1>9, <1>12, <2>1 DEF Shape
<1> QED BY <1>11, <1>12, OneSent

\* An error: the whole response, or the last event of the stream.
LEMMA ErrorSent ==
    ASSUME StreamInv, SendFrame, place = "failing"
    PROVE  Spoken' /\ Flattens(Parts(wire), accumulated)' /\ Shape' /\ Told' /\ SequenceOK'
<1>1. Failing /\ Len(todo) = 1
  BY DEF StreamInv, Shape, Failing
<1>2. UNCHANGED <<previous, accumulated>> /\ place' = "returning"
  BY <1>1 DEF SendFrame, Sent, Goto
<1>3. todo[1].name \in {"error_body", "failed"}
  BY <1>1 DEF Failing
<1>4. Spoken'
  BY <1>2, OneSent DEF StreamInv, Spoken
<1>5. Flattens(Parts(wire), accumulated)'
  <2>1. accumulated \in Seq(Letters)
    BY TextsAre DEF StreamInv, StreamTypeOK
  <2>2. accumulated \o <<>> = accumulated
    BY <2>1, ConcatEmptySeq
  <2> QED BY <1>2, <1>3, <2>2, OneSent, SentText
<1>6. Told' /\ SequenceOK'
  BY <1>2, <1>3, OneSent, NextEnding, NextNumber
<1>7. Len(wire') = Len(wire) + 1 /\ wire'[Len(wire) + 1].name = todo[1].name
  BY NextFrame, OneSent
<1>8. CASE todo[1].name = "error_body" /\ Untouched
  <2>1. Len(wire') = 1 /\ wire'[1].name = "error_body"
    BY <1>7, <1>8 DEF Untouched
  <2>2. Ordered(wire)'
    BY <2>1 DEF Ordered
  <2> QED BY <1>2, <1>4, <1>5, <1>6, <2>2 DEF Shape
<1>9. CASE todo[1].name = "failed" /\ Streaming
  <2>1. PICK d \in 1..Len(wire) : Opened(wire, d) /\ Len(wire) = Len(Begin) + d
    <3>1. Len(wire) - Len(Begin) \in 1..Len(wire)
          /\ Len(wire) = Len(Begin) + (Len(wire) - Len(Begin))
      BY <1>9, OneSent DEF Streaming
    <3> QED BY <1>9, <3>1 DEF Streaming
  <2>2. Opened(Append(wire, [name |-> Head(todo).name, seq |-> sequence,
                             text |-> Head(todo).text]), d)
    BY <2>1, NextFrame, OneMore DEF StreamInv, StreamTypeOK
  <2>3. Opened(wire', d)
    BY <2>2, NextFrame
  <2>4. Opened(wire, d)'
    BY <2>3, OneSent DEF Opened
  <2>5. d \in 1..Len(wire') /\ Len(wire') = Len(Begin') + d + 1 /\ wire'[Len(wire')].name = "failed"
    BY <1>7, <1>9, <2>1, OneSent
  <2>6. Ordered(wire)'
    BY <2>4, <2>5 DEF Ordered
  <2> QED BY <1>2, <1>4, <1>5, <1>6, <2>6 DEF Shape
<1> QED BY <1>1, <1>8, <1>9, OneSent DEF Failing, Broken

-----------------------------------------------------------------------------
(* Types.                                                                  *)

LEMMA ScanTypes ==
    ASSUME StreamInv, RefuseEvent \/ EmitLate \/ ScanEnds \/ ScanExpires \/ Conclude
    PROVE  StreamTypeOK'
<1>1. StreamTypeOK
  BY DEF StreamInv
<1>2. CASE RefuseEvent \/ EmitLate
  <2>1. RejectEvent /\ place = "scanning"
    BY <1>2 DEF RefuseEvent, EmitLate, Reads
  <2> QED BY <1>1, <2>1, StreamConstants
      DEF StreamTypeOK, RejectEvent, Abort, Goto, Phases, Sending, stream
<1>3. CASE ScanEnds
  BY <1>1, <1>3 DEF StreamTypeOK, ScanEnds, Goto, Phases, Sending, stream, process, protocol
<1>4. CASE ScanExpires
  BY <1>1, <1>4, StreamConstants
  DEF StreamTypeOK, ScanExpires, Abort, Goto, Phases, Sending, stream, protocol
<1>5. CASE Conclude
  <2>1. Done \in Seq(Pending) /\ Done # <<>>
    BY <1>1, DoneIs DEF StreamTypeOK
  <2>2. Failure \in Seq(Pending) /\ Failure # <<>>
    <3>1. CASE started
      <4>1. Failure = <<[name |-> "failed", text |-> <<>>]>>
        BY <3>1 DEF Failure, Named
      <4> QED BY <4>1, NoText DEF Pending, FrameNames
    <3>2. CASE ~started
      <4>1. Failure = <<[name |-> "error_body", text |-> <<>>]>>
        BY <3>2 DEF Failure, Named
      <4> QED BY <4>1, NoText DEF Pending, FrameNames
    <3> QED BY <3>1, <3>2
  <2>3. todo' \in Seq(Pending) /\ todo' # <<>> /\ place' \in Sending
    BY <1>5, <2>1, <2>2 DEF Conclude, Goto, Sending
  <2> QED BY <1>1, <1>5, <2>3
      DEF StreamTypeOK, Conclude, Phases, Sending, stream, process, protocol, Pending
<1> QED BY <1>2, <1>3, <1>4, <1>5

LEMMA LineTypes ==
    ASSUME StreamInv, Available \/ Repeat \/ Emit \/ Complete
    PROVE  StreamTypeOK'
<1>1. StreamTypeOK
  BY DEF StreamInv
<1>2. place = "scanning" /\ pipe # <<>> /\ Take
  BY DEF Available, Repeat, Emit, Complete, Reads
<1>3. pipe' \in Seq(Events) /\ Len(pipe') <= PipeSize
  <2>1. pipe \in Seq(Events) /\ Len(pipe) <= PipeSize /\ pipe' = Tail(pipe)
    BY <1>1, <1>2 DEF StreamTypeOK, Take
  <2> QED BY <1>2, <2>1, StreamConstants
<1>4. CASE Available
  BY <1>1, <1>2, <1>3, <1>4 DEF StreamTypeOK, Available, Take, stream, Sending, Phases
<1>5. CASE Repeat
  <2>1. Head(pipe).text \in Texts
    BY <1>1, <1>5, NextLine DEF Repeat, Reads
  <2> QED BY <1>1, <1>2, <1>3, <1>5, <2>1 DEF StreamTypeOK, Repeat, Take, stream
<1>6. CASE Complete
  <2>1. Head(pipe).text \in Texts
    BY <1>1, <1>6, NextLine DEF Complete, Reads
  <2> QED BY <1>1, <1>2, <1>3, <1>6, <2>1 DEF StreamTypeOK, Complete, Take, stream
<1>7. CASE Emit
  <2>1. Head(pipe).text \in Texts /\ IsPrefix(previous, Head(pipe).text) /\ previous \in Texts
    BY <1>1, <1>7, NextLine DEF Emit, Reads, Refused, Extends, StreamTypeOK
  <2>2. [name |-> "delta", text |-> Grown] \in Pending
    BY <2>1, Growth DEF Grown, Pending, FrameNames
  <2>3. Begin \in Seq(Pending)
    BY <1>1, BeginIs DEF StreamTypeOK
  <2>4. Delta(Grown) \in Seq(Pending) /\ Len(Delta(Grown)) = 1
    BY <2>2 DEF Delta
  <2>5. todo' \in Seq(Pending) /\ todo' # <<>>
    <3>1. todo' = (IF started THEN <<>> ELSE Begin) \o Delta(Grown)
      BY <1>7 DEF Emit
    <3>2. ASSUME NEW opening \in Seq(Pending)
          PROVE  opening \o Delta(Grown) \in Seq(Pending) /\ opening \o Delta(Grown) # <<>>
      <4>1. opening \o Delta(Grown) \in Seq(Pending)
            /\ Len(opening \o Delta(Grown)) = Len(opening) + Len(Delta(Grown))
        BY <2>4, ConcatProperties
      <4>2. Len(opening) \in Nat
        OBVIOUS
      <4>3. Len(opening \o Delta(Grown)) # 0
        BY <2>4, <4>1, <4>2
      <4> QED BY <4>1, <4>3
    <3>3. <<>> \in Seq(Pending)
      OBVIOUS
    <3>4. CASE started
      BY <3>1, <3>2, <3>3, <3>4
    <3>5. CASE ~started
      BY <2>3, <3>1, <3>2, <3>5
    <3> QED BY <3>4, <3>5
  <2>6. snapshot' = Head(pipe).text /\ place' = "emitting"
        /\ UNCHANGED <<ready, terminal, previous, completion>>
    BY <1>7 DEF Emit, Goto
  <2> QED BY <1>1, <1>2, <1>3, <2>1, <2>5, <2>6
      DEF StreamTypeOK, Take, stream, Sending, Phases, Pending
<1> QED BY <1>4, <1>5, <1>6, <1>7

LEMMA SendTypes ==
    ASSUME StreamInv, SendFrame \/ SendFails
    PROVE  StreamTypeOK'
<1>1. StreamTypeOK
  BY DEF StreamInv
<1>2. /\ started' \in BOOLEAN /\ sequence' \in Nat /\ todo # <<>>
      /\ UNCHANGED <<responses, ready, terminal, completion, snapshot, client, writeDeadline>>
  <2>1. Numbered /\ todo # <<>>
        /\ UNCHANGED <<responses, ready, terminal, completion, snapshot, client, writeDeadline>>
    BY DEF SendFrame, SendFails
  <2>2. started' \in BOOLEAN
    BY <1>1, <2>1 DEF Numbered, StreamTypeOK
  <2>3. sequence' \in Nat
    <3>1. sequence' = sequence + 0 \/ sequence' = sequence + 1
      BY <2>1 DEF Numbered
    <3> QED BY <1>1, <3>1 DEF StreamTypeOK
  <2> QED BY <2>1, <2>2, <2>3
<1>3. CASE SendFrame
  <2>1. wire' \in Seq(Frames)
    BY <1>3, NextFrame
  <2>2. todo' \in Seq(Pending)
    BY <1>3, OneSent
  <2>3. /\ place' \in Phases /\ previous' \in Texts /\ accumulated' \in Texts
        /\ todo' # <<>> <=> place' \in Sending
    <3>1. CASE Len(todo) > 1
      <4>1. todo' # <<>> /\ place' = place /\ previous' = previous /\ accumulated' = accumulated
        <5>1. place' = place /\ previous' = previous /\ accumulated' = accumulated
          BY <1>3, <3>1 DEF SendFrame, Sent
        <5>2. Len(todo') # 0
          BY <1>3, <3>1, OneSent
        <5> QED BY <5>1, <5>2
      <4> QED BY <1>1, <1>2, <4>1 DEF StreamTypeOK
    <3>2. CASE Len(todo) = 1
      <4>1. todo' = <<>>
        BY <1>3, <2>2, <3>2, OneSent
      <4>2. CASE place = "emitting"
        <5>1. place' = "scanning" /\ previous' = snapshot /\ accumulated' = previous'
          BY <1>3, <3>2, <4>2, DeltaSent DEF SendFrame, Sent, Goto, Spoken
        <5> QED BY <1>1, <4>1, <5>1 DEF StreamTypeOK, Phases, Sending
      <4>3. CASE place # "emitting"
        <5>1. place' = "returning" /\ previous' = previous /\ accumulated' = accumulated
          BY <1>3, <3>2, <4>3 DEF SendFrame, Sent, Goto
        <5> QED BY <1>1, <4>1, <5>1 DEF StreamTypeOK, Phases, Sending
      <4> QED BY <4>2, <4>3
    <3> QED BY <1>3, <3>1, <3>2, OneSent
  <2>4. UNCHANGED <<ctx, process, rejected>>
    BY <1>3 DEF SendFrame
  <2> QED BY <1>1, <1>2, <2>1, <2>2, <2>3, <2>4 DEF StreamTypeOK, process, Pending
<1>4. CASE SendFails
  <2>1. /\ place' \in {"judging", "returning"} /\ todo' = <<>>
        /\ UNCHANGED <<wire, previous, accumulated>>
    BY <1>4 DEF SendFails, Goto, Dropped
  <2>2. /\ ctx' \in {"live", "done"} /\ rejected' \in BOOLEAN
        /\ helper' \in {"running", "exited", "failed", "killed"}
        /\ pipe' \in Seq(Events) /\ Len(pipe') <= PipeSize /\ emitted' \in Nat
    <3>1. CASE place = "emitting"
      BY <1>1, <1>4, <3>1, StreamConstants DEF SendFails, Abort, StreamTypeOK
    <3>2. CASE place # "emitting"
      BY <1>1, <1>4, <3>2 DEF SendFails, process, StreamTypeOK
    <3> QED BY <3>1, <3>2
  <2> QED BY <1>1, <1>2, <2>1, <2>2 DEF StreamTypeOK, Phases, Sending
<1> QED BY <1>3, <1>4

LEMMA OtherTypes ==
    ASSUME StreamInv,
           \/ Return \/ WriteDeadline \/ Expire
           \/ \E e \in Events : Speak(e)
           \/ \E how \in {"exited", "failed"} : HelperExits(how)
           \/ \E mood \in {"reading", "stalled", "gone"} : Client(mood)
    PROVE  StreamTypeOK'
<1>1. StreamTypeOK
  BY DEF StreamInv
<1>2. CASE Return
  BY <1>1, <1>2 DEF StreamTypeOK, Return, Goto, Phases, Sending, stream, process, protocol
<1>3. CASE WriteDeadline
  BY <1>1, <1>3 DEF StreamTypeOK, WriteDeadline, stream, process, protocol
<1>4. CASE Expire
  BY <1>1, <1>4 DEF StreamTypeOK, Expire, stream, process, protocol
<1>5. ASSUME NEW e \in Events, Speak(e)
      PROVE  StreamTypeOK'
  <2>1. pipe' \in Seq(Events) /\ Len(pipe') <= PipeSize
    <3>1. pipe \in Seq(Events) /\ Len(pipe) < PipeSize /\ pipe' = Append(pipe, e)
      BY <1>1, <1>5 DEF StreamTypeOK, Speak
    <3> QED BY <3>1, StreamConstants
  <2> QED BY <1>1, <1>5, <2>1 DEF StreamTypeOK, Speak, stream, protocol
<1>6. ASSUME NEW how \in {"exited", "failed"}, HelperExits(how)
      PROVE  StreamTypeOK'
  BY <1>1, <1>6 DEF StreamTypeOK, HelperExits, stream, protocol
<1>7. ASSUME NEW mood \in {"reading", "stalled", "gone"}, Client(mood)
      PROVE  StreamTypeOK'
  BY <1>1, <1>7 DEF StreamTypeOK, Client, stream, process, protocol
<1> QED BY <1>2, <1>3, <1>4, <1>5, <1>6, <1>7

-----------------------------------------------------------------------------
(* The theorems.                                                           *)

LEMMA StreamBegins == StreamInit => StreamInv
<1> SUFFICES ASSUME StreamInit
             PROVE  StreamInv
  OBVIOUS
<1>1. StreamTypeOK
  <2>1. pipe \in Seq(Events) /\ Len(pipe) <= PipeSize
    BY StreamConstants DEF StreamInit
  <2>2. /\ todo \in Seq([name : FrameNames, text : Texts]) /\ wire \in Seq(Frames)
        /\ todo = <<>> /\ place = "scanning"
    BY DEF StreamInit
  <2> QED BY <2>1, <2>2, NoText DEF StreamInit, StreamTypeOK, Phases, Sending
<1>2. Spoken
  BY <1>1, Continued, NoText DEF StreamInit, Spoken
<1>3. Flattens(Parts(wire), accumulated)
  <2>1. Parts(wire) = <<>>
    <3>1. DOMAIN wire = {}
      BY DEF StreamInit
    <3> QED BY <3>1 DEF Parts
  <2> QED BY <2>1, FlattensNothing DEF StreamInit
<1>4. Shape
  BY DEF StreamInit, Shape, Untouched
<1>5. Told /\ SequenceOK
  BY DEF StreamInit, Told, SequenceOK
<1> QED BY <1>1, <1>2, <1>3, <1>4, <1>5 DEF StreamInv

LEMMA StreamStep == StreamInv /\ [StreamNext]_streamVars => StreamInv'
<1> SUFFICES ASSUME StreamInv, [StreamNext]_streamVars
             PROVE  StreamInv'
  OBVIOUS
<1> USE DEF StreamInv
<1>1. CASE RefuseEvent \/ EmitLate
  <2>1. RejectEvent /\ place = "scanning"
    BY <1>1 DEF RefuseEvent, EmitLate, Reads
  <2> QED BY <1>1, <2>1, EndOfScan, ScanTypes DEF RejectEvent, Goto
<1>2. CASE ScanEnds \/ ScanExpires
  BY <1>2, EndOfScan, ScanTypes DEF ScanEnds, ScanExpires, Goto, protocol
<1>3. CASE Available \/ Repeat \/ Complete
  BY <1>3, Reading, LineTypes
<1>4. CASE Emit
  BY <1>4, Emitted, LineTypes
<1>5. CASE Conclude
  BY <1>5, Concluded, ScanTypes
<1>6. CASE SendFrame
  <2>1. place \in Sending /\ Len(todo) \in Nat \ {0}
    BY <1>6, OneSent
  <2>2. Spoken' /\ Flattens(Parts(wire), accumulated)' /\ Shape' /\ Told' /\ SequenceOK'
    <3>1. CASE place = "emitting" /\ Len(todo) > 1
      BY <1>6, <3>1, OpeningSent
    <3>2. CASE place = "emitting" /\ Len(todo) = 1
      BY <1>6, <3>2, DeltaSent
    <3>3. CASE place = "finishing"
      BY <1>6, <3>3, EndingSent
    <3>4. CASE place = "failing"
      BY <1>6, <3>4, ErrorSent
    <3>5. Len(todo) > 1 \/ Len(todo) = 1
      BY <2>1
    <3> QED BY <2>1, <3>1, <3>2, <3>3, <3>4, <3>5 DEF Sending
  <2> QED BY <1>6, <2>2, SendTypes
<1>7. CASE SendFails
  BY <1>7, Failed, SendTypes
<1>8. CASE Return
  BY <1>8, Returned, OtherTypes
<1>9. CASE WriteDeadline \/ Expire
  <2>1. CASE WriteDeadline
    BY <2>1, Aside, OtherTypes DEF WriteDeadline, Cut, process
  <2>2. CASE Expire
    BY <2>2, Aside, OtherTypes DEF Expire, Cut, process
  <2> QED BY <1>9, <2>1, <2>2
<1>10. CASE \E e \in Events : Speak(e)
  BY <1>10, Aside, OtherTypes DEF Speak, Cut
<1>11. CASE \E how \in {"exited", "failed"} : HelperExits(how)
  BY <1>11, Aside, OtherTypes DEF HelperExits, Cut
<1>12. CASE \E mood \in {"reading", "stalled", "gone"} : Client(mood)
  BY <1>12, Aside, OtherTypes DEF Client, Cut, process
<1>13. CASE UNCHANGED streamVars
  <2>1. StreamTypeOK'
    BY <1>13 DEF StreamTypeOK, streamVars, stream, process, protocol
  <2> QED BY <1>13, <2>1, Aside DEF streamVars, Cut, process
<1> QED BY <1>1, <1>2, <1>3, <1>4, <1>5, <1>6, <1>7, <1>8, <1>9, <1>10, <1>11, <1>12, <1>13
    DEF StreamNext, Handler

THEOREM StreamInvariance == StreamSpec => []StreamInv
BY StreamBegins, StreamStep, PTL DEF StreamSpec

\* Every variable of a streamed answer has its type, frames wait only while
\* they are being sent, and the pipe is never fuller than it is.
THEOREM StreamTypeCorrect == StreamSpec => []StreamTypeOK
<1>1. StreamInv => StreamTypeOK
  BY DEF StreamInv
<1> QED BY <1>1, StreamInvariance, PTL

LEMMA ShownIsSent == StreamInv => Shown = accumulated
<1> SUFFICES ASSUME StreamInv
             PROVE  Shown = accumulated
  OBVIOUS
<1>1. wire \in Seq(Frames) /\ Flattens(Parts(wire), accumulated)
  BY DEF StreamInv, StreamTypeOK
<1>2. Parts(wire) \in Seq(Seq(Letters))
  <2>1. \A k \in 1..Len(wire) : wire[k] \in Frames
    BY <1>1
  <2>2. \A k \in 1..Len(wire) : wire[k].text \in Texts
    BY <2>1 DEF Frames
  <2>3. \A k \in 1..Len(wire) : wire[k].text \in Seq(Letters)
    BY <2>2, TextsAre
  <2>4. Parts(wire) \in [1..Len(wire) -> Seq(Letters)] /\ Len(wire) \in Nat
    BY <1>1, <2>3 DEF Parts
  <2> QED BY <2>4
<1>3. FlattenSeq(Parts(wire)) = accumulated
  BY <1>1, <1>2, FlattensIs
<1> QED BY <1>3 DEF Shown, Parts

\* What was streamed is never revised: the text a client has put together is
\* that of the last accepted snapshot, and the one under way extends it.
THEOREM NothingIsRevised == StreamSpec => []NeverRevised
<1>1. StreamInv => NeverRevised
  BY ShownIsSent DEF StreamInv, Spoken, NeverRevised
<1> QED BY <1>1, StreamInvariance, PTL

\* A client that is told the answer is complete has the whole completion, from
\* a helper that said so last and ended well.
THEOREM CompletionsAreWhole == StreamSpec => []CompleteIsWhole
<1>1. StreamInv => CompleteIsWhole
  <2> SUFFICES ASSUME StreamInv, \E k \in DOMAIN wire : wire[k].name = "completed"
               PROVE  Whole /\ Shown = accumulated
    BY DEF CompleteIsWhole, Whole
  <2>1. DOMAIN wire = 1..Len(wire)
    BY DEF StreamInv, StreamTypeOK
  <2> QED BY <2>1, ShownIsSent DEF StreamInv, Told
<1> QED BY <1>1, StreamInvariance, PTL

LEMMA AlwaysOrdered == StreamInv => Ordered(wire)
<1> SUFFICES ASSUME StreamInv
             PROVE  Ordered(wire)
  OBVIOUS
<1>1. CASE place = "scanning" \/ place = "judging"
  BY <1>1, InBetween DEF StreamInv, Shape
<1>2. CASE place = "emitting"
  BY <1>2, InBetween DEF StreamInv, Shape, Emitting, Ordered
<1>3. CASE place = "failing"
  BY <1>3, InBetween DEF StreamInv, Shape, Failing
<1>4. CASE place = "finishing"
  BY <1>4 DEF StreamInv, Shape, Finishing, Ordered
<1>5. CASE place \in {"returning", "closed"}
  BY <1>5 DEF StreamInv, Shape
<1> QED BY <1>1, <1>2, <1>3, <1>4, <1>5 DEF StreamInv, StreamTypeOK, Phases, Sending

LEMMA PrefixIs ==
    ASSUME NEW S, NEW s \in Seq(S), NEW t \in Seq(S), Len(s) <= Len(t),
           \A k \in 1..Len(s) : s[k] = t[k]
    PROVE  IsPrefix(s, t)
<1>1. SubSeq(s, 1, Len(s)) = s
  BY SubSeqFull
<1>2. SubSeq(t, 1, Len(s)) \in Seq(S) /\ Len(SubSeq(t, 1, Len(s))) = Len(s)
      /\ \A k \in 1..Len(s) : SubSeq(t, 1, Len(s))[k] = t[k]
  OBVIOUS
<1>3. SubSeq(t, 1, Len(s)) = s
  BY <1>2, SeqEqual
<1> QED BY <1>1, <1>3 DEF IsPrefix

\* The names of frames, of those that are sent as of those that are to be.
LEMMA NamesAre ==
    ASSUME NEW w, w \in Seq(Frames) \/ w \in Seq(Pending)
    PROVE  LET names == [k \in DOMAIN w |-> w[k].name] IN
           /\ names \in Seq(FrameNames) /\ Len(names) = Len(w)
           /\ \A k \in 1..Len(w) : names[k] = w[k].name
<1> DEFINE names == [k \in DOMAIN w |-> w[k].name]
<1>1. DOMAIN w = 1..Len(w) /\ Len(w) \in Nat
  OBVIOUS
<1>2. \A k \in 1..Len(w) : w[k] \in Frames \/ w[k] \in Pending
  OBVIOUS
<1>3. \A k \in 1..Len(w) : w[k].name \in FrameNames
  BY <1>2 DEF Frames, Pending
<1>4. names \in [1..Len(w) -> FrameNames]
  BY <1>1, <1>3
<1> QED BY <1>1, <1>4

\* Only the last frame ends a response.
LEMMA EndsAreLast ==
    ASSUME StreamTypeOK, Ordered(wire)
    PROVE  \A k \in 1..Len(wire) :
             wire[k].name \in {"completed", "failed", "error_body"} => k = Len(wire)
<1> DEFINE b == Len(Begin)
           e == Len(Done)
           n == Len(wire)
           Ending(k) == wire[k].name \in {"completed", "failed", "error_body"}
<1>1. b \in Nat /\ e \in Nat /\ n \in Nat
  BY BeginIs, DoneIs DEF StreamTypeOK
<1>2. /\ \A k \in 1..b : Begin[k].name \notin {"completed", "failed", "error_body"}
      /\ \A k \in 1..e : Done[k].name \in {"completed", "failed", "error_body"} => k = e
  BY BeginIs, DoneIs DEF StreamTypeOK
<1> HIDE DEF b, e, n
<1>3. CASE Opening(wire)
  BY <1>1, <1>2, <1>3 DEF Opening, b, n
<1>4. CASE Len(wire) = 1
  BY <1>4
<1>5. ASSUME NEW d \in 1..n, Opened(wire, d), NEW k \in 1..b + d
      PROVE  ~Ending(k)
  <2>1. CASE k \in 1..b
    BY <1>1, <1>2, <1>5, <2>1 DEF Opened, b
  <2>2. CASE k \in b + 1..b + d
    BY <1>1, <1>5, <2>2 DEF Opened, b
  <2> QED BY <1>1, <2>1, <2>2
<1>6. ASSUME NEW d \in 1..n, Closing(wire, d), NEW k \in 1..n, Ending(k)
      PROVE  k = n
  <2>1. Opened(wire, d) /\ n <= b + d + e
        /\ \A i \in 1..n - b - d : wire[b + d + i].name = Done[i].name
    BY <1>6 DEF Closing, b, e, n
  <2>2. k \notin 1..b + d
    BY <1>5, <1>6, <2>1
  <2>3. PICK i \in 1..n - b - d : k = b + d + i /\ i \in 1..e
    <3>1. k - b - d \in 1..n - b - d /\ k = b + d + (k - b - d) /\ k - b - d \in 1..e
      BY <1>1, <2>1, <2>2
    <3> QED BY <3>1
  <2>4. i = e
    BY <1>2, <1>6, <2>1, <2>3
  <2> QED BY <1>1, <2>1, <2>3, <2>4
<1>7. ASSUME NEW d \in 1..n, Opened(wire, d), n = b + d + 1, NEW k \in 1..n, Ending(k)
      PROVE  k = n
  <2>1. k \notin 1..b + d
    BY <1>5, <1>7
  <2> QED BY <1>1, <1>7, <2>1
<1> QED BY <1>3, <1>4, <1>6, <1>7 DEF Ordered, b, n

\* The shape of a response, from the frames to the names.
LEMMA OrderedNames ==
    ASSUME StreamTypeOK, Ordered(wire)
    PROVE  LET names == [k \in DOMAIN wire |-> wire[k].name]
               open  == [k \in DOMAIN Begin |-> Begin[k].name]
               done  == [k \in DOMAIN Done |-> Done[k].name]
               rest  == SubSeq(names, Len(open) + 1, Len(names)) IN
           \/ IsPrefix(names, open)
           \/ names = <<"error_body">>
           \/ /\ IsPrefix(open, names)
              /\ \E d \in 1..Len(rest) :
                   /\ \A k \in 1..d : rest[k] = "delta"
                   /\ LET end == SubSeq(rest, d + 1, Len(rest)) IN
                      end = <<"failed">> \/ IsPrefix(end, done)
<1> DEFINE names == [k \in DOMAIN wire |-> wire[k].name]
           open  == [k \in DOMAIN Begin |-> Begin[k].name]
           done  == [k \in DOMAIN Done |-> Done[k].name]
           rest  == SubSeq(names, Len(open) + 1, Len(names))
           b == Len(Begin)
           e == Len(Done)
           n == Len(wire)
<1>1. b \in Nat /\ e \in Nat /\ n \in Nat
  BY BeginIs, DoneIs DEF StreamTypeOK
<1>2. /\ names \in Seq(FrameNames) /\ Len(names) = n /\ \A k \in 1..n : names[k] = wire[k].name
      /\ open \in Seq(FrameNames) /\ Len(open) = b /\ \A k \in 1..b : open[k] = Begin[k].name
      /\ done \in Seq(FrameNames) /\ Len(done) = e /\ \A k \in 1..e : done[k] = Done[k].name
  <2>1. wire \in Seq(Frames) /\ Begin \in Seq(Pending) /\ Done \in Seq(Pending)
    BY BeginIs, DoneIs DEF StreamTypeOK
  <2> QED BY <2>1, NamesAre
<1> HIDE DEF names, open, done, b, e, n
<1>3. CASE Opening(wire)
  <2>1. n <= b /\ \A k \in 1..n : names[k] = open[k]
    BY <1>1, <1>2, <1>3 DEF Opening, b, n
  <2>2. IsPrefix(names, open)
    BY <1>2, <2>1, PrefixIs
  <2> QED BY <2>2 DEF names, open
<1>4. CASE Len(wire) = 1 /\ wire[1].name = "error_body"
  <2>1. n = 1 /\ names[1] = "error_body"
    BY <1>2, <1>4 DEF n
  <2>2. names = <<"error_body">>
    BY <1>2, <2>1
  <2> QED BY <2>2 DEF names
<1>5. ASSUME NEW d \in 1..n, Opened(wire, d)
      PROVE  /\ IsPrefix(open, names)
             /\ Len(rest) = n - b /\ \A k \in 1..n - b : rest[k] = names[b + k]
             /\ d \in 1..Len(rest) /\ \A k \in 1..d : rest[k] = "delta"
             /\ rest \in Seq(FrameNames)
             /\ SubSeq(rest, d + 1, Len(rest)) \in Seq(FrameNames)
             /\ Len(SubSeq(rest, d + 1, Len(rest))) = n - b - d
             /\ \A k \in 1..n - b - d :
                  SubSeq(rest, d + 1, Len(rest))[k] = wire[b + d + k].name
  <2>1. b + d <= n /\ (\A k \in 1..b : wire[k].name = Begin[k].name)
        /\ \A k \in b + 1..b + d : wire[k].name = "delta"
    BY <1>5 DEF Opened, b, n
  <2>2. IsPrefix(open, names)
    <3>1. ASSUME NEW k \in 1..b
          PROVE  open[k] = names[k]
      <4>1. k \in 1..n
        BY <1>1, <2>1
      <4> QED BY <1>2, <2>1, <4>1
    <3>2. b <= n
      BY <1>1, <2>1
    <3> QED BY <1>2, <3>1, <3>2, PrefixIs
  <2>3. rest \in Seq(FrameNames) /\ Len(rest) = n - b /\ \A k \in 1..n - b : rest[k] = names[b + k]
    <3>1. \A i \in b + 1..n : names[i] \in FrameNames
      BY <1>1, <1>2
    <3>2. rest \in Seq(FrameNames) /\ Len(rest) = n - b
          /\ \A k \in 1..n - (b + 1) + 1 : rest[k] = names[b + 1 + k - 1]
      BY <1>1, <1>2, <2>1, <3>1, SubSeqProperties
    <3> HIDE DEF rest
    <3>3. ASSUME NEW k \in 1..n - b
          PROVE  rest[k] = names[b + k]
      <4>1. k \in 1..n - (b + 1) + 1 /\ b + 1 + k - 1 = b + k
        BY <1>1
      <4>2. rest[k] = names[b + 1 + k - 1]
        BY <3>2, <4>1
      <4> QED BY <4>1, <4>2
    <3> QED BY <3>2, <3>3
  <2> HIDE DEF rest
  <2>4. d \in 1..Len(rest) /\ \A k \in 1..d : rest[k] = "delta"
    <3>1. ASSUME NEW k \in 1..d
          PROVE  rest[k] = "delta"
      <4>1. k \in 1..n - b /\ b + k \in 1..n /\ b + k \in b + 1..b + d
        BY <1>1, <2>1
      <4> QED BY <1>2, <2>1, <2>3, <4>1
    <3> QED BY <1>1, <2>1, <2>3, <3>1
  <2>5. /\ SubSeq(rest, d + 1, Len(rest)) \in Seq(FrameNames)
        /\ Len(SubSeq(rest, d + 1, Len(rest))) = n - b - d
        /\ \A k \in 1..n - b - d : SubSeq(rest, d + 1, Len(rest))[k] = rest[d + k]
    <3>1. \A i \in d + 1..n - b : rest[i] \in FrameNames
      BY <1>1, <2>1, <2>3
    <3> DEFINE end == SubSeq(rest, d + 1, n - b)
    <3>2. end \in Seq(FrameNames) /\ Len(end) = n - b - d
          /\ \A k \in 1..n - b - (d + 1) + 1 : end[k] = rest[d + 1 + k - 1]
      BY <1>1, <2>1, <3>1, SubSeqProperties
    <3> HIDE DEF end
    <3>3. ASSUME NEW k \in 1..n - b - d
          PROVE  end[k] = rest[d + k]
      <4>1. k \in 1..n - b - (d + 1) + 1 /\ d + 1 + k - 1 = d + k
        BY <1>1
      <4>2. end[k] = rest[d + 1 + k - 1]
        BY <3>2, <4>1
      <4> QED BY <4>1, <4>2
    <3> QED BY <2>3, <3>2, <3>3 DEF end
  <2>6. ASSUME NEW k \in 1..n - b - d
        PROVE  SubSeq(rest, d + 1, Len(rest))[k] = wire[b + d + k].name
    <3>1. d + k \in 1..n - b /\ b + (d + k) = b + d + k /\ b + d + k \in 1..n
      BY <1>1, <2>1
    <3>2. rest[d + k] = names[b + (d + k)]
      BY <2>3, <3>1
    <3> QED BY <1>2, <2>5, <3>1, <3>2
  <2> QED BY <2>2, <2>3, <2>4, <2>5, <2>6
<1> DEFINE end(d) == SubSeq(rest, d + 1, Len(rest))
           Whether == /\ IsPrefix(open, names)
                      /\ \E d \in 1..Len(rest) :
                           /\ \A k \in 1..d : rest[k] = "delta"
                           /\ end(d) = <<"failed">> \/ IsPrefix(end(d), done)
<1> HIDE DEF rest
<1>6. ASSUME NEW d \in 1..n, Closing(wire, d)
      PROVE  Whether
  <2>1. Opened(wire, d) /\ n - b - d <= e
        /\ \A k \in 1..n - b - d : wire[b + d + k].name = Done[k].name
    BY <1>1, <1>6 DEF Closing, b, e, n
  <2>2. end(d) \in Seq(FrameNames) /\ Len(end(d)) = n - b - d
        /\ \A k \in 1..n - b - d : end(d)[k] = wire[b + d + k].name
    BY <1>5, <2>1
  <2>3. ASSUME NEW k \in 1..n - b - d
        PROVE  end(d)[k] = done[k]
    <3>1. k \in 1..e
      BY <1>1, <2>1
    <3> QED BY <1>2, <2>1, <2>2, <3>1
  <2>4. IsPrefix(end(d), done)
    <3> HIDE DEF end
    <3> QED BY <1>2, <2>1, <2>2, <2>3, PrefixIs
  <2> QED BY <1>5, <2>1, <2>4
<1>7. ASSUME NEW d \in 1..n, Opened(wire, d), n = b + d + 1, wire[n].name = "failed"
      PROVE  Whether
  <2>1. end(d) \in Seq(FrameNames) /\ Len(end(d)) = n - b - d
        /\ \A k \in 1..n - b - d : end(d)[k] = wire[b + d + k].name
    BY <1>5, <1>7
  <2>2. n - b - d = 1 /\ b + d + 1 = n
    BY <1>1, <1>7
  <2>3. Len(end(d)) = 1 /\ end(d)[1] = "failed"
    BY <1>7, <2>1, <2>2
  <2>4. end(d) = <<"failed">>
    <3>1. ASSUME NEW s \in Seq(FrameNames), Len(s) = 1, s[1] = "failed"
          PROVE  s = <<"failed">>
      BY <3>1
    <3> QED BY <2>1, <2>3, <3>1
  <2> QED BY <1>5, <1>7, <2>4
<1>8. CASE \E d \in 1..n : Closing(wire, d) \/ (Opened(wire, d) /\ n = b + d + 1
                                              /\ wire[n].name = "failed")
  <2>1. Whether
    <3> HIDE DEF Whether
    <3> QED BY <1>6, <1>7, <1>8
  <2> QED BY <2>1 DEF names, open, done, rest
<1> QED BY <1>3, <1>4, <1>8 DEF Ordered, n, b

\* A response is an opening, deltas and one ending, or a part of it from the
\* start; an error before the opening is the whole of it; nothing follows an
\* ending, and the frames of the Responses API are numbered without a gap.
THEOREM FramesAreInOrder == StreamSpec => []WireInOrder
<1>1. StreamInv => WireInOrder
  <2> SUFFICES ASSUME StreamInv
               PROVE  WireInOrder
    OBVIOUS
  <2>1. StreamTypeOK /\ Ordered(wire) /\ DOMAIN wire = 1..Len(wire)
    BY AlwaysOrdered DEF StreamInv, StreamTypeOK
  <2>2. responses => \A k \in DOMAIN wire : wire[k].seq = k - 1
    BY <2>1 DEF StreamInv, SequenceOK
  <2>3. \A k \in DOMAIN wire : wire[k].name \in {"completed", "failed", "error_body"}
                               => k = Len(wire)
    BY <2>1, EndsAreLast
  <2> QED BY <2>1, <2>2, <2>3, OrderedNames DEF WireInOrder
<1> QED BY <1>1, StreamInvariance, PTL
=============================================================================
