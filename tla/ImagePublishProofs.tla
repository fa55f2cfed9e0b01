------------------------- MODULE ImagePublishProofs -------------------------
(* Pictures are published without replacing anything, and what a chat says *)
(* of its pictures is true, for any processes, names and command lines.    *)
EXTENDS ImagePublish, SequenceTheorems, TLAPS

\* The places of a turn that has not yet run, has run, knows the history.
Before  == {"waiting", "reading", "checking", "staging", "running", "verifying", "shaping", "publishing"}
After   == {"cleaning", "storing", "closing"}
Sending == {"staging", "running", "verifying", "shaping", "publishing", "writing", "linking",
            "cleaning", "storing"}
Knowing == Sending \cup {"checking"}

\* A process is in one of the turns it was called for; where it appends.
Turns == \A p \in Processes : turn[p] \in 1 .. Len(command[p].outputs)

Target(p) == IF chat[p] = NoConversation THEN p ELSE chat[p]

\* A conversation belongs to everybody or to the process that starts it.
Belongs ==
    \A p \in Processes :
      /\ chat[p] \in {NoConversation, Chat, p}
      /\ chat[p] = NoConversation => history[p] = <<>>
      /\ pc[p] \in {"waiting", "reading"} => chat[p] # NoConversation
      /\ pc[p] = "closing" /\ ~failed[p] /\ command[p].kind = "chat" => chat[p] # NoConversation

\* Whoever continues a conversation has the lock, and only at work.
Locked ==
    \A p \in Processes :
      /\ pc[p] \in Knowing \cup {"reading"} /\ chat[p] # NoConversation => lock = p
      /\ lock = p => pc[p] \in Knowing \cup {"reading", "closing"}

\* What it has read is still the whole history.
Known ==
    \A p \in Processes : pc[p] \in Knowing => basis[p] = history[Target(p)]

Expected(artifacts) == IF artifacts = <<>> THEN Absent ELSE artifacts[Len(artifacts)].sum

\* The picture sent along with "auto" is that of the last artifact.
Referring ==
    \A p \in Processes :
      pc[p] \in Sending /\ command[p].reference = "auto" => reference[p] = Expected(basis[p])

\* Artifacts are pictures.
Pictures ==
    \A c \in Conversations : \A k \in DOMAIN history[c] : history[c][k].sum.is = "picture"

\* The result of Publish, step by step.
Publishes(p) ==
    /\ pc[p] \in Before => published[p] = Absent
    /\ pc[p] \in {"writing", "linking"} => published[p].is = "picture"
    /\ pc[p] = "linking" => temp[p] = published[p]
    /\ pc[p] \in After /\ published[p] # Absent =>
         published[p].is = "picture" /\ <<Output(p), published[p]>> \in linked
    /\ pc[p] = "cleaning" => failed[p] \/ published[p] # Absent
    /\ pc[p] = "storing" => published[p] # Absent

Publishing == \A p \in Processes : Publishes(p)

IInv ==
    /\ TypeOK /\ Turns /\ Belongs /\ Locked /\ Known /\ Referring /\ Pictures /\ Publishing
    /\ ArtifactsAreTrue

-----------------------------------------------------------------------------
(* Success.                                                                *)

\* Errors, directories and temporary files, place by place.
Fares(p) ==
    /\ pc[p] \in Before \cup {"writing", "linking"} => ~failed[p]
    /\ pc[p] = "cleaning" => (failed[p] <=> published[p] = Absent)
    /\ pc[p] = "storing" => /\ ~failed[p] /\ published[p] # Absent
                            /\ dir[p] = "none" /\ command[p].kind = "chat"
    /\ pc[p] \in {"closing", "done", "waiting", "reading", "checking", "staging"} =>
         dir[p] # "there" /\ temp[p] = Absent
    /\ pc[p] \in {"waiting", "reading", "checking", "staging"} => dir[p] = "none"
    /\ pc[p] \in Knowing \ {"writing", "linking"} => temp[p] = Absent

Failing == \A p \in Processes : Fares(p)

Working == Knowing \cup {"waiting", "reading"}

\* Artifacts of later turns are not there yet.
Recording ==
    \A c \in Conversations : \A k \in DOMAIN history[c] : \A p \in Processes :
      \A t \in Nat :
        history[c][k].by = <<p, t>> =>
            t <= turn[p] /\ (pc[p] \in Working => t < turn[p])

\* A command at the end of a turn says the truth about it.
Reports(p) ==
    pc[p] = "closing" =>
      (~failed[p] <=> /\ published[p] # Absent /\ dir[p] = "none"
                      /\ command[p].kind = "chat" => Recorded(p))

Reporting == \A p \in Processes : Reports(p)

SInv == Failing /\ Recording /\ Reporting

-----------------------------------------------------------------------------
(* Contents and sizes.                                                     *)

\* What files hold, typed.
LEMMA Contents ==
    /\ Absent \in Content /\ Empty \in Content /\ Broken \in Content
    /\ Drawn \subseteq Content /\ Foreign \subseteq Content
    /\ Absent.is = "absent" /\ \A d \in Drawn : d.is = "picture"
<1>1. Absent \in Content /\ Empty \in Content /\ Broken \in Content /\ Absent.is = "absent"
  BY DEF Absent, Empty, Broken, Hollow, Content
<1>2. ASSUME NEW d \in Drawn
      PROVE  d \in Content /\ d.is = "picture"
  <2>1. d \in [is : {"picture"}, shows : Motifs, width : Nat \ {0}, height : Nat \ {0}]
    BY ImageConstants
  <2> QED BY <2>1 DEF Content
<1> QED BY <1>1, <1>2, ImageConstants

\* Integer division.
LEMMA Quotients ==
    ASSUME NEW a \in Nat, NEW d \in Nat \ {0}
    PROVE  /\ a \div d \in Nat
           /\ (a \div d) * d <= a /\ a < (a \div d) * d + d
BY SMT

\* Products of numbers.
LEMMA Products ==
    ASSUME NEW a \in Nat, NEW b \in Nat
    PROVE  a * b \in Nat
BY SMT

\* A smaller product has the smaller factor.
LEMMA Factors ==
    ASSUME NEW a \in Nat, NEW b \in Nat, NEW d \in Nat \ {0}, a * d < b * d
    PROVE  a < b
<1>1. ASSUME NEW c \in Nat
      PROVE  (b + c) * d = b * d + c * d
  BY SMT
<1>2. CASE b <= a
  <2>1. a - b \in Nat /\ a = b + (a - b)
    BY <1>2
  <2>2. a * d = b * d + (a - b) * d
    BY <1>1, <2>1
  <2>3. (a - b) * d \in Nat /\ a * d \in Nat /\ b * d \in Nat
    BY <2>1, Products
  <2> QED BY <2>2, <2>3
<1> QED BY <1>2

\* The code's scaling, rounded down and up.
LEMMA Scaled ==
    ASSUME NEW v \in Nat, NEW n \in Nat \ {0}, NEW d \in Nat \ {0}
    PROVE  LET f == ScaledFloor(v, n, d)
               c == ScaledCeil(v, n, d) IN
           /\ f \in Nat /\ c \in Nat
           /\ f * d <= v * n /\ v * n < f * d + d
           /\ v * n <= c * d /\ c * d < v * n + d
<1>1. v * n \in Nat
  BY Products
<1>2. v * n + d - 1 \in Nat
  BY <1>1
<1> DEFINE f == ScaledFloor(v, n, d)
           c == ScaledCeil(v, n, d)
<1>3. f \in Nat /\ f * d <= v * n /\ v * n < f * d + d
  BY <1>1, Quotients DEF ScaledFloor
<1>4. c \in Nat /\ c * d <= v * n + d - 1 /\ v * n + d - 1 < c * d + d
  BY <1>2, Quotients DEF ScaledCeil
<1>5. f * d \in Nat /\ c * d \in Nat
  BY <1>3, <1>4, Products
<1>6. ASSUME NEW m \in Nat, NEW x \in Nat, x <= m + d - 1, m + d - 1 < x + d
      PROVE  m <= x /\ x < m + d
  BY <1>6
<1> HIDE DEF f, c
<1>7. v * n <= c * d /\ c * d < v * n + d
  BY <1>1, <1>4, <1>5, <1>6
<1> QED BY <1>3, <1>4, <1>7 DEF f, c

\* Fitted sizes are numbers of pixels.
LEMMA Sizes ==
    ASSUME NEW w \in Nat, NEW h \in Nat, NEW o \in Option
    PROVE  OutputWidth(w, h, o) \in Nat /\ OutputHeight(w, h, o) \in Nat
<1>1. o.ratioW \in Nat \ {0} /\ o.ratioH \in Nat \ {0}
  BY DEF Option
<1>2. ASSUME NEW v \in Nat, NEW n \in Nat \ {0}, NEW d \in Nat \ {0}
      PROVE  ScaledFloor(v, n, d) \in Nat /\ ScaledCeil(v, n, d) \in Nat
  BY Scaled
<1>3. FitWidth(w, h, o) \in Nat /\ FitHeight(w, h, o) \in Nat
  BY <1>1, <1>2 DEF FitWidth, FitHeight
<1> QED BY <1>1, <1>3 DEF OutputWidth, OutputHeight

\* Less than one pixel apart.
Near(a, b, unit) == a - b < unit /\ b - a < unit

\* fitDimensions changes one side at most; cropping takes away and padding adds;
\* and the new side has the ratio asked for, as nearly as whole pixels can.
THEOREM FittedSizes ==
    ASSUME NEW width \in Nat, NEW height \in Nat, NEW o \in Option
    PROVE  LET w == FitWidth(width, height, o)
               h == FitHeight(width, height, o) IN
           /\ w = width \/ h = height
           /\ o.fit = "crop" => w <= width /\ h <= height
           /\ o.fit = "pad" => w >= width /\ h >= height
           /\ \/ h = height /\ Near(w * o.ratioH, h * o.ratioW, o.ratioH)
              \/ w = width /\ Near(h * o.ratioW, w * o.ratioH, o.ratioW)
<1> DEFINE w == FitWidth(width, height, o)
           h == FitHeight(width, height, o)
           a == o.ratioW
           b == o.ratioH
<1>1. a \in Nat \ {0} /\ b \in Nat \ {0} /\ o.fit \in {"crop", "pad"}
  BY DEF Option
<1>2. width * b \in Nat /\ height * a \in Nat
  BY <1>1, Products
<1>3. CASE width * b = height * a
  <2>1. w = width /\ h = height
    BY <1>2, <1>3 DEF FitWidth, FitHeight, Wider, Narrower
  <2> HIDE DEF w, h, a, b
  <2>2. Near(w * b, h * a, b)
    BY <1>1, <1>2, <1>3, <2>1 DEF Near
  <2> QED BY <2>1, <2>2 DEF w, h, a, b
<1>4. CASE width * b > height * a /\ o.fit = "crop"
  <2>1. w = ScaledFloor(height, a, b) /\ h = height
    BY <1>2, <1>4 DEF FitWidth, FitHeight, Wider, Narrower
  <2>2. w \in Nat /\ w * b <= height * a /\ height * a < w * b + b
    BY <1>1, <2>1, Scaled
  <2>3. w * b \in Nat
    BY <1>1, <2>2, Products
  <2> HIDE DEF w, h, a, b
  <2>4. w * b < width * b
    BY <1>2, <1>4, <2>2, <2>3
  <2>5. w < width
    BY <1>1, <2>2, <2>4, Factors
  <2>6. Near(w * b, h * a, b)
    BY <1>1, <1>2, <2>1, <2>2, <2>3 DEF Near
  <2> QED BY <1>4, <2>1, <2>2, <2>5, <2>6 DEF w, h, a, b
<1>5. CASE width * b < height * a /\ o.fit = "pad"
  <2>1. w = ScaledCeil(height, a, b) /\ h = height
    BY <1>2, <1>5 DEF FitWidth, FitHeight, Wider, Narrower
  <2>2. w \in Nat /\ height * a <= w * b /\ w * b < height * a + b
    BY <1>1, <2>1, Scaled
  <2>3. w * b \in Nat
    BY <1>1, <2>2, Products
  <2> HIDE DEF w, h, a, b
  <2>4. width * b < w * b
    BY <1>2, <1>5, <2>2, <2>3
  <2>5. width < w
    BY <1>1, <2>2, <2>4, Factors
  <2>6. Near(w * b, h * a, b)
    BY <1>1, <1>2, <2>1, <2>2, <2>3 DEF Near
  <2> QED BY <1>5, <2>1, <2>2, <2>5, <2>6 DEF w, h, a, b
<1>6. CASE width * b < height * a /\ o.fit = "crop"
  <2>1. h = ScaledFloor(width, b, a) /\ w = width
    BY <1>2, <1>6 DEF FitWidth, FitHeight, Wider, Narrower
  <2>2. h \in Nat /\ h * a <= width * b /\ width * b < h * a + a
    BY <1>1, <2>1, Scaled
  <2>3. h * a \in Nat
    BY <1>1, <2>2, Products
  <2> HIDE DEF w, h, a, b
  <2>4. h * a < height * a
    BY <1>2, <1>6, <2>2, <2>3
  <2>5. h < height
    BY <1>1, <2>2, <2>4, Factors
  <2>6. Near(h * a, w * b, a)
    BY <1>1, <1>2, <2>1, <2>2, <2>3 DEF Near
  <2> QED BY <1>6, <2>1, <2>2, <2>5, <2>6 DEF w, h, a, b
<1>7. CASE width * b > height * a /\ o.fit = "pad"
  <2>1. h = ScaledCeil(width, b, a) /\ w = width
    BY <1>2, <1>7 DEF FitWidth, FitHeight, Wider, Narrower
  <2>2. h \in Nat /\ width * b <= h * a /\ h * a < width * b + a
    BY <1>1, <2>1, Scaled
  <2>3. h * a \in Nat
    BY <1>1, <2>2, Products
  <2> HIDE DEF w, h, a, b
  <2>4. height * a < h * a
    BY <1>2, <1>7, <2>2, <2>3
  <2>5. height < h
    BY <1>1, <2>2, <2>4, Factors
  <2>6. Near(h * a, w * b, a)
    BY <1>1, <1>2, <2>1, <2>2, <2>3 DEF Near
  <2> QED BY <1>7, <2>1, <2>2, <2>5, <2>6 DEF w, h, a, b
<1>8. width * b = height * a \/ width * b > height * a \/ width * b < height * a
  <2> HIDE DEF a, b
  <2> QED BY <1>2
<1> QED BY <1>1, <1>3, <1>4, <1>5, <1>6, <1>7, <1>8

\* A shaped picture is a picture.
LEMMA ShapedContent ==
    ASSUME NEW picture \in Content, NEW o \in Option
    PROVE  Shaped(picture, o) \in Content /\ Shaped(picture, o).is = picture.is
BY Sizes DEF Shaped, Content
-----------------------------------------------------------------------------
(* Types.                                                                  *)

(* The command line of a process, and the picture it is making.            *)
LEMMA Called ==
    ASSUME TypeOK, Turns, NEW p \in Processes
    PROVE  /\ command[p] \in Commands /\ command[p] \in Command
           /\ command[p].option \in Option \cup {Unchanged}
           /\ Output(p) \in Names
           /\ command[p].kind \in {"image", "chat"}
           /\ turn[p] \in Nat \ {0} /\ turn[p] <= Len(command[p].outputs)
           /\ command[p].kind = "image" => Len(command[p].outputs) = 1
<1>1. command[p] \in Commands
  BY DEF TypeOK
<1>2. /\ command[p] \in Command
      /\ command[p].kind = "image" => Len(command[p].outputs) = 1
  BY <1>1, ImageConstants
<1>3. /\ command[p].option \in Option \cup {Unchanged} /\ command[p].outputs \in Seq(Names)
      /\ command[p].kind \in {"image", "chat"}
  BY <1>2 DEF Command
<1>4. turn[p] \in 1 .. Len(command[p].outputs) /\ Len(command[p].outputs) \in Nat
  BY <1>3 DEF Turns
<1>5. Output(p) \in Names
  BY <1>3, <1>4 DEF Output
<1> QED BY <1>1, <1>2, <1>3, <1>4, <1>5

(* What a step may do to the variables of one process.                     *)
Assigned(f, g, p, S) == g = f \/ \E c \in S : g = [f EXCEPT ![p] = c]

\* An assigned function keeps its type.
LEMMA Assignment ==
    ASSUME NEW D, NEW S, NEW f \in [D -> S], NEW g, NEW p \in D, Assigned(f, g, p, S)
    PROVE  g \in [D -> S]
BY DEF Assigned

Assigns(p) ==
    /\ Assigned(pc, pc', p, Places) /\ Assigned(turn, turn', p, Nat)
    /\ Assigned(over, over', p, BOOLEAN) /\ Assigned(failed, failed', p, BOOLEAN)
    /\ Assigned(basis, basis', p, Seq(Artifact)) /\ Assigned(reference, reference', p, Content)
    /\ Assigned(dir, dir', p, {"none", "there", "stuck"})
    /\ Assigned(staged, staged', p, Content) /\ Assigned(shaped, shaped', p, Content)
    /\ Assigned(temp, temp', p, Content) /\ Assigned(published, published', p, Content)

\* A step that assigns to one process, typed.
LEMMA Typing ==
    ASSUME TypeOK, NEW p \in Processes, Assigns(p), command' = command,
           files' \in [Names -> Content] /\ linked' \subseteq Names \X Content,
           history' \in [Conversations -> Seq(Artifact)] /\ lock' \in Processes \cup {Free},
           chat' \in [Processes -> Conversations \cup {NoConversation}]
    PROVE  TypeOK'
BY Assignment DEF TypeOK, Assigns

\* Types: before the run.
LEMMA TypeBefore ==
    ASSUME TypeOK, Belongs, NEW p \in Processes, Lock(p) \/ Read(p) \/ Check(p)
    PROVE  TypeOK'
<1>1. CASE Lock(p)
  <2>1. Assigns(p)
    BY <1>1 DEF Lock, Assigns, Assigned, Goto, Fails, Places, known, stage, result
  <2> QED BY <1>1, <2>1, Typing DEF TypeOK, Lock, known
<1>2. CASE Read(p)
  <2>1. chat[p] \in Conversations
    BY <1>2 DEF TypeOK, Belongs, Read
  <2>2. history[chat[p]] \in Seq(Artifact)
    BY <2>1 DEF TypeOK
  <2>3. Assigns(p)
    BY <1>2, <2>2 DEF Read, Assigns, Assigned, Goto, Fails, Places, stage, result
  <2> QED BY <1>2, <2>3, Typing DEF TypeOK, Read, shared
<1>3. CASE Check(p)
  <2>1. ASSUME NEW picture \in References(p)
        PROVE  picture \in Content
    BY <2>1, Contents DEF TypeOK, References
  <2>2. Assigns(p)
    BY <1>3, <2>1 DEF Check, Assigns, Assigned, Goto, Fails, Places, stage, result
  <2> QED BY <1>3, <2>2, Typing DEF TypeOK, Check, shared
<1> QED BY <1>1, <1>2, <1>3

\* Types: the run and what it drew.
LEMMA TypeRun ==
    ASSUME TypeOK, Turns, NEW p \in Processes,
           Stage(p) \/ RunEnds(p) \/ Verify(p) \/ Shape(p)
    PROVE  TypeOK'
<1>1. CASE Stage(p)
  <2>1. Assigns(p)
    BY <1>1, Contents DEF Stage, Assigns, Assigned, Goto, Fails, Places, known, result
  <2> QED BY <1>1, <2>1, Typing DEF TypeOK, Stage, shared, known
<1>2. CASE RunEnds(p)
  <2>1. \A drawing \in {Absent, Empty, Broken} \cup Drawn : drawing \in Content
    BY Contents
  <2>2. Assigns(p)
    BY <1>2, <2>1 DEF RunEnds, Assigns, Assigned, Goto, Fails, Places, known, result
  <2> QED BY <1>2, <2>2, Typing DEF TypeOK, RunEnds, shared, known
<1>3. CASE Verify(p)
  <2>1. Assigns(p)
    BY <1>3 DEF Verify, Assigns, Assigned, Goto, Fails, Places, known, stage, result
  <2> QED BY <1>3, <2>1, Typing DEF TypeOK, Verify, shared, known
<1>4. CASE Shape(p)
  <2>1. command[p].option # Unchanged => Shaped(staged[p], command[p].option) \in Content
    BY Called, ShapedContent DEF TypeOK
  <2>2. Assigns(p)
    BY <1>4, <2>1 DEF Shape, Assigns, Assigned, Goto, Fails, Places, known, result
  <2> QED BY <1>4, <2>2, Typing DEF TypeOK, Shape, shared, known
<1> QED BY <1>1, <1>2, <1>3, <1>4

\* Types: publication and cleanup.
LEMMA TypePublish ==
    ASSUME TypeOK, Turns, NEW p \in Processes, Validate(p) \/ WriteTemp(p) \/ Link(p) \/ Clean(p)
    PROVE  TypeOK'
<1>1. CASE Validate(p)
  <2>1. Source(p) \in Content
    BY DEF TypeOK, Source
  <2>2. Assigns(p)
    BY <1>1, <2>1 DEF Validate, Assigns, Assigned, Goto, Fails, Places, known, stage
  <2> QED BY <1>1, <2>2, Typing DEF TypeOK, Validate, shared, known
<1>2. CASE WriteTemp(p)
  <2>1. published[p] \in Content
    BY DEF TypeOK
  <2>2. Assigns(p)
    BY <1>2, <2>1, Contents
    DEF WriteTemp, Assigns, Assigned, Goto, Fails, Places, known, stage
  <2> QED BY <1>2, <2>2, Typing DEF TypeOK, WriteTemp, shared, known
<1>3. CASE Link(p)
  <2>1. temp[p] \in Content /\ Output(p) \in Names
    BY Called DEF TypeOK
  <2>2. Assigns(p)
    BY <1>3, Contents DEF Link, Assigns, Assigned, Goto, Fails, Places, known, stage
  <2>3. files' = files \/ files' = [files EXCEPT ![Output(p)] = temp[p]]
    BY <1>3 DEF Link
  <2>4. files' \in [Names -> Content]
    BY <2>1, <2>3 DEF TypeOK
  <2>5. linked' \subseteq Names \X Content
    BY <1>3, <2>1 DEF TypeOK, Link
  <2> QED BY <1>3, <2>2, <2>4, <2>5, Typing DEF TypeOK, Link, known
<1>4. CASE Clean(p)
  <2>1. Assigned(failed, failed', p, BOOLEAN)
    <3>1. PICK left : failed' = [failed EXCEPT ![p] = failed[p] \/ Complaint(left)]
      BY <1>4 DEF Clean
    <3>2. (failed[p] \/ Complaint(left)) \in BOOLEAN
      BY DEF TypeOK, Complaint
    <3> QED BY <3>1, <3>2 DEF Assigned
  <2>2. Assigns(p)
    BY <1>4, <2>1, Contents DEF Clean, Assigns, Assigned, Goto, Places, known, result
  <2> QED BY <1>4, <2>2, Typing DEF TypeOK, Clean, shared, known
<1> QED BY <1>1, <1>2, <1>3, <1>4

(* Which conversation a turn is stored in, and what is stored.             *)
LEMMA Stored ==
    ASSUME TypeOK, Turns, NEW p \in Processes
    PROVE  /\ Target(p) \in Conversations /\ history[Target(p)] \in Seq(Artifact)
           /\ [name |-> Output(p), sum |-> published[p], reference |-> reference[p],
               by |-> <<p, turn[p]>>] \in Artifact
<1>1. Target(p) \in Conversations
  BY DEF TypeOK, Target, Conversations
<1>2. published[p] \in Content /\ reference[p] \in Content /\ turn[p] \in Nat
  BY DEF TypeOK
<1>3. <<p, turn[p]>> \in (Processes \cup {Chat}) \X Nat
  BY <1>2
<1> QED BY <1>1, <1>2, <1>3, Called DEF Artifact, TypeOK

\* Types: the end of a turn.
LEMMA TypeAfter ==
    ASSUME TypeOK, Turns, NEW p \in Processes, Store(p) \/ Close(p) \/ Die(p)
    PROVE  TypeOK'
<1>1. CASE Store(p)
  <2> DEFINE artifact == [name |-> Output(p), sum |-> published[p], reference |-> reference[p],
                          by |-> <<p, turn[p]>>]
  <2>1. history' = history \/ history' = [history EXCEPT ![Target(p)] = Append(@, artifact)]
    BY <1>1 DEF Store, Target
  <2>2. Append(history[Target(p)], artifact) \in Seq(Artifact)
    BY Stored
  <2>3. history' \in [Conversations -> Seq(Artifact)]
    BY <2>1, <2>2, Stored DEF TypeOK
  <2>4. chat' = chat \/ chat' = [chat EXCEPT ![p] = Target(p)]
    BY <1>1 DEF Store, Target
  <2>5. chat' \in [Processes -> Conversations \cup {NoConversation}]
    BY <2>4, Stored DEF TypeOK
  <2>6. Assigns(p)
    BY <1>1 DEF Store, Assigns, Assigned, Goto, Fails, Places, stage, result
  <2> QED BY <1>1, <2>3, <2>5, <2>6, Typing DEF TypeOK, Store
<1>2. CASE Close(p)
  <2>1. turn[p] + 1 \in Nat /\ <<>> \in Seq(Artifact)
    BY DEF TypeOK
  <2>2. Assigns(p)
    BY <1>2, <2>1, Contents DEF Close, Forget, Assigns, Assigned, Goto, Places
  <2> QED BY <1>2, <2>2, Typing DEF TypeOK, Close
<1>3. CASE Die(p)
  <2>1. <<>> \in Seq(Artifact)
    OBVIOUS
  <2>2. Assigns(p)
    BY <1>3, <2>1, Contents DEF Die, Forget, Assigns, Assigned, Goto, Places, stage
  <2> QED BY <1>3, <2>2, Typing DEF TypeOK, Die
<1> QED BY <1>1, <1>2, <1>3

\* Types: every step.
LEMMA TypeNext ==
    ASSUME TypeOK, Turns, Belongs, [Next]_vars
    PROVE  TypeOK'
<1>1. ASSUME NEW p \in Processes, Step(p)
      PROVE  TypeOK'
  BY <1>1, TypeBefore, TypeRun, TypePublish, TypeAfter DEF Step
<1>2. ASSUME NEW p \in Processes, Expire(p)
      PROVE  TypeOK'
  BY <1>2 DEF TypeOK, Expire, shared, known, stage, result
<1>3. ASSUME NEW p \in Processes, DrawLate(p)
      PROVE  TypeOK'
  BY <1>3, Contents DEF TypeOK, DrawLate, shared, known, fate, result
<1>4. ASSUME NEW name \in Names, Edit(name)
      PROVE  TypeOK'
  BY <1>4, Contents DEF TypeOK, Edit, known, fate, stage, result
<1>5. CASE UNCHANGED vars
  BY <1>5 DEF TypeOK, vars, shared, known, fate, stage, result
<1> QED BY <1>1, <1>2, <1>3, <1>4, <1>5 DEF Next

-----------------------------------------------------------------------------
(* The steps of one process.                                               *)

\* The other processes stay where they are, with what they have.
Elsewhere(p) ==
    \A q \in Processes \ {p} :
      /\ pc'[q] = pc[q] /\ failed'[q] = failed[q] /\ basis'[q] = basis[q]
      /\ reference'[q] = reference[q] /\ published'[q] = published[q] /\ temp'[q] = temp[q]

(* What was published stays published.                                     *)
LEMMA OthersPublish ==
    ASSUME Publishing, NEW p \in Processes, Elsewhere(p), linked \subseteq linked',
           command' = command, \A q \in Processes \ {p} : turn'[q] = turn[q], Publishes(p)'
    PROVE  Publishing'
<1>1. ASSUME NEW q \in Processes, q # p
      PROVE  Publishes(q)'
  <2>1. /\ pc'[q] = pc[q] /\ published'[q] = published[q] /\ temp'[q] = temp[q]
        /\ failed'[q] = failed[q] /\ Output(q)' = Output(q)
    BY <1>1 DEF Elsewhere, Output
  <2>2. Publishes(q)
    BY DEF Publishing
  <2> QED BY <2>1, <2>2 DEF Publishes
<1> QED BY <1>1 DEF Publishing

(* A process on its way through a turn changes neither what the             *)
(* conversations say nor who may say it.                                   *)
LEMMA Advance ==
    ASSUME IInv, TypeOK', NEW p \in Processes, Elsewhere(p), linked \subseteq linked',
           UNCHANGED <<history, lock, command, turn, chat, basis>>,
           pc'[p] \in Knowing \cup {"closing"},
           pc'[p] \in Knowing => pc[p] \in Knowing,
           pc[p] \in Knowing \cup {"waiting", "reading"},
           pc'[p] = "closing" => failed'[p] \/ command[p].kind # "chat",
           pc'[p] \in Sending /\ command[p].reference = "auto" =>
             reference'[p] = Expected(basis[p]),
           Publishes(p)'
    PROVE  IInv'
<1>1. Turns'
  BY DEF IInv, Turns
<1>2. Belongs'
  BY DEF IInv, Belongs, Elsewhere, Knowing, Sending
<1>3. Locked'
  BY DEF IInv, Locked, Elsewhere, Knowing, Sending
<1>4. Known'
  BY DEF IInv, Known, Elsewhere, Target
<1>5. Referring'
  BY DEF IInv, Referring, Elsewhere
<1>6. Pictures'
  BY DEF IInv, Pictures, Conversations
<1>7. Publishing'
  BY OthersPublish DEF IInv
<1>8. ArtifactsAreTrue'
  BY DEF IInv, ArtifactsAreTrue, Conversations
<1> QED BY <1>1, <1>2, <1>3, <1>4, <1>5, <1>6, <1>7, <1>8 DEF IInv

\* The invariant: from the checks to the shaping.
LEMMA StepBefore ==
    ASSUME IInv, TypeOK', NEW p \in Processes,
           Check(p) \/ Stage(p) \/ RunEnds(p) \/ Verify(p) \/ Shape(p)
    PROVE  IInv'
<1> USE DEF Goto, Fails
<1>1. Elsewhere(p) /\ UNCHANGED <<shared, command, turn, chat, basis, result>>
  BY DEF Elsewhere, Check, Stage, RunEnds, Verify, Shape, known, stage, result, IInv, TypeOK
<1>2. pc[p] \in Before \ {"waiting", "reading", "publishing"} /\ Publishes(p)
  BY DEF Before, Check, Stage, RunEnds, Verify, Shape, IInv, Publishing
<1>3. \/ pc'[p] \in Before \ {"waiting", "reading", "checking"}
      \/ pc'[p] \in {"cleaning", "closing"} /\ failed'[p]
  BY DEF Before, Check, Stage, RunEnds, Verify, Shape, IInv, TypeOK
<1>4. Publishes(p)'
  BY <1>1, <1>2, <1>3 DEF Publishes, Before, After, shared, result
<1>5. ASSUME pc'[p] \in Sending, command[p].reference = "auto"
      PROVE  reference'[p] = Expected(basis[p])
  <2>1. CASE Check(p)
    <3>1. PICK picture \in References(p) : reference' = [reference EXCEPT ![p] = picture]
      BY <2>1, <1>5, <1>3 DEF Check, Sending, IInv, TypeOK
    <3>2. reference'[p] = picture
      BY <3>1 DEF IInv, TypeOK
    <3>3. CASE basis[p] = <<>>
      BY <3>1, <3>2, <3>3, <1>5 DEF References, Expected
    <3>4. CASE basis[p] # <<>>
      <4>1. picture \in {files[n] : n \in {Last(basis[p]).name} \cap
                                        {m \in Names : Trusted(files[m], Last(basis[p]).sum)}}
        BY <3>1, <3>4, <1>5 DEF References
      <4>2. Last(basis[p]).sum \in {Absent, picture}
        BY <4>1 DEF Trusted
      <4>3. basis[p] = history[Target(p)] /\ Target(p) \in Conversations
            /\ basis[p] \in Seq(Artifact)
        BY <2>1, Stored DEF IInv, TypeOK, Known, Knowing, Check
      <4>4. Last(basis[p]).sum.is = "picture"
        BY <3>4, <4>3 DEF IInv, Pictures, Last
      <4> QED BY <3>2, <3>4, <4>2, <4>4, Contents DEF Expected, Last
    <3> QED BY <3>3, <3>4
  <2>2. CASE ~Check(p)
    <3>1. reference' = reference /\ pc[p] \in Sending
      BY <2>2 DEF Stage, RunEnds, Verify, Shape, known, Sending
    <3> QED BY <3>1, <1>5 DEF IInv, Referring
  <2> QED BY <2>1, <2>2
<1> QED
  BY <1>1, <1>2, <1>3, <1>4, <1>5, Advance DEF Before, Knowing, Sending, shared

\* The invariant: publication and cleanup.
LEMMA StepPublish ==
    ASSUME IInv, TypeOK', NEW p \in Processes, Validate(p) \/ WriteTemp(p) \/ Link(p) \/ Clean(p)
    PROVE  IInv'
<1> USE DEF Goto, Fails
<1>1. /\ Elsewhere(p) /\ linked \subseteq linked'
      /\ UNCHANGED <<history, lock, command, turn, known>>
  <2> USE DEF Elsewhere, shared, known, stage, result, IInv, TypeOK
  <2>1. CASE Validate(p)
    BY <2>1 DEF Validate
  <2>2. CASE WriteTemp(p)
    BY <2>2 DEF WriteTemp
  <2>3. CASE Link(p)
    BY <2>3 DEF Link
  <2>4. CASE Clean(p)
    BY <2>4 DEF Clean
  <2> QED BY <2>1, <2>2, <2>3, <2>4
<1>2. pc[p] \in {"publishing", "writing", "linking", "cleaning"} /\ Publishes(p)
  BY DEF Validate, WriteTemp, Link, Clean, IInv, Publishing
<1>3. Output(p)' = Output(p)
  BY <1>1 DEF Output
<1>4. Publishes(p)' /\ pc'[p] \in Sending \cup {"closing"}
      /\ (pc'[p] = "closing" => failed'[p] \/ command[p].kind # "chat")
  <2> USE DEF Publishes, Before, After, Sending
  <2>1. CASE Validate(p)
    BY <2>1, <1>2, Contents DEF Validate, stage, IInv, TypeOK
  <2>2. CASE WriteTemp(p)
    BY <2>2, <1>2, Contents DEF WriteTemp, IInv, TypeOK
  <2>3. CASE Link(p)
    BY <2>3, <1>2, <1>3, Contents DEF Link, IInv, TypeOK
  <2>4. CASE Clean(p)
    <3>1. published' = published /\ linked' = linked
      BY <2>4 DEF Clean, shared, result
    <3>2. pc[p] = "cleaning" /\ pc'[p] \in {"closing", "storing"}
      BY <2>4 DEF Clean, IInv, TypeOK
    <3>3. PICK left : failed' = [failed EXCEPT ![p] = failed[p] \/ Complaint(left)]
      BY <2>4 DEF Clean
    <3>4. failed[p] => failed'[p]
      BY <3>3 DEF IInv, TypeOK
    <3>5. /\ pc'[p] = "closing" => failed'[p] \/ command[p].kind = "image"
          /\ pc'[p] = "storing" => ~failed'[p]
      BY <2>4 DEF Clean, IInv, TypeOK
    <3> QED BY <3>1, <3>2, <3>4, <3>5, <1>2, <1>3
  <2> QED BY <2>1, <2>2, <2>3, <2>4
<1>5. reference' = reference /\ basis' = basis /\ chat' = chat
  BY <1>1 DEF known
<1>6. pc[p] \in Sending
  BY <1>2 DEF Sending
<1>7. command[p].reference = "auto" => reference'[p] = Expected(basis[p])
  BY <1>5, <1>6 DEF IInv, Referring
<1> QED BY <1>1, <1>4, <1>5, <1>6, <1>7, Advance DEF Knowing

\* The invariant: the lock is free when it is taken.
LEMMA StepLock ==
    ASSUME IInv, TypeOK', NEW p \in Processes, Lock(p)
    PROVE  IInv'
<1> USE DEF Goto, Fails
<1>1. Elsewhere(p) /\ UNCHANGED <<history, linked, command, turn, known, published, temp>>
  BY DEF Elsewhere, Lock, known, result, IInv, TypeOK
<1>2. pc[p] = "waiting" /\ Publishes(p)
  BY DEF Lock, IInv, Publishing
<1>3. CASE lock = Free /\ lock' = p /\ pc' = [pc EXCEPT ![p] = "reading"] /\ failed' = failed
  <2>1. pc'[p] = "reading" /\ lock' = p /\ chat[p] # NoConversation
    BY <1>2, <1>3 DEF IInv, TypeOK, Belongs
  <2>2. Turns' /\ Pictures' /\ ArtifactsAreTrue'
    BY <1>1 DEF IInv, Turns, Pictures, ArtifactsAreTrue, Conversations
  <2>3. Belongs' /\ Known' /\ Referring'
    BY <1>1, <2>1 DEF IInv, Belongs, Known, Referring, Elsewhere, known, Target, Knowing, Sending
  <2>4. Locked'
    BY <1>1, <1>3, <2>1, ImageConstants DEF IInv, Locked, Elsewhere, known
  <2>5. Publishing'
    BY <1>1, <1>2, <2>1, OthersPublish DEF IInv, Publishes, Before, After
  <2> QED BY <2>2, <2>3, <2>4, <2>5 DEF IInv
<1>4. CASE pc' = [pc EXCEPT ![p] = "closing"] /\ failed' = [failed EXCEPT ![p] = TRUE] /\ lock' = lock
  <2>1. pc'[p] = "closing" /\ failed'[p]
    BY <1>4 DEF IInv, TypeOK
  <2>2. Publishes(p)'
    BY <1>1, <1>2, <2>1 DEF Publishes, Before
  <2> QED BY <1>1, <1>2, <1>4, <2>1, <2>2, Advance DEF known, Knowing, Sending
<1> QED BY <1>3, <1>4 DEF Lock

\* The invariant: under the lock, what is read is the history.
LEMMA StepRead ==
    ASSUME IInv, TypeOK', NEW p \in Processes, Read(p)
    PROVE  IInv'
<1> USE DEF Goto, Fails
<1>1. /\ Elsewhere(p)
      /\ UNCHANGED <<history, lock, linked, command, turn, chat, reference, published, temp>>
  BY DEF Elsewhere, Read, shared, result, IInv, TypeOK
<1>2. pc[p] = "reading" /\ Publishes(p)
  BY DEF Read, IInv, Publishing
<1>3. CASE /\ basis' = [basis EXCEPT ![p] = history[chat[p]]]
           /\ pc' = [pc EXCEPT ![p] = "checking"] /\ failed' = failed
  <2>1. pc'[p] = "checking" /\ basis'[p] = history[chat[p]] /\ chat[p] # NoConversation
    BY <1>2, <1>3 DEF IInv, TypeOK, Belongs
  <2>2. Turns' /\ Pictures' /\ ArtifactsAreTrue'
    BY <1>1 DEF IInv, Turns, Pictures, ArtifactsAreTrue, Conversations
  <2>3. Belongs' /\ Referring'
    BY <1>1, <2>1 DEF IInv, Belongs, Referring, Elsewhere, Sending
  <2>4. Known'
    BY <1>1, <2>1 DEF IInv, Known, Elsewhere, Target
  <2>5. Locked'
    BY <1>1, <1>2, <2>1 DEF IInv, Locked, Elsewhere, Knowing
  <2>6. Publishing'
    BY <1>1, <1>2, <2>1, OthersPublish DEF IInv, Publishes, Before, After
  <2> QED BY <2>2, <2>3, <2>4, <2>5, <2>6 DEF IInv
<1>4. CASE /\ pc' = [pc EXCEPT ![p] = "closing"] /\ failed' = [failed EXCEPT ![p] = TRUE]
           /\ basis' = basis
  <2>1. pc'[p] = "closing" /\ failed'[p]
    BY <1>4 DEF IInv, TypeOK
  <2>2. Publishes(p)'
    BY <1>1, <1>2, <2>1 DEF Publishes, Before
  <2> QED BY <1>1, <1>2, <1>4, <2>1, <2>2, Advance DEF Knowing, Sending
<1> QED BY <1>3, <1>4 DEF Read

(* Where a turn is stored, nobody else is at work on what it has read.     *)
LEMMA Alone ==
    ASSUME IInv, NEW p \in Processes, pc[p] = "storing"
    PROVE  /\ Target(p) \in {Chat, p} /\ Target(p) # NoConversation
           /\ \A q \in Processes \ {p} : /\ pc[q] \in Knowing => Target(q) # Target(p)
                                         /\ chat[q] = NoConversation => Target(p) # q
<1>1. Chat \notin Processes /\ NoConversation \notin Processes \cup {Chat}
  BY ImageConstants
<1>2. Target(p) \in {Chat, p} /\ Target(p) # NoConversation
  BY <1>1 DEF Target, IInv, Belongs
<1>3. ASSUME NEW q \in Processes \ {p}, pc[q] \in Knowing
      PROVE  Target(q) # Target(p)
  <2>1. chat[p] # NoConversation => lock = p
    BY DEF IInv, Locked, Knowing, Sending
  <2>2. chat[q] # NoConversation => lock = q
    BY <1>3 DEF IInv, Locked
  <2>3. chat[q] \in {NoConversation, Chat, q} /\ chat[p] \in {NoConversation, Chat, p}
    BY DEF IInv, Belongs
  <2> QED BY <1>1, <2>1, <2>2, <2>3 DEF Target
<1> QED BY <1>1, <1>2, <1>3

\* The invariant: an artifact is appended to what was read.
LEMMA StepStore ==
    ASSUME IInv, TypeOK', NEW p \in Processes, Store(p)
    PROVE  IInv'
<1> DEFINE where == Target(p)
           artifact == [name |-> Output(p), sum |-> published[p], reference |-> reference[p],
                        by |-> <<p, turn[p]>>]
<1>1. /\ Elsewhere(p)
      /\ UNCHANGED <<lock, linked, command, turn, basis, reference, published, temp>>
  BY DEF Elsewhere, Store, Goto, Fails, result, IInv, TypeOK
<1>2. pc[p] = "storing" /\ Publishes(p)
  BY DEF Store, IInv, Publishing
<1>3. CASE /\ history' = [history EXCEPT ![where] = Append(@, artifact)]
           /\ chat' = [chat EXCEPT ![p] = where]
           /\ pc' = [pc EXCEPT ![p] = "closing"] /\ failed' = failed
  <2>1. pc'[p] = "closing" /\ chat'[p] = where
    BY <1>3 DEF IInv, TypeOK
  <2>2. \A q \in Processes \ {p} : chat'[q] = chat[q]
    BY <1>3 DEF IInv, TypeOK
  <2>3. where \in Conversations /\ history[where] \in Seq(Artifact) /\ artifact \in Artifact
    BY Stored DEF IInv
  <2>4. /\ \A c \in Conversations \ {where} : history'[c] = history[c]
        /\ history'[where] = Append(history[where], artifact)
    BY <1>3, <2>3 DEF IInv, TypeOK
  <2> DEFINE old == Len(history[where])
  <2>6. /\ old \in Nat /\ DOMAIN history[where] = 1 .. old /\ DOMAIN history'[where] = 1 .. old + 1
        /\ \A k \in 1 .. old : history'[where][k] = history[where][k]
        /\ history'[where][old + 1] = artifact
    BY <2>3, <2>4
  <2>7. published[p].is = "picture" /\ <<Output(p), published[p]>> \in linked
    BY <1>2 DEF Publishes, After
  <2>8. Turns'
    BY <1>1 DEF IInv, Turns
  <2>9. Belongs'
    <3>1. ASSUME NEW q \in Processes \ {p}
          PROVE  chat'[q] = NoConversation => history'[q] = <<>>
      BY <1>2, <2>2, <2>4, Alone DEF IInv, Belongs, Conversations
    <3>2. ASSUME NEW q \in Processes \ {p}
          PROVE  /\ chat'[q] \in {NoConversation, Chat, q}
                 /\ pc'[q] \in {"waiting", "reading"} => chat'[q] # NoConversation
                 /\ pc'[q] = "closing" /\ ~failed'[q] /\ command'[q].kind = "chat" =>
                      chat'[q] # NoConversation
      BY <1>1, <2>2 DEF IInv, Belongs, Elsewhere
    <3> QED BY <1>2, <2>1, <3>1, <3>2, Alone DEF Belongs
  <2>10. Locked'
    BY <1>1, <1>2, <2>1, <2>2 DEF IInv, Locked, Elsewhere, Knowing, Sending
  <2>11. Known'
    <3>1. ASSUME NEW q \in Processes \ {p}, pc'[q] \in Knowing
          PROVE  basis'[q] = history'[Target(q)']
      <4>1. Target(q)' = Target(q) /\ pc[q] \in Knowing /\ basis'[q] = basis[q]
        BY <1>1, <2>2, <3>1 DEF Target, Elsewhere
      <4>2. Target(q) # where /\ Target(q) \in Conversations
        BY <1>2, <4>1, Alone, Stored DEF IInv
      <4> QED BY <2>4, <4>1, <4>2 DEF IInv, Known
    <3> QED BY <2>1, <3>1 DEF Known, Knowing, Sending
  <2>12. Referring'
    BY <1>1, <2>1 DEF IInv, Referring, Elsewhere, Sending
  <2>13. Pictures'
    <3>1. ASSUME NEW c \in Conversations, NEW k \in DOMAIN history'[c]
          PROVE  history'[c][k].sum.is = "picture"
      <4>1. CASE c # where
        BY <2>4, <4>1 DEF IInv, Pictures
      <4>2. CASE c = where /\ k \in 1 .. old
        BY <2>3, <2>6, <4>2 DEF IInv, Pictures
      <4>3. CASE c = where /\ k = old + 1
        BY <2>6, <2>7, <4>3
      <4> QED BY <2>6, <4>1, <4>2, <4>3
    <3> QED BY <3>1 DEF Pictures, Conversations
  <2>14. Publishing'
    BY <1>1, <1>2, <2>1, OthersPublish DEF IInv, Publishes, Before, After, Output
  <2>15. ArtifactsAreTrue'
    <3>1. ASSUME NEW c \in Conversations, NEW k \in DOMAIN history'[c],
                 history'[c][k].by[1] # Chat
          PROVE  /\ history'[c][k].sum.is = "picture"
                 /\ <<history'[c][k].name, history'[c][k].sum>> \in linked'
                 /\ command'[history'[c][k].by[1]].reference = "auto" =>
                      history'[c][k].reference =
                        (IF k = 1 THEN Absent ELSE history'[c][k - 1].sum)
      <4>1. CASE c # where
        <5>1. history'[c] = history[c] /\ k \in DOMAIN history[c]
          BY <2>4, <4>1
        <5> QED BY <1>1, <3>1, <5>1 DEF IInv, ArtifactsAreTrue
      <4>2. CASE c = where /\ k \in 1 .. old
        <5>1. history'[c][k] = history[c][k] /\ k \in DOMAIN history[c]
          BY <2>6, <4>2
        <5>2. ASSUME k # 1
              PROVE  history'[c][k - 1] = history[c][k - 1]
          <6>1. k - 1 \in 1 .. old
            BY <2>6, <4>2, <5>2
          <6> QED BY <2>6, <4>2, <6>1
        <5> QED BY <1>1, <3>1, <5>1, <5>2 DEF IInv, ArtifactsAreTrue
      <4>3. CASE c = where /\ k = old + 1
        <5>1. history'[c][k] = artifact
          BY <2>6, <4>3
        <5>2. command[p].reference = "auto" => reference[p] = Expected(basis[p])
          BY <1>2 DEF IInv, Referring, Sending
        <5>3. basis[p] = history[where]
          BY <1>2 DEF IInv, Known, Knowing, Sending
        <5>4. Expected(history[where]) =
                (IF k = 1 THEN Absent ELSE history'[c][k - 1].sum)
          BY <2>3, <2>6, <4>3 DEF Expected
        <5> QED BY <1>1, <2>7, <5>1, <5>2, <5>3, <5>4
      <4> QED BY <2>6, <4>1, <4>2, <4>3
    <3> QED BY <3>1 DEF ArtifactsAreTrue, Conversations
  <2> QED BY <2>8, <2>9, <2>10, <2>11, <2>12, <2>13, <2>14, <2>15 DEF IInv
<1>4. CASE /\ pc' = [pc EXCEPT ![p] = "closing"] /\ failed' = [failed EXCEPT ![p] = TRUE]
           /\ history' = history /\ chat' = chat
  <2>1. pc'[p] = "closing" /\ failed'[p]
    BY <1>4 DEF IInv, TypeOK
  <2>2. Publishes(p)'
    BY <1>1, <1>2, <2>1 DEF Publishes, Before, After, Output
  <2> QED BY <1>1, <1>2, <1>4, <2>1, <2>2, Advance DEF Knowing, Sending
<1> QED BY <1>3, <1>4 DEF Store, Goto, Fails, Target

(* A process that leaves its turn.                                         *)
LEMMA Leave ==
    ASSUME IInv, TypeOK', NEW p \in Processes, Elsewhere(p),
           UNCHANGED <<history, linked, command, chat>>,
           lock' = IF lock = p THEN Free ELSE lock,
           pc'[p] \in {"waiting", "done", "dead"}, published'[p] = Absent,
           pc'[p] = "waiting" => chat[p] # NoConversation,
           \A q \in Processes \ {p} : turn'[q] = turn[q], Turns'
    PROVE  IInv'
<1>1. Belongs'
  BY DEF IInv, Belongs, Elsewhere
<1>2. Locked'
  BY ImageConstants DEF IInv, Locked, Elsewhere, Knowing, Sending
<1>3. Known'
  BY DEF IInv, Known, Elsewhere, Target, Knowing, Sending
<1>4. Referring'
  BY DEF IInv, Referring, Elsewhere, Sending
<1>5. Pictures' /\ ArtifactsAreTrue'
  BY DEF IInv, Pictures, ArtifactsAreTrue, Conversations
<1>6. Publishes(p)'
  BY DEF Publishes, Before, After
<1>7. Publishing'
  BY <1>6, OthersPublish DEF IInv
<1> QED BY <1>1, <1>2, <1>3, <1>4, <1>5, <1>7 DEF IInv

\* The invariant: a turn ends, and another may begin.
LEMMA StepClose ==
    ASSUME IInv, TypeOK', NEW p \in Processes, Close(p)
    PROVE  IInv'
<1>1. /\ Elsewhere(p) /\ published'[p] = Absent
      /\ \A q \in Processes \ {p} : turn'[q] = turn[q]
  BY DEF Elsewhere, Close, Forget, Goto, IInv, TypeOK
<1>2. turn'[p] \in 1 .. Len(command[p].outputs)
  BY Called DEF Close, IInv, TypeOK, Turns
<1>3. Turns'
  BY <1>1, <1>2 DEF Close, IInv, Turns
<1>4. pc'[p] \in {"waiting", "done"}
  BY DEF Close, Goto, IInv, TypeOK
<1>5. ASSUME pc'[p] = "waiting"
      PROVE  chat[p] # NoConversation
  <2>1. /\ pc[p] = "closing" /\ ~failed[p]
        /\ turn[p] < Len(command[p].outputs)
    BY <1>5 DEF Close, Goto, IInv, TypeOK
  <2>2. /\ command[p].kind \in {"image", "chat"} /\ turn[p] \in Nat \ {0}
        /\ command[p].kind = "image" => Len(command[p].outputs) = 1
    BY Called DEF IInv
  <2>3. ~(turn[p] < 1)
    BY <2>2
  <2>4. command[p].kind = "chat"
    BY <2>1, <2>2, <2>3
  <2> QED BY <2>1, <2>4 DEF IInv, Belongs
<1> QED BY <1>1, <1>3, <1>4, <1>5, Leave DEF Close

\* The invariant: a process is killed.
LEMMA StepDie ==
    ASSUME IInv, TypeOK', NEW p \in Processes, Die(p)
    PROVE  IInv'
<1>1. Elsewhere(p) /\ published'[p] = Absent /\ pc'[p] = "dead"
  BY DEF Elsewhere, Die, Forget, Goto, IInv, TypeOK
<1>2. Turns' /\ turn' = turn
  BY DEF Die, IInv, Turns
<1> QED BY <1>1, <1>2, Leave DEF Die

(* What the world does, a deadline or nothing.                             *)
LEMMA Untouched ==
    ASSUME IInv, TypeOK',
           UNCHANGED <<history, lock, linked, command, pc, turn, known, failed, result>>
    PROVE  IInv'
<1>1. Turns' /\ Belongs' /\ Locked'
  BY DEF IInv, Turns, Belongs, Locked, known
<1>2. Known' /\ Referring'
  BY DEF IInv, Known, Referring, Target, known
<1>3. Pictures' /\ ArtifactsAreTrue'
  BY DEF IInv, Pictures, ArtifactsAreTrue, Conversations
<1>4. Publishing'
  BY DEF IInv, Publishing, Publishes, Output, result
<1> QED BY <1>1, <1>2, <1>3, <1>4 DEF IInv

(* The first state: an old conversation, and processes that have nothing.  *)
LEMMA Start ==
    ASSUME Init
    PROVE  IInv
<1>1. /\ files \in [Names -> Content]
      /\ \A n \in Names : files[n] # Absent => files[n].is = "picture"
  BY Contents DEF Init
<1>2. PICK old \in {<<>>} \cup {<<[name |-> n, sum |-> files[n], reference |-> Absent,
                                  by |-> <<Chat, 0>>]>> : n \in {m \in Names : files[m] # Absent}} :
           history = [c \in Conversations |-> IF c = Chat THEN old ELSE <<>>]
  BY DEF Init
<1>3. \A n \in Names : [name |-> n, sum |-> files[n], reference |-> Absent, by |-> <<Chat, 0>>]
                         \in Artifact
  BY <1>1, Contents DEF Artifact
<1>4. old \in Seq(Artifact)
  <2>1. <<>> \in Seq(Artifact) /\ \A a \in Artifact : <<a>> \in Seq(Artifact)
    OBVIOUS
  <2> QED BY <1>2, <1>3, <2>1
<1>5. history \in [Conversations -> Seq(Artifact)]
  BY <1>2, <1>4 DEF Conversations
<1>6. /\ pc = [p \in Processes |-> First(command[p])]
      /\ chat = [p \in Processes |-> IF command[p].continues THEN Chat ELSE NoConversation]
      /\ command \in [Processes -> Commands] /\ lock = Free /\ linked = {}
      /\ published = [p \in Processes |-> Absent]
  BY DEF Init
<1>7. \A p \in Processes :
        /\ pc[p] = IF command[p].continues THEN "waiting" ELSE "checking"
        /\ chat[p] = IF command[p].continues THEN Chat ELSE NoConversation
  BY <1>6 DEF First
<1>8. TypeOK
  BY <1>1, <1>5, <1>6, <1>7, Contents DEF Init, TypeOK, Conversations, Places
<1>9. Turns
  <2>1. ASSUME NEW p \in Processes
        PROVE  1 \in 1 .. Len(command[p].outputs)
    <3>1. command[p] \in Commands
      BY <1>6
    <3>2. command[p].outputs \in Seq(Names) /\ command[p].outputs # <<>>
      BY <3>1, ImageConstants DEF Command
    <3> QED BY <3>2
  <2> QED BY <2>1 DEF Turns, Init
<1>10. \A p \in Processes : history[p] = <<>>
  BY <1>2, ImageConstants DEF Conversations
<1>11. Belongs
  BY <1>7, <1>10, ImageConstants DEF Belongs
<1>12. Locked
  BY <1>6, <1>7, ImageConstants DEF Locked, Knowing, Sending
<1>13. Known
  BY <1>7, <1>10 DEF Known, Knowing, Sending, Target, Init
<1>14. Referring
  BY <1>7 DEF Referring, Sending
<1>15. ASSUME NEW c \in Conversations, NEW k \in DOMAIN history[c]
       PROVE  history[c][k].sum.is = "picture" /\ history[c][k].by[1] = Chat
  <2>1. c = Chat /\ history[c] = old /\ old # <<>>
    BY <1>2, <1>15
  <2>2. PICK n \in Names : /\ files[n] # Absent
                           /\ old = <<[name |-> n, sum |-> files[n], reference |-> Absent,
                                       by |-> <<Chat, 0>>]>>
    BY <1>2, <2>1
  <2>3. k = 1
    BY <2>1, <2>2
  <2> QED BY <1>1, <2>1, <2>2, <2>3
<1>16. Pictures /\ ArtifactsAreTrue
  BY <1>15 DEF Pictures, ArtifactsAreTrue
<1>17. Publishing
  BY <1>6, <1>7 DEF Publishing, Publishes, Before, After
<1> QED BY <1>8, <1>9, <1>11, <1>12, <1>13, <1>14, <1>16, <1>17 DEF IInv

\* The inductive invariant of ImagePublish: whoever continues a conversation has
\* the lock, so that what it read is still what is stored, and what Publish
\* returned was linked.
THEOREM Invariant == Spec => []IInv
<1>1. ASSUME IInv, [Next]_vars
      PROVE  IInv'
  <2>1. TypeOK'
    BY <1>1, TypeNext DEF IInv
  <2>2. ASSUME NEW p \in Processes, Step(p)
        PROVE  IInv'
    BY <1>1, <2>1, <2>2, StepLock, StepRead, StepBefore, StepPublish, StepStore, StepClose, StepDie
    DEF Step
  <2>3. ASSUME NEW p \in Processes, Expire(p) \/ DrawLate(p)
        PROVE  IInv'
    BY <1>1, <2>1, <2>3, Untouched DEF Expire, DrawLate, shared, fate, result, stage
  <2>4. ASSUME NEW name \in Names, Edit(name)
        PROVE  IInv'
    BY <1>1, <2>1, <2>4, Untouched DEF Edit, fate
  <2>5. CASE UNCHANGED vars
    BY <1>1, <2>1, <2>5, Untouched DEF vars, shared, fate
  <2> QED BY <1>1, <2>2, <2>3, <2>4, <2>5 DEF Next
<1> QED BY <1>1, Start, PTL DEF Spec

-----------------------------------------------------------------------------
(* The theorems about files and artifacts.                                 *)

\* Every variable has its type in every state of ImagePublish.
THEOREM TypeCorrect == Spec => []TypeOK
<1>1. IInv => TypeOK
  BY DEF IInv
<1> QED BY <1>1, Invariant, PTL

\* What a chat says of its pictures is true: they were published under that name
\* with that checksum, and "auto" sent the picture before (Publish,
\* chatImageReference, LockContinuation).
THEOREM ArtifactsAreAlwaysTrue == Spec => []ArtifactsAreTrue
<1>1. IInv => ArtifactsAreTrue
  BY DEF IInv
<1> QED BY <1>1, Invariant, PTL

\* No command replaces or changes a file, and what it publishes is complete
\* (Publish links a finished temporary file and never renames it).
THEOREM NothingIsReplaced == Spec => NothingReplaced
<1>1. ASSUME IInv, NEW p \in Processes, Step(p), NEW name \in Names, files'[name] # files[name]
      PROVE  files[name] = Absent /\ files'[name].is = "picture"
  <2>1. Link(p) /\ files' # files
    BY <1>1 DEF Step, Lock, Read, Check, Stage, RunEnds, Verify, Shape, Validate, WriteTemp, Clean,
                Store, Close, Die, shared
  <2>2. files[Output(p)] = Absent /\ files' = [files EXCEPT ![Output(p)] = temp[p]]
    BY <2>1 DEF Link, MayLink
  <2>3. temp[p].is = "picture"
    BY <1>1, <2>1 DEF Link, IInv, Publishing, Publishes
  <2> QED BY <1>1, <2>2, <2>3 DEF IInv, TypeOK
<1>2. IInv /\ [Next]_vars =>
        [\A name \in Names :
           files'[name] # files[name] /\ (\E p \in Processes : Step(p)) =>
               files[name] = Absent /\ files'[name].is = "picture"]_vars
  BY <1>1
<1> QED BY <1>2, Invariant, PTL DEF Spec, NothingReplaced

-----------------------------------------------------------------------------
(* Success.                                                                *)

\* What the others have to clean up is not touched.
LEMMA OthersFare ==
    ASSUME Failing, NEW p \in Processes, Elsewhere(p), command' = command,
           \A q \in Processes \ {p} : dir'[q] = dir[q], Fares(p)'
    PROVE  Failing'
<1>1. ASSUME NEW q \in Processes, q # p
      PROVE  Fares(q)'
  BY <1>1 DEF Failing, Fares, Elsewhere
<1> QED BY <1>1 DEF Failing

(* A process that stores nothing.                                          *)
LEMMA Goes ==
    ASSUME IInv, SInv, IInv', NEW p \in Processes, Elsewhere(p), UNCHANGED <<history, command>>,
           \A q \in Processes \ {p} : dir'[q] = dir[q] /\ turn'[q] = turn[q],
           Fares(p)', Reports(p)', turn'[p] >= turn[p],
           pc'[p] \in Working => turn'[p] > turn[p] \/ pc[p] \in Working
    PROVE  SInv'
<1>1. Failing'
  BY OthersFare DEF SInv
<1>2. ASSUME NEW c \in Conversations, NEW k \in DOMAIN history[c], NEW q \in Processes, NEW t \in Nat,
             history[c][k].by = <<q, t>>
      PROVE  t <= turn'[q] /\ (pc'[q] \in Working => t < turn'[q])
  <2>1. t <= turn[q] /\ (pc[q] \in Working => t < turn[q])
    BY <1>2 DEF SInv, Recording
  <2>2. turn[q] \in Nat /\ turn'[q] \in Nat
    BY DEF IInv, TypeOK
  <2>3. CASE q = p
    BY <2>1, <2>2, <2>3
  <2>4. CASE q # p
    BY <2>1, <2>4 DEF Elsewhere
  <2> QED BY <2>3, <2>4
<1>3. Recording'
  BY <1>2 DEF Recording, Conversations
<1>4. ASSUME NEW q \in Processes, q # p
      PROVE  Reports(q)'
  <2>1. Reports(q)
    BY DEF SInv, Reporting
  <2>2. Recorded(q)' <=> Recorded(q)
    BY <1>4 DEF Recorded, Conversations
  <2> QED BY <1>4, <2>1, <2>2 DEF Reports, Elsewhere
<1> QED BY <1>1, <1>3, <1>4 DEF SInv, Reporting

\* Success: up to the validation.
LEMMA SuccessBefore ==
    ASSUME IInv, SInv, IInv', NEW p \in Processes,
           \/ Lock(p) \/ Read(p) \/ Check(p) \/ Stage(p)
           \/ RunEnds(p) \/ Verify(p) \/ Shape(p) \/ Validate(p)
    PROVE  SInv'
<1> DEFINE Kept == /\ Elsewhere(p) /\ UNCHANGED <<history, command, turn, temp>>
                   /\ \A q \in Processes \ {p} : dir'[q] = dir[q]
           Moved == \/ /\ pc'[p] \in (Before \ {"waiting"}) \cup {"writing"}
                       /\ failed'[p] = failed[p]
                    \/ /\ pc'[p] \in {"cleaning", "closing"} /\ failed'[p]
                       /\ published'[p] = Absent
           Left == /\ pc'[p] \in {"reading", "checking", "staging"} => dir'[p] = "none"
                   /\ pc'[p] = "closing" => dir'[p] # "there"
<1>1. pc[p] \in Before /\ Fares(p) /\ published[p] = Absent
  BY DEF Before, Lock, Read, Check, Stage, RunEnds, Verify, Shape, Validate, IInv, Publishing,
         Publishes, SInv, Failing
<1>2. Kept /\ Moved /\ Left
  <2> USE <1>1 DEF Goto, Fails, Elsewhere, Before, shared, known, stage, result, IInv, TypeOK, Fares
  <2>1. CASE Lock(p)
    BY <2>1 DEF Lock
  <2>2. CASE Read(p)
    BY <2>2 DEF Read
  <2>3. CASE Check(p)
    BY <2>3 DEF Check
  <2>4. CASE Stage(p)
    BY <2>4 DEF Stage
  <2>5. CASE RunEnds(p)
    BY <2>5 DEF RunEnds
  <2>6. CASE Verify(p)
    BY <2>6 DEF Verify
  <2>7. CASE Shape(p)
    BY <2>7 DEF Shape
  <2>8. CASE Validate(p)
    BY <2>8 DEF Validate
  <2> QED BY <2>1, <2>2, <2>3, <2>4, <2>5, <2>6, <2>7, <2>8
<1>3. temp[p] = Absent
  BY <1>1 DEF Fares, Before, Knowing, Sending
<1>4. Fares(p)'
  BY <1>1, <1>2, <1>3 DEF Fares, Before
<1>5. Reports(p)'
  BY <1>2 DEF Reports, Before
<1>6. pc[p] \in Working /\ turn'[p] >= turn[p]
  BY <1>1, <1>2 DEF Working, Before, Knowing, Sending, IInv, TypeOK
<1> QED BY <1>2, <1>4, <1>5, <1>6, Goes

\* Success: the temporary file and the link.
LEMMA SuccessPublish ==
    ASSUME IInv, SInv, IInv', NEW p \in Processes, WriteTemp(p) \/ Link(p)
    PROVE  SInv'
<1> USE DEF Goto, Fails
<1>1. /\ Elsewhere(p) /\ UNCHANGED <<history, command, turn, dir>>
      /\ \A q \in Processes \ {p} : dir'[q] = dir[q]
  BY DEF Elsewhere, WriteTemp, Link, shared, known, stage, IInv, TypeOK
<1>2. pc[p] \in {"writing", "linking"} /\ ~failed[p] /\ published[p] # Absent
  BY Contents DEF WriteTemp, Link, IInv, Publishing, Publishes, SInv, Failing, Fares
<1>3. \/ pc'[p] \in {"writing", "linking"} /\ ~failed'[p]
      \/ pc'[p] = "cleaning" /\ temp'[p] = Absent /\ (failed'[p] <=> published'[p] = Absent)
  BY <1>2 DEF WriteTemp, Link, IInv, TypeOK
<1>4. Fares(p)' /\ Reports(p)'
  BY <1>3 DEF Fares, Reports, Before
<1>5. pc[p] \in Working /\ turn'[p] >= turn[p]
  BY <1>1, <1>2 DEF Working, Knowing, Sending, IInv, TypeOK
<1> QED BY <1>1, <1>4, <1>5, Goes

\* Success: a directory that stays is an error.
LEMMA SuccessClean ==
    ASSUME IInv, SInv, IInv', NEW p \in Processes, Clean(p)
    PROVE  SInv'
<1>1. /\ Elsewhere(p) /\ UNCHANGED <<history, command, turn, temp, published>>
      /\ \A q \in Processes \ {p} : dir'[q] = dir[q]
  BY DEF Elsewhere, Clean, Goto, shared, known, result, IInv, TypeOK
<1>2. /\ pc[p] = "cleaning" /\ temp[p] = Absent
      /\ failed[p] <=> published[p] = Absent
  BY DEF Clean, SInv, Failing, Fares, Knowing, Sending
<1>3. PICK left \in {"none", "stuck"} :
           /\ dir' = [dir EXCEPT ![p] = left]
           /\ failed' = [failed EXCEPT ![p] = failed[p] \/ Complaint(left)]
  BY DEF Clean
<1>4. dir'[p] = left /\ (failed'[p] <=> failed[p] \/ left = "stuck")
  BY <1>3 DEF Complaint, IInv, TypeOK
<1>5. pc'[p] = IF failed'[p] \/ command[p].kind = "image" THEN "closing" ELSE "storing"
  BY DEF Clean, Goto, IInv, TypeOK
<1>6. command[p].kind \in {"image", "chat"}
  BY Called DEF IInv
<1>7. ~failed'[p] <=> published'[p] # Absent /\ dir'[p] = "none"
  BY <1>1, <1>2, <1>3, <1>4
<1>8. pc'[p] \in {"closing", "storing"} /\ dir'[p] # "there" /\ temp'[p] = Absent
  BY <1>1, <1>2, <1>3, <1>4, <1>5
<1>9. pc'[p] = "storing" => ~failed'[p] /\ command'[p].kind = "chat"
  BY <1>1, <1>5, <1>6
<1>10. Fares(p)'
  BY <1>7, <1>8, <1>9 DEF Fares, Before
<1>11. pc'[p] = "closing" => failed'[p] \/ command'[p].kind # "chat"
  BY <1>1, <1>5
<1>12. Reports(p)'
  BY <1>7, <1>11 DEF Reports
<1>13. pc[p] \in Working /\ turn'[p] >= turn[p]
  BY <1>1, <1>2 DEF Working, Knowing, Sending, IInv, TypeOK
<1> QED BY <1>1, <1>10, <1>12, <1>13, Goes

\* Success: the end of a turn or of the process.
LEMMA SuccessClose ==
    ASSUME IInv, SInv, IInv', NEW p \in Processes, Close(p) \/ Die(p)
    PROVE  SInv'
<1>1. /\ Elsewhere(p) /\ UNCHANGED <<history, command>>
      /\ \A q \in Processes \ {p} : dir'[q] = dir[q] /\ turn'[q] = turn[q]
  BY DEF Elsewhere, Close, Die, Forget, Goto, stage, IInv, TypeOK
<1>2. CASE Close(p)
  <2>1. /\ pc[p] = "closing" /\ dir[p] # "there" /\ temp[p] = Absent
        /\ dir' = dir /\ failed' = failed /\ temp' = temp
    BY <1>2 DEF Close, SInv, Failing, Fares
  <2>2. ~failed[p] => dir[p] = "none"
    BY <2>1 DEF SInv, Reporting, Reports
  <2>3. \/ pc'[p] = "done" /\ turn'[p] = turn[p]
        \/ pc'[p] = "waiting" /\ ~failed[p] /\ turn'[p] = turn[p] + 1
    BY <1>2 DEF Close, Goto, IInv, TypeOK
  <2>4. Fares(p)' /\ Reports(p)'
    BY <2>1, <2>2, <2>3 DEF Fares, Reports, Before, Knowing, Sending
  <2>5. turn[p] \in Nat
    BY DEF IInv, TypeOK
  <2>6. turn'[p] >= turn[p] /\ (pc'[p] \in Working => turn'[p] > turn[p])
    BY <2>3, <2>5 DEF Working, Knowing, Sending
  <2> QED BY <1>1, <2>4, <2>6, Goes
<1>3. CASE Die(p)
  <2>1. pc'[p] = "dead" /\ turn'[p] >= turn[p]
    BY <1>3 DEF Die, Goto, IInv, TypeOK
  <2>2. Fares(p)' /\ Reports(p)'
    BY <2>1 DEF Fares, Reports, Before, Knowing, Sending
  <2> QED BY <1>1, <2>1, <2>2, Goes DEF Working, Knowing, Sending
<1> QED BY <1>2, <1>3

\* Success: a turn is recorded once, with its number.
LEMMA SuccessStore ==
    ASSUME IInv, SInv, IInv', NEW p \in Processes, Store(p)
    PROVE  SInv'
<1> DEFINE where == Target(p)
           artifact == [name |-> Output(p), sum |-> published[p], reference |-> reference[p],
                        by |-> <<p, turn[p]>>]
<1>1. /\ Elsewhere(p) /\ UNCHANGED <<command, turn, dir, temp, published>>
      /\ \A q \in Processes \ {p} : dir'[q] = dir[q] /\ turn'[q] = turn[q]
  BY DEF Elsewhere, Store, Goto, Fails, stage, result, IInv, TypeOK
<1>2. pc[p] = "storing" /\ Fares(p) /\ temp[p] = Absent
  BY DEF Store, SInv, Failing, Fares, Knowing, Sending
<1>3. turn[p] \in Nat /\ pc[p] \in Working
  BY <1>2 DEF Working, Knowing, Sending, IInv, TypeOK
<1>4. pc'[p] = "closing"
  BY DEF Store, Goto, Fails, IInv, TypeOK
<1>5. Fares(p)'
  BY <1>1, <1>2, <1>4 DEF Fares, Before, Knowing, Sending
<1>6. CASE history' = history /\ failed' = [failed EXCEPT ![p] = TRUE]
  <2>1. failed'[p]
    BY <1>6 DEF IInv, TypeOK
  <2>2. ~Recorded(p)
    BY <1>3 DEF Recorded, SInv, Recording
  <2>3. ~Recorded(p)'
    BY <1>1, <1>6, <2>2 DEF Recorded, Conversations
  <2>4. Reports(p)'
    BY <1>1, <1>2, <2>1, <2>3 DEF Reports, Fares
  <2>5. turn'[p] >= turn[p]
    BY <1>1, <1>3
  <2> QED BY <1>1, <1>3, <1>5, <1>6, <2>4, <2>5, Goes
<1>7. CASE history' = [history EXCEPT ![where] = Append(@, artifact)] /\ failed' = failed
  <2> DEFINE old == Len(history[where])
  <2>1. where \in Conversations /\ history[where] \in Seq(Artifact) /\ artifact \in Artifact
    BY Stored DEF IInv
  <2>2. /\ \A c \in Conversations \ {where} : history'[c] = history[c]
        /\ history'[where] = Append(history[where], artifact)
    BY <1>7, <2>1 DEF IInv, TypeOK
  <2>3. /\ old \in Nat /\ DOMAIN history[where] = 1 .. old /\ DOMAIN history'[where] = 1 .. old + 1
        /\ \A k \in 1 .. old : history'[where][k] = history[where][k]
        /\ history'[where][old + 1] = artifact
    BY <2>1, <2>2
  <2>4. artifact.by = <<p, turn[p]>> /\ old + 1 \in DOMAIN history'[where]
    BY <2>3
  <2>5. Recorded(p)'
    BY <1>1, <2>1, <2>3, <2>4 DEF Recorded, Conversations
  <2>6. Reports(p)'
    BY <1>1, <1>2, <1>7, <2>5 DEF Reports, Fares
  <2>7. ASSUME NEW c \in Conversations, NEW k \in DOMAIN history'[c]
        PROVE  \/ k \in DOMAIN history[c] /\ history'[c][k] = history[c][k]
               \/ history'[c][k] = artifact
    <3>1. CASE c # where
      BY <2>2, <3>1
    <3>2. CASE c = where
      BY <2>3, <3>2
    <3> QED BY <3>1, <3>2
  <2>8. ASSUME NEW c \in Conversations, NEW k \in DOMAIN history'[c], NEW q \in Processes,
               NEW t \in Nat, history'[c][k].by = <<q, t>>
        PROVE  t <= turn'[q] /\ (pc'[q] \in Working => t < turn'[q])
    <3>1. CASE history'[c][k] = artifact
      <4>1. q = p /\ t = turn[p]
        BY <2>4, <2>8, <3>1
      <4> QED BY <1>1, <1>3, <1>4, <4>1 DEF Working, Knowing, Sending
    <3>2. CASE k \in DOMAIN history[c] /\ history'[c][k] = history[c][k]
      <4>1. t <= turn[q] /\ (pc[q] \in Working => t < turn[q])
        BY <2>8, <3>2 DEF SInv, Recording
      <4>2. CASE q = p
        BY <1>1, <1>4, <4>1, <4>2 DEF Working, Knowing, Sending
      <4>3. CASE q # p
        BY <1>1, <4>1, <4>3 DEF Elsewhere
      <4> QED BY <4>2, <4>3
    <3> QED BY <2>7, <3>1, <3>2
  <2>9. Recording'
    BY <2>8 DEF Recording, Conversations
  <2>10. ASSUME NEW q \in Processes, q # p
         PROVE  Reports(q)'
    <3>1. Recorded(q)' => Recorded(q)
      <4>1. ASSUME NEW c \in Conversations, NEW k \in DOMAIN history'[c],
                   history'[c][k].by = <<q, turn[q]>>
            PROVE  Recorded(q)
        <5>1. history'[c][k] # artifact
          BY <2>4, <2>10, <4>1
        <5>2. k \in DOMAIN history[c] /\ history[c][k].by = <<q, turn[q]>>
          BY <2>7, <4>1, <5>1
        <5> QED BY <5>2 DEF Recorded
      <4> QED BY <1>1, <4>1 DEF Recorded, Conversations
    <3>2. Recorded(q) => Recorded(q)'
      <4>1. ASSUME NEW c \in Conversations, NEW k \in DOMAIN history[c],
                   history[c][k].by = <<q, turn[q]>>
            PROVE  k \in DOMAIN history'[c] /\ history'[c][k].by = <<q, turn[q]>>
        <5>1. CASE c # where
          BY <2>2, <4>1, <5>1
        <5>2. CASE c = where
          BY <2>3, <4>1, <5>2
        <5> QED BY <5>1, <5>2
      <4> QED BY <1>1, <4>1 DEF Recorded, Conversations
    <3>3. Reports(q)
      BY DEF SInv, Reporting
    <3> QED BY <1>1, <2>10, <3>1, <3>2, <3>3 DEF Reports, Elsewhere
  <2>11. Failing'
    BY <1>1, <1>5, OthersFare DEF SInv
  <2> QED BY <2>6, <2>9, <2>10, <2>11 DEF SInv, Reporting
<1> QED BY <1>6, <1>7 DEF Store, Fails, Target

\* Success: what the world does.
LEMMA SuccessStays ==
    ASSUME SInv, UNCHANGED <<history, command, pc, turn, failed, result, dir>>
    PROVE  SInv'
<1>1. Failing' /\ Recording'
  BY DEF SInv, Failing, Fares, Recording, Conversations, result
<1>2. ASSUME NEW p \in Processes
      PROVE  Reports(p)'
  <2>1. Recorded(p)' <=> Recorded(p)
    BY DEF Recorded, Conversations
  <2> QED BY <2>1 DEF SInv, Reporting, Reports, result
<1> QED BY <1>1, <1>2 DEF SInv, Reporting

\* Success: at the start nothing has failed.
LEMMA SuccessStart ==
    ASSUME Init, IInv
    PROVE  SInv
<1>1. /\ pc = [p \in Processes |-> First(command[p])]
      /\ failed = [p \in Processes |-> FALSE] /\ dir = [p \in Processes |-> "none"]
      /\ temp = [p \in Processes |-> Absent]
  BY DEF Init
<1>2. \A p \in Processes : pc[p] \in {"waiting", "checking"}
  BY <1>1 DEF First
<1>3. Failing
  BY <1>1, <1>2 DEF Failing, Fares
<1>4. Recording
  <2>1. PICK old \in {<<>>} \cup {<<[name |-> n, sum |-> files[n], reference |-> Absent,
                                    by |-> <<Chat, 0>>]>> : n \in {m \in Names : files[m] # Absent}} :
             history = [c \in Conversations |-> IF c = Chat THEN old ELSE <<>>]
    BY DEF Init
  <2>2. ASSUME NEW c \in Conversations, NEW k \in DOMAIN history[c]
        PROVE  history[c][k].by = <<Chat, 0>>
    <3>1. c = Chat /\ history[c] = old /\ old # <<>>
      BY <2>1, <2>2
    <3>2. PICK n \in Names : old = <<[name |-> n, sum |-> files[n], reference |-> Absent,
                                      by |-> <<Chat, 0>>]>>
      BY <2>1, <3>1
    <3>3. k = 1
      BY <2>2, <3>1, <3>2
    <3> QED BY <3>1, <3>2, <3>3
  <2> QED BY <2>2, ImageConstants DEF Recording
<1> QED BY <1>2, <1>3, <1>4 DEF SInv, Reporting, Reports

\* A command that ends without an error has published its picture, has cleaned
\* up and has told the conversation, and one that ends with an error has not
\* done all of it (runChatImageTurn, newImageGenerateCmd).
THEOREM SuccessIsAlwaysWhole == Spec => []SuccessIsWhole
<1>1. Init => SInv
  BY Start, SuccessStart
<1>2. ASSUME IInv, IInv', SInv, [Next]_vars
      PROVE  SInv'
  <2>1. ASSUME NEW p \in Processes, Step(p)
        PROVE  SInv'
    BY <1>2, <2>1, SuccessBefore, SuccessPublish, SuccessClean, SuccessStore, SuccessClose DEF Step
  <2>2. ASSUME NEW p \in Processes, Expire(p) \/ DrawLate(p)
        PROVE  SInv'
    BY <1>2, <2>2, SuccessStays DEF Expire, DrawLate, shared, fate, stage
  <2>3. ASSUME NEW name \in Names, Edit(name)
        PROVE  SInv'
    BY <1>2, <2>3, SuccessStays DEF Edit, fate, stage
  <2>4. CASE UNCHANGED vars
    BY <1>2, <2>4, SuccessStays DEF vars, shared, fate, stage
  <2> QED BY <1>2, <2>1, <2>2, <2>3, <2>4 DEF Next
<1>3. ASSUME IInv, SInv, NEW p \in Processes
      PROVE  /\ Reports(p)
             /\ pc[p] = "done" => dir[p] # "there" /\ temp[p] = Absent /\ lock # p
  BY <1>3 DEF SInv, Reporting, Failing, Fares, IInv, Locked, Knowing, Sending
<1>4. IInv /\ SInv => SuccessIsWhole
  BY <1>3 DEF SuccessIsWhole, Reports
<1> QED BY <1>1, <1>2, <1>4, Invariant, PTL DEF Spec
=============================================================================
