---------------------------- MODULE ImagePublish ----------------------------
(***************************************************************************)
(* Pictures as files: `hollis image generate` (internal/cli/image.go), the *)
(* image turns of a chat (chat_image.go) and internal/imagegen, which has  *)
(* a bridge draw into a private directory, shapes the result and publishes *)
(* it under a name that nothing may have yet.                              *)
(*                                                                         *)
(* Processes share the names, a conversation and the continuation lock     *)
(* with the user's other programs, which make, change and remove files.    *)
(* The child of a run is in Subproc; what remains of it here is what it    *)
(* has drawn, and that its service may go on drawing afterwards.  Text     *)
(* turns of the conversation are in ChatStore.                             *)
(***************************************************************************)
EXTENDS OutputSize, Sequences, SequencesExt

CONSTANTS
    Processes,  \* hollis processes
    Chat,       \* a conversation that was started earlier
    Names,      \* paths that end in .png, in real directories
    Motifs,     \* what pictures show
    Drawn,      \* pictures a bridge may draw
    Foreign,    \* contents the user's other programs may put into a file
    Commands    \* command lines

\* What a file holds.  A picture is its own checksum.
Content ==
    [is : {"absent", "empty", "broken", "picture"}, shows : Motifs \cup {"nothing"},
     width : Nat, height : Nat]

Hollow(is) == [is |-> is, shows |-> "nothing", width |-> 0, height |-> 0]
Absent == Hollow("absent")
Empty  == Hollow("empty")
Broken == Hollow("broken")

\* A chat command with more than one output is interactive: one /image each.
\* It is styled if its bridge takes a style, and so JSON (resolveImageBridgeRequest).
Command ==
    [kind : {"image", "chat"}, continues : BOOLEAN, outputs : Seq(Names),
     reference : {"none", "auto"} \cup Names, styled : BOOLEAN, option : Option \cup {Unchanged}]

NoConversation == "none"
Free == "free"

ASSUME ImageConstants ==
    /\ Chat \notin Processes /\ Free \notin Processes
    /\ NoConversation \notin Processes \cup {Chat}
    /\ Drawn \subseteq [is : {"picture"}, shows : Motifs, width : Nat \ {0}, height : Nat \ {0}]
    /\ Foreign \subseteq Content /\ Absent \notin Foreign
    /\ \A c \in Commands :
         /\ c \in Command /\ c.outputs # <<>>
         /\ c.kind = "image" => ~c.continues /\ Len(c.outputs) = 1
    /\ \A n \in Names : n \notin {"none", "auto"}

VARIABLES
    files,      \* the files that pictures may be published as
    history,    \* the image artifacts of each conversation
    lock,       \* who holds the continuation lock
    linked,     \* ghost: what was ever published, under which name
    command,    \* what each process was called with
    pc, turn,   \* where it is, and in which of its turns
    chat,       \* its conversation
    over,       \* the context of the turn has ended
    failed,     \* runErr
    basis,      \* the artifacts it has read
    reference,  \* the picture sent along
    dir,        \* its staging directory: "none", "there" or "stuck"
    staged,     \* image.png in there
    shaped,     \* the transformed picture next to it
    temp,       \* the temporary file next to the destination
    published   \* the result of Publish

shared == <<files, history, lock, linked>>
fate   == <<over, failed>>
stage  == <<dir, staged, shaped>>
result == <<temp, published>>
known  == <<chat, basis, reference>>
vars   == <<shared, command, pc, turn, known, fate, stage, result>>

Conversations == {Chat} \cup Processes

\* An artifact record; "by" is no field of the code.
Artifact ==
    [name : Names, sum : Content, reference : Content, by : (Processes \cup {Chat}) \X Nat]

Places ==
    {"waiting", "reading", "checking", "staging", "running", "verifying", "shaping", "publishing",
     "writing", "linking", "cleaning", "storing", "closing", "done", "dead"}

TypeOK ==
    /\ files \in [Names -> Content]
    /\ history \in [Conversations -> Seq(Artifact)]
    /\ lock \in Processes \cup {Free}
    /\ linked \subseteq Names \X Content
    /\ command \in [Processes -> Commands]
    /\ pc \in [Processes -> Places] /\ turn \in [Processes -> Nat]
    /\ chat \in [Processes -> Conversations \cup {NoConversation}]
    /\ over \in [Processes -> BOOLEAN] /\ failed \in [Processes -> BOOLEAN]
    /\ basis \in [Processes -> Seq(Artifact)]
    /\ reference \in [Processes -> Content]
    /\ dir \in [Processes -> {"none", "there", "stuck"}]
    /\ staged \in [Processes -> Content] /\ shaped \in [Processes -> Content]
    /\ temp \in [Processes -> Content] /\ published \in [Processes -> Content]

First(c) == IF c.continues THEN "waiting" ELSE "checking"

Init ==
    /\ files \in [Names -> {Absent} \cup Drawn]
    /\ \E old \in {<<>>} \cup {<<[name |-> n, sum |-> files[n], reference |-> Absent, by |-> <<Chat, 0>>]>> :
                                 n \in {m \in Names : files[m] # Absent}} :
         history = [c \in Conversations |-> IF c = Chat THEN old ELSE <<>>]
    /\ lock = Free /\ linked = {}
    /\ command \in [Processes -> Commands]
    /\ pc = [p \in Processes |-> First(command[p])]
    /\ turn = [p \in Processes |-> 1]
    /\ chat = [p \in Processes |-> IF command[p].continues THEN Chat ELSE NoConversation]
    /\ over = [p \in Processes |-> FALSE] /\ failed = [p \in Processes |-> FALSE]
    /\ basis = [p \in Processes |-> <<>>]
    /\ reference = [p \in Processes |-> Absent]
    /\ dir = [p \in Processes |-> "none"]
    /\ staged = [p \in Processes |-> Absent] /\ shaped = [p \in Processes |-> Absent]
    /\ temp = [p \in Processes |-> Absent] /\ published = [p \in Processes |-> Absent]

Goto(p, place) == pc' = [pc EXCEPT ![p] = place]

Fails(p, place) == Goto(p, place) /\ failed' = [failed EXCEPT ![p] = TRUE]

Output(p) == command[p].outputs[turn[p]]

-----------------------------------------------------------------------------
(* Before the run.                                                         *)

\* LockContinuation, until the turn's time is up or the lock cannot be used.
Lock(p) ==
    /\ pc[p] = "waiting"
    /\ \/ lock = Free /\ lock' = p /\ Goto(p, "reading") /\ failed' = failed
       \/ Fails(p, "closing") /\ lock' = lock
    /\ UNCHANGED <<files, history, linked, command, turn, known, over, stage, result>>

Read(p) ==
    /\ pc[p] = "reading"
    /\ \/ /\ basis' = [basis EXCEPT ![p] = history[chat[p]]]
          /\ Goto(p, "checking")
          /\ failed' = failed
       \/ Fails(p, "closing") /\ basis' = basis
    /\ UNCHANGED <<shared, command, turn, chat, reference, over, stage, result>>

\* Mutant: the picture is read without its checksum.
Trusted_Unchecked(content, sum) == content.is = "picture"

\* NewReferenceImageFromPath, with the checksum of the artifact or none.
Trusted(content, sum) == content.is = "picture" /\ sum \in {Absent, content}

\* chatImageReference: nothing, the file that was named, or the last artifact.
References(p) ==
    LET asked == command[p].reference IN
    CASE asked = "none" \/ (asked = "auto" /\ basis[p] = <<>>) -> {Absent}
      [] asked = "auto" /\ basis[p] # <<>> ->
           {files[n] : n \in {Last(basis[p]).name} \cap
                             {m \in Names : Trusted(files[m], Last(basis[p]).sum)}}
      [] OTHER -> {files[n] : n \in {asked} \cap {m \in Names : Trusted(files[m], Absent)}}

\* bridgeInput: only a bridge that takes JSON gets a picture.
Sendable(p, picture) == picture # Absent => command[p].styled

\* PreflightDestination.
Vacant(name) == files[name] = Absent

\* The checks; references too large and prompts too long are among the failures.
Check(p) ==
    /\ pc[p] = "checking"
    /\ \/ /\ Vacant(Output(p))
          /\ Parsed(command[p].option)
          /\ \E picture \in References(p) :
               Sendable(p, picture) /\ reference' = [reference EXCEPT ![p] = picture]
          /\ Goto(p, "staging")
          /\ failed' = failed
       \/ Fails(p, "closing") /\ reference' = reference
    /\ UNCHANGED <<shared, command, turn, chat, basis, over, stage, result>>

-----------------------------------------------------------------------------
(* Generate, TransformOutput and Publish.                                  *)

\* The directory with the prompt and an empty image.png, or an error that has
\* taken away what was made of it, or tried to.
Stage(p) ==
    /\ pc[p] = "staging"
    /\ \/ /\ ~over[p]
          /\ dir' = [dir EXCEPT ![p] = "there"]
          /\ staged' = [staged EXCEPT ![p] = Empty]
          /\ Goto(p, "running")
          /\ failed' = failed
       \/ /\ Fails(p, "closing")
          /\ \E left \in {"none", "stuck"} : dir' = [dir EXCEPT ![p] = left]
          /\ staged' = staged
    /\ UNCHANGED <<shared, command, turn, known, over, shaped, result>>

\* The bridge exits: with 0, whatever it has drawn; or badly, or killed.
RunEnds(p) ==
    /\ pc[p] = "running"
    /\ \/ /\ ~over[p]
          /\ \E drawing \in {Absent, Empty, Broken} \cup Drawn : staged' = [staged EXCEPT ![p] = drawing]
          /\ Goto(p, "verifying")
          /\ failed' = failed
       \/ Fails(p, "cleaning") /\ staged' = staged
    /\ UNCHANGED <<shared, command, turn, known, over, dir, shaped, result>>

\* verifyPNG; any of its reads may fail.
Verify(p) ==
    /\ pc[p] = "verifying"
    /\ \/ staged[p].is = "picture" /\ Goto(p, "shaping") /\ failed' = failed
       \/ Fails(p, "cleaning")
    /\ UNCHANGED <<shared, command, turn, known, over, stage, result>>

Shaped(picture, o) ==
    [picture EXCEPT !.width  = OutputWidth(picture.width, picture.height, o),
                    !.height = OutputHeight(picture.width, picture.height, o)]

\* TransformOutput reads the file twice and refuses one that has changed; the
\* new picture gets a name of its own.
Shape(p) ==
    LET o == command[p].option IN
    /\ pc[p] = "shaping"
    /\ \/ o = Unchanged /\ Goto(p, "publishing") /\ UNCHANGED <<failed, shaped>>
       \/ /\ o # Unchanged /\ ~over[p]
          /\ staged[p].is = "picture"
          /\ Accepts(staged[p].width, staged[p].height, o)
          /\ shaped' = [shaped EXCEPT ![p] = Shaped(staged[p], o)]
          /\ Goto(p, "publishing")
          /\ failed' = failed
       \/ o # Unchanged /\ Fails(p, "cleaning") /\ shaped' = shaped
    /\ UNCHANGED <<shared, command, turn, known, over, dir, staged, result>>

\* Result.Path.
Source(p) == IF command[p].option = Unchanged THEN staged[p] ELSE shaped[p]

\* Publish checks again, and keeps the bytes that it has checked.
Validate(p) ==
    /\ pc[p] = "publishing"
    /\ \/ /\ Vacant(Output(p))
          /\ Source(p).is = "picture"
          /\ published' = [published EXCEPT ![p] = Source(p)]
          /\ Goto(p, "writing")
          /\ failed' = failed
       \/ Fails(p, "cleaning") /\ published' = published
    /\ UNCHANGED <<shared, command, turn, known, over, stage, temp>>

\* The temporary file is written, synced and closed; if that fails it is removed.
WriteTemp(p) ==
    /\ pc[p] = "writing"
    /\ \/ /\ temp[p] = Absent
          /\ temp' = [temp EXCEPT ![p] = Empty]
          /\ UNCHANGED <<pc, failed, published>>
       \/ /\ temp[p] = Empty
          /\ temp' = [temp EXCEPT ![p] = published[p]]
          /\ Goto(p, "linking")
          /\ UNCHANGED <<failed, published>>
       \/ /\ Fails(p, "cleaning")
          /\ temp' = [temp EXCEPT ![p] = Absent]
          /\ published' = [published EXCEPT ![p] = Absent]
    /\ UNCHANGED <<shared, command, turn, known, over, stage>>

\* Mutant: rename, which replaces.
MayLink_Rename(name) == name \in DOMAIN files

MayLink(name) == files[name] = Absent

\* os.Link; the temporary name goes in either case.
Link(p) ==
    /\ pc[p] = "linking"
    /\ \/ /\ MayLink(Output(p))
          /\ files' = [files EXCEPT ![Output(p)] = temp[p]]
          /\ linked' = linked \cup {<<Output(p), temp[p]>>}
          /\ Goto(p, "cleaning")
          /\ UNCHANGED <<failed, published>>
       \/ /\ Fails(p, "cleaning")
          /\ published' = [published EXCEPT ![p] = Absent]
          /\ UNCHANGED <<files, linked>>
    /\ temp' = [temp EXCEPT ![p] = Absent]
    /\ UNCHANGED <<history, lock, command, turn, known, over, stage>>

-----------------------------------------------------------------------------
(* After the run.                                                          *)

\* Mutant: a staging directory that stays is nobody's error.
Complaint_None(left) == FALSE

Complaint(left) == left = "stuck"

\* Cleanup, once, on every return after the staging.
Clean(p) ==
    /\ pc[p] = "cleaning"
    /\ \E left \in {"none", "stuck"} :
         /\ dir' = [dir EXCEPT ![p] = left]
         /\ failed' = [failed EXCEPT ![p] = @ \/ Complaint(left)]
    /\ staged' = [staged EXCEPT ![p] = Absent]
    /\ shaped' = [shaped EXCEPT ![p] = Absent]
    /\ Goto(p, IF failed'[p] \/ command[p].kind = "image" THEN "closing" ELSE "storing")
    /\ UNCHANGED <<shared, command, turn, known, over, result>>

\* AppendTurn or CreateConversationWithTurn; one transaction.
Store(p) ==
    LET where == IF chat[p] = NoConversation THEN p ELSE chat[p]
        artifact == [name |-> Output(p), sum |-> published[p],
                     reference |-> reference[p], by |-> <<p, turn[p]>>] IN
    /\ pc[p] = "storing"
    /\ \/ /\ history' = [history EXCEPT ![where] = Append(@, artifact)]
          /\ chat' = [chat EXCEPT ![p] = where]
          /\ Goto(p, "closing")
          /\ failed' = failed
       \/ Fails(p, "closing") /\ UNCHANGED <<history, chat>>
    /\ UNCHANGED <<files, lock, linked, command, turn, basis, reference, over, stage, result>>

\* What was in memory for one turn.
Forget(p) ==
    /\ basis' = [basis EXCEPT ![p] = <<>>]
    /\ reference' = [reference EXCEPT ![p] = Absent]
    /\ over' = [over EXCEPT ![p] = FALSE]
    /\ published' = [published EXCEPT ![p] = Absent]

\* The lock is released; an interactive chat goes on unless the turn has failed.
Close(p) ==
    /\ pc[p] = "closing"
    /\ lock' = IF lock = p THEN Free ELSE lock
    /\ \/ Goto(p, "done") /\ Forget(p) /\ UNCHANGED <<turn, failed, dir, chat>>
       \/ /\ ~failed[p] /\ turn[p] < Len(command[p].outputs)
          /\ turn' = [turn EXCEPT ![p] = @ + 1]
          /\ Goto(p, "waiting")
          /\ Forget(p)
          /\ UNCHANGED <<failed, dir, chat>>
    /\ UNCHANGED <<files, history, linked, command, staged, shaped, temp>>

-----------------------------------------------------------------------------
(* What may happen at any time.                                            *)

\* The deadline of the turn, or a signal.
Expire(p) ==
    /\ pc[p] \notin {"done", "dead"} /\ ~over[p]
    /\ over' = [over EXCEPT ![p] = TRUE]
    /\ UNCHANGED <<shared, command, pc, turn, known, failed, stage, result>>

\* The process is killed; the system releases its lock, and nobody its files.
Die(p) ==
    /\ pc[p] \notin {"done", "dead"}
    /\ Goto(p, "dead")
    /\ lock' = IF lock = p THEN Free ELSE lock
    /\ Forget(p)
    /\ failed' = [failed EXCEPT ![p] = FALSE]
    /\ UNCHANGED <<files, history, linked, command, turn, chat, stage, temp>>

\* The service behind the shortcut draws into image.png after the bridge exited.
DrawLate(p) ==
    /\ pc[p] \in {"verifying", "shaping", "publishing", "writing", "linking"}
    /\ staged[p] # Broken
    /\ staged' = [staged EXCEPT ![p] = Broken]
    /\ UNCHANGED <<shared, command, pc, turn, known, fate, dir, shaped, result>>

\* Other programs of the user.
Edit(name) ==
    /\ \E content \in Foreign \cup {Absent} : files' = [files EXCEPT ![name] = content]
    /\ UNCHANGED <<history, lock, linked, command, pc, turn, known, fate, stage, result>>

Step(p) ==
    \/ Lock(p) \/ Read(p) \/ Check(p) \/ Stage(p) \/ RunEnds(p) \/ Verify(p) \/ Shape(p)
    \/ Validate(p) \/ WriteTemp(p) \/ Link(p) \/ Clean(p) \/ Store(p) \/ Close(p) \/ Die(p)

Next ==
    \/ \E p \in Processes : Step(p) \/ Expire(p) \/ DrawLate(p)
    \/ \E name \in Names : Edit(name)

Spec == Init /\ [][Next]_vars

-----------------------------------------------------------------------------
(* Properties.                                                             *)

\* No command ever replaces or changes a file that is there, however long ago
\* it found the name free and whoever took it since; and what it puts there is
\* complete from the first moment (Publish).
NothingReplaced ==
    [][\A name \in Names :
         files'[name] # files[name] /\ (\E p \in Processes : Step(p)) =>
             files[name] = Absent /\ files'[name].is = "picture"]_vars

\* Every artifact of a conversation is a picture that was published under that
\* name and had that checksum; and the picture that was sent along with "auto"
\* is the one of the artifact right before it, unchanged, although its file is
\* open to everybody and other processes continue the same conversation
\* (chatImageReference, LockContinuation, Publish).
ArtifactsAreTrue ==
    \A c \in Conversations : \A k \in DOMAIN history[c] :
      LET a == history[c][k] IN
      a.by[1] # Chat =>
        /\ a.sum.is = "picture" /\ <<a.name, a.sum>> \in linked
        /\ command[a.by[1]].reference = "auto" =>
             a.reference = (IF k = 1 THEN Absent ELSE history[c][k - 1].sum)

Recorded(p) ==
    \E c \in Conversations : \E k \in DOMAIN history[c] : history[c][k].by = <<p, turn[p]>>

\* A command that reports success has published, has cleaned up and, in a chat,
\* has told the conversation; so a picture that no conversation knows of, and a
\* staging directory that stays, always come with an error (the deferred
\* cleanup and the order of runChatImageTurn).
SuccessIsWhole ==
    \A p \in Processes :
      /\ pc[p] = "closing" =>
           (~failed[p] <=> /\ published[p] # Absent /\ dir[p] = "none"
                           /\ command[p].kind = "chat" => Recorded(p))
      /\ pc[p] = "done" => dir[p] # "there" /\ temp[p] = Absent /\ lock # p
=============================================================================
