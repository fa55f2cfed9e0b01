---------------------------- MODULE NativeStream ----------------------------
(***************************************************************************)
(* One streamed answer of the local model: the native helper's event lines *)
(* (internal/runner/native.go, invoke), the callback that turns snapshots  *)
(* into deltas, and the server's event stream to the HTTP client           *)
(* (internal/server/native.go, streamEvents and streamPrepared).           *)
(*                                                                         *)
(* The helper may write any events in any order and end at any moment; the *)
(* client may stall or go; the request's context may end between any two   *)
(* steps.  The pipe and the process are subproc.Scan's: module Subproc.    *)
(* A text is a sequence of letters.  Names that Serve has too carry the    *)
(* prefix Stream, so that one proof module can extend both.                *)
(***************************************************************************)
EXTENDS Naturals, Sequences, SequencesExt

CONSTANTS
    Letters,    \* what texts are made of
    MaxText,    \* bound: length of a text
    MaxEvents,  \* bound: events the helper writes
    PipeSize    \* lines the pipe holds

ASSUME StreamConstants == MaxText \in Nat /\ MaxEvents \in Nat /\ PipeSize \in Nat \ {0}

Texts == UNION {[1..n -> Letters] : n \in 0..MaxText}

\* "bad" is every line that is refused wherever it comes: not an event, of
\* another protocol, with a field that does not belong there.
Events ==
    [kind : {"available", "unavailable", "error", "bad"}]
    \cup [kind : {"snapshot", "complete"}, text : Texts]

VARIABLES
    responses,      \* TRUE: the Responses API, FALSE: Chat Completions
    ctx,            \* "live", or "done": deadline, shutdown, cancel
    helper,         \* "running", "exited" (status 0), "failed", "killed"
    pipe,           \* lines written and not yet handled
    emitted,        \* events written so far
    ready, terminal, previous,  \* invoke: the protocol's state
    completion,     \* the text of the completion, result.Text
    rejected,       \* the callback returned an error
    place,          \* where the handler is
    snapshot,       \* the text whose suffix is being sent
    todo,           \* frames it has still to send
    started,        \* streamEvents.started: the response header is written
    sequence,       \* streamEvents.sequence
    accumulated,    \* the deltas that were sent
    wire,           \* the frames the client gets
    client,         \* "reading", "stalled" or "gone"
    writeDeadline   \* the connection's write deadline is past

protocol   == <<ready, terminal, previous, completion, rejected>>
process    == <<helper, pipe, emitted>>
stream     == <<started, sequence, wire>>
streamVars == <<responses, ctx, process, protocol, place, snapshot, todo, stream, accumulated,
                client, writeDeadline>>

FrameNames ==
    {"created", "in_progress", "item_added", "part_added", "text_done", "part_done", "item_done",
     "role", "stop", "delta", "completed", "failed", "error_body"}

Frames == [name : FrameNames, seq : Nat, text : Texts]

Sending == {"emitting", "finishing", "failing"}
Phases  == Sending \cup {"scanning", "judging", "returning", "closed"}

StreamInit ==
    /\ responses \in BOOLEAN
    /\ ctx = "live"
    /\ helper = "running" /\ pipe = <<>> /\ emitted = 0
    /\ ready = FALSE /\ terminal = FALSE /\ previous = <<>> /\ completion = <<>>
    /\ rejected = FALSE
    /\ place = "scanning"
    /\ snapshot = <<>>
    /\ todo = <<>>
    /\ started = FALSE /\ sequence = 0 /\ wire = <<>>
    /\ accumulated = <<>>
    /\ client = "reading"
    /\ writeDeadline = FALSE

Goto(phase) == place' = phase

-----------------------------------------------------------------------------
(* The frames of streamEvents.                                             *)

Named(names) == [k \in DOMAIN names |-> [name |-> names[k], text |-> <<>>]]

Begin ==
    IF responses THEN Named(<<"created", "in_progress", "item_added", "part_added">>)
                 ELSE Named(<<"role">>)

Delta(text) == <<[name |-> "delta", text |-> text]>>

Done ==
    IF responses THEN Named(<<"text_done", "part_done", "item_done", "completed">>)
                 ELSE Named(<<"stop", "completed">>)

\* Mutant: an error is always written as the JSON body of a response.
Failure_Unframed == Named(<<"error_body">>)

\* Once the stream has started an error is one of its events.
Failure == IF started THEN Named(<<"failed">>) ELSE Named(<<"error_body">>)

-----------------------------------------------------------------------------
(* The callback of subproc.Scan.                                           *)

\* Mutant: a snapshot may revise what was streamed.
Extends_Longer(old, new) == Len(new) >= Len(old)

Extends(old, new) == IsPrefix(old, new)

\* The events that end the request with an error.
Refused(e) ==
    \/ terminal
    \/ e.kind \in {"unavailable", "error", "bad"}
    \/ e.kind = "available" /\ ready
    \/ e.kind = "snapshot" /\ (~ready \/ ~Extends(previous, e.text))
    \/ e.kind = "complete" /\ (~ready \/ e.text = <<>> \/ e.text # previous)

\* Scan kills the helper and drops what it wrote.
Abort ==
    /\ helper' = IF helper = "running" THEN "killed" ELSE helper
    /\ pipe' = <<>>
    /\ UNCHANGED emitted

\* The callback's error ends the scan and is the request's.
RejectEvent ==
    /\ rejected' = TRUE
    /\ Abort
    /\ Goto("judging")
    /\ UNCHANGED <<responses, ctx, ready, terminal, previous, completion, snapshot, todo, stream,
                   accumulated, client, writeDeadline>>

RefuseEvent ==
    /\ place = "scanning"
    /\ pipe # <<>>
    /\ Refused(Head(pipe))
    /\ RejectEvent

\* A line that is in order, of the kind.
Reads(kind) ==
    /\ place = "scanning"
    /\ pipe # <<>>
    /\ ~Refused(Head(pipe))
    /\ Head(pipe).kind = kind

Take ==
    /\ pipe' = Tail(pipe)
    /\ UNCHANGED <<responses, ctx, helper, emitted, rejected, stream, accumulated,
                   client, writeDeadline>>

Available ==
    /\ Reads("available")
    /\ Take
    /\ ready' = TRUE
    /\ UNCHANGED <<terminal, previous, completion, place, snapshot, todo>>

\* What a snapshot adds to the text.
Grown == SubSeq(Head(pipe).text, Len(previous) + 1, Len(Head(pipe).text))

\* A snapshot that adds nothing is not sent on.
Repeat ==
    /\ Reads("snapshot")
    /\ Grown = <<>>
    /\ Take
    /\ previous' = Head(pipe).text
    /\ UNCHANGED <<ready, terminal, completion, place, snapshot, todo>>

\* The growth of a snapshot is handed to the server while the context lives.
Emit ==
    /\ Reads("snapshot")
    /\ Grown # <<>>
    /\ ctx = "live"
    /\ Take
    /\ snapshot' = Head(pipe).text
    /\ todo' = (IF started THEN <<>> ELSE Begin) \o Delta(Grown)
    /\ Goto("emitting")
    /\ UNCHANGED <<ready, terminal, previous, completion>>

EmitLate ==
    /\ Reads("snapshot")
    /\ Grown # <<>>
    /\ ctx = "done"
    /\ RejectEvent

Complete ==
    /\ Reads("complete")
    /\ Take
    /\ terminal' = TRUE
    /\ completion' = Head(pipe).text
    /\ UNCHANGED <<ready, previous, place, snapshot, todo>>

-----------------------------------------------------------------------------
(* The end of the scan, and what the handler makes of it.                  *)

ScanEnds ==
    /\ place = "scanning"
    /\ pipe = <<>>
    /\ helper # "running"
    /\ Goto("judging")
    /\ UNCHANGED <<responses, ctx, process, protocol, snapshot, todo, stream, accumulated,
                   client, writeDeadline>>

ScanExpires ==
    /\ place = "scanning"
    /\ ctx = "done"
    /\ Abort
    /\ Goto("judging")
    /\ UNCHANGED <<responses, ctx, protocol, snapshot, todo, stream, accumulated,
                   client, writeDeadline>>

\* Mutant: the helper's exit status is not looked at.
Succeeded_NoExit == ctx = "live" /\ ~rejected /\ terminal /\ completion = accumulated

\* invoke's checks in their order, then streamPrepared's.
Succeeded ==
    /\ ctx = "live"
    /\ ~rejected
    /\ helper = "exited"
    /\ terminal
    /\ completion = accumulated

Conclude ==
    /\ place = "judging"
    /\ \/ Succeeded /\ todo' = Done /\ Goto("finishing")
       \/ ~Succeeded /\ todo' = Failure /\ Goto("failing")
    /\ UNCHANGED <<responses, ctx, process, protocol, snapshot, stream, accumulated,
                   client, writeDeadline>>

-----------------------------------------------------------------------------
(* streamEvents.send.                                                      *)

\* The last frame of a delta completes the callback, that of an ending the request.
Sent ==
    IF Len(todo) > 1
    THEN UNCHANGED <<place, previous, accumulated>>
    ELSE IF place = "emitting"
    THEN /\ Goto("scanning")
         /\ previous' = snapshot
         /\ accumulated' = accumulated \o Head(todo).text
    ELSE Goto("returning") /\ UNCHANGED <<previous, accumulated>>

\* Only frames of the Responses API are numbered; a JSON body is no frame.
Numbered ==
    LET frame == Head(todo).name # "error_body" IN
    /\ started' = (started \/ frame)
    /\ sequence' = sequence + (IF responses /\ frame THEN 1 ELSE 0)

SendFrame ==
    /\ todo # <<>>
    /\ client = "reading"
    /\ ~writeDeadline
    /\ wire' = Append(wire, [name |-> Head(todo).name, seq |-> sequence, text |-> Head(todo).text])
    /\ Numbered
    /\ todo' = Tail(todo)
    /\ Sent
    /\ UNCHANGED <<responses, ctx, process, ready, terminal, completion, rejected, snapshot,
                   client, writeDeadline>>

Dropped == <<>>

\* The write fails: nothing more of this batch is sent.  Inside the callback
\* the request is cancelled and the scan aborted.
SendFails ==
    /\ todo # <<>>
    /\ client = "gone" \/ writeDeadline
    /\ Numbered
    /\ todo' = Dropped
    /\ \/ /\ place = "emitting"
          /\ ctx' = "done"
          /\ rejected' = TRUE
          /\ Abort
          /\ Goto("judging")
       \/ /\ place # "emitting"
          /\ Goto("returning")
          /\ UNCHANGED <<ctx, rejected, process>>
    /\ UNCHANGED <<responses, ready, terminal, previous, completion, snapshot, wire, accumulated,
                   client, writeDeadline>>

\* Mutant: the end of the context does not reach the connection.
WriteDeadline_Unarmed == FALSE

\* The context's AfterFunc, or the deadline set when the stream began.
WriteDeadline ==
    /\ ctx = "done"
    /\ place # "closed"
    /\ ~writeDeadline
    /\ writeDeadline' = TRUE
    /\ UNCHANGED <<responses, ctx, process, protocol, place, snapshot, todo, stream, accumulated,
                   client>>

\* The deferred calls: the write deadline is lifted, the context cancelled.
Return ==
    /\ place = "returning"
    /\ ctx' = "done"
    /\ writeDeadline' = FALSE
    /\ Goto("closed")
    /\ UNCHANGED <<responses, process, protocol, snapshot, todo, stream, accumulated,
                   client>>

-----------------------------------------------------------------------------
(* The helper, the client and the clock.                                   *)

Speak(e) ==
    /\ helper = "running"
    /\ emitted < MaxEvents
    /\ Len(pipe) < PipeSize
    /\ pipe' = Append(pipe, e)
    /\ emitted' = emitted + 1
    /\ UNCHANGED <<responses, ctx, helper, protocol, place, snapshot, todo, stream, accumulated,
                   client, writeDeadline>>

HelperExits(how) ==
    /\ helper = "running"
    /\ helper' = how
    /\ UNCHANGED <<responses, ctx, pipe, emitted, protocol, place, snapshot, todo, stream,
                   accumulated, client, writeDeadline>>

Client(mood) ==
    /\ client # "gone"
    /\ client # mood
    /\ client' = mood
    /\ UNCHANGED <<responses, ctx, process, protocol, place, snapshot, todo, stream, accumulated,
                   writeDeadline>>

Expire ==
    /\ ctx = "live"
    /\ ctx' = "done"
    /\ UNCHANGED <<responses, process, protocol, place, snapshot, todo, stream, accumulated,
                   client, writeDeadline>>

-----------------------------------------------------------------------------

Handler ==
    \/ RefuseEvent \/ Available \/ Repeat \/ Emit \/ EmitLate \/ Complete \/ ScanEnds \/ ScanExpires
    \/ Conclude \/ SendFrame \/ SendFails \/ Return

StreamNext ==
    \/ Handler \/ WriteDeadline \/ Expire
    \/ \E e \in Events : Speak(e)
    \/ \E how \in {"exited", "failed"} : HelperExits(how)
    \/ \E mood \in {"reading", "stalled", "gone"} : Client(mood)

StreamSpec == StreamInit /\ [][StreamNext]_streamVars

\* hollis goes on and the request has a deadline; client and helper owe nothing,
\* but that no process that left the helper's group keeps the request it was
\* sent unread: for such a one Scan would wait beyond the deadline (Subproc).
StreamFairness == WF_streamVars(Handler) /\ WF_streamVars(WriteDeadline) /\ WF_streamVars(Expire)

FairStreamSpec == StreamSpec /\ StreamFairness

-----------------------------------------------------------------------------
(* Properties.                                                             *)

\* Every variable has its type; frames wait only where they are being sent.
StreamTypeOK ==
    /\ responses \in BOOLEAN
    /\ ctx \in {"live", "done"}
    /\ helper \in {"running", "exited", "failed", "killed"}
    /\ pipe \in Seq(Events) /\ Len(pipe) <= PipeSize
    /\ emitted \in Nat
    /\ ready \in BOOLEAN /\ terminal \in BOOLEAN /\ rejected \in BOOLEAN
    /\ previous \in Texts /\ completion \in Texts /\ snapshot \in Texts /\ accumulated \in Texts
    /\ place \in Phases
    /\ todo \in Seq([name : FrameNames, text : Texts])
    /\ todo # <<>> <=> place \in Sending
    /\ started \in BOOLEAN
    /\ sequence \in Nat
    /\ wire \in Seq(Frames)
    /\ client \in {"reading", "stalled", "gone"}
    /\ writeDeadline \in BOOLEAN

\* The text the client has put together from the deltas.
Shown == FlattenSeq([k \in DOMAIN wire |-> IF wire[k].name = "delta" THEN wire[k].text ELSE <<>>])

\* What was streamed is never revised: it is what the last accepted snapshot
\* said, or, while a delta is under way, on the way to the next one.
NeverRevised == Shown \in {previous, snapshot} /\ IsPrefix(Shown, snapshot)

\* A client that is told the answer is complete has all of it, exactly once
\* and in order, from a helper that said so last and ended well.
CompleteIsWhole ==
    (\E k \in DOMAIN wire : wire[k].name = "completed") =>
        /\ Shown = completion /\ completion # <<>>
        /\ terminal /\ helper = "exited" /\ ~rejected

\* A response is an opening, deltas and one ending, or a part of it from the
\* start; nothing follows an ending; an error before the opening is the whole
\* response.  The frames of the Responses API are numbered without a gap.
WireInOrder ==
    LET ends  == {"completed", "failed", "error_body"}
        names == [k \in DOMAIN wire |-> wire[k].name]
        open  == [k \in DOMAIN Begin |-> Begin[k].name]
        rest  == SubSeq(names, Len(open) + 1, Len(names)) IN
    /\ responses => \A k \in DOMAIN wire : wire[k].seq = k - 1
    /\ \A k \in DOMAIN wire : names[k] \in ends => k = Len(wire)
    /\ \/ IsPrefix(names, open)
       \/ names = <<"error_body">>
       \/ /\ IsPrefix(open, names)
          /\ \E d \in 1..Len(rest) :
               /\ \A k \in 1..d : rest[k] = "delta"
               /\ LET end == SubSeq(rest, d + 1, Len(rest)) IN
                  \/ end = <<"failed">>
                  \/ IsPrefix(end, [k \in DOMAIN Done |-> Done[k].name])

\* Every request ends, though the helper hangs and the client stops reading:
\* the callback that is stuck in a write is not waited for beyond the deadline.
RequestEnds == <>(place = "closed")
=============================================================================
