------------------------------- MODULE Upload -------------------------------
(***************************************************************************)
(* One resumable upload: TusUploader.upload of the app talking to          *)
(* files.Uploader of the daemon over a network that loses requests and     *)
(* answers, and through crashes of the daemon.                             *)
(*                                                                         *)
(* The server keeps two files per upload, <id>.part and <id>.json, and one *)
(* mutex over all uploads.  A PATCH is two critical sections, WriteChunk   *)
(* and, after the last byte, Finish; HEAD takes no mutex.  The client      *)
(* sends one PATCH at a time but may give up on one whose handler is still *)
(* running, so that handlers overlap: Slots bounds how many.  No await of  *)
(* the client has a timeout: a loss that no error tells it of leaves it    *)
(* waiting.  Byte i of the file is the number i, and 0 is a byte that was  *)
(* damaged on its way.                                                     *)
(***************************************************************************)
EXTENDS Naturals, Sequences

CONSTANTS
    Length,        \* Upload-Length
    ChunkSize,     \* bytes per PATCH
    MaxAttempts,   \* maxAttempts of TusUploader
    Slots,         \* PATCH handlers that may exist at a time
    NoSlot,
    Faults

FaultKinds ==
    { "net",       \* a request or an answer is lost, and the client told
      "silence",   \* the same on a connection that is dead without an error
      "damage",    \* a byte changes between the file and the partial file
      "crash",     \* the daemon dies
      "disk",      \* a write to the partial file fails
      "xdev",      \* the target is on another filesystem
      "mkdir",     \* the directory of the target cannot be created
      "resolve",   \* the target no longer resolves inside a root
      "discard" }  \* somebody sends DELETE for the upload

ASSUME SizesAssumption ==
    /\ Length \in Nat
    /\ ChunkSize \in Nat \ {0}
    /\ MaxAttempts \in Nat \ {0}
ASSUME SlotsAssumption == NoSlot \notin Slots
ASSUME FaultsAssumption == Faults \subseteq FaultKinds

VARIABLES
    client,       \* where TusUploader.upload is, or how it ended
    offset,       \* its variable offset
    attempt,      \* its variable attempt
    current,      \* the PATCH it waits for
    handler,      \* Slots -> where the PATCH handler is, or its answer
    at,           \* Slots -> offset the handler has read its body up to
    end,          \* Slots -> offset at which its body ends
    sum,          \* Slots -> what the handler hashed, to be returned
    mu,           \* the slot that holds Uploader.mu
    pos,          \* position in the partial file that its holder has open
    hasPart,      \* <id>.part exists
    part,         \* its content
    hasState,     \* <id>.json exists
    hasTarget,    \* the target file exists
    targetFile,   \* its content
    torn,         \* history: a copy to the target did not run to its end
    up            \* the daemon is running

clientVars == <<client, offset, attempt, current>>
handlerVars == <<handler, at, end, sum, mu, pos>>
fileVars == <<hasPart, part, hasState, hasTarget, targetFile, torn>>
vars == <<clientVars, handlerVars, fileVars, up>>

ClientEnded == {"ok", "mismatch", "unfinished", "failed"}
\* Waiting for what will not come: "mute_patch" in the try of the loop, where
\* an exception leads to a HEAD, "mute" in _create and _headOffset.
Mute == {"mute", "mute_patch"}
ClientPhases ==
    {"create", "created", "loop", "patching", "head"} \cup Mute \cup ClientEnded
Answers == {"204", "done", "409", "422", "500"}
\* The phases in which a handler holds the mutex.
Locked == {"copy", "verify", "place", "copy_target", "forget"}
HandlerPhases == {"idle", "queued", "finish"} \cup Locked \cup Answers

Source == [i \in 1 .. Length |-> i]

TypeOK ==
    /\ client \in ClientPhases
    /\ offset \in 0 .. Length
    /\ attempt \in 1 .. MaxAttempts + 1
    /\ current \in Slots \cup {NoSlot}
    /\ handler \in [Slots -> HandlerPhases]
    /\ at \in [Slots -> 0 .. Length]
    /\ end \in [Slots -> 0 .. Length]
    /\ sum \in [Slots -> Seq(0 .. Length)]
    /\ mu \in Slots \cup {NoSlot}
    /\ pos \in 0 .. Length
    /\ hasPart \in BOOLEAN
    /\ part \in Seq(0 .. Length)
    /\ hasState \in BOOLEAN
    /\ hasTarget \in BOOLEAN
    /\ targetFile \in Seq(0 .. Length)
    /\ torn \in BOOLEAN
    /\ up \in BOOLEAN

Init ==
    /\ client = "create"
    /\ offset = 0
    /\ attempt = 1
    /\ current = NoSlot
    /\ handler = [r \in Slots |-> "idle"]
    /\ at = [r \in Slots |-> 0]
    /\ end = [r \in Slots |-> 0]
    /\ sum = [r \in Slots |-> <<>>]
    /\ mu = NoSlot
    /\ pos = 0
    /\ hasPart = FALSE
    /\ part = <<>>
    /\ hasState = FALSE
    /\ hasTarget = FALSE
    /\ targetFile = <<>>
    /\ torn = FALSE
    /\ up = TRUE

-----------------------------------------------------------------------------
(***************************************************************************)
(* Uploader.Create.  The app does not retry it.                            *)
(***************************************************************************)

CreatePart ==
    /\ up
    /\ client = "create"
    /\ mu = NoSlot
    /\ client' = "created"
    /\ hasPart' = TRUE
    /\ UNCHANGED <<offset, attempt, current, handlerVars, part, hasState,
                   hasTarget, targetFile, torn, up>>

\* The answer with the location of the upload may be lost.
CreateState ==
    /\ up
    /\ client = "created"
    /\ \/ client' = "loop"
       \/ "net" \in Faults /\ client' = "failed"
       \/ "silence" \in Faults /\ client' = "mute"
    /\ hasState' = TRUE
    /\ UNCHANGED <<offset, attempt, current, handlerVars, hasPart, part,
                   hasTarget, targetFile, torn, up>>

-----------------------------------------------------------------------------
(***************************************************************************)
(* TusUploader.upload, from the first chunk on.                            *)
(***************************************************************************)

ChunkEnd(o) == IF o + ChunkSize < Length THEN o + ChunkSize ELSE Length

\* The body of the inner loop: the next chunk goes out.
SendChunk(r) ==
    /\ up
    /\ client = "loop"
    /\ offset < Length
    /\ attempt <= MaxAttempts
    /\ handler[r] = "idle"
    /\ client' = "patching"
    /\ current' = r
    /\ handler' = [handler EXCEPT ![r] = "queued"]
    /\ at' = [at EXCEPT ![r] = offset]
    /\ end' = [end EXCEPT ![r] = ChunkEnd(offset)]
    /\ UNCHANGED <<offset, attempt, sum, mu, pos, fileVars, up>>

\* Both loops are over without a finishing response.
GiveUp ==
    /\ client = "loop"
    /\ offset >= Length \/ attempt > MaxAttempts
    /\ client' = "unfinished"
    /\ UNCHANGED <<offset, attempt, current, handlerVars, fileVars, up>>

\* 204 moves the offset on.  The response that reaches the length carries the
\* hash the server computed, which the client compares with its own; a 422 is
\* such a response too.  Anything else is an exception and leads to a HEAD.
ReceiveAnswer ==
    LET answer == handler[current] IN
    /\ client = "patching"
    /\ \/ /\ answer = "204"
          /\ client' = "loop"
          /\ offset' = end[current]
       \/ /\ answer \in {"done", "422"}
          /\ client' = IF answer = "done" /\ sum[current] = Source
                       THEN "ok" ELSE "mismatch"
          /\ offset' = Length
       \/ /\ answer \in {"409", "500"}
          /\ client' = "head"
          /\ UNCHANGED offset
    /\ handler' = [handler EXCEPT ![current] = "idle"]
    /\ sum' = [sum EXCEPT ![current] = <<>>]
    /\ current' = NoSlot
    /\ UNCHANGED <<attempt, at, end, mu, pos, fileVars, up>>

\* The connection dies without an error.  Nothing in the app ends the wait;
\* the operating system may, later, with an exception.
Silence ==
    /\ "silence" \in Faults
    /\ \/ client = "patching" /\ client' = "mute_patch"
       \/ client \in {"create", "head"} /\ client' = "mute"
    /\ current' = NoSlot
    /\ UNCHANGED <<offset, attempt, handlerVars, fileVars, up>>

\* A PATCH without an answer: an exception inside the try.  The handler, if
\* there is one, does not know.
PatchFails ==
    /\ \/ client = "patching" /\ "net" \in Faults
       \/ client = "mute_patch"
    /\ client' = "head"
    /\ current' = NoSlot
    /\ UNCHANGED <<offset, attempt, handlerVars, fileVars, up>>

\* Nobody listens while the daemon is down.  In _create and _headOffset the
\* exception ends the upload.
Refused ==
    /\ ~up
    /\ \/ /\ client = "loop" /\ offset < Length /\ attempt <= MaxAttempts
          /\ client' = "head"
       \/ /\ client \in {"create", "head"}
          /\ client' = "failed"
    /\ UNCHANGED <<offset, attempt, current, handlerVars, fileVars, up>>

\* Mutant: a resync does not count as an attempt.
HeadOffsetUncounted ==
    /\ client = "head"
    /\ up
    /\ \/ /\ hasState /\ hasPart
          /\ client' = "loop"
          /\ offset' = Len(part)
       \/ /\ ~(hasState /\ hasPart)
          /\ client' = "failed"
          /\ UNCHANGED offset
    /\ UNCHANGED <<attempt, current, handlerVars, fileVars, up>>

\* Offset(id): the size of the partial file, read without the mutex; an
\* upload without state or partial file is a 404, which ends the upload.
HeadOffset ==
    /\ client = "head"
    /\ up
    /\ attempt' = attempt + 1
    /\ \/ /\ hasState /\ hasPart
          /\ client' = "loop"
          /\ offset' = Len(part)
       \/ /\ ~(hasState /\ hasPart)
          /\ client' = "failed"
          /\ UNCHANGED offset
    /\ UNCHANGED <<current, handlerVars, fileVars, up>>

\* The request or the answer of _create or _headOffset is lost.
RequestLost ==
    /\ \/ client \in {"create", "head"} /\ "net" \in Faults
       \/ client = "mute"
    /\ client' = "failed"
    /\ UNCHANGED <<offset, attempt, current, handlerVars, fileVars, up>>

-----------------------------------------------------------------------------
(***************************************************************************)
(* The PATCH handler.                                                      *)
(***************************************************************************)

Go(r, from, to) ==
    /\ up
    /\ handler[r] = from
    /\ handler' = [handler EXCEPT ![r] = to]
    /\ UNCHANGED <<clientVars, end, up>>

\* What WriteChunk requires of the offset in the request.
OffsetMatches(r) == Len(part) = at[r]

\* Mutant: without Seek the file is written from its beginning.
BeginWriteUnsought(r) ==
    /\ mu = NoSlot
    /\ \/ /\ hasState /\ hasPart /\ OffsetMatches(r)
          /\ Go(r, "queued", "copy")
          /\ mu' = r
          /\ pos' = 0
       \/ /\ hasState /\ hasPart /\ ~OffsetMatches(r)
          /\ Go(r, "queued", "409")
          /\ UNCHANGED <<mu, pos>>
       \/ /\ ~(hasState /\ hasPart)
          /\ Go(r, "queued", "500")
          /\ UNCHANGED <<mu, pos>>
    /\ UNCHANGED <<at, sum, fileVars>>

\* WriteChunk up to the copy: the lock, the state, the offset and the seek.
BeginWrite(r) ==
    /\ mu = NoSlot
    /\ \/ /\ hasState /\ hasPart /\ OffsetMatches(r)
          /\ Go(r, "queued", "copy")
          /\ mu' = r
          /\ pos' = at[r]
       \/ /\ hasState /\ hasPart /\ ~OffsetMatches(r)
          /\ Go(r, "queued", "409")
          /\ UNCHANGED <<mu, pos>>
       \/ /\ ~(hasState /\ hasPart)
          /\ Go(r, "queued", "500")
          /\ UNCHANGED <<mu, pos>>
    /\ UNCHANGED <<at, sum, fileVars>>

\* write(2): the byte at the position is replaced, or the file grows by it.
Written(b) ==
    [i \in 1 .. (IF pos < Len(part) THEN Len(part) ELSE pos + 1) |->
        IF i = pos + 1 THEN b ELSE part[i]]

\* io.Copy, a byte at a time, with the mutex held.
CopyByte(r) ==
    /\ Go(r, "copy", "copy")
    /\ at[r] < end[r]
    /\ \/ part' = Written(Source[at[r] + 1])
       \/ "damage" \in Faults /\ part' = Written(0)
    /\ at' = [at EXCEPT ![r] = @ + 1]
    /\ pos' = pos + 1
    /\ UNCHANGED <<sum, mu, hasPart, hasState, hasTarget, targetFile, torn>>

\* The body ends; with the declared length reached, Finish comes next.
EndCopy(r) ==
    /\ at[r] = end[r]
    /\ Go(r, "copy", IF at[r] = Length THEN "finish" ELSE "204")
    /\ mu' = NoSlot
    /\ pos' = 0
    /\ UNCHANGED <<at, sum, fileVars>>

\* The copy fails: the client gave the request up, or a write failed.  The
\* bytes that were written stay.
BreakCopy(r) ==
    /\ current # r \/ "disk" \in Faults
    /\ Go(r, "copy", "500")
    /\ mu' = NoSlot
    /\ pos' = 0
    /\ UNCHANGED <<at, sum, fileVars>>

\* Finish takes the mutex anew; another handler may have been in between.
BeginFinish(r) ==
    /\ mu = NoSlot
    /\ \/ hasState /\ hasPart /\ Go(r, "finish", "verify") /\ mu' = r
       \/ ~(hasState /\ hasPart) /\ Go(r, "finish", "500") /\ UNCHANGED mu
    /\ UNCHANGED <<at, sum, pos, fileVars>>

\* Mutant: the length is taken for the hash.
LengthMatches == Len(part) = Length

\* The hash of the partial file is the one the client declared.
HashMatches == part = Source

\* A mismatch discards both files, and so does a target path that does not
\* resolve any more.
Verify(r) ==
    /\ \/ /\ HashMatches
          /\ Go(r, "verify", "place")
          /\ UNCHANGED <<mu, fileVars>>
       \/ /\ \/ ~HashMatches /\ Go(r, "verify", "422")
             \/ HashMatches /\ "resolve" \in Faults /\ Go(r, "verify", "500")
          /\ mu' = NoSlot
          /\ hasPart' = FALSE
          /\ part' = <<>>
          /\ hasState' = FALSE
          /\ UNCHANGED <<hasTarget, targetFile, torn>>
    /\ sum' = [sum EXCEPT ![r] = part]
    /\ UNCHANGED <<at, pos>>

\* Mutant: the error of the move is ignored.
PlaceIgnoringError(r) ==
    /\ Go(r, "place", "forget")
    /\ \/ hasTarget' = TRUE /\ targetFile' = part
       \/ "mkdir" \in Faults /\ UNCHANGED <<hasTarget, targetFile>>
    /\ hasPart' = FALSE
    /\ part' = <<>>
    /\ UNCHANGED <<at, sum, mu, pos, hasState, torn>>

\* rename(2), or across filesystems the truncation of the target that copyFile
\* begins with.
Place(r) ==
    /\ \/ /\ Go(r, "place", "forget")
          /\ hasTarget' = TRUE
          /\ targetFile' = part
          /\ hasPart' = FALSE
          /\ part' = <<>>
          /\ UNCHANGED mu
       \/ /\ "xdev" \in Faults
          /\ Go(r, "place", "copy_target")
          /\ hasTarget' = TRUE
          /\ targetFile' = <<>>
          /\ UNCHANGED <<hasPart, part, mu>>
       \/ /\ "mkdir" \in Faults
          /\ Go(r, "place", "500")
          /\ mu' = NoSlot
          /\ UNCHANGED <<hasTarget, targetFile, hasPart, part>>
    /\ UNCHANGED <<at, sum, pos, hasState, torn>>

\* The rest of copyFile, and the removal of the partial file.  A copy that
\* fails keeps both files, the partial one and the truncated target.
CopyTarget(r) ==
    /\ \/ /\ Go(r, "copy_target", "forget")
          /\ targetFile' = part
          /\ hasPart' = FALSE
          /\ part' = <<>>
          /\ UNCHANGED <<mu, torn>>
       \/ /\ "disk" \in Faults
          /\ Go(r, "copy_target", "500")
          /\ mu' = NoSlot
          /\ torn' = TRUE
          /\ UNCHANGED <<targetFile, hasPart, part>>
    /\ UNCHANGED <<at, sum, pos, hasState, hasTarget>>

\* The state file goes last.
Forget(r) ==
    /\ Go(r, "forget", "done")
    /\ mu' = NoSlot
    /\ hasState' = FALSE
    /\ UNCHANGED <<at, sum, pos, hasPart, part, hasTarget, targetFile, torn>>

\* The request never reached the daemon, or nobody reads the answer.
Vanish(r) ==
    /\ current # r
    /\ handler[r] \in {"queued"} \cup Answers
    /\ handler' = [handler EXCEPT ![r] = "idle"]
    /\ sum' = [sum EXCEPT ![r] = <<>>]
    /\ UNCHANGED <<clientVars, at, end, mu, pos, fileVars, up>>

HandlerStep(r) ==
    \/ BeginWrite(r)
    \/ CopyByte(r)
    \/ EndCopy(r)
    \/ BeginFinish(r)
    \/ Verify(r)
    \/ Place(r)
    \/ CopyTarget(r)
    \/ Forget(r)

-----------------------------------------------------------------------------

\* DELETE /files/upload/{id}, by somebody who knows the identifier, that is
\* after Create has returned.
Discard ==
    /\ "discard" \in Faults
    /\ up
    /\ mu = NoSlot
    /\ hasState
    /\ hasPart' = FALSE
    /\ part' = <<>>
    /\ hasState' = FALSE
    /\ UNCHANGED <<clientVars, handlerVars, hasTarget, targetFile, torn, up>>

\* Handlers and the mutex die with the daemon; the files stay.  The client
\* sees its connection break.
DaemonCrash ==
    /\ "crash" \in Faults
    /\ up
    /\ up' = FALSE
    /\ handler' = [r \in Slots |-> "idle"]
    /\ sum' = [r \in Slots |-> <<>>]
    /\ mu' = NoSlot
    /\ pos' = 0
    /\ current' = NoSlot
    /\ client' = CASE client = "patching" -> "head"
                   [] client = "created" -> "failed"
                   [] OTHER -> client
    /\ torn' = (torn \/ \E r \in Slots : handler[r] = "copy_target")
    /\ UNCHANGED <<offset, attempt, at, end, hasPart, part, hasState,
                   hasTarget, targetFile>>

DaemonStart ==
    /\ ~up
    /\ up' = TRUE
    /\ UNCHANGED <<clientVars, handlerVars, fileVars>>

ClientStep ==
    \/ CreatePart
    \/ CreateState
    \/ \E r \in Slots : SendChunk(r)
    \/ GiveUp
    \/ ReceiveAnswer
    \/ HeadOffset
    \/ Refused

Next ==
    \/ ClientStep
    \/ Silence
    \/ PatchFails
    \/ RequestLost
    \/ \E r \in Slots : HandlerStep(r) \/ BreakCopy(r) \/ Vanish(r)
    \/ Discard
    \/ DaemonCrash
    \/ DaemonStart

Spec == Init /\ [][Next]_vars

\* The app takes its next step unless it waits for what will not come; the
\* handlers run; a body nobody sends any more breaks off; systemd restarts
\* the daemon.  Nothing makes a silent loss surface.
Fairness ==
    /\ WF_vars(ClientStep)
    /\ \A r \in Slots : WF_vars(HandlerStep(r)) /\ WF_vars(Vanish(r))
    /\ WF_vars(DaemonStart)

FairSpec == Spec /\ Fairness

-----------------------------------------------------------------------------
(***************************************************************************)
(* Properties.                                                             *)
(***************************************************************************)

\* However PATCHes are retried, overlap or break off, the partial file is
\* the beginning of the file, up to bytes damaged on the way: no byte lands in
\* a wrong place, whatever offsets the client took from HEAD (upload.go,
\* WriteChunk: offset test and seek under the mutex).
PartIsPrefix ==
    /\ Len(part) <= Length
    /\ \A i \in 1 .. Len(part) : part[i] \in {0, Source[i]}

\* A target that nobody is writing, and that no broken copy left behind, is
\* the whole file, byte for byte: damaged or overlapping chunks never get
\* there (upload.go, Finish).
TargetIsSource ==
    hasTarget /\ ~torn /\ (\A r \in Slots : handler[r] # "copy_target")
        => targetFile = Source

\* Once the app reports success the target is in place and stays there.
OkMeansStored == client = "ok" => hasTarget /\ targetFile = Source

\* Provided that no await of the app stays unanswered for ever (upload.dart
\* sets no timeout, so that a silent loss may leave it waiting), the app comes
\* to an end, whatever is lost, crashes or is discarded: retries are bounded
\* and every answer leads on.
ClientEnds == []<>(client \notin Mute) => <>(client \in ClientEnded)

\* The app never stops with an upload of which every byte has arrived
\* (upload.go, uploadState: an upload survives a daemon restart; upload.dart:
\* resume from wherever the server actually landed).
NeverGivesUpOnAllBytes == client = "unfinished" => offset < Length

=============================================================================
