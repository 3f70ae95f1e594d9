---------------------------- MODULE UploadProofs ----------------------------
(***************************************************************************)
(* Machine-checked proofs about Upload, for files and chunks of any size,  *)
(* any number of overlapping handlers and attempts, and any faults.        *)
(***************************************************************************)
EXTENDS Upload, TLAPS

\* Uploader.mu: a handler in a critical section holds it.
MutexHeld == \A r \in Slots : handler[r] \in Locked => mu = r

\* Until Create has returned there is no state file, and nobody else knows
\* the upload.
CreateIsAlone ==
    client \in {"create", "created"} =>
        /\ ~hasState
        /\ \A r \in Slots : handler[r] = "idle"

\* The client waits for a PATCH it has sent, within its attempts.
ClientKnows ==
    /\ client = "patching" => current \in Slots
    /\ client \in {"patching", "mute_patch", "head"} => attempt <= MaxAttempts

\* A body lies within the file, and while it is copied the partial file ends
\* where the handler reads and writes.
BodyFits ==
    \A r \in Slots :
        /\ handler[r] \in {"queued", "copy"} => at[r] <= end[r]
        /\ handler[r] = "copy" => Len(part) = at[r] /\ pos = at[r]

\* What Finish knows: behind the comparison of the hashes the partial file is
\* the file, and behind the move the target is.
FinishKnows ==
    \A r \in Slots :
        /\ handler[r] \in {"place", "copy_target"} => part = Source
        /\ handler[r] = "copy_target" => hasTarget
        /\ handler[r] = "forget" => hasTarget /\ targetFile = Source

\* An upload that is finished is over: its state is gone for good, and
\* with it every way into the critical sections that write the target.
FinishedIsOver ==
    client = "ok" \/ (\E r \in Slots : handler[r] = "done") =>
        /\ client \notin {"create", "created"}
        /\ ~hasState
        /\ \A r \in Slots : handler[r] \notin Locked
        /\ hasTarget
        /\ targetFile = Source

Inv ==
    /\ TypeOK
    /\ MutexHeld
    /\ CreateIsAlone
    /\ ClientKnows
    /\ BodyFits
    /\ FinishKnows
    /\ FinishedIsOver
    /\ PartIsPrefix
    /\ TargetIsSource

USE SizesAssumption, SlotsAssumption
    DEF ClientPhases, ClientEnded, Mute, HandlerPhases, Locked, Answers

\* The content the app sends is a sequence of numbers of its length.
LEMMA SourceFacts ==
    /\ Source \in Seq(0 .. Length)
    /\ Len(Source) = Length
    /\ \A i \in 1 .. Length : Source[i] = i
BY DEF Source

\* An empty partial file is the beginning of every file.
LEMMA EmptyFacts ==
    /\ <<>> \in Seq(0 .. Length)
    /\ Len(<<>>) = 0
    /\ part = <<>> => PartIsPrefix
    /\ part' = <<>> => PartIsPrefix'
BY DEF PartIsPrefix

\* A write at the end of the partial file appends.
LEMMA WriteAtEnd ==
    ASSUME part \in Seq(0 .. Length), pos = Len(part), NEW b \in 0 .. Length
    PROVE  /\ Written(b) \in Seq(0 .. Length)
           /\ Len(Written(b)) = pos + 1
           /\ Written(b)[pos + 1] = b
           /\ \A i \in 1 .. Len(part) : Written(b)[i] = part[i]
<1>1. pos \in Nat /\ \A i \in 1 .. pos : part[i] \in 0 .. Length
  OBVIOUS
<1>2. Written(b) = [i \in 1 .. pos + 1 |-> IF i = pos + 1 THEN b ELSE part[i]]
  BY <1>1 DEF Written
<1>3. \A i \in 1 .. pos + 1 : (IF i = pos + 1 THEN b ELSE part[i]) \in 0 .. Length
  BY <1>1
<1>4. Written(b) \in [1 .. pos + 1 -> 0 .. Length]
  BY <1>2, <1>3
<1>5. Written(b) \in Seq(0 .. Length) /\ Len(Written(b)) = pos + 1
  BY <1>1, <1>4
<1>6. QED
  BY <1>1, <1>2, <1>5

\* There is no upload at first.
LEMMA InitInv == Init => Inv
<1> SUFFICES ASSUME Init PROVE Inv
  OBVIOUS
<1>1. sum \in [Slots -> Seq(0 .. Length)] /\ {part, targetFile} \subseteq Seq(0 .. Length)
  BY EmptyFacts DEF Init
<1>2. TypeOK
  <2>1. /\ offset \in 0 .. Length /\ attempt \in 1 .. MaxAttempts + 1
        /\ pos \in 0 .. Length
        /\ at \in [Slots -> 0 .. Length] /\ end \in [Slots -> 0 .. Length]
    BY DEF Init
  <2>2. handler \in [Slots -> HandlerPhases] /\ client \in ClientPhases
    BY DEF Init
  <2>3. QED
    BY <1>1, <2>1, <2>2 DEF Init, TypeOK
<1>3. PartIsPrefix
  BY EmptyFacts DEF Init
<1>4. QED
  BY <1>2, <1>3 DEF Init, Inv, MutexHeld, CreateIsAlone, ClientKnows, BodyFits,
     FinishKnows, FinishedIsOver, TargetIsSource

\* Every step of the client, of a handler or of the daemon preserves it.
LEMMA NextInv == Inv /\ [Next]_vars => Inv'
<1> SUFFICES ASSUME Inv, [Next]_vars PROVE Inv'
  OBVIOUS
<1> USE DEF Inv, TypeOK, MutexHeld, CreateIsAlone, ClientKnows, BodyFits,
        FinishKnows, FinishedIsOver, PartIsPrefix, TargetIsSource,
        clientVars, handlerVars, fileVars
<1>1. CASE CreatePart
  BY <1>1 DEF CreatePart
<1>2. CASE CreateState
  BY <1>2 DEF CreateState
<1>3. ASSUME NEW r \in Slots, SendChunk(r) PROVE Inv'
  BY <1>3 DEF SendChunk, ChunkEnd
<1>4. CASE GiveUp
  BY <1>4 DEF GiveUp
<1>5. CASE ReceiveAnswer
  BY <1>5 DEF ReceiveAnswer
<1>6. CASE HeadOffset
  BY <1>6 DEF HeadOffset
<1>7. CASE Refused
  BY <1>7 DEF Refused
<1>8. CASE Silence \/ PatchFails
  <2>1. /\ client \notin {"created", "ok"}
        /\ client' \in {"mute_patch", "mute", "head"}
        /\ client \in {"patching", "mute_patch", "head"} \/ client' = "mute"
        /\ current' = NoSlot
        /\ UNCHANGED <<offset, attempt, handlerVars, fileVars, up>>
    BY <1>8 DEF Silence, PatchFails
  <2>2. TypeOK'
    BY <2>1
  <2>3. PartIsPrefix' /\ TargetIsSource'
    BY <2>1
  <2>4. MutexHeld' /\ BodyFits' /\ FinishKnows'
    BY <2>1
  <2>5. CreateIsAlone' /\ ClientKnows'
    BY <2>1
  <2>6. FinishedIsOver'
    BY <2>1
  <2>7. QED
    BY <2>2, <2>3, <2>4, <2>5, <2>6
<1>9. CASE RequestLost
  BY <1>9 DEF RequestLost
<1>10. ASSUME NEW r \in Slots, BeginWrite(r) PROVE Inv'
  <2>1. /\ handler[r] = "queued" /\ mu = NoSlot
        /\ UNCHANGED <<clientVars, at, end, sum, up, fileVars>>
    BY <1>10 DEF BeginWrite, Go
  <2>2. CASE /\ Len(part) = at[r] /\ handler' = [handler EXCEPT ![r] = "copy"]
             /\ hasState /\ mu' = r /\ pos' = at[r]
    <3>1. TypeOK' /\ BodyFits'
      BY <2>1, <2>2
    <3>2. QED
      BY <2>1, <2>2, <3>1
  <2>3. CASE /\ \E to \in {"409", "500"} : handler' = [handler EXCEPT ![r] = to]
             /\ UNCHANGED <<mu, pos>>
    BY <2>1, <2>3
  <2>4. QED
    BY <1>10, <2>2, <2>3 DEF BeginWrite, Go, OffsetMatches
<1>11. ASSUME NEW r \in Slots, CopyByte(r) PROVE Inv'
  <2>1. /\ handler[r] = "copy" /\ mu = r /\ Len(part) = at[r] /\ pos = at[r]
        /\ at[r] < end[r] /\ end[r] <= Length /\ handler' = handler
        /\ at' = [at EXCEPT ![r] = @ + 1] /\ pos' = pos + 1
        /\ UNCHANGED <<clientVars, end, up, sum, mu, hasPart, hasState,
                       hasTarget, targetFile, torn>>
    BY <1>11 DEF CopyByte, Go
  <2>2. PICK b \in {0, Source[at[r] + 1]} : part' = Written(b)
    BY <1>11 DEF CopyByte
  <2>3. b \in 0 .. Length
    BY <2>1, SourceFacts
  <2>4. /\ part' \in Seq(0 .. Length) /\ Len(part') = at[r] + 1
        /\ part'[at[r] + 1] = b
        /\ \A i \in 1 .. Len(part) : part'[i] = part[i]
    BY <2>1, <2>2, <2>3, WriteAtEnd
  <2>5. TypeOK'
    BY <2>1, <2>4
  <2>6. PartIsPrefix'
    <3>1. at[r] \in Nat /\ Len(part') <= Length
      BY <2>1, <2>4
    <3>2. \A i \in 1 .. at[r] : part'[i] \in {0, Source[i]}
      BY <2>1, <2>4
    <3>3. \A i \in 1 .. at[r] + 1 : i \in 1 .. at[r] \/ i = at[r] + 1
      BY <3>1
    <3>4. QED
      BY <2>4, <3>1, <3>2, <3>3
  <2>7. \A q \in Slots : q # r => handler[q] \notin Locked
    BY <2>1
  <2>8. BodyFits' /\ FinishKnows'
    BY <2>1, <2>4, <2>7
  <2>9. QED
    BY <2>1, <2>5, <2>6, <2>8
<1>12. ASSUME NEW r \in Slots, EndCopy(r) PROVE Inv'
  BY <1>12 DEF EndCopy, Go
<1>13. ASSUME NEW r \in Slots, BreakCopy(r) PROVE Inv'
  BY <1>13 DEF BreakCopy, Go
<1>14. ASSUME NEW r \in Slots, BeginFinish(r) PROVE Inv'
  BY <1>14 DEF BeginFinish, Go
<1>15. ASSUME NEW r \in Slots, Verify(r) PROVE Inv'
  <2>1. /\ handler[r] = "verify" /\ mu = r
        /\ sum' = [sum EXCEPT ![r] = part]
        /\ UNCHANGED <<clientVars, at, end, pos, up, hasTarget, targetFile, torn>>
    BY <1>15 DEF Verify, Go
  <2>2. \A q \in Slots : q # r => handler[q] \notin Locked
    BY <2>1
  <2>3. CASE /\ part = Source /\ handler' = [handler EXCEPT ![r] = "place"]
             /\ UNCHANGED <<mu, fileVars>>
    BY <2>1, <2>2, <2>3
  <2>4. CASE /\ \E to \in {"422", "500"} : handler' = [handler EXCEPT ![r] = to]
             /\ mu' = NoSlot /\ part' = <<>>
             /\ hasPart' = FALSE /\ hasState' = FALSE
    <3>1. PartIsPrefix' /\ part' \in Seq(0 .. Length)
      BY <2>4, EmptyFacts
    <3>2. sum' \in [Slots -> Seq(0 .. Length)]
      BY <2>1
    <3>3. handler' \in [Slots -> HandlerPhases]
      BY <2>4
    <3>4. TypeOK'
      BY <2>1, <2>4, <3>1, <3>2, <3>3
    <3>5. QED
      BY <2>1, <2>2, <2>4, <3>1, <3>4
  <2>5. QED
    BY <1>15, <2>3, <2>4 DEF Verify, Go, HashMatches
<1>16. ASSUME NEW r \in Slots, Place(r) PROVE Inv'
  <2>1. /\ handler[r] = "place" /\ mu = r /\ part = Source
        /\ UNCHANGED <<clientVars, at, end, sum, pos, up, hasState, torn>>
    BY <1>16 DEF Place, Go
  <2>2. \A q \in Slots : q # r => handler[q] \notin Locked
    BY <2>1
  <2>3. CASE /\ handler' = [handler EXCEPT ![r] = "forget"]
             /\ hasTarget' /\ targetFile' = part
             /\ ~hasPart' /\ part' = <<>> /\ mu' = mu
    <3>1. TypeOK' /\ PartIsPrefix'
      BY <1>16, <2>1, <2>3, EmptyFacts DEF Place
    <3>2. QED
      BY <2>1, <2>2, <2>3, <3>1
  <2>4. CASE /\ handler' = [handler EXCEPT ![r] = "copy_target"]
             /\ hasTarget' /\ targetFile' = <<>>
             /\ UNCHANGED <<hasPart, part, mu>>
    <3>1. TypeOK' /\ PartIsPrefix'
      BY <1>16, <2>1, <2>4, EmptyFacts DEF Place
    <3>2. QED
      BY <2>1, <2>2, <2>4, <3>1
  <2>5. CASE /\ handler' = [handler EXCEPT ![r] = "500"] /\ mu' = NoSlot
             /\ UNCHANGED <<hasTarget, targetFile, hasPart, part>>
    BY <2>1, <2>2, <2>5
  <2>6. QED
    BY <1>16, <2>3, <2>4, <2>5 DEF Place, Go
<1>17. ASSUME NEW r \in Slots, CopyTarget(r) PROVE Inv'
  <2>1. /\ handler[r] = "copy_target" /\ mu = r /\ part = Source /\ hasTarget
        /\ UNCHANGED <<clientVars, at, end, sum, pos, up, hasState, hasTarget>>
    BY <1>17 DEF CopyTarget, Go
  <2>2. \A q \in Slots : q # r => handler[q] \notin Locked
    BY <2>1
  <2>3. CASE /\ handler' = [handler EXCEPT ![r] = "forget"]
             /\ targetFile' = part /\ ~hasPart' /\ part' = <<>>
             /\ UNCHANGED <<mu, torn>>
    <3>1. TypeOK' /\ PartIsPrefix'
      BY <1>17, <2>1, <2>3, EmptyFacts DEF CopyTarget
    <3>2. QED
      BY <2>1, <2>2, <2>3, <3>1
  <2>4. CASE /\ handler' = [handler EXCEPT ![r] = "500"] /\ mu' = NoSlot /\ torn'
             /\ UNCHANGED <<targetFile, hasPart, part>>
    <3>1. torn' \in BOOLEAN
      BY <1>17 DEF CopyTarget, Go
    <3>2. QED
      BY <2>1, <2>2, <2>4, <3>1
  <2>5. QED
    BY <1>17, <2>3, <2>4 DEF CopyTarget, Go
<1>18. ASSUME NEW r \in Slots, Forget(r) PROVE Inv'
  BY <1>18 DEF Forget, Go
<1>19. ASSUME NEW r \in Slots, Vanish(r) PROVE Inv'
  BY <1>19 DEF Vanish
<1>20. CASE Discard
  <2>1. TypeOK' /\ PartIsPrefix'
    BY <1>20, EmptyFacts DEF Discard
  <2>2. QED
    BY <1>20, <2>1 DEF Discard
<1>21. CASE DaemonCrash
  <2>1. TypeOK'
    <3>1. pos' \in 0 .. Length /\ sum' \in [Slots -> Seq(0 .. Length)]
      BY <1>21, EmptyFacts DEF DaemonCrash
    <3>2. QED
      BY <1>21, <3>1 DEF DaemonCrash
  <2>2. PartIsPrefix'
    BY <1>21 DEF DaemonCrash
  <2>3. TargetIsSource'
    BY <1>21 DEF DaemonCrash
  <2>4. FinishedIsOver'
    BY <1>21 DEF DaemonCrash
  <2>5. QED
    BY <1>21, <2>1, <2>2, <2>3, <2>4 DEF DaemonCrash
<1>22. CASE DaemonStart
  BY <1>22 DEF DaemonStart
<1>23. CASE UNCHANGED vars
  BY <1>23 DEF vars
<1>24. QED
  BY <1>1, <1>2, <1>3, <1>4, <1>5, <1>6, <1>7, <1>8, <1>9, <1>10, <1>11,
     <1>12, <1>13, <1>14, <1>15, <1>16, <1>17, <1>18, <1>19, <1>20, <1>21,
     <1>22, <1>23 DEF Next, ClientStep, HandlerStep

\* The invariant holds throughout.
LEMMA InvHolds == Spec => []Inv
BY InitInv, NextInv, PTL DEF Spec

-----------------------------------------------------------------------------
(***************************************************************************)
(* What follows from it.                                                   *)
(***************************************************************************)

\* Every variable keeps its type: no offset passes the length, and the
\* attempts of the app stay within maxAttempts.
THEOREM TypeCorrect == Spec => []TypeOK
<1>1. Inv => TypeOK
  BY DEF Inv
<1>2. QED
  BY <1>1, InvHolds, PTL

\* No byte lands in a wrong place, however PATCHes are retried, overlap or
\* break off (WriteChunk).
THEOREM PartialFileIsPrefix == Spec => []PartIsPrefix
<1>1. Inv => PartIsPrefix
  BY DEF Inv
<1>2. QED
  BY <1>1, InvHolds, PTL

\* No target but the whole file is ever put in place, up to a copy to another
\* filesystem that does not run to its end (Finish).
THEOREM TargetIsWhole == Spec => []TargetIsSource
<1>1. Inv => TargetIsSource
  BY DEF Inv
<1>2. QED
  BY <1>1, InvHolds, PTL

\* An upload the app reports as done is stored and stays stored: no handler
\* that is still running can write the target again (Finish removes the
\* state file last, upload.dart compares the checksum).
THEOREM SuccessIsStored == Spec => []OkMeansStored
<1>1. Inv => OkMeansStored
  BY DEF Inv, FinishedIsOver, OkMeansStored
<1>2. QED
  BY <1>1, InvHolds, PTL

=============================================================================
