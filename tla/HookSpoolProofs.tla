-------------------------- MODULE HookSpoolProofs ---------------------------
(* What a hook wrote and closed is either still in a file of the spool,    *)
(* applied, or refused, however the drainers and the hooks interleave, and a *)
(* line is applied again only as often as a drainer died between applying it *)
(* and recording that.                                                     *)
EXTENDS HookSpool, SequenceTheorems, TLAPS

QueueFile == file.queue
DrainFile == file.draining

DrainSteps == {"free", "choose", "read", "line", "mark", "reread", "truncate", "write", "unlink"}

\* What was read of the file still is what the file begins with.
Reading == {"line", "mark", "reread"}

\* The file has been read, and nothing of it was dropped.
Holding == Reading \cup {"truncate", "unlink"}

Drainers == [at : DrainSteps, seen : Seq(Lines), next : Nat \ {0}, done : Nat,
             left : Seq(Lines), known : Nat]

SpoolTyped ==
    /\ kind \in [Lines -> LineKinds]
    /\ there \subseteq {"queue", "draining"}
    /\ file \in [queue : Seq(Lines), draining : Seq(Lines)]
    /\ handle \in [Lines -> {"unborn", "queue", "draining", "unlinked", "closed"}]
    /\ drainer \in Drainers
    /\ applied \in [Lines -> 0 .. 3]
    /\ replays \in 0 .. 2

\* Only a file that exists has lines, or hooks that are about to write to it, and
\* the drainer that is at a file keeps it.
DrainFileExists ==
    /\ "draining" \notin there => DrainFile = <<>> /\ \A l \in Lines : handle[l] # "draining"
    /\ drainer.at \notin {"free", "choose"} => "draining" \in there

\* Hooks only append to what the drainer has read.
SeenIsPrefix ==
    drainer.at \in Reading =>
        /\ Len(drainer.seen) <= Len(DrainFile)
        /\ \A i \in 1 .. Len(drainer.seen) : DrainFile[i] = drainer.seen[i]
        /\ drainer.next <= Len(drainer.seen) + 1
        /\ drainer.at = "mark" => drainer.next <= Len(drainer.seen)

\* What the drainer writes back is the file from its next line to the last it knows.
LeftIsRest ==
    drainer.at \in {"truncate", "unlink"} =>
        /\ drainer.known <= Len(DrainFile) /\ drainer.next <= drainer.known + 1
        /\ Len(drainer.left) = drainer.known + 1 - drainer.next
        /\ \A j \in 1 .. Len(drainer.left) : drainer.left[j] = DrainFile[drainer.next + j - 1]
        /\ drainer.at = "unlink" => drainer.known < drainer.next

\* Inductive: how the two files, the handles and the drainer's view of them fit.
SpoolShape == SpoolTyped /\ DrainFileExists /\ SeenIsPrefix /\ LeftIsRest

LEMMA FileFacts ==
  ASSUME SpoolTyped
  PROVE  /\ QueueFile \in Seq(Lines) /\ DrainFile \in Seq(Lines)
         /\ Len(QueueFile) \in Nat /\ DOMAIN QueueFile = 1 .. Len(QueueFile)
         /\ Len(DrainFile) \in Nat /\ DOMAIN DrainFile = 1 .. Len(DrainFile)
         /\ \A i \in 1 .. Len(QueueFile) : QueueFile[i] \in Lines
         /\ \A i \in 1 .. Len(DrainFile) : DrainFile[i] \in Lines
         /\ Len(drainer.seen) \in Nat /\ Len(drainer.left) \in Nat
         /\ DOMAIN drainer.left = 1 .. Len(drainer.left)
         /\ \A i \in 1 .. Len(drainer.seen) : drainer.seen[i] \in Lines
         /\ \A i \in 1 .. Len(drainer.left) : drainer.left[i] \in Lines
         /\ drainer.seen \in Seq(Lines) /\ drainer.left \in Seq(Lines)
         /\ drainer.next \in Nat \ {0} /\ drainer.known \in Nat
<1>1. /\ QueueFile \in Seq(Lines) /\ DrainFile \in Seq(Lines)
      /\ drainer.seen \in Seq(Lines) /\ drainer.left \in Seq(Lines)
      /\ drainer.next \in Nat \ {0} /\ drainer.known \in Nat
  BY DEF SpoolTyped, QueueFile, DrainFile, Drainers
<1> QED
  BY <1>1, LenProperties, ElementOfSeq

LEMMA DrainerRecord ==
  ASSUME NEW a \in DrainSteps, NEW s \in Seq(Lines), NEW n \in Nat \ {0}, NEW d \in Nat,
         NEW r \in Seq(Lines), NEW k \in Nat
  PROVE  [at |-> a, seen |-> s, next |-> n, done |-> d, left |-> r, known |-> k] \in Drainers
  BY DEF Drainers

LEMMA DrainerFields ==
  ASSUME drainer \in Drainers
  PROVE  /\ drainer = [at |-> drainer.at, seen |-> drainer.seen, next |-> drainer.next,
                       done |-> drainer.done, left |-> drainer.left, known |-> drainer.known]
         /\ drainer.at \in DrainSteps /\ drainer.seen \in Seq(Lines)
         /\ drainer.next \in Nat \ {0} /\ drainer.done \in Nat
         /\ drainer.left \in Seq(Lines) /\ drainer.known \in Nat
  BY DEF Drainers

\* A drainer that is let go, or called.
LEMMA FreeDrainer ==
  /\ Free \in Drainers /\ Free.at = "free"
  /\ [Free EXCEPT !.at = "choose"] \in Drainers
  /\ [Free EXCEPT !.at = "choose"].at = "choose"
<1>1. ASSUME NEW e, e = <<>>, NEW a \in DrainSteps
      PROVE  [at |-> a, seen |-> e, next |-> 1, done |-> 0, left |-> e, known |-> 0] \in Drainers
  <2>1. e \in Seq(Lines) /\ 1 \in Nat \ {0} /\ 0 \in Nat
    BY <1>1, EmptySeq
  <2> QED
    BY <2>1, DrainerRecord
<1>2. Free = [at |-> "free", seen |-> <<>>, next |-> 1, done |-> 0, left |-> <<>>, known |-> 0]
  BY DEF Free
<1>3. [Free EXCEPT !.at = "choose"]
        = [at |-> "choose", seen |-> <<>>, next |-> 1, done |-> 0, left |-> <<>>, known |-> 0]
  BY DEF Free
<1>4. "free" \in DrainSteps /\ "choose" \in DrainSteps
  BY DEF DrainSteps
<1> QED
  BY <1>1, <1>2, <1>3, <1>4

\* The drainer after the two operators that move it.
LEMMA DrainerMoves ==
  ASSUME drainer \in Drainers, NEW step \in DrainSteps, DrainerGoes(step)
  PROVE  /\ drainer' \in Drainers /\ drainer'.at = step /\ drainer'.next = drainer.next
         /\ drainer'.seen = drainer.seen /\ drainer'.left = drainer.left
         /\ drainer'.known = drainer.known
<1>1. drainer' = [at |-> step, seen |-> drainer.seen, next |-> drainer.next,
                  done |-> drainer.done, left |-> drainer.left, known |-> drainer.known]
  BY DrainerFields DEF DrainerGoes
<1> QED
  BY <1>1, DrainerFields, DrainerRecord

LEMMA DrainerTakes ==
  ASSUME drainer \in Drainers, NEW step \in DrainSteps, Taken(step)
  PROVE  /\ drainer' \in Drainers /\ drainer'.at = step /\ drainer'.next = drainer.next + 1
         /\ drainer'.seen = drainer.seen /\ drainer'.left = drainer.left
         /\ drainer'.known = drainer.known
<1>1. ASSUME NEW a, NEW s, NEW n \in Nat, NEW d \in Nat, NEW r, NEW k,
             drainer = [at |-> a, seen |-> s, next |-> n, done |-> d, left |-> r, known |-> k]
      PROVE  drainer' = [at |-> step, seen |-> s, next |-> n + 1, done |-> d + 1,
                         left |-> r, known |-> k]
  BY <1>1 DEF Taken
<1>2. drainer' = [at |-> step, seen |-> drainer.seen, next |-> drainer.next + 1,
                  done |-> drainer.done + 1, left |-> drainer.left, known |-> drainer.known]
  BY <1>1, DrainerFields
<1>3. drainer.next + 1 \in Nat \ {0} /\ drainer.done + 1 \in Nat
  BY DrainerFields
<1> QED
  BY <1>2, <1>3, DrainerFields, DrainerRecord

LEMMA SpoolShapeInit == SpoolInit => SpoolShape
<1> SUFFICES ASSUME SpoolInit PROVE SpoolShape
  OBVIOUS
<1>1. <<>> \in Seq(Lines)
  BY EmptySeq
<1>2. drainer \in Drainers /\ drainer.at = "free"
  BY <1>1 DEF SpoolInit, Free, Drainers, DrainSteps
<1> QED
  BY <1>1, <1>2, SpoolAssumption
     DEF SpoolInit, SpoolShape, SpoolTyped, DrainFileExists, SeenIsPrefix, LeftIsRest, DrainFile,
         Reading

\* The effect of a hook that writes: its line is the last one of the file it has
\* open, or nowhere.
LEMMA HookWritesEffect ==
  ASSUME SpoolTyped, NEW l \in Lines, HookWrites(l)
  PROVE  /\ file' \in [queue : Seq(Lines), draining : Seq(Lines)]
         /\ QueueFile' = IF handle[l] = "queue" THEN Append(QueueFile, l) ELSE QueueFile
         /\ DrainFile' = IF handle[l] = "draining" THEN Append(DrainFile, l) ELSE DrainFile
         /\ handle' \in [Lines -> {"unborn", "queue", "draining", "unlinked", "closed"}]
         /\ handle'[l] = "closed" /\ handle[l] # "closed"
         /\ \A k \in Lines \ {l} : handle'[k] = handle[k]
         /\ Len(DrainFile') >= Len(DrainFile)
         /\ \A i \in 1 .. Len(DrainFile) : DrainFile'[i] = DrainFile[i]
<1>1. /\ handle[l] \in {"queue", "draining", "unlinked"}
      /\ handle' = [handle EXCEPT ![l] = "closed"]
      /\ file' = [f \in DOMAIN file |->
                     IF f = handle[l] THEN Append(file[f], l) ELSE file[f]]
  BY DEF HookWrites
<1>2. DOMAIN file = {"queue", "draining"}
  BY DEF SpoolTyped
<1>3. /\ file' = [queue |-> IF handle[l] = "queue" THEN Append(QueueFile, l) ELSE QueueFile,
                  draining |-> IF handle[l] = "draining" THEN Append(DrainFile, l) ELSE DrainFile]
  BY <1>1, <1>2 DEF QueueFile, DrainFile
<1>4. /\ Append(QueueFile, l) \in Seq(Lines) /\ Append(DrainFile, l) \in Seq(Lines)
      /\ Len(Append(DrainFile, l)) = Len(DrainFile) + 1 /\ Len(DrainFile) \in Nat
      /\ \A i \in 1 .. Len(DrainFile) : Append(DrainFile, l)[i] = DrainFile[i]
  BY FileFacts, AppendProperties
<1>5. /\ file' \in [queue : Seq(Lines), draining : Seq(Lines)]
      /\ QueueFile' = IF handle[l] = "queue" THEN Append(QueueFile, l) ELSE QueueFile
      /\ DrainFile' = IF handle[l] = "draining" THEN Append(DrainFile, l) ELSE DrainFile
  BY <1>3, <1>4, FileFacts DEF QueueFile, DrainFile
<1> QED
  BY <1>1, <1>4, <1>5 DEF SpoolTyped

LEMMA SpoolShapeStep == SpoolShape /\ [SpoolNext]_spoolVars => SpoolShape'
<1> SUFFICES ASSUME SpoolShape, [SpoolNext]_spoolVars
             PROVE  SpoolShape'
  OBVIOUS
<1>0. SpoolTyped /\ drainer \in Drainers /\ drainer.at \in DrainSteps
  BY DEF SpoolShape, SpoolTyped, Drainers
<1>a. /\ DrainFile \in Seq(Lines) /\ Len(DrainFile) \in Nat
      /\ Len(drainer.seen) \in Nat /\ Len(drainer.left) \in Nat
      /\ drainer.next \in Nat \ {0} /\ drainer.known \in Nat
      /\ drainer.seen \in Seq(Lines) /\ drainer.left \in Seq(Lines)
  BY <1>0, FileFacts
<1>1. ASSUME NEW l \in Lines, HookOpens(l)
      PROVE  SpoolShape'
  BY <1>0, <1>1 DEF HookOpens, SpoolShape, SpoolTyped, DrainFileExists, SeenIsPrefix, LeftIsRest,
                   DrainFile
<1>2. ASSUME NEW l \in Lines, HookWrites(l)
      PROVE  SpoolShape'
  <2>1. /\ file' \in [queue : Seq(Lines), draining : Seq(Lines)]
        /\ DrainFile' = IF handle[l] = "draining" THEN Append(DrainFile, l) ELSE DrainFile
        /\ handle' \in [Lines -> {"unborn", "queue", "draining", "unlinked", "closed"}]
        /\ handle'[l] = "closed"
        /\ \A k \in Lines \ {l} : handle'[k] = handle[k]
        /\ Len(DrainFile') >= Len(DrainFile)
        /\ \A i \in 1 .. Len(DrainFile) : DrainFile'[i] = DrainFile[i]
    BY <1>0, <1>2, HookWritesEffect
  <2>2. UNCHANGED <<kind, there, drainer, applied, replays>>
    BY <1>2 DEF HookWrites
  <2>3. Len(DrainFile') \in Nat
    <3>1. DrainFile' \in Seq(Lines)
      BY <2>1 DEF DrainFile
    <3> QED
      BY <3>1, LenProperties
  <2>4. SpoolTyped' /\ DrainFileExists'
    BY <2>1, <2>2 DEF SpoolShape, SpoolTyped, DrainFileExists
  <2>5. SeenIsPrefix'
    BY <1>a, <2>1, <2>2, <2>3 DEF SpoolShape, SeenIsPrefix
  <2>6. LeftIsRest'
    <3>1. CASE drainer.at \in {"truncate", "unlink"}
      <4>1. ASSUME NEW j \in 1 .. Len(drainer.left)
            PROVE  drainer.left[j] = DrainFile'[drainer.next + j - 1]
        <5>1. drainer.next + j - 1 \in 1 .. Len(DrainFile)
          BY <1>a, <3>1 DEF SpoolShape, LeftIsRest
        <5> QED
          BY <2>1, <3>1, <5>1 DEF SpoolShape, LeftIsRest
      <4>2. /\ drainer.known <= Len(DrainFile) /\ drainer.next <= drainer.known + 1
            /\ Len(drainer.left) = drainer.known + 1 - drainer.next
            /\ drainer.at = "unlink" => drainer.known < drainer.next
        BY <3>1 DEF SpoolShape, LeftIsRest
      <4>3. drainer.known <= Len(DrainFile')
        BY <1>a, <2>1, <2>3, <4>2
      <4> QED
        BY <2>2, <4>1, <4>2, <4>3 DEF LeftIsRest
    <3>2. CASE drainer.at \notin {"truncate", "unlink"}
      BY <2>2, <3>2 DEF LeftIsRest
    <3> QED
      BY <3>1, <3>2
  <2> QED
    BY <2>4, <2>5, <2>6 DEF SpoolShape
\* Steps that let go of the file, or have not read it yet.
<1>3. CASE /\ UNCHANGED <<kind, there, file, handle, applied>> /\ replays' \in 0 .. 2
           /\ drainer' \in Drainers /\ drainer'.at \in {"free", "choose", "read"}
           /\ drainer'.at = "read" => "draining" \in there
  BY <1>0, <1>3 DEF SpoolShape, SpoolTyped, DrainFileExists, SeenIsPrefix, LeftIsRest, DrainFile,
                   Reading
<1>4. CASE DrainCalled \/ KeepsDraining \/ NothingLeft \/ LineRaises \/ DrainerDies
  <2>1. "read" \in DrainSteps /\ "choose" \in DrainSteps
    BY DEF DrainSteps
  <2>2. Plus(replays, 2) \in 0 .. 2
    BY <1>0 DEF SpoolTyped, Plus
  <2>3. replays \in 0 .. 2
    BY <1>0 DEF SpoolTyped
  <2>4. CASE KeepsDraining
    <3>1. /\ DrainerGoes("read") /\ "draining" \in there
          /\ UNCHANGED <<kind, there, file, handle, applied, replays>>
      BY <2>4 DEF KeepsDraining
    <3>2. drainer' \in Drainers /\ drainer'.at = "read"
      BY <1>0, <2>1, <3>1, DrainerMoves
    <3> QED
      BY <1>3, <2>3, <3>1, <3>2
  <2>5. CASE DrainCalled
    BY <1>3, <2>3, <2>5, FreeDrainer DEF DrainCalled
  <2>6. CASE NothingLeft \/ LineRaises \/ DrainerDies
    <3>1. /\ drainer' = Free /\ replays' \in {replays, Plus(replays, 2)}
          /\ UNCHANGED <<kind, there, file, handle, applied>>
      BY <2>6 DEF NothingLeft, LineRaises, DrainerDies
    <3> QED
      BY <1>3, <2>2, <2>3, <3>1, FreeDrainer
  <2> QED
    BY <1>4, <2>4, <2>5, <2>6
<1>5. CASE Renames
  <2>1. /\ file' = [queue |-> <<>>, draining |-> file.queue] /\ there' = {"draining"}
        /\ handle' = [l \in Lines |-> IF handle[l] = "queue" THEN "draining" ELSE handle[l]]
        /\ DrainerGoes("read") /\ UNCHANGED <<kind, applied, replays>>
    BY <1>5 DEF Renames
  <2>2. drainer' \in Drainers /\ drainer'.at = "read"
    BY <1>0, <2>1, DrainerMoves DEF DrainSteps
  <2>3. file' \in [queue : Seq(Lines), draining : Seq(Lines)]
    BY <1>0, <2>1, EmptySeq DEF SpoolTyped
  <2> QED
    BY <1>0, <2>1, <2>2, <2>3
       DEF SpoolShape, SpoolTyped, DrainFileExists, SeenIsPrefix, LeftIsRest, Reading
<1>6. CASE ReadsFile
  <2>1. /\ drainer' = [drainer EXCEPT !.at = "line", !.seen = file.draining, !.next = 1]
        /\ drainer.at = "read"
        /\ UNCHANGED <<kind, there, file, handle, applied, replays>>
    BY <1>6 DEF ReadsFile, Draining
  <2>2. /\ drainer' \in Drainers /\ drainer'.at = "line" /\ drainer'.seen = DrainFile
        /\ drainer'.next = 1
    <3>1. drainer' = [at |-> "line", seen |-> DrainFile, next |-> 1, done |-> drainer.done,
                      left |-> drainer.left, known |-> drainer.known]
      BY <1>0, <2>1 DEF Drainers, DrainFile
    <3>2. drainer.done \in Nat /\ "line" \in DrainSteps
      BY <1>0 DEF Drainers, DrainSteps
    <3> QED
      BY <1>a, <3>1, <3>2 DEF Drainers
  <2>3. DrainFile' = DrainFile
    BY <2>1 DEF DrainFile
  <2>4. SeenIsPrefix'
    BY <1>a, <2>2, <2>3 DEF SeenIsPrefix
  <2> QED
    BY <1>0, <2>1, <2>2, <2>3, <2>4
       DEF SpoolShape, SpoolTyped, DrainFileExists, LeftIsRest, Reading
\* Steps over the lines that were read.
<1>7. CASE /\ UNCHANGED <<kind, there, file, handle, replays>>
           /\ applied' \in [Lines -> 0 .. 3]
           /\ drainer.at \in Reading
           /\ drainer' \in Drainers /\ drainer'.at \in Reading /\ drainer'.seen = drainer.seen
           /\ drainer'.next <= Len(drainer.seen) + 1
           /\ drainer'.at = "mark" => drainer'.next <= Len(drainer.seen)
  <2>1. DrainFile' = DrainFile
    BY <1>7 DEF DrainFile
  <2>2. SeenIsPrefix'
    BY <1>7, <2>1 DEF SpoolShape, SeenIsPrefix
  <2> QED
    BY <1>0, <1>7, <2>1, <2>2
       DEF SpoolShape, SpoolTyped, DrainFileExists, LeftIsRest, Reading
<1>8. CASE SkipsGarbled \/ AppliesLine \/ MarksStale \/ StopsReading
  <2>1. UNCHANGED <<kind, there, file, handle, replays>> /\ drainer.at \in Reading
    BY <1>8 DEF SkipsGarbled, AppliesLine, MarksStale, StopsReading, Draining, Reading
  <2>2. drainer.next <= Len(drainer.seen) + 1
    BY <2>1 DEF SpoolShape, SeenIsPrefix
  <2>3. /\ drainer.at = "line" /\ More => drainer.next <= Len(drainer.seen)
        /\ drainer.at = "mark" => drainer.next <= Len(drainer.seen)
    BY <2>1 DEF SpoolShape, SeenIsPrefix, More
  <2>4. applied' \in [Lines -> 0 .. 3]
    <3>1. CASE AppliesLine
      <4>1. applied' = [applied EXCEPT ![Line] = Plus(@, 3)]
        BY <3>1 DEF AppliesLine
      <4>2. Line \in Lines
        BY <1>0, <1>a, <2>3, <3>1, FileFacts DEF AppliesLine, Draining, Line
      <4>3. applied[Line] \in 0 .. 3 /\ Plus(applied[Line], 3) \in 0 .. 3
        BY <1>0, <4>2 DEF SpoolTyped, Plus
      <4> QED
        BY <1>0, <4>1, <4>2, <4>3 DEF SpoolTyped
    <3>2. CASE applied' = applied
      BY <1>0, <3>2 DEF SpoolTyped
    <3> QED
      BY <1>8, <3>1, <3>2 DEF SkipsGarbled, MarksStale, StopsReading
  <2>5. /\ drainer' \in Drainers /\ drainer'.at \in Reading /\ drainer'.seen = drainer.seen
        /\ drainer'.next <= Len(drainer.seen) + 1
        /\ drainer'.at = "mark" => drainer'.next <= Len(drainer.seen)
    <3>1. "line" \in DrainSteps /\ "mark" \in DrainSteps /\ "reread" \in DrainSteps
      BY DEF DrainSteps
    <3>2. CASE Taken("line") /\ drainer.next <= Len(drainer.seen)
      <4>1. /\ drainer' \in Drainers /\ drainer'.at = "line"
            /\ drainer'.next = drainer.next + 1 /\ drainer'.seen = drainer.seen
        BY <1>0, <3>1, <3>2, DrainerTakes
      <4> QED
        BY <1>a, <3>2, <4>1 DEF Reading
    <3>3. CASE DrainerGoes("mark") /\ drainer.next <= Len(drainer.seen)
      <4>1. /\ drainer' \in Drainers /\ drainer'.at = "mark"
            /\ drainer'.next = drainer.next /\ drainer'.seen = drainer.seen
        BY <1>0, <3>1, <3>3, DrainerMoves
      <4> QED
        BY <1>a, <3>3, <4>1 DEF Reading
    <3>4. CASE DrainerGoes("reread")
      <4>1. /\ drainer' \in Drainers /\ drainer'.at = "reread"
            /\ drainer'.next = drainer.next /\ drainer'.seen = drainer.seen
        BY <1>0, <3>1, <3>4, DrainerMoves
      <4> QED
        BY <2>2, <4>1 DEF Reading
    <3> QED
      BY <1>8, <2>3, <3>2, <3>3, <3>4
         DEF SkipsGarbled, AppliesLine, MarksStale, StopsReading, Draining
  <2> QED
    BY <1>7, <2>1, <2>4, <2>5
<1>9. CASE Rereads
  <2>1. /\ drainer' = [drainer EXCEPT !.at = IF Remainder = <<>> THEN "unlink" ELSE "truncate",
                                      !.left = Remainder, !.known = Len(file.draining)]
        /\ drainer.at = "reread" /\ UNCHANGED <<kind, there, file, handle, applied, replays>>
    BY <1>9 DEF Rereads, Draining
  <2>2. /\ drainer.next <= Len(DrainFile) + 1 /\ DrainFile' = DrainFile
        /\ \A i \in drainer.next .. Len(DrainFile) : DrainFile[i] \in Lines
    <3>1. drainer.next <= Len(DrainFile) + 1
      BY <1>a, <2>1 DEF SpoolShape, SeenIsPrefix, Reading
    <3> QED
      BY <1>0, <1>a, <2>1, <3>1, FileFacts DEF DrainFile
  <2>3. /\ Remainder \in Seq(Lines)
        /\ Len(Remainder) = Len(DrainFile) + 1 - drainer.next
        /\ \A j \in 1 .. Len(Remainder) : Remainder[j] = DrainFile[drainer.next + j - 1]
    <3>1. Remainder = SubSeq(DrainFile, drainer.next, Len(DrainFile))
      BY DEF Remainder, DrainFile
    <3>2. /\ Remainder \in Seq(Lines)
          /\ Len(Remainder) = IF drainer.next <= Len(DrainFile)
                              THEN Len(DrainFile) - drainer.next + 1 ELSE 0
          /\ \A j \in 1 .. Len(DrainFile) - drainer.next + 1 :
                 Remainder[j] = DrainFile[drainer.next + j - 1]
      BY <1>a, <2>2, <3>1, SubSeqProperties
    <3> QED
      BY <1>a, <2>2, <3>2
  <2>4. Remainder = <<>> <=> Len(Remainder) = 0
    BY <2>3, EmptySeq
  <2>5. /\ drainer' \in Drainers /\ drainer'.next = drainer.next
        /\ drainer'.at = (IF Remainder = <<>> THEN "unlink" ELSE "truncate")
        /\ drainer'.left = Remainder /\ drainer'.known = Len(DrainFile)
    BY <1>0, <1>a, <2>1, <2>3 DEF Drainers, DrainSteps, DrainFile
  <2>6. LeftIsRest'
    BY <1>a, <2>2, <2>3, <2>4, <2>5 DEF LeftIsRest
  <2>7. SeenIsPrefix'
    BY <2>5 DEF SeenIsPrefix, Reading
  <2> QED
    BY <1>0, <2>1, <2>2, <2>5, <2>6, <2>7 DEF SpoolShape, SpoolTyped, DrainFileExists
<1>10. CASE TruncatesFile \/ WritesBack
  <2>1. /\ \/ /\ file' = [file EXCEPT !.draining = <<>>]
              /\ DrainerGoes("write")
           \/ file' = [file EXCEPT !.draining = drainer.left] /\ drainer' = Free
        /\ drainer.at \in {"truncate", "write"}
        /\ UNCHANGED <<kind, there, handle, applied, replays>>
    BY <1>10 DEF TruncatesFile, WritesBack, Draining
  <2>2. file' \in [queue : Seq(Lines), draining : Seq(Lines)]
    BY <1>0, <1>a, <2>1, EmptySeq DEF SpoolTyped
  <2>3. drainer' \in Drainers /\ drainer'.at \in {"write", "free"}
    <3>1. "write" \in DrainSteps
      BY DEF DrainSteps
    <3> QED
      BY <1>0, <2>1, <3>1, DrainerMoves, FreeDrainer
  <2>4. "draining" \in there
    BY <2>1 DEF SpoolShape, DrainFileExists
  <2> QED
    BY <1>0, <2>1, <2>2, <2>3, <2>4
       DEF SpoolShape, SpoolTyped, DrainFileExists, SeenIsPrefix, LeftIsRest, Reading
<1>11. CASE Unlinks
  <2>1. /\ there' = there \ {"draining"} /\ file' = [file EXCEPT !.draining = <<>>]
        /\ handle' = [l \in Lines |-> IF handle[l] = "draining" THEN "unlinked" ELSE handle[l]]
        /\ DrainerGoes("choose") /\ UNCHANGED <<kind, applied, replays>>
    BY <1>11 DEF Unlinks
  <2>2. drainer' \in Drainers /\ drainer'.at = "choose"
    BY <1>0, <2>1, DrainerMoves DEF DrainSteps
  <2>3. file' \in [queue : Seq(Lines), draining : Seq(Lines)] /\ DrainFile' = <<>>
    BY <1>0, <2>1, EmptySeq DEF SpoolTyped, DrainFile
  <2> QED
    BY <1>0, <2>1, <2>2, <2>3
       DEF SpoolShape, SpoolTyped, DrainFileExists, SeenIsPrefix, LeftIsRest, Reading
<1>12. CASE UNCHANGED spoolVars
  BY <1>12 DEF spoolVars, SpoolShape, SpoolTyped, DrainFileExists, SeenIsPrefix, LeftIsRest,
               DrainFile
<1> QED
  BY <1>1, <1>2, <1>4, <1>5, <1>6, <1>8, <1>9, <1>10, <1>11, <1>12 DEF SpoolNext, DrainerStep

-----------------------------------------------------------------------------
(* Nothing is left behind.                                                 *)

\* The drainer goes on only when the line before is settled.
PassedIsSettled ==
    /\ drainer.at \in Holding =>
          \A i \in 1 .. Len(DrainFile) : i < drainer.next => Settled(DrainFile[i])
    /\ drainer.at = "mark" => kind[Line] = "commit" /\ applied[Line] > 0

\* Inductive for NothingLeftBehind.
SpoolKeeps == SpoolShape /\ PassedIsSettled /\ NothingLeftBehind

LEMMA InSequence ==
  ASSUME NEW s \in Seq(Lines), NEW l
  PROVE  l \in ToSet(s) <=> \E i \in 1 .. Len(s) : s[i] = l
<1>1. DOMAIN s = 1 .. Len(s)
  BY LenProperties
<1> QED
  BY <1>1 DEF ToSet

LEMMA AppendAt ==
  ASSUME NEW s \in Seq(Lines), NEW l \in Lines, NEW i \in 1 .. Len(Append(s, l))
  PROVE  \/ i \in 1 .. Len(s) /\ Append(s, l)[i] = s[i]
         \/ i = Len(s) + 1 /\ Append(s, l)[i] = l
<1>1. Len(Append(s, l)) = Len(s) + 1 /\ Len(s) \in Nat
  BY AppendProperties, LenProperties
<1> QED
  BY <1>1, AppendProperties

LEMMA InTail ==
  ASSUME NEW s \in Seq(Lines), NEW k \in Nat, NEW i \in 1 .. Len(s), i > k
  PROVE  s[i] \in ToSet(SubSeq(s, k + 1, Len(s)))
<1>1. /\ Len(s) \in Nat /\ \A j \in 1 .. Len(s) : s[j] \in Lines
  BY LenProperties, ElementOfSeq
<1>2. PICK m \in Int : m = k + 1
  OBVIOUS
<1>3. /\ SubSeq(s, m, Len(s)) \in Seq(Lines)
      /\ Len(SubSeq(s, m, Len(s))) = IF m <= Len(s) THEN Len(s) - m + 1 ELSE 0
      /\ \A j \in 1 .. Len(s) - m + 1 : SubSeq(s, m, Len(s))[j] = s[m + j - 1]
  <2>1. \A j \in m .. Len(s) : s[j] \in Lines
    BY <1>1, <1>2
  <2> QED
    BY <1>1, <2>1, SubSeqProperties
<1>4. i - k \in 1 .. Len(s) - m + 1 /\ m <= Len(s) /\ m + (i - k) - 1 = i
  BY <1>1, <1>2
<1>5. i - k \in 1 .. Len(SubSeq(s, m, Len(s))) /\ SubSeq(s, m, Len(s))[i - k] = s[i]
  BY <1>3, <1>4
<1> QED
  BY <1>2, <1>3, <1>5, InSequence

\* No step of a hook or a drainer undoes what was settled.
LEMMA StaysSettled ==
  ASSUME SpoolTyped, [SpoolNext]_spoolVars, NEW l \in Lines
  PROVE  kind' = kind /\ (Settled(l) => Settled(l)')
<1>1. kind' = kind /\ marked \subseteq marked'
  BY DEF SpoolNext, DrainerStep, spoolVars, HookOpens, HookWrites, DrainCalled, Renames, KeepsDraining,
         NothingLeft, ReadsFile, SkipsGarbled, AppliesLine, MarksStale, LineRaises, StopsReading,
         Rereads, TruncatesFile, WritesBack, Unlinks, DrainerDies
<1>2. applied[l] > 0 => applied'[l] > 0
  <2>1. CASE applied' = applied
    BY <2>1
  <2>2. CASE AppliesLine
    <3>1. applied' = [applied EXCEPT ![Line] = Plus(applied[Line], 3)]
      BY <2>2 DEF AppliesLine
    <3>2. applied'[l] = IF l = Line THEN Plus(applied[l], 3) ELSE applied[l]
      BY <3>1 DEF SpoolTyped
    <3> QED
      BY <3>2 DEF Plus, SpoolTyped
  <2> QED
    BY <2>1, <2>2
       DEF SpoolNext, DrainerStep, spoolVars, HookOpens, HookWrites, DrainCalled, Renames, KeepsDraining,
           NothingLeft, ReadsFile, SkipsGarbled, MarksStale, LineRaises, StopsReading,
           Rereads, TruncatesFile, WritesBack, Unlinks, DrainerDies
<1> QED
  BY <1>1, <1>2 DEF Settled

\* What the actions leave alone, once for all of them.
LEMMA SpoolFrame ==
  ASSUME SpoolShape, [SpoolNext]_spoolVars
  PROVE  /\ lost \subseteq lost'
         /\ \A l \in Lines : handle'[l] = "closed" =>
               handle[l] = "closed" \/ HookWrites(l)
         /\ \/ \E l \in Lines : HookWrites(l)
            \/ Renames \/ TruncatesFile \/ WritesBack \/ Unlinks
            \/ /\ file' = file
               /\ drainer.at = "write" => \/ drainer'.at = "write" /\ drainer'.left = drainer.left
                                          \/ ToSet(drainer.left) \subseteq lost'
<1>0. SpoolTyped
  BY DEF SpoolShape
<1>1. lost \subseteq lost'
  BY DEF SpoolNext, DrainerStep, spoolVars, HookOpens, HookWrites, DrainCalled, Renames, KeepsDraining,
         NothingLeft, ReadsFile, SkipsGarbled, AppliesLine, MarksStale, LineRaises, StopsReading,
         Rereads, TruncatesFile, WritesBack, Unlinks, DrainerDies
<1>2. ASSUME NEW l \in Lines, handle'[l] = "closed"
      PROVE  handle[l] = "closed" \/ HookWrites(l)
  <2>1. CASE handle' = handle
    BY <1>2, <2>1
  <2>2. ASSUME NEW k \in Lines, HookOpens(k)
        PROVE  handle[l] = "closed"
    BY <1>0, <1>2, <2>2 DEF HookOpens, SpoolTyped
  <2>3. ASSUME NEW k \in Lines, HookWrites(k)
        PROVE  handle[l] = "closed" \/ HookWrites(l)
    BY <1>0, <1>2, <2>3, HookWritesEffect
  <2>4. CASE Renames \/ Unlinks
    BY <1>0, <1>2, <2>4 DEF Renames, Unlinks, SpoolTyped
  <2> QED
    BY <2>1, <2>2, <2>3, <2>4
       DEF SpoolNext, DrainerStep, spoolVars, DrainCalled, KeepsDraining,
           NothingLeft, ReadsFile, SkipsGarbled, AppliesLine, MarksStale, LineRaises, StopsReading,
           Rereads, TruncatesFile, WritesBack, DrainerDies
<1>3. \/ \E l \in Lines : HookWrites(l)
      \/ Renames \/ TruncatesFile \/ WritesBack \/ Unlinks
      \/ /\ file' = file
         /\ drainer.at = "write" => \/ drainer'.at = "write" /\ drainer'.left = drainer.left
                                    \/ ToSet(drainer.left) \subseteq lost'
  BY DEF SpoolNext, DrainerStep, spoolVars, HookOpens, DrainCalled, KeepsDraining,
         NothingLeft, ReadsFile, SkipsGarbled, AppliesLine, MarksStale, LineRaises, StopsReading,
         Rereads, DrainerDies, Draining
<1> QED
  BY <1>1, <1>2, <1>3

LEMMA PassedIsSettledStep ==
  ASSUME SpoolShape, PassedIsSettled, [SpoolNext]_spoolVars
  PROVE  PassedIsSettled'
<1>0. SpoolTyped /\ drainer \in Drainers /\ drainer.at \in DrainSteps
  BY DEF SpoolShape, SpoolTyped, Drainers
<1>a. /\ DrainFile \in Seq(Lines) /\ Len(DrainFile) \in Nat
      /\ \A i \in 1 .. Len(DrainFile) : DrainFile[i] \in Lines
      /\ drainer.next \in Nat \ {0} /\ drainer.known \in Nat
  BY <1>0, FileFacts
<1>b. \A l \in Lines : Settled(l) => Settled(l)'
  BY <1>0, StaysSettled
<1>1. ASSUME NEW l \in Lines, HookWrites(l)
      PROVE  PassedIsSettled'
  <2>1. /\ \A i \in 1 .. Len(DrainFile) : DrainFile'[i] = DrainFile[i]
        /\ DrainFile' = IF handle[l] = "draining" THEN Append(DrainFile, l) ELSE DrainFile
        /\ Len(DrainFile') \in Nat
    <3>1. DrainFile' \in Seq(Lines)
      BY <1>0, <1>1, HookWritesEffect DEF DrainFile
    <3> QED
      BY <1>0, <1>1, <3>1, HookWritesEffect, LenProperties
  <2>2. UNCHANGED <<kind, drainer, applied, marked>>
    BY <1>1 DEF HookWrites
  <2>3. drainer.at \in Holding => drainer.next <= Len(DrainFile) + 1
    BY <1>a DEF SpoolShape, SeenIsPrefix, LeftIsRest, Holding, Reading
  <2>4. ASSUME drainer.at \in Holding, NEW i \in 1 .. Len(DrainFile'), i < drainer.next
        PROVE  Settled(DrainFile'[i])
    <3>1. i \in 1 .. Len(DrainFile) /\ DrainFile'[i] = DrainFile[i]
      BY <1>a, <2>1, <2>3, <2>4
    <3> QED
      BY <2>4, <3>1 DEF PassedIsSettled
  <2> QED
    BY <2>2, <2>4 DEF PassedIsSettled, Line, Settled
<1>2. CASE drainer'.at \notin Holding
  BY <1>2 DEF PassedIsSettled, Holding, Reading
<1>3. CASE ReadsFile
  BY <1>a, <1>3 DEF ReadsFile, PassedIsSettled, DrainFile
<1>4. ASSUME drainer.at \in Holding, DrainFile' = DrainFile,
             \/ drainer'.next = drainer.next
             \/ /\ drainer.at \in {"line", "mark"} /\ drainer.next <= Len(drainer.seen)
                /\ drainer'.next = drainer.next + 1
                /\ \E l \in Lines : l = Line /\ Settled(l)',
             drainer'.at = "mark" => \E l \in Lines : /\ l = Line /\ drainer'.next = drainer.next
                                                      /\ kind'[l] = "commit" /\ applied'[l] > 0,
             drainer'.seen = drainer.seen
      PROVE  PassedIsSettled'
  <2>1. ASSUME NEW i \in 1 .. Len(DrainFile), i < drainer'.next
        PROVE  \E l \in Lines : l = DrainFile[i] /\ Settled(l)'
    <3>1. CASE i < drainer.next
      BY <1>a, <1>b, <1>4, <3>1 DEF PassedIsSettled
    <3>2. CASE i = drainer.next /\ drainer'.next = drainer.next + 1
      <4>1. DrainFile[i] = Line
        BY <1>0, <1>a, <1>4, <3>2, FileFacts DEF SpoolShape, SeenIsPrefix, Reading, Line
      <4> QED
        BY <1>4, <3>2, <4>1
    <3> QED
      BY <1>a, <1>4, <2>1, <3>1, <3>2
  <2>2. ASSUME NEW i \in 1 .. Len(DrainFile'), i < drainer'.next
        PROVE  Settled(DrainFile[i])'
    <3>1. PICK l \in Lines : l = DrainFile[i] /\ Settled(l)'
      BY <1>4, <2>1, <2>2
    <3> QED
      BY <1>4, <3>1 DEF Settled
  <2>3. drainer'.at = "mark" => kind'[Line'] = "commit" /\ applied'[Line'] > 0
    BY <1>4 DEF Line
  <2> QED
    BY <2>2, <2>3 DEF PassedIsSettled
<1>c. /\ "line" \in DrainSteps /\ "mark" \in DrainSteps /\ "reread" \in DrainSteps
      /\ "truncate" \in DrainSteps /\ "unlink" \in DrainSteps
  BY DEF DrainSteps
<1>d. drainer.at = "line" \/ drainer.at = "mark" => drainer.at \in Holding
  BY DEF Holding, Reading
<1>5. CASE SkipsGarbled \/ MarksStale
  <2>1. /\ Taken("line") /\ DrainFile' = DrainFile /\ drainer.at \in {"line", "mark"}
        /\ drainer.next <= Len(drainer.seen)
    BY <1>5 DEF SkipsGarbled, MarksStale, DrainFile, Draining, More, SpoolShape, SeenIsPrefix, Reading
  <2>2. Line \in Lines
    BY <1>0, <1>a, <2>1, FileFacts DEF Line
  <2>3. \E l \in Lines : l = Line /\ Settled(l)'
    BY <1>5, <2>2 DEF SkipsGarbled, MarksStale, Settled, PassedIsSettled, Draining
  <2>4. drainer'.at = "line" /\ drainer'.next = drainer.next + 1 /\ drainer'.seen = drainer.seen
    BY <1>0, <1>c, <2>1, DrainerTakes
  <2> QED
    BY <1>4, <1>d, <2>1, <2>3, <2>4
<1>6. CASE AppliesLine
  <2>1. /\ DrainFile' = DrainFile /\ drainer.at = "line"
        /\ drainer.next <= Len(drainer.seen) /\ kind' = kind
        /\ applied' = [applied EXCEPT ![Line] = Plus(@, 3)]
    BY <1>6 DEF AppliesLine, DrainFile, Draining, More
  <2>2. Line \in Lines
    BY <1>0, <1>a, <2>1, FileFacts DEF Line
  <2>3. applied'[Line] > 0
    BY <1>0, <2>1, <2>2 DEF SpoolTyped, Plus
  <2>4. CASE kind[Line] = "commit"
    <3>1. DrainerGoes("mark")
      BY <1>6, <2>4 DEF AppliesLine
    <3>2. drainer'.at = "mark" /\ drainer'.next = drainer.next /\ drainer'.seen = drainer.seen
      BY <1>0, <1>c, <3>1, DrainerMoves
    <3>3. \E l \in Lines : /\ l = Line /\ drainer'.next = drainer.next
                           /\ kind'[l] = "commit" /\ applied'[l] > 0
      BY <2>1, <2>2, <2>3, <2>4, <3>2
    <3> QED
      BY <1>4, <1>d, <2>1, <3>2, <3>3
  <2>5. CASE kind[Line] # "commit"
    <3>1. Taken("line")
      BY <1>6, <2>5 DEF AppliesLine
    <3>2. drainer'.at = "line" /\ drainer'.next = drainer.next + 1 /\ drainer'.seen = drainer.seen
      BY <1>0, <1>c, <3>1, DrainerTakes
    <3>3. \E l \in Lines : l = Line /\ Settled(l)'
      BY <2>1, <2>2, <2>3, <2>5 DEF Settled
    <3> QED
      BY <1>4, <1>d, <2>1, <3>2, <3>3
  <2> QED
    BY <2>4, <2>5
<1>7. CASE StopsReading
  <2>1. DrainerGoes("reread") /\ DrainFile' = DrainFile /\ drainer.at = "line"
    BY <1>7 DEF StopsReading, DrainFile, Draining
  <2>2. drainer'.at = "reread" /\ drainer'.next = drainer.next /\ drainer'.seen = drainer.seen
    BY <1>0, <1>c, <2>1, DrainerMoves
  <2> QED
    BY <1>4, <1>d, <2>1, <2>2
<1>8. CASE Rereads
  <2>1. /\ DrainFile' = DrainFile /\ drainer.at \in Holding
        /\ drainer'.next = drainer.next /\ drainer'.seen = drainer.seen
        /\ drainer'.at # "mark"
    BY <1>0, <1>8 DEF Rereads, DrainFile, Draining, Drainers, Holding, Reading
  <2> QED
    BY <1>4, <2>1
<1>9. CASE UNCHANGED spoolVars \/ \E l \in Lines : HookOpens(l)
  BY <1>9 DEF spoolVars, HookOpens, PassedIsSettled, DrainFile, Line, Settled
<1>10. CASE \/ DrainCalled \/ KeepsDraining \/ NothingLeft \/ LineRaises \/ DrainerDies
            \/ Renames \/ TruncatesFile \/ WritesBack \/ Unlinks
  <2>1. \/ drainer' = Free \/ drainer' = [Free EXCEPT !.at = "choose"]
        \/ DrainerGoes("read") \/ DrainerGoes("write") \/ DrainerGoes("choose")
    BY <1>10 DEF DrainCalled, KeepsDraining, NothingLeft, LineRaises, DrainerDies,
                 Renames, TruncatesFile, WritesBack, Unlinks
  <2>2. /\ "read" \in DrainSteps /\ "write" \in DrainSteps /\ "choose" \in DrainSteps
    BY DEF DrainSteps
  <2>3. drainer'.at \in {"free", "choose", "read", "write"}
    BY <1>0, <2>1, <2>2, FreeDrainer, DrainerMoves
  <2> QED
    BY <1>2, <2>3 DEF Holding, Reading
<1> QED
  BY <1>1, <1>3, <1>5, <1>6, <1>7, <1>8, <1>9, <1>10 DEF SpoolNext, DrainerStep

LEMMA NothingLeftBehindStep ==
  ASSUME SpoolShape, PassedIsSettled, NothingLeftBehind, [SpoolNext]_spoolVars
  PROVE  NothingLeftBehind'
<1>0. SpoolTyped /\ drainer \in Drainers /\ SpoolShape'
  BY SpoolShapeStep DEF SpoolShape, SpoolTyped
<1>a. /\ DrainFile \in Seq(Lines) /\ Len(DrainFile) \in Nat
      /\ QueueFile \in Seq(Lines) /\ Len(QueueFile) \in Nat
      /\ drainer.left \in Seq(Lines)
      /\ \A i \in 1 .. Len(DrainFile) : DrainFile[i] \in Lines
      /\ drainer.next \in Nat \ {0} /\ drainer.known \in Nat
  BY <1>0, FileFacts
<1>b. \A l \in Lines : Settled(l) => Settled(l)'
  BY <1>0, StaysSettled
<1>c. DrainFile' \in Seq(Lines) /\ QueueFile' \in Seq(Lines)
  BY <1>0 DEF SpoolShape, SpoolTyped, DrainFile, QueueFile
<1>d. lost \subseteq lost'
  BY SpoolFrame
<1> SUFFICES ASSUME NEW l \in Lines, handle'[l] = "closed"
             PROVE  \/ l \in ToSet(QueueFile') \/ l \in ToSet(DrainFile') \/ l \in lost'
                    \/ drainer'.at = "write" /\ l \in ToSet(drainer'.left)
                    \/ Settled(l)'
  BY DEF NothingLeftBehind, Draining, QueueFile, DrainFile
<1>1. CASE handle[l] # "closed"
  <2>1. HookWrites(l)
    BY <1>1, SpoolFrame
  <2>2. /\ QueueFile' = IF handle[l] = "queue" THEN Append(QueueFile, l) ELSE QueueFile
        /\ DrainFile' = IF handle[l] = "draining" THEN Append(DrainFile, l) ELSE DrainFile
        /\ handle[l] \in {"queue", "draining", "unlinked"}
        /\ handle[l] = "unlinked" => l \in lost'
    BY <1>0, <2>1, HookWritesEffect DEF HookWrites
  <2>3. ASSUME NEW s \in Seq(Lines)
        PROVE  l \in ToSet(Append(s, l))
    <3>1. /\ Append(s, l) \in Seq(Lines) /\ Len(Append(s, l)) = Len(s) + 1
          /\ Append(s, l)[Len(s) + 1] = l /\ Len(s) \in Nat
      BY AppendProperties, LenProperties
    <3>2. Len(s) + 1 \in 1 .. Len(Append(s, l))
      BY <3>1
    <3> QED
      BY <3>1, <3>2, InSequence
  <2> QED
    BY <1>a, <2>2, <2>3
<1>2. CASE handle[l] = "closed"
  <2>0. \/ l \in ToSet(QueueFile) \/ l \in ToSet(DrainFile) \/ l \in lost
        \/ drainer.at = "write" /\ l \in ToSet(drainer.left)
        \/ Settled(l)
    BY <1>2 DEF NothingLeftBehind, Draining, QueueFile, DrainFile
  <2>1. CASE l \in lost \/ Settled(l)
    BY <1>b, <1>d, <2>1
  <2>2. CASE /\ file' = file
             /\ drainer.at = "write" => \/ drainer'.at = "write" /\ drainer'.left = drainer.left
                                        \/ ToSet(drainer.left) \subseteq lost'
    BY <2>0, <2>1, <2>2 DEF QueueFile, DrainFile
  <2>3. ASSUME NEW k \in Lines, HookWrites(k)
        PROVE  \/ l \in ToSet(QueueFile') \/ l \in ToSet(DrainFile') \/ l \in lost'
               \/ drainer'.at = "write" /\ l \in ToSet(drainer'.left)
               \/ Settled(l)'
    <3>1. ASSUME NEW s \in Seq(Lines), l \in ToSet(s)
          PROVE  l \in ToSet(Append(s, k))
      <4>1. PICK i \in 1 .. Len(s) : s[i] = l
        BY <3>1, InSequence
      <4>2. Append(s, k) \in Seq(Lines) /\ i \in 1 .. Len(Append(s, k)) /\ Append(s, k)[i] = l
        BY <4>1, AppendProperties, LenProperties
      <4> QED
        BY <4>2, InSequence
    <3>2. /\ QueueFile' = IF handle[k] = "queue" THEN Append(QueueFile, k) ELSE QueueFile
          /\ DrainFile' = IF handle[k] = "draining" THEN Append(DrainFile, k) ELSE DrainFile
          /\ drainer' = drainer
      BY <1>0, <2>3, HookWritesEffect DEF HookWrites
    <3> QED
      BY <1>a, <2>0, <2>1, <3>1, <3>2
  <2>4. CASE Renames
    <3>1. file' = [queue |-> <<>>, draining |-> file.queue] /\ there = {"queue"}
          /\ drainer.at = "choose"
      BY <2>4 DEF Renames, Draining
    <3>2. DrainFile' = QueueFile /\ DrainFile = <<>>
      BY <3>1 DEF DrainFile, QueueFile, SpoolShape, DrainFileExists
    <3>3. l \notin ToSet(DrainFile)
      BY <3>2 DEF ToSet
    <3> QED
      BY <2>0, <2>1, <3>1, <3>2, <3>3
  <2>5. CASE TruncatesFile \/ Unlinks
    <3>1. /\ file' = [file EXCEPT !.draining = <<>>] /\ drainer.at \in {"truncate", "unlink"}
          /\ lost' = lost \cup AppendedLate
          /\ drainer.at = "truncate" => DrainerGoes("write")
      BY <2>5 DEF TruncatesFile, Unlinks, Draining
    <3>2. QueueFile' = QueueFile
      BY <1>0, <3>1 DEF QueueFile, SpoolTyped
    <3>3. CASE l \in ToSet(DrainFile)
      <4>1. PICK i \in 1 .. Len(DrainFile) : DrainFile[i] = l
        BY <1>a, <3>3, InSequence
      <4>2. CASE i < drainer.next
        BY <1>b, <3>1, <4>1, <4>2 DEF PassedIsSettled, Holding
      <4>3. CASE i >= drainer.next /\ i <= drainer.known
        <5>1. /\ Len(drainer.left) = drainer.known + 1 - drainer.next
              /\ \A j \in 1 .. Len(drainer.left) : drainer.left[j] = DrainFile[drainer.next + j - 1]
              /\ drainer.at = "unlink" => drainer.known < drainer.next
          BY <3>1 DEF SpoolShape, LeftIsRest
        <5>2. i + 1 - drainer.next \in 1 .. Len(drainer.left)
              /\ drainer.left[i + 1 - drainer.next] = l
          <6>1. PICK first \in Nat, last \in Nat : first = drainer.next /\ last = drainer.known
            BY <1>a
          <6>2. i \in Int /\ i >= first /\ i <= last
            BY <4>1, <4>3, <6>1
          <6>3. i + 1 - first \in 1 .. last + 1 - first /\ first + (i + 1 - first) - 1 = i
            BY <6>1, <6>2
          <6> QED
            BY <4>1, <5>1, <6>1, <6>3
        <5>3. l \in ToSet(drainer.left)
          BY <1>a, <5>2, InSequence
        <5>4. drainer.at = "truncate"
          BY <1>a, <3>1, <4>3, <5>1
        <5>5. drainer'.at = "write" /\ drainer'.left = drainer.left
          BY <1>0, <3>1, <5>4, DrainerMoves DEF DrainSteps
        <5> QED
          BY <5>3, <5>5
      <4>4. CASE i > drainer.known
        <5>1. AppendedLate = ToSet(SubSeq(DrainFile, drainer.known + 1, Len(DrainFile)))
          BY DEF AppendedLate, DrainFile
        <5>2. l \in ToSet(SubSeq(DrainFile, drainer.known + 1, Len(DrainFile)))
          BY <1>a, <4>1, <4>4, InTail
        <5> QED
          BY <3>1, <5>1, <5>2
      <4> QED
        BY <1>a, <4>1, <4>2, <4>3, <4>4
    <3> QED
      BY <2>0, <2>1, <3>1, <3>2, <3>3
  <2>6. CASE WritesBack
    <3>1. /\ file' = [file EXCEPT !.draining = drainer.left] /\ drainer.at = "write"
          /\ lost' = lost \cup ToSet(DrainFile)
      BY <2>6 DEF WritesBack, Draining, DrainFile
    <3>2. QueueFile' = QueueFile /\ DrainFile' = drainer.left
      BY <1>0, <3>1 DEF QueueFile, DrainFile, SpoolTyped
    <3> QED
      BY <2>0, <2>1, <3>1, <3>2
  <2> QED
    BY <2>2, <2>3, <2>4, <2>5, <2>6, SpoolFrame
<1> QED
  BY <1>1, <1>2

LEMMA SpoolKeepsInit == SpoolInit => SpoolKeeps
<1> SUFFICES ASSUME SpoolInit PROVE SpoolKeeps
  OBVIOUS
<1>1. SpoolShape
  BY SpoolShapeInit
<1>2. drainer.at = "free"
  BY DEF SpoolInit, Free
<1>3. NothingLeftBehind
  BY DEF SpoolInit, NothingLeftBehind
<1>4. PassedIsSettled
  BY <1>2 DEF PassedIsSettled, Holding, Reading
<1> QED
  BY <1>1, <1>3, <1>4 DEF SpoolKeeps

\* A line whose hook has exited is in one of the files, in the hands of the drainer
\* that writes it back, settled, or one of the lines the code is known to drop
\* (those of lost), however hooks, drains, limits and deaths interleave.
THEOREM ClosedLinesAreKept == SpoolSpec => []NothingLeftBehind
<1>1. SpoolInit => SpoolKeeps
  BY SpoolKeepsInit
<1>2. SpoolKeeps /\ [SpoolNext]_spoolVars => SpoolKeeps'
  BY SpoolShapeStep, PassedIsSettledStep, NothingLeftBehindStep DEF SpoolKeeps
<1>3. SpoolKeeps => NothingLeftBehind
  BY DEF SpoolKeeps
<1> QED
  BY <1>1, <1>2, <1>3, PTL DEF SpoolSpec

-----------------------------------------------------------------------------
(* A line is applied once, and once more for each drain that ended early.  *)

\* No line is twice in a file, none in both, and all were written by hooks that
\* have exited; a hook that has not was not applied.
LinesOnce ==
    /\ \A i, j \in 1 .. Len(QueueFile) : QueueFile[i] = QueueFile[j] => i = j
    /\ \A i, j \in 1 .. Len(DrainFile) : DrainFile[i] = DrainFile[j] => i = j
    /\ \A i \in 1 .. Len(QueueFile), j \in 1 .. Len(DrainFile) : QueueFile[i] # DrainFile[j]
    /\ \A i \in 1 .. Len(QueueFile) : handle[QueueFile[i]] = "closed"
    /\ \A i \in 1 .. Len(DrainFile) : handle[DrainFile[i]] = "closed"
    /\ \A l \in Lines : handle[l] # "closed" => applied[l] = 0

\* So is what the drainer is about to write back.
LeftOnce ==
    drainer.at = "write" =>
        /\ \A i, j \in 1 .. Len(drainer.left) : drainer.left[i] = drainer.left[j] => i = j
        /\ \A i \in 1 .. Len(QueueFile), j \in 1 .. Len(drainer.left) :
               QueueFile[i] # drainer.left[j]
        /\ \A i \in 1 .. Len(drainer.left) : handle[drainer.left[i]] = "closed"

\* The first line of the renamed file the drainer has not applied.
FirstPending ==
    IF drainer.at \notin Holding THEN 1
    ELSE IF drainer.at = "mark" THEN drainer.next + 1 ELSE drainer.next

\* What waits to be applied was applied once for each drain that ended early.
PendingIsCounted ==
    replays < 2 =>
        /\ \A i \in 1 .. Len(QueueFile) : applied[QueueFile[i]] <= replays
        /\ \A i \in 1 .. Len(DrainFile) : i >= FirstPending => applied[DrainFile[i]] <= replays
        /\ drainer.at = "write" =>
               \A i \in 1 .. Len(drainer.left) : applied[drainer.left[i]] <= replays

\* Inductive for ReplaysAreCounted.
SpoolCounts ==
    SpoolShape /\ LinesOnce /\ LeftOnce /\ PendingIsCounted /\ ReplaysAreCounted

\* A hook that has exited stays so.
LEMMA ClosedStays ==
  ASSUME SpoolTyped, [SpoolNext]_spoolVars, NEW l \in Lines, handle[l] = "closed"
  PROVE  handle'[l] = "closed"
<1>1. CASE handle' = handle
  BY <1>1
<1>2. ASSUME NEW k \in Lines, HookOpens(k)
      PROVE  handle'[l] = "closed"
  BY <1>2 DEF HookOpens, SpoolTyped
<1>3. ASSUME NEW k \in Lines, HookWrites(k)
      PROVE  handle'[l] = "closed"
  BY <1>3 DEF HookWrites, SpoolTyped
<1>4. CASE Renames \/ Unlinks
  BY <1>4 DEF Renames, Unlinks, SpoolTyped
<1> QED
  BY <1>1, <1>2, <1>3, <1>4
     DEF SpoolNext, DrainerStep, spoolVars, DrainCalled, KeepsDraining,
         NothingLeft, ReadsFile, SkipsGarbled, AppliesLine, MarksStale, LineRaises, StopsReading,
         Rereads, TruncatesFile, WritesBack, DrainerDies

\* Only the line the drainer is at is applied, and that line is in the file.
LEMMA AppliesOne ==
  ASSUME SpoolShape, LinesOnce, [SpoolNext]_spoolVars
  PROVE  \/ applied' = applied
         \/ /\ AppliesLine
            /\ drainer.at = "line" /\ drainer.next \in 1 .. Len(DrainFile)
            /\ Line \in Lines /\ Line = DrainFile[drainer.next] /\ handle[Line] = "closed"
            /\ applied' = [applied EXCEPT ![Line] = Plus(applied[Line], 3)]
<1>0. SpoolTyped
  BY DEF SpoolShape
<1>1. CASE AppliesLine
  <2>1. /\ drainer.at = "line" /\ drainer.next <= Len(drainer.seen)
        /\ applied' = [applied EXCEPT ![Line] = Plus(applied[Line], 3)]
    BY <1>1 DEF AppliesLine, Draining, More
  <2>2. /\ drainer.next \in 1 .. Len(DrainFile) /\ Line = DrainFile[drainer.next]
    BY <1>0, <2>1, FileFacts DEF SpoolShape, SeenIsPrefix, Reading, Line
  <2> QED
    BY <1>0, <1>1, <2>1, <2>2, FileFacts DEF LinesOnce
<1> QED
  BY <1>1
     DEF SpoolNext, DrainerStep, spoolVars, HookOpens, HookWrites, DrainCalled, Renames, KeepsDraining,
         NothingLeft, ReadsFile, SkipsGarbled, MarksStale, LineRaises, StopsReading,
         Rereads, TruncatesFile, WritesBack, Unlinks, DrainerDies

LEMMA LinesOnceStep ==
  ASSUME SpoolShape, LinesOnce, LeftOnce, [SpoolNext]_spoolVars
  PROVE  LinesOnce'
<1>0. SpoolTyped
  BY DEF SpoolShape
<1>a. /\ DrainFile \in Seq(Lines) /\ Len(DrainFile) \in Nat
      /\ QueueFile \in Seq(Lines) /\ Len(QueueFile) \in Nat
      /\ \A i \in 1 .. Len(DrainFile) : DrainFile[i] \in Lines
      /\ \A i \in 1 .. Len(QueueFile) : QueueFile[i] \in Lines
      /\ \A i \in 1 .. Len(drainer.left) : drainer.left[i] \in Lines
  BY <1>0, FileFacts
<1>b. \A l \in Lines : handle[l] = "closed" => handle'[l] = "closed"
  BY <1>0, ClosedStays
<1>c. \A l \in Lines : handle'[l] # "closed" => applied'[l] = 0
  <2> SUFFICES ASSUME NEW l \in Lines, handle'[l] # "closed"
               PROVE  applied'[l] = 0
    OBVIOUS
  <2>1. handle[l] # "closed" /\ applied[l] = 0
    BY <1>b DEF LinesOnce
  <2> QED
    BY <1>0, <2>1, AppliesOne DEF SpoolTyped
<1>1. ASSUME QueueFile' = QueueFile, DrainFile' = DrainFile \/ DrainFile' = <<>>
      PROVE  LinesOnce'
  <2>1. Len(<<>>) = 0
    BY EmptySeq
  <2> QED
    BY <1>a, <1>b, <1>c, <1>1, <2>1 DEF LinesOnce
<1>2. CASE WritesBack
  <2>1. QueueFile' = QueueFile /\ DrainFile' = drainer.left /\ drainer.at = "write"
    BY <1>0, <1>2 DEF WritesBack, Draining, QueueFile, DrainFile, SpoolTyped
  <2> QED
    BY <1>a, <1>b, <1>c, <2>1 DEF LinesOnce, LeftOnce
<1>3. CASE Renames
  <2>1. QueueFile' = <<>> /\ DrainFile' = QueueFile /\ Len(<<>>) = 0
    BY <1>3, EmptySeq DEF Renames, QueueFile, DrainFile
  <2> QED
    BY <1>a, <1>b, <1>c, <2>1 DEF LinesOnce
<1>4. ASSUME NEW l \in Lines, HookWrites(l)
      PROVE  LinesOnce'
  <2>1. /\ QueueFile' = IF handle[l] = "queue" THEN Append(QueueFile, l) ELSE QueueFile
        /\ DrainFile' = IF handle[l] = "draining" THEN Append(DrainFile, l) ELSE DrainFile
        /\ handle[l] # "closed" /\ handle'[l] = "closed"
    BY <1>0, <1>4, HookWritesEffect
  <2>2. /\ \A i \in 1 .. Len(QueueFile) : QueueFile[i] # l
        /\ \A i \in 1 .. Len(DrainFile) : DrainFile[i] # l
    BY <2>1 DEF LinesOnce
  <2>6. /\ \A i, j \in 1 .. Len(QueueFile) : QueueFile[i] = QueueFile[j] => i = j
        /\ \A i, j \in 1 .. Len(DrainFile) : DrainFile[i] = DrainFile[j] => i = j
        /\ \A i \in 1 .. Len(QueueFile), j \in 1 .. Len(DrainFile) : QueueFile[i] # DrainFile[j]
    BY DEF LinesOnce
  <2>7. /\ \A i \in 1 .. Len(QueueFile) : handle'[QueueFile[i]] = "closed"
        /\ \A i \in 1 .. Len(DrainFile) : handle'[DrainFile[i]] = "closed"
    BY <1>a, <1>b DEF LinesOnce
  <2>4. CASE handle[l] = "queue"
    <3>1. QueueFile' = Append(QueueFile, l) /\ DrainFile' = DrainFile
      BY <2>1, <2>4
    <3>2. ASSUME NEW i \in 1 .. Len(QueueFile')
          PROVE  \/ i \in 1 .. Len(QueueFile) /\ QueueFile'[i] = QueueFile[i]
                 \/ i = Len(QueueFile) + 1 /\ QueueFile'[i] = l
      BY <1>a, <3>1, <3>2, AppendAt
    <3> QED
      BY <1>c, <2>1, <2>2, <2>6, <2>7, <3>1, <3>2 DEF LinesOnce
  <2>5. CASE handle[l] = "draining"
    <3>1. DrainFile' = Append(DrainFile, l) /\ QueueFile' = QueueFile
      BY <2>1, <2>5
    <3>2. ASSUME NEW i \in 1 .. Len(DrainFile')
          PROVE  \/ i \in 1 .. Len(DrainFile) /\ DrainFile'[i] = DrainFile[i]
                 \/ i = Len(DrainFile) + 1 /\ DrainFile'[i] = l
      BY <1>a, <3>1, <3>2, AppendAt
    <3> QED
      BY <1>c, <2>1, <2>2, <2>6, <2>7, <3>1, <3>2 DEF LinesOnce
  <2> QED
    BY <1>1, <2>1, <2>4, <2>5
<1>5. CASE TruncatesFile \/ Unlinks
  <2>1. QueueFile' = QueueFile /\ DrainFile' = <<>>
    BY <1>0, <1>5 DEF TruncatesFile, Unlinks, QueueFile, DrainFile, SpoolTyped
  <2> QED
    BY <1>1, <2>1
<1>6. CASE file' = file
  BY <1>1, <1>6 DEF QueueFile, DrainFile
<1> QED
  BY <1>2, <1>3, <1>4, <1>5, <1>6, SpoolFrame

LEMMA LeftOnceStep ==
  ASSUME SpoolShape, LinesOnce, LeftOnce, [SpoolNext]_spoolVars
  PROVE  LeftOnce'
<1>0. SpoolTyped /\ drainer \in Drainers /\ drainer.at \in DrainSteps
  BY DEF SpoolShape, SpoolTyped, Drainers
<1>a. /\ Len(DrainFile) \in Nat /\ QueueFile \in Seq(Lines) /\ Len(QueueFile) \in Nat
      /\ \A i \in 1 .. Len(DrainFile) : DrainFile[i] \in Lines
      /\ \A i \in 1 .. Len(drainer.left) : drainer.left[i] \in Lines
      /\ Len(drainer.left) \in Nat /\ drainer.next \in Nat \ {0} /\ drainer.known \in Nat
  BY <1>0, FileFacts
<1>b. \A l \in Lines : handle[l] = "closed" => handle'[l] = "closed"
  BY <1>0, ClosedStays
<1>1. CASE TruncatesFile
  <2>1. /\ QueueFile' = QueueFile /\ drainer.at = "truncate" /\ drainer'.left = drainer.left
    <3>1. DrainerGoes("write") /\ "write" \in DrainSteps
      BY <1>1 DEF TruncatesFile, DrainSteps
    <3> QED
      BY <1>0, <1>1, <3>1, DrainerMoves DEF TruncatesFile, Draining, QueueFile, SpoolTyped
  <2>2. ASSUME NEW i \in 1 .. Len(drainer.left)
        PROVE  /\ drainer.next + i - 1 \in 1 .. Len(DrainFile)
               /\ drainer.left[i] = DrainFile[drainer.next + i - 1]
    <3>1. /\ drainer.known <= Len(DrainFile) /\ Len(drainer.left) = drainer.known + 1 - drainer.next
          /\ \A j \in 1 .. Len(drainer.left) : drainer.left[j] = DrainFile[drainer.next + j - 1]
      BY <2>1 DEF SpoolShape, LeftIsRest
    <3> QED
      BY <1>a, <3>1
  <2>3. ASSUME NEW i \in 1 .. Len(drainer.left), NEW j \in 1 .. Len(drainer.left),
               drainer.left[i] = drainer.left[j]
        PROVE  i = j
    <3>1. PICK m \in 1 .. Len(DrainFile) :
                 m = drainer.next + i - 1 /\ drainer.left[i] = DrainFile[m]
      BY <2>2
    <3>2. PICK n \in 1 .. Len(DrainFile) :
                 n = drainer.next + j - 1 /\ drainer.left[j] = DrainFile[n]
      BY <2>2
    <3>3. m = n
      BY <2>3, <3>1, <3>2 DEF LinesOnce
    <3> QED
      BY <1>a, <3>1, <3>2, <3>3
  <2> QED
    <3>1. \A i \in 1 .. Len(drainer.left) : \E m \in 1 .. Len(DrainFile) :
             drainer.left[i] = DrainFile[m]
      BY <2>2
    <3>2. \A i \in 1 .. Len(drainer.left) : handle'[drainer.left[i]] = "closed"
      BY <1>a, <1>b, <3>1 DEF LinesOnce
    <3>3. \A i \in 1 .. Len(QueueFile), j \in 1 .. Len(drainer.left) :
               QueueFile[i] # drainer.left[j]
      BY <3>1 DEF LinesOnce
    <3> QED
      BY <2>1, <2>3, <3>2, <3>3 DEF LeftOnce
<1>2. ASSUME NEW l \in Lines, HookWrites(l), drainer.at = "write"
      PROVE  LeftOnce'
  <2>1. /\ QueueFile' = IF handle[l] = "queue" THEN Append(QueueFile, l) ELSE QueueFile
        /\ handle[l] # "closed" /\ drainer' = drainer
    BY <1>0, <1>2, HookWritesEffect DEF HookWrites
  <2>2. /\ Len(Append(QueueFile, l)) = Len(QueueFile) + 1
        /\ Append(QueueFile, l)[Len(QueueFile) + 1] = l
        /\ \A i \in 1 .. Len(QueueFile) : Append(QueueFile, l)[i] = QueueFile[i]
    BY <1>a, AppendProperties
  <2>3. ASSUME NEW i \in 1 .. Len(QueueFile')
        PROVE  \/ i \in 1 .. Len(QueueFile) /\ QueueFile'[i] = QueueFile[i]
               \/ QueueFile'[i] = l
    BY <1>a, <2>1, <2>2
  <2> QED
    BY <1>2, <1>a, <1>b, <2>1, <2>3 DEF LeftOnce
<1>3. CASE drainer'.at # "write"
  BY <1>3 DEF LeftOnce
<1>4. CASE drainer' = drainer /\ QueueFile' = QueueFile
  BY <1>a, <1>b, <1>4 DEF LeftOnce
<1>5. \/ TruncatesFile
      \/ drainer' = drainer /\ QueueFile' = QueueFile
      \/ drainer'.at # "write"
      \/ drainer.at = "write" /\ \E l \in Lines : HookWrites(l)
  <2>1. /\ \A s \in {"choose", "read", "line", "mark", "reread"} : s \in DrainSteps
    BY DEF DrainSteps
  <2>2. CASE \/ Renames \/ KeepsDraining \/ StopsReading \/ Unlinks \/ SkipsGarbled
             \/ AppliesLine \/ MarksStale
    <3>1. \E s \in {"choose", "read", "line", "mark", "reread"} : DrainerGoes(s) \/ Taken(s)
      BY <2>2 DEF Renames, KeepsDraining, StopsReading, Unlinks, SkipsGarbled, AppliesLine, MarksStale
    <3> QED
      BY <1>0, <2>1, <3>1, DrainerMoves, DrainerTakes
  <2>3. CASE ReadsFile \/ Rereads
    BY <1>0, <2>3 DEF ReadsFile, Rereads, Drainers
  <2>4. CASE DrainCalled \/ NothingLeft \/ LineRaises \/ WritesBack \/ DrainerDies
    BY <2>4, FreeDrainer DEF DrainCalled, NothingLeft, LineRaises, WritesBack, DrainerDies
  <2>5. CASE UNCHANGED spoolVars \/ \E l \in Lines : HookOpens(l)
    BY <2>5 DEF spoolVars, HookOpens, QueueFile
  <2>6. CASE \E l \in Lines : HookWrites(l)
    <3>1. drainer' = drainer
      BY <2>6 DEF HookWrites
    <3> QED
      BY <2>6, <3>1
  <2> QED
    BY <2>2, <2>3, <2>4, <2>5, <2>6 DEF SpoolNext, DrainerStep
<1> QED
  BY <1>1, <1>2, <1>3, <1>4, <1>5

\* The cursor never goes back over a line that was applied while the file is held.
LEMMA CursorMoves ==
  ASSUME SpoolShape,
         \/ DrainCalled \/ KeepsDraining \/ NothingLeft \/ ReadsFile \/ SkipsGarbled
         \/ MarksStale \/ StopsReading \/ Rereads \/ (\E l \in Lines : HookOpens(l))
         \/ UNCHANGED spoolVars
  PROVE  /\ UNCHANGED <<QueueFile, DrainFile, applied, replays>>
         /\ FirstPending' >= FirstPending
         /\ drainer'.at = "write" => drainer.at = "write" /\ drainer'.left = drainer.left
<1>0. SpoolTyped /\ drainer \in Drainers /\ drainer.next \in Nat \ {0}
  BY DEF SpoolShape, SpoolTyped, Drainers
<1>1. UNCHANGED <<QueueFile, DrainFile, applied, replays>>
  BY DEF DrainCalled, KeepsDraining, NothingLeft, ReadsFile, SkipsGarbled, MarksStale,
         StopsReading, Rereads, HookOpens, spoolVars, QueueFile, DrainFile
<1>2. /\ "line" \in DrainSteps /\ "read" \in DrainSteps /\ "reread" \in DrainSteps
      /\ "choose" \in DrainSteps
  BY DEF DrainSteps
<1>3. CASE drainer' = drainer
  BY <1>0, <1>1, <1>3 DEF FirstPending
<1>4. CASE DrainCalled \/ KeepsDraining \/ NothingLeft
  <2>1. /\ drainer.at \in {"free", "choose"}
        /\ drainer' = Free \/ drainer' = [Free EXCEPT !.at = "choose"] \/ DrainerGoes("read")
    BY <1>4 DEF DrainCalled, KeepsDraining, NothingLeft, Draining
  <2>2. drainer'.at \in {"free", "choose", "read"}
    BY <1>0, <1>2, <2>1, FreeDrainer, DrainerMoves
  <2> QED
    BY <1>1, <2>1, <2>2 DEF FirstPending, Holding, Reading
<1>5. CASE ReadsFile
  BY <1>0, <1>1, <1>5 DEF ReadsFile, Draining, FirstPending, Holding, Reading, Drainers
<1>6. CASE SkipsGarbled \/ MarksStale
  <2>1. /\ drainer.at \in {"line", "mark"} /\ Taken("line")
    BY <1>6 DEF SkipsGarbled, MarksStale, Draining
  <2>2. drainer'.at = "line" /\ drainer'.next = drainer.next + 1
    BY <1>0, <1>2, <2>1, DrainerTakes
  <2> QED
    BY <1>0, <1>1, <2>1, <2>2 DEF FirstPending, Holding, Reading
<1>7. CASE StopsReading \/ Rereads
  <2>1. /\ drainer.at \in {"line", "reread"}
        /\ drainer'.at \in {"reread", "truncate", "unlink"} /\ drainer'.next = drainer.next
    <3>1. CASE StopsReading
      <4>1. DrainerGoes("reread") /\ drainer.at = "line"
        BY <3>1 DEF StopsReading, Draining
      <4> QED
        BY <1>0, <1>2, <4>1, DrainerMoves
    <3>2. CASE Rereads
      BY <1>0, <3>2 DEF Rereads, Draining, Drainers
    <3> QED
      BY <1>7, <3>1, <3>2
  <2> QED
    BY <1>0, <1>1, <2>1 DEF FirstPending, Holding, Reading
<1> QED
  BY <1>3, <1>4, <1>5, <1>6, <1>7 DEF HookOpens, spoolVars

LEMMA PendingIsCountedStep ==
  ASSUME SpoolCounts, [SpoolNext]_spoolVars
  PROVE  PendingIsCounted' /\ ReplaysAreCounted'
<1>0. /\ SpoolTyped /\ drainer \in Drainers /\ SpoolShape /\ LinesOnce /\ LeftOnce
      /\ PendingIsCounted /\ ReplaysAreCounted
      /\ applied \in [Lines -> 0 .. 3] /\ replays \in 0 .. 2
  BY DEF SpoolCounts, SpoolShape, SpoolTyped
<1>a. /\ DrainFile \in Seq(Lines) /\ Len(DrainFile) \in Nat
      /\ QueueFile \in Seq(Lines) /\ Len(QueueFile) \in Nat
      /\ \A i \in 1 .. Len(DrainFile) : DrainFile[i] \in Lines
      /\ \A i \in 1 .. Len(QueueFile) : QueueFile[i] \in Lines
      /\ \A i \in 1 .. Len(drainer.left) : drainer.left[i] \in Lines
      /\ Len(drainer.left) \in Nat /\ drainer.next \in Nat \ {0} /\ drainer.known \in Nat
  BY <1>0, FileFacts
<1>b. FirstPending \in Nat \ {0}
  BY <1>a DEF FirstPending
<1>c. Len(<<>>) = 0
  BY EmptySeq
\* A drain that ends early: whatever is left may have been applied already.
<1>1. CASE LineRaises \/ DrainerDies
  <2>1. /\ UNCHANGED <<file, applied>> /\ replays' = Plus(replays, 2) /\ drainer' = Free
    BY <1>1 DEF LineRaises, DrainerDies
  <2>2. drainer'.at = "free" /\ QueueFile' = QueueFile /\ DrainFile' = DrainFile
    BY <2>1, FreeDrainer DEF QueueFile, DrainFile
  <2>3. /\ replays' >= replays /\ replays' \in 0 .. 2
        /\ replays' < 2 => replays' = 1 + replays
    BY <1>0, <2>1 DEF Plus
  <2>4. \A l \in Lines : applied'[l] <= 1 + replays'
    BY <1>0, <2>1, <2>3 DEF ReplaysAreCounted
  <2>5. replays' < 2 => \A l \in Lines : applied'[l] <= replays'
    BY <1>0, <2>1, <2>3 DEF ReplaysAreCounted
  <2> QED
    BY <1>a, <2>2, <2>4, <2>5 DEF PendingIsCounted, ReplaysAreCounted
<1>2. CASE \/ DrainCalled \/ KeepsDraining \/ NothingLeft \/ ReadsFile \/ SkipsGarbled
           \/ MarksStale \/ StopsReading \/ Rereads \/ (\E l \in Lines : HookOpens(l))
           \/ UNCHANGED spoolVars
  <2>1. /\ UNCHANGED <<QueueFile, DrainFile, applied, replays>>
        /\ FirstPending' >= FirstPending
        /\ drainer'.at = "write" => drainer.at = "write" /\ drainer'.left = drainer.left
    BY <1>0, <1>2, CursorMoves
  <2>2. FirstPending' \in Nat
    <3>1. drainer' \in Drainers
      BY <1>0, SpoolShapeStep DEF SpoolShape, SpoolTyped
    <3> QED
      BY <3>1 DEF FirstPending, Drainers
  <2>3. ReplaysAreCounted'
    BY <1>0, <2>1 DEF ReplaysAreCounted
  <2>4. ASSUME NEW i \in 1 .. Len(DrainFile), i >= FirstPending', replays < 2
        PROVE  applied[DrainFile[i]] <= replays
    BY <1>0, <1>b, <2>1, <2>2, <2>4 DEF PendingIsCounted
  <2> QED
    BY <1>0, <2>1, <2>3, <2>4 DEF PendingIsCounted
<1>3. CASE AppliesLine
  <2>1. /\ drainer.at = "line" /\ drainer.next \in 1 .. Len(DrainFile)
        /\ Line \in Lines /\ Line = DrainFile[drainer.next]
        /\ applied' = [applied EXCEPT ![Line] = Plus(applied[Line], 3)]
    <3>2. /\ drainer.at = "line" /\ drainer.next <= Len(drainer.seen)
          /\ applied' = [applied EXCEPT ![Line] = Plus(applied[Line], 3)]
      BY <1>3 DEF AppliesLine, Draining, More
    <3>3. /\ drainer.next \in 1 .. Len(DrainFile) /\ Line = DrainFile[drainer.next]
      BY <1>0, <1>a, <3>2, FileFacts DEF SpoolShape, SeenIsPrefix, Reading, Line
    <3> QED
      BY <1>a, <3>2, <3>3
  <2>2. UNCHANGED <<QueueFile, DrainFile, replays>>
    BY <1>3 DEF AppliesLine, QueueFile, DrainFile
  <2>3. FirstPending = drainer.next /\ FirstPending' = drainer.next + 1 /\ drainer'.at # "write"
    <3>1. \/ DrainerGoes("mark")
          \/ Taken("line")
      BY <1>3 DEF AppliesLine
    <3>2. "mark" \in DrainSteps /\ "line" \in DrainSteps
      BY DEF DrainSteps
    <3>3. \/ drainer'.at = "mark" /\ drainer'.next = drainer.next
          \/ drainer'.at = "line" /\ drainer'.next = drainer.next + 1
      BY <1>0, <3>1, <3>2, DrainerMoves, DrainerTakes
    <3> QED
      BY <1>a, <2>1, <3>3 DEF FirstPending, Holding, Reading
  <2>4. \A l \in Lines : l # Line => applied'[l] = applied[l]
    BY <1>0, <2>1
  <2>5. applied'[Line] <= 1 + replays
    <3>1. applied[Line] \in 0 .. 3 /\ applied'[Line] = Plus(applied[Line], 3)
      BY <1>0, <2>1
    <3>2. replays < 2 => applied[Line] <= replays
      <4>1. drainer.next >= FirstPending
        BY <1>a, <2>3
      <4>2. replays < 2 => applied[DrainFile[drainer.next]] <= replays
        BY <1>0, <2>1, <4>1 DEF PendingIsCounted
      <4> QED
        BY <2>1, <4>2
    <3> QED
      BY <1>0, <3>1, <3>2 DEF Plus
  <2>6. ReplaysAreCounted'
    BY <1>0, <2>2, <2>4, <2>5 DEF ReplaysAreCounted
  <2>7. /\ \A i \in 1 .. Len(QueueFile) : QueueFile[i] # Line
        /\ \A i \in 1 .. Len(DrainFile) : i >= drainer.next + 1 => DrainFile[i] # Line
    BY <1>0, <1>a, <2>1 DEF LinesOnce
  <2>8. ASSUME NEW i \in 1 .. Len(DrainFile), i >= drainer.next + 1, replays < 2
        PROVE  applied'[DrainFile[i]] <= replays
    BY <1>0, <1>a, <2>3, <2>4, <2>7, <2>8 DEF PendingIsCounted
  <2>9. ASSUME NEW i \in 1 .. Len(QueueFile), replays < 2
        PROVE  applied'[QueueFile[i]] <= replays
    BY <1>0, <1>a, <2>4, <2>7, <2>9 DEF PendingIsCounted
  <2> QED
    BY <2>2, <2>3, <2>6, <2>8, <2>9 DEF PendingIsCounted
<1>4. ASSUME NEW l \in Lines, HookWrites(l)
      PROVE  PendingIsCounted' /\ ReplaysAreCounted'
  <2>1. /\ QueueFile' = IF handle[l] = "queue" THEN Append(QueueFile, l) ELSE QueueFile
        /\ DrainFile' = IF handle[l] = "draining" THEN Append(DrainFile, l) ELSE DrainFile
        /\ handle[l] # "closed"
    BY <1>0, <1>4, HookWritesEffect
  <2>2. UNCHANGED <<drainer, applied, replays>> /\ FirstPending' = FirstPending
    BY <1>4 DEF HookWrites, FirstPending
  <2>3. applied[l] <= replays
    BY <1>0, <2>1 DEF LinesOnce
  <2>4. ASSUME NEW i \in 1 .. Len(QueueFile'), replays < 2
        PROVE  applied[QueueFile'[i]] <= replays
    <3>1. \/ i \in 1 .. Len(QueueFile) /\ QueueFile'[i] = QueueFile[i]
          \/ QueueFile'[i] = l
      BY <1>a, <2>1, <2>4, AppendAt
    <3> QED
      BY <1>0, <2>3, <2>4, <3>1 DEF PendingIsCounted
  <2>5. ASSUME NEW i \in 1 .. Len(DrainFile'), i >= FirstPending, replays < 2
        PROVE  applied[DrainFile'[i]] <= replays
    <3>1. \/ i \in 1 .. Len(DrainFile) /\ DrainFile'[i] = DrainFile[i]
          \/ DrainFile'[i] = l
      BY <1>a, <2>1, <2>5, AppendAt
    <3> QED
      BY <1>0, <2>3, <2>5, <3>1 DEF PendingIsCounted
  <2> QED
    BY <1>0, <2>2, <2>4, <2>5 DEF PendingIsCounted, ReplaysAreCounted
<1>5. CASE Renames
  <2>1. /\ QueueFile' = <<>> /\ DrainFile' = QueueFile /\ UNCHANGED <<applied, replays>>
        /\ DrainerGoes("read")
    BY <1>5 DEF Renames, QueueFile, DrainFile
  <2>2. drainer'.at = "read"
    BY <1>0, <2>1, DrainerMoves DEF DrainSteps
  <2> QED
    BY <1>0, <1>a, <1>c, <2>1, <2>2 DEF PendingIsCounted, ReplaysAreCounted
<1>6. CASE TruncatesFile
  <2>1. /\ QueueFile' = QueueFile /\ DrainFile' = <<>> /\ UNCHANGED <<applied, replays>>
        /\ DrainerGoes("write") /\ drainer.at = "truncate"
    BY <1>0, <1>6 DEF TruncatesFile, QueueFile, DrainFile, SpoolTyped, Draining
  <2>2. drainer'.at = "write" /\ drainer'.left = drainer.left
    BY <1>0, <2>1, DrainerMoves DEF DrainSteps
  <2>3. FirstPending = drainer.next
    BY <2>1 DEF FirstPending, Holding
  <2>4. ASSUME NEW i \in 1 .. Len(drainer.left), replays < 2
        PROVE  applied[drainer.left[i]] <= replays
    <3>1. /\ drainer.known <= Len(DrainFile) /\ Len(drainer.left) = drainer.known + 1 - drainer.next
          /\ drainer.left[i] = DrainFile[drainer.next + i - 1]
      BY <1>0, <2>1 DEF SpoolShape, LeftIsRest
    <3>2. PICK m \in Int : m = drainer.next + i - 1
      BY <1>a
    <3>3. m \in 1 .. Len(DrainFile) /\ m >= drainer.next
      BY <1>a, <3>1, <3>2
    <3> QED
      BY <1>0, <2>3, <2>4, <3>1, <3>2, <3>3 DEF PendingIsCounted
  <2> QED
    BY <1>0, <1>c, <2>1, <2>2, <2>4 DEF PendingIsCounted, ReplaysAreCounted
<1>7. CASE WritesBack
  <2>1. /\ QueueFile' = QueueFile /\ DrainFile' = drainer.left /\ UNCHANGED <<applied, replays>>
        /\ drainer'.at = "free" /\ drainer.at = "write"
    BY <1>0, <1>7, FreeDrainer DEF WritesBack, QueueFile, DrainFile, SpoolTyped, Draining
  <2> QED
    BY <1>0, <2>1 DEF PendingIsCounted, ReplaysAreCounted
<1>8. CASE Unlinks
  <2>1. /\ QueueFile' = QueueFile /\ DrainFile' = <<>> /\ UNCHANGED <<applied, replays>>
        /\ DrainerGoes("choose")
    BY <1>0, <1>8 DEF Unlinks, QueueFile, DrainFile, SpoolTyped
  <2>2. drainer'.at = "choose"
    BY <1>0, <2>1, DrainerMoves DEF DrainSteps
  <2> QED
    BY <1>0, <1>c, <2>1, <2>2 DEF PendingIsCounted, ReplaysAreCounted
<1> QED
  BY <1>1, <1>2, <1>3, <1>4, <1>5, <1>6, <1>7, <1>8 DEF SpoolNext, DrainerStep

LEMMA SpoolCountsInit == SpoolInit => SpoolCounts
<1> SUFFICES ASSUME SpoolInit PROVE SpoolCounts
  OBVIOUS
<1>1. SpoolShape
  BY SpoolShapeInit
<1>2. /\ QueueFile = <<>> /\ DrainFile = <<>> /\ Len(<<>>) = 0
      /\ drainer.at = "free" /\ applied = [l \in Lines |-> 0] /\ replays = 0
  BY EmptySeq, FreeDrainer DEF SpoolInit, QueueFile, DrainFile
<1>3. LinesOnce /\ LeftOnce
  BY <1>2 DEF LinesOnce, LeftOnce
<1>4. PendingIsCounted /\ ReplaysAreCounted
  BY <1>2 DEF PendingIsCounted, ReplaysAreCounted
<1> QED
  BY <1>1, <1>3, <1>4 DEF SpoolCounts

\* The database takes a line once, and once more for each drain that died or raised
\* before it: no interleaving of hooks, renames and drains repeats a line.
THEOREM LinesAreNotRepeated == SpoolSpec => []ReplaysAreCounted
<1>1. SpoolInit => SpoolCounts
  BY SpoolCountsInit
<1>2. SpoolCounts /\ [SpoolNext]_spoolVars => SpoolCounts'
  BY SpoolShapeStep, LinesOnceStep, LeftOnceStep, PendingIsCountedStep DEF SpoolCounts
<1>3. SpoolCounts => ReplaysAreCounted
  BY DEF SpoolCounts
<1> QED
  BY <1>1, <1>2, <1>3, PTL DEF SpoolSpec
=============================================================================
