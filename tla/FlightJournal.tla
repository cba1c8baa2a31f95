--------------------------- MODULE FlightJournal ---------------------------
(***************************************************************************)
(* The flight recorder's journal: one writer appends checksummed frames to *)
(* segment files, a scanner reads whatever it finds.  Any write or fsync   *)
(* may fail, the process may die at any moment, and what was written and   *)
(* not synced may then be damaged.                                         *)
(*                                                                         *)
(* The writer's mutex makes an operation atomic; where it fails is chosen  *)
(* when it starts: `luck` is the number of I/O calls that still succeed.   *)
(* Sizes are counted in frames.                                            *)
(***************************************************************************)
EXTENDS Naturals, Sequences, FiniteSets, FiniteSetsExt

CONSTANTS
  MaxSegmentFrames,  \* Limits.MaxSegmentBytes: room for three health frames
                     \* and one record at least (minSegmentBytes)
  QueueSize,         \* capacity of the diagnostic queue
  MaxSegments,       \* bound on the segment index
  MaxSequence,       \* bound on stream sequences
  MaxDropped,        \* bound on dropped diagnostics
  MaxFaults          \* bound on failing operations, and on deaths

ASSUME SegmentAssumption == MaxSegmentFrames \in Nat /\ MaxSegmentFrames >= 4

VARIABLES
  files,   \* the segments on disk: index, first sequence, whether the header
           \* is whole, the frames, and how many of them are synced
  jw,       \* the Writer, with the outcome of its last operation
  acked,   \* sequences of critical records whose append returned nil
  faults,  \* operations that failed so far
  deaths   \* of the process

flightVars == <<files, jw, acked, faults, deaths>>

Damaged == [seq |-> 0, kind |-> "damaged"]

NewSegmentFile(i, first, header) ==
  [index |-> i, first |-> first, header |-> header, frames |-> << >>,
   synced |-> 0]

NoWriter ==
  [running |-> FALSE, ok |-> TRUE, luck |-> 0, files |-> << >>,
   active |-> FALSE,
   index |-> 0, nextSeq |-> 1, segStart |-> "none", writerErr |-> FALSE,
   dropped |-> 0, reported |-> 0, queue |-> 0]

InitFlight ==
  /\ files = << >>
  /\ jw = NoWriter
  /\ acked = {}
  /\ faults = 0 /\ deaths = 0

-----------------------------------------------------------------------------
(* The scanner.                                                            *)

(* The frames that pass the checksum and decode, wherever the damage is:   *)
(* resync finds the next valid frame behind it.                            *)
Delivered(segment) ==
  {k \in DOMAIN segment.frames :
     segment.header /\ segment.frames[k] # Damaged}

(* A segment with only a header has consumed the sequences before its own. *)
EffectiveLast(segment) ==
  IF Delivered(segment) = {} THEN segment.first - 1
  ELSE segment.frames[Max(Delivered(segment))].seq

WholeSegments(disk) == {i \in DOMAIN disk : disk[i].header}

LastSequence(disk) ==
  Max({0} \cup {EffectiveLast(disk[i]) : i \in WholeSegments(disk)})

(* Mutation: the sequence is taken from the last segment alone.            *)
ResumeAfterLastSegment(disk) ==
  IF Delivered(disk[Len(disk)]) = {} THEN 1
  ELSE EffectiveLast(disk[Len(disk)]) + 1

ResumeAt(disk) == LastSequence(disk) + 1

(* SEQ_REGRESSION within a segment, SEGMENT_ORDER at its start; the        *)
(* scanner compares the start with the whole segment before it, here it is *)
(* compared with every earlier one.                                        *)
SequenceRegresses(disk) ==
  \E j \in WholeSegments(disk) :
    \/ \E l \in Delivered(disk[j]) :
         \/ disk[j].frames[l].seq < disk[j].first
         \/ \E k \in Delivered(disk[j]) :
              k < l /\ disk[j].frames[k].seq >= disk[j].frames[l].seq
    \/ \E i \in WholeSegments(disk) :
         i < j /\ EffectiveLast(disk[i]) >= disk[j].first

-----------------------------------------------------------------------------
(* The writer's steps, as functions of the writer; v.ok says whether all   *)
(* went well so far, and nothing happens once it does not.                 *)

poisonLocked(v) ==
  [v EXCEPT !.active = FALSE, !.writerErr = TRUE, !.ok = FALSE]

lastFile(v) == Len(v.files)

(* The index is consumed whether the creation succeeds or not.  A failure  *)
(* leaves no file, a torn header, or a header alone.                       *)
newSegmentLocked(v, left) ==
  LET i == v.index + 1
      made(header) == Append(v.files, NewSegmentFile(i, v.nextSeq, header))
  IN IF i > MaxSegments THEN poisonLocked(v)
     ELSE IF v.luck = 0
     THEN poisonLocked([v EXCEPT !.index = i,
            !.files = CASE left = "nothing" -> v.files
                        [] left = "torn" -> made(FALSE)
                        [] left = "header" -> made(TRUE)])
     ELSE [v EXCEPT !.index = i, !.luck = @ - 1, !.active = TRUE,
                    !.files = made(TRUE)]

writeFrameLocked(v, kind) ==
  LET put(frame) ==
        [v.files EXCEPT ![lastFile(v)].frames = Append(@, frame)]
  IN IF v.luck = 0
     THEN poisonLocked([v EXCEPT !.files = put(Damaged)])
     ELSE [v EXCEPT !.luck = @ - 1, !.nextSeq = @ + 1,
                    !.files = put([seq |-> v.nextSeq, kind |-> kind])]

(* A pending health record is settled by the frame that reports it.        *)
StartReported(h) == IF h.ok THEN [h EXCEPT !.segStart = "none"] ELSE h
ErrorReported(h) == IF h.ok THEN [h EXCEPT !.writerErr = FALSE] ELSE h
DropsReported(h) == IF h.ok THEN [h EXCEPT !.reported = h.dropped] ELSE h

ReportStart(v) ==
  IF ~v.ok \/ v.segStart = "none" THEN v
  ELSE StartReported(writeFrameLocked(v, "health"))
ReportError(v) ==
  IF ~v.ok \/ ~v.writerErr THEN v
  ELSE ErrorReported(writeFrameLocked(v, "health"))
ReportDrops(v) ==
  IF ~v.ok \/ v.dropped = v.reported THEN v
  ELSE DropsReported(writeFrameLocked(v, "health"))

(* Segment-start, WRITER_ERROR and DROPPED_DIAGNOSTICS health, in turn.    *)
flushPendingHealthLocked(v) == ReportDrops(ReportError(ReportStart(v)))

openNextLocked(v, left) == flushPendingHealthLocked(newSegmentLocked(v, left))

ensureActiveLocked(v, left) ==
  IF v.active THEN v
  ELSE openNextLocked(
         IF v.segStart = "none" THEN [v EXCEPT !.segStart = "rotated"] ELSE v,
         left)

(* Without an active segment, as after a failure, nothing is synced.       *)
syncLocked(v) ==
  LET last == lastFile(v) IN
  IF ~v.active \/ v.files[last].synced = Len(v.files[last].frames) THEN v
  ELSE IF v.luck = 0 THEN poisonLocked(v)
  ELSE [v EXCEPT !.luck = @ - 1,
                 !.files[last].synced = Len(v.files[last].frames)]

(* The full segment is synced and closed, and the next one opened.         *)
OpenAfter(s, left) ==
  IF ~s.ok THEN s
  ELSE openNextLocked([s EXCEPT !.active = FALSE, !.segStart = "rotated"],
                      left)
rotateLocked(v, left) == OpenAfter(syncLocked(v), left)

pendingCount(v) ==
  (IF v.segStart # "none" THEN 1 ELSE 0) + (IF v.writerErr THEN 1 ELSE 0)
  + (IF v.dropped > v.reported THEN 1 ELSE 0)

(* With room left for the health frames that come first.                   *)
Fits(v) ==
  Len(v.files[lastFile(v)].frames) + pendingCount(v) + 1 <= MaxSegmentFrames

MakeRoom(v, left) ==
  IF ~v.ok THEN v
  ELSE IF Fits(v) THEN flushPendingHealthLocked(v) ELSE rotateLocked(v, left)
WriteRecord(v, kind) == IF v.ok THEN writeFrameLocked(v, kind) ELSE v
appendLocked(v, kind, left) ==
  WriteRecord(MakeRoom(ensureActiveLocked(v, left), left), kind)

(* One record of the queue; one that cannot be appended is dropped.        *)
CountDrop(v) ==
  IF v.ok THEN v ELSE [v EXCEPT !.ok = TRUE, !.dropped = @ + 1]
drainOne(v, left) ==
  CountDrop(appendLocked([v EXCEPT !.queue = @ - 1], "diagnostic", left))

flushHealthLocked(v, left) ==
  IF pendingCount(v) = 0 THEN v
  ELSE flushPendingHealthLocked(ensureActiveLocked(v, left))

-----------------------------------------------------------------------------
(* The operations.                                                         *)

Lefts == {"nothing", "torn", "header"}
MaxLuck == 9   \* more than the I/O calls of any operation

(* The writer when an operation with this luck begins.                     *)
Begin(luck) == [jw EXCEPT !.ok = TRUE, !.luck = luck, !.files = files]

(* The operation left the writer at v.                                     *)
End(v) ==
  /\ v.nextSeq <= MaxSequence + 1 /\ v.dropped <= MaxDropped
  /\ files' = v.files
  /\ jw' = [v EXCEPT !.luck = 0, !.files = << >>]

Faulty(luck) ==
  /\ luck < MaxLuck => faults < MaxFaults
  /\ faults' = faults + IF luck < MaxLuck THEN 1 ELSE 0

Lucks == 0 .. 5 \cup {MaxLuck}

(* Open: scan what is there, never modify it, start a new segment.         *)
OpenWriter(luck, left) ==
  /\ ~jw.running
  /\ Faulty(luck)
  /\ LET new == [NoWriter EXCEPT !.luck = luck, !.files = files]
         fresh == IF files = << >> THEN [new EXCEPT !.segStart = "started"]
                  ELSE [new EXCEPT !.index = files[Len(files)].index,
                                   !.nextSeq = ResumeAt(files),
                                   !.segStart = "reopen"]
         v == syncLocked(openNextLocked(fresh, left))
     IN End(IF v.ok THEN [v EXCEPT !.running = TRUE]
                    ELSE [NoWriter EXCEPT !.files = v.files])
  /\ UNCHANGED <<acked, deaths>>

(* Mutation: the append is acknowledged before it is synced.               *)
AckWritten(v) == IF v.ok THEN [v EXCEPT !.luck = v.luck] ELSE v

AckSynced(v) == IF v.ok THEN syncLocked(v) ELSE v

AppendCritical(luck, left) ==
  /\ jw.running
  /\ Faulty(luck)
  /\ LET a == appendLocked(Begin(luck), "critical", left)
         v == AckSynced(a)
     IN /\ End(v)
        /\ acked' = IF v.ok THEN acked \cup {a.nextSeq - 1} ELSE acked
  /\ UNCHANGED deaths

(* Queued, or dropped and counted when the queue is full.                  *)
AppendDiagnostic ==
  /\ jw.running
  /\ jw' = IF jw.queue < QueueSize THEN [jw EXCEPT !.queue = @ + 1]
          ELSE [jw EXCEPT !.dropped = @ + 1]
  /\ jw'.dropped <= MaxDropped
  /\ UNCHANGED <<files, acked, faults, deaths>>

(* The background goroutine, one record at a time.                         *)
Drain(luck, left) ==
  /\ jw.running /\ jw.queue > 0
  /\ Faulty(luck)
  /\ End(drainOne(Begin(luck), left))
  /\ UNCHANGED <<acked, deaths>>

Tick(luck) ==
  /\ jw.running
  /\ Faulty(luck)
  /\ End(syncLocked(Begin(luck)))
  /\ UNCHANGED <<acked, deaths>>

(* The queue was drained by Drain steps before.                            *)
Flush(luck, left) ==
  /\ jw.running /\ jw.queue = 0
  /\ Faulty(luck)
  /\ End(syncLocked(flushHealthLocked(Begin(luck), left)))
  /\ UNCHANGED <<acked, deaths>>

(* Close drains, or discards when its context is over, and ends the        *)
(* writer whatever fails.                                                  *)
CloseWriter(luck, left) ==
  /\ jw.running
  /\ Faulty(luck)
  /\ \/ jw.queue = 0
     \/ jw.dropped + jw.queue <= MaxDropped
  /\ LET d == [Begin(luck) EXCEPT !.queue = 0, !.dropped = @ + jw.queue]
         h == flushHealthLocked(d, left)
         v == syncLocked(h)
     IN End([NoWriter EXCEPT !.files = v.files])
  /\ UNCHANGED <<acked, deaths>>

(* The process dies.  What was not synced survives or is damaged.          *)
ProcessDies ==
  /\ jw.running /\ deaths < MaxFaults
  /\ \E lost \in SUBSET UNION
          {{i} \X (files[i].synced + 1 .. Len(files[i].frames)) :
             i \in DOMAIN files} :
       files' = [i \in DOMAIN files |->
         [files[i] EXCEPT !.frames = [k \in DOMAIN @ |->
            IF <<i, k>> \in lost THEN Damaged ELSE @[k]]]]
  /\ jw' = NoWriter
  /\ deaths' = deaths + 1
  /\ UNCHANGED <<acked, faults>>

NextFlight ==
  \/ \E luck \in Lucks, left \in Lefts :
       \/ OpenWriter(luck, left) \/ AppendCritical(luck, left)
       \/ Drain(luck, left) \/ Flush(luck, left) \/ CloseWriter(luck, left)
  \/ \E luck \in {0, MaxLuck} : Tick(luck)
  \/ AppendDiagnostic
  \/ ProcessDies

SpecFlight == InitFlight /\ [][NextFlight]_flightVars

-----------------------------------------------------------------------------
(* Properties.                                                             *)

(* AppendCritical "returns nil only after the complete frame was written   *)
(* and File.Sync succeeded": whatever fails later, and however often the   *)
(* process dies, an acknowledged record is delivered by every scan, once,  *)
(* under the sequence it was given.                                        *)
AcknowledgedSurvives ==
  \A n \in acked :
    Cardinality({p \in UNION {{i} \X Delivered(files[i]) : i \in DOMAIN files} :
                   /\ files[p[1]].frames[p[2]].seq = n
                   /\ files[p[1]].frames[p[2]].kind = "critical"}) = 1

(* A journal of this writer never regresses, so every regression that the  *)
(* scanner reports is damage from outside (SEQ_REGRESSION, SEGMENT_ORDER): *)
(* failed writes, abandoned segments and recovery from a damaged tail use  *)
(* no sequence twice.                                                      *)
SequencesAdvance ==
  /\ ~SequenceRegresses(files)
  /\ jw.running => jw.nextSeq > LastSequence(files)

=============================================================================
