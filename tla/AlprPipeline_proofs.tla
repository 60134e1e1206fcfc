----------------------- MODULE AlprPipeline_proofs -----------------------
(***************************************************************************)
(* For any number of segments, frames, workers, goroutines and failures:   *)
(* no segment is extracted by two hands, a mark hides only frames lost on  *)
(* record, and the counts of the completion probe speak for the sets they  *)
(* count.                                                                  *)
(***************************************************************************)
EXTENDS AlprPipeline, FiniteSetTheorems, SequenceTheorems, TLAPS

ExtRec  == [pc : {"idle", "run", "release"}, seg : 0..NSegs,
            sent : 0..FramesPer, len : 0..FramesPer]
TaskRec == [pc : {"idle", "engine", "mark", "probe", "emit"},
            frame : Frames \cup {NoFrame}]
ScanRec == [pc : {"check", "claim", "send"}, seg : Segs]

\* The bounds as numbers, and the values things start from.
LEMMA Constants ==
  /\ NSegs \in Nat /\ 1 \in Segs /\ Segs \subseteq 0..NSegs
  /\ FramesPer \in Nat /\ Buffer \in Nat /\ Buffer >= 1 /\ MaxUpsets \in Nat
  /\ Cardinality(ExtWorkers) \in Nat
  /\ ScanIdle \in ScanRec /\ ExtIdle \in ExtRec /\ TaskIdle \in TaskRec
  /\ NoFrame \notin Frames
<1>1. /\ NSegs \in Nat /\ NSegs >= 1 /\ FramesPer \in Nat /\ Buffer \in Nat
      /\ Buffer >= 1 /\ MaxUpsets \in Nat
  BY PipelineAssumption
<1>2. Cardinality(ExtWorkers) \in Nat
  BY PipelineAssumption, FS_CardinalityType
<1>3. 1 \in Segs /\ Segs \subseteq 0..NSegs /\ 0 \notin Segs
  BY <1>1 DEF Segs
<1>4. 0 \in 0..NSegs /\ 0 \in 0..FramesPer
  BY <1>1
<1>5. NoFrame \notin Frames
  BY <1>3 DEF NoFrame, Frames
<1> QED BY <1>1, <1>2, <1>3, <1>4, <1>5 DEF ScanIdle, ExtIdle, TaskIdle, ScanRec, ExtRec, TaskRec

\* Taking the first element off a queue, and putting one behind it.
LEMMA TailFacts ==
  ASSUME NEW S, NEW q \in Seq(S), q # <<>>
  PROVE  /\ Head(q) \in S /\ Tail(q) \in Seq(S) /\ Len(Tail(q)) <= Len(q)
         /\ 1 \in DOMAIN q /\ Head(q) = q[1]
         /\ \A i \in DOMAIN Tail(q) :
              i \in Nat /\ i + 1 \in DOMAIN q /\ i + 1 # 1 /\ Tail(q)[i] = q[i + 1]
         /\ \A i \in DOMAIN q : i = 1 \/ (i - 1 \in DOMAIN Tail(q) /\ q[i] = Tail(q)[i - 1])
<1>1. /\ Len(q) \in Nat /\ Len(q) >= 1 /\ DOMAIN q = 1..Len(q)
  BY EmptySeq, LenProperties
<1>2. /\ Head(q) \in S /\ Tail(q) \in Seq(S) /\ Len(Tail(q)) = Len(q) - 1
      /\ \A i \in 1..Len(Tail(q)) : Tail(q)[i] = q[i + 1]
  BY HeadTailProperties
<1>3. DOMAIN Tail(q) = 1..(Len(q) - 1)
  BY <1>2, LenProperties
<1> QED BY <1>1, <1>2, <1>3

LEMMA AppendFacts ==
  ASSUME NEW S, NEW q \in Seq(S), NEW x \in S
  PROVE  /\ Append(q, x) \in Seq(S) /\ Len(Append(q, x)) = Len(q) + 1
         /\ Len(q) + 1 \in DOMAIN Append(q, x) /\ Append(q, x)[Len(q) + 1] = x
         /\ \A i \in DOMAIN q : i \in DOMAIN Append(q, x) /\ Append(q, x)[i] = q[i]
         /\ \A i \in DOMAIN Append(q, x) :
              i = Len(q) + 1 \/ (i \in DOMAIN q /\ Append(q, x)[i] = q[i])
<1>1. Len(q) \in Nat /\ DOMAIN q = 1..Len(q)
  BY LenProperties
<1>2. /\ Append(q, x) \in Seq(S) /\ Len(Append(q, x)) = Len(q) + 1
      /\ \A i \in 1..Len(q) : Append(q, x)[i] = q[i]
      /\ Append(q, x)[Len(q) + 1] = x
  BY AppendProperties
<1>3. DOMAIN Append(q, x) = 1..(Len(q) + 1)
  BY <1>2, LenProperties
<1> QED BY <1>1, <1>2, <1>3

-----------------------------------------------------------------------------
(* Types, in three parts: what no goroutine holds, the extractor and the   *)
(* detector.                                                               *)

DiskType ==
  /\ file \in [Segs -> {"absent", "writing", "whole"}]
  /\ flagged \subseteq Segs /\ extMark \subseteq Segs /\ detMark \subseteq Segs
  /\ enabled \in BOOLEAN /\ upsets \in 0..MaxUpsets /\ cut \subseteq Segs

ExtractorType ==
  /\ inflight \subseteq Segs /\ scan \in ScanRec
  /\ jobs \in Seq(Segs) /\ Len(jobs) <= Cardinality(ExtWorkers)
  /\ ext \in [ExtWorkers -> ExtRec]

DetectorType ==
  /\ frames \in Seq(Frames) /\ Len(frames) <= Buffer
  /\ held \in Frames \cup {NoFrame}
  /\ task \in [DetSlots -> TaskRec]
  /\ emitted \in BOOLEAN /\ answered \subseteq Frames /\ lost \subseteq Frames

\* A worker that does something does it to a segment, and pushes no more
\* frames than ffmpeg gives.
RowsOK ==
  /\ \A w \in ExtWorkers :
       ext[w].pc # "idle" => ext[w].seg \in Segs /\ ext[w].sent <= ext[w].len
  /\ \A d \in DetSlots : task[d].pc # "idle" => task[d].frame \in Frames

Typed == DiskType /\ ExtractorType /\ DetectorType /\ RowsOK

LEMMA TypedIsTypeOK == Typed => TypeOK
BY DEF Typed, TypeOK, DiskType, ExtractorType, DetectorType, ExtRec, TaskRec, ScanRec

LEMMA TypedInit == Init => Typed
<1> SUFFICES ASSUME Init PROVE Typed
  OBVIOUS
<1> USE Constants DEF Init
<1>1. DiskType
  BY DEF DiskType
<1>2. \A S : <<>> \in Seq(S) /\ Len(<<>>) = 0
  BY EmptySeq
<1>3. ExtractorType
  BY <1>2 DEF ExtractorType
<1>4. frames \in Seq(Frames) /\ Len(frames) <= Buffer
  BY <1>2
<1>5. task \in [DetSlots -> TaskRec]
  OBVIOUS
<1>6. DetectorType
  BY <1>4, <1>5 DEF DetectorType
<1>7. RowsOK
  BY DEF RowsOK, ExtIdle, TaskIdle
<1> QED BY <1>1, <1>3, <1>6, <1>7 DEF Typed

\* The scanner's position stays a position.
LEMMA NextSegType == \A s \in Segs : NextSeg(s) \in ScanRec
<1> SUFFICES ASSUME NEW s \in Segs PROVE (s % NSegs) + 1 \in Segs
  BY DEF NextSeg, ScanRec
<1>1. NSegs \in Nat /\ NSegs >= 1
  BY PipelineAssumption
<1>2. s \in Nat
  BY <1>1 DEF Segs
<1>3. s % NSegs \in 0..(NSegs - 1)
  BY <1>1, <1>2
<1> QED BY <1>1, <1>3 DEF Segs

LEMMA ScannerType ==
  ASSUME Typed, Scanner
  PROVE  Typed'
<1> USE Constants DEF Typed, Fine, Upset
<1>1. scan \in ScanRec /\ scan.seg \in Segs /\ NextSeg(scan.seg) \in ScanRec
      /\ [scan EXCEPT !.pc = "claim"] \in ScanRec
      /\ [scan EXCEPT !.pc = "send"] \in ScanRec
  BY NextSegType DEF ExtractorType, ScanRec
<1> HIDE DEF Typed
<1>2. /\ UNCHANGED <<disk, ext, detector, enabled, history>>
      /\ scan' \in ScanRec
      /\ upsets' = upsets \/ (upsets < MaxUpsets /\ upsets' = upsets + 1)
      /\ inflight' = inflight \/ inflight' = inflight \cup {scan.seg}
      /\ jobs' = jobs \/ (Len(jobs) < Cardinality(ExtWorkers) /\ jobs' = Append(jobs, scan.seg))
  <2>1. CASE ScanCheck
    BY <1>1, <2>1 DEF ScanCheck
  <2>2. CASE ScanClaim
    BY <1>1, <2>2 DEF ScanClaim
  <2>3. CASE ScanSend
    BY <1>1, <2>3 DEF ScanSend
  <2> QED BY <2>1, <2>2, <2>3 DEF Scanner
<1>3. DiskType'
  BY <1>2 DEF DiskType, Typed, disk, history
<1>4. jobs' \in Seq(Segs) /\ Len(jobs') <= Cardinality(ExtWorkers)
  <2>1. jobs \in Seq(Segs) /\ Len(jobs) <= Cardinality(ExtWorkers)
    BY DEF Typed, ExtractorType
  <2>2. Len(jobs) \in Nat
    BY <2>1, LenProperties
  <2>3. Append(jobs, scan.seg) \in Seq(Segs) /\ Len(Append(jobs, scan.seg)) = Len(jobs) + 1
    BY <1>1, <2>1, AppendFacts
  <2> QED BY <1>2, <2>1, <2>2, <2>3
<1>5. ExtractorType'
  BY <1>1, <1>2, <1>4 DEF ExtractorType, Typed
<1>6. DetectorType' /\ RowsOK'
  BY <1>2 DEF DetectorType, RowsOK, Typed, detector, history
<1> QED BY <1>3, <1>5, <1>6 DEF Typed

\* An upload changes the disk's state only.
LEMMA UploadType ==
  ASSUME Typed, NEW s \in Segs, Upload(s)
  PROVE  Typed'
<1> USE Constants DEF Fine, Upset
<1>1. /\ UNCHANGED <<extMark, detMark, extractor, detector, enabled, history>>
      /\ flagged' \subseteq Segs
      /\ upsets' \in 0..MaxUpsets
      /\ file' \in [Segs -> {"absent", "writing", "whole"}]
  <2> USE DEF Typed, DiskType
  <2>1. CASE StoreBegin(s)
    BY <2>1 DEF StoreBegin
  <2>2. CASE StoreEnd(s)
    BY <2>2 DEF StoreEnd
  <2>3. CASE TrackUpload(s)
    BY <2>3 DEF TrackUpload
  <2> QED BY <2>1, <2>2, <2>3 DEF Upload
<1>2. DiskType'
  BY <1>1 DEF DiskType, Typed, history
<1>3. ExtractorType' /\ DetectorType' /\ RowsOK'
  BY <1>1 DEF ExtractorType, DetectorType, RowsOK, Typed, extractor, detector, history
<1> QED BY <1>2, <1>3 DEF Typed

-----------------------------------------------------------------------------
(* What one step does to the workers: one record is replaced. *)

ExtRowOK(r) == r.pc # "idle" => r.seg \in Segs /\ r.sent <= r.len

\* Replacing one worker's record by a good one.
LEMMA ExtUpdate ==
  ASSUME Typed, NEW w \in ExtWorkers, NEW new \in ExtRec, ExtRowOK(new),
         ext' = [ext EXCEPT ![w] = new]
  PROVE  /\ ext' \in [ExtWorkers -> ExtRec]
         /\ \A v \in ExtWorkers : ext'[v] = IF v = w THEN new ELSE ext[v]
         /\ \A v \in ExtWorkers : ext'[v].pc # "idle" => ext'[v].seg \in Segs /\ ext'[v].sent <= ext'[v].len
<1>1. ext \in [ExtWorkers -> ExtRec]
  BY DEF Typed, ExtractorType
<1>2. \A v \in ExtWorkers : ext'[v] = IF v = w THEN new ELSE ext[v]
  BY <1>1
<1>3. ext' \in [ExtWorkers -> ExtRec]
  BY <1>1
<1>4. \A v \in ExtWorkers : ext[v].pc # "idle" => ext[v].seg \in Segs /\ ext[v].sent <= ext[v].len
  BY DEF Typed, RowsOK
<1> QED BY <1>2, <1>3, <1>4 DEF ExtRowOK

\* A worker that takes a job runs, or is about to give the claim back.
LEMMA TakeStep ==
  ASSUME Typed, NEW w \in ExtWorkers, ExtTake(w)
  PROVE  /\ jobs # <<>> /\ Head(jobs) \in Segs /\ ext[w].pc = "idle"
         /\ \E new \in ExtRec :
              /\ ext' = [ext EXCEPT ![w] = new]
              /\ ExtRowOK(new) /\ new.pc # "idle" /\ new.seg = Head(jobs)
              /\ new.sent = 0
<1> USE Constants
<1>1. jobs # <<>> /\ Head(jobs) \in Segs
  BY TailFacts DEF Typed, ExtractorType, ExtTake
<1>2. Head(jobs) \in 0..NSegs /\ 0 \in 0..FramesPer /\ FramesPer \in 0..FramesPer
  <2>1. FramesPer \in Nat
    OBVIOUS
  <2>2. 0 \in 0..FramesPer /\ FramesPer \in 0..FramesPer
    BY ONLY <2>1
  <2>3. Head(jobs) \in 0..NSegs
    BY <1>1
  <2> QED BY <2>2, <2>3
<1>3. CASE \E n \in 0..FramesPer :
            ext' = [ext EXCEPT ![w] = [pc |-> "run", seg |-> Head(jobs), sent |-> 0, len |-> n]]
  <2>1. PICK n \in 0..FramesPer :
          ext' = [ext EXCEPT ![w] = [pc |-> "run", seg |-> Head(jobs), sent |-> 0, len |-> n]]
    BY <1>3
  <2> DEFINE new == [pc |-> "run", seg |-> Head(jobs), sent |-> 0, len |-> n]
  <2>2. new \in ExtRec /\ ExtRowOK(new)
    BY <1>1, <1>2 DEF ExtRec, ExtRowOK
  <2> QED BY <1>1, <2>1, <2>2 DEF ExtTake
<1>4. CASE ext' = [ext EXCEPT ![w] = Skip(Head(jobs))]
  <2> DEFINE new == Skip(Head(jobs))
  <2>1. ext' = [ext EXCEPT ![w] = new]
    BY <1>4
  <2>2. new \in ExtRec /\ ExtRowOK(new)
    BY <1>1, <1>2 DEF ExtRec, ExtRowOK, Skip
  <2> QED BY <1>1, <2>1, <2>2 DEF ExtTake, Skip
<1> QED BY <1>2, <1>3, <1>4 DEF ExtTake

\* A worker that runs pushes a frame, or stops with its record otherwise as
\* it was.
LEMMA RunStep ==
  ASSUME Typed, NEW w \in ExtWorkers, PushFrame(w) \/ MarkExtractor(w) \/ FFmpegFails(w)
  PROVE  /\ ext[w].pc = "run" /\ ext[w].seg \in Segs
         /\ \E new \in ExtRec :
              /\ ext' = [ext EXCEPT ![w] = new]
              /\ ExtRowOK(new) /\ new.pc # "idle" /\ new.seg = ext[w].seg
              /\ new.pc = "run" => PushFrame(w) /\ new.sent = ext[w].sent + 1
<1> USE Constants
<1>1. ext \in [ExtWorkers -> ExtRec] /\ ext[w] \in ExtRec
  BY DEF Typed, ExtractorType
<1>2. ext[w].pc = "run"
  BY DEF PushFrame, MarkExtractor, FFmpegFails
<1>3. ext[w].seg \in Segs /\ ext[w].sent <= ext[w].len
  BY <1>2 DEF Typed, RowsOK
<1>4. CASE PushFrame(w)
  <2> DEFINE new == [ext[w] EXCEPT !.sent = @ + 1]
  <2>1. ext' = [ext EXCEPT ![w] = new] /\ ext[w].sent < ext[w].len
    BY <1>4 DEF PushFrame
  <2>2. new \in ExtRec /\ ExtRowOK(new) /\ new.pc = "run" /\ new.seg = ext[w].seg /\ new.sent = ext[w].sent + 1
    BY <1>1, <1>2, <1>3, <2>1 DEF ExtRec, ExtRowOK
  <2> QED BY <1>2, <1>3, <1>4, <2>1, <2>2
<1>5. CASE MarkExtractor(w) \/ FFmpegFails(w)
  <2> DEFINE new == [ext[w] EXCEPT !.pc = "release"]
  <2>1. ext' = [ext EXCEPT ![w] = new]
    BY <1>5 DEF MarkExtractor, FFmpegFails
  <2>2. new \in ExtRec /\ ExtRowOK(new) /\ new.pc = "release" /\ new.seg = ext[w].seg
    BY <1>1, <1>3 DEF ExtRec, ExtRowOK
  <2> QED BY <1>2, <1>3, <2>1, <2>2
<1> QED BY <1>4, <1>5

\* What a worker pushes is one of its segment's frames.
LEMMA PushedFrame ==
  ASSUME Typed, NEW w \in ExtWorkers, PushFrame(w)
  PROVE  <<ext[w].seg, ext[w].sent + 1>> \in Frames
<1>1. ext[w] \in ExtRec /\ ext[w].seg \in Segs
  BY RunStep DEF Typed, ExtractorType
<1>2. ext[w].sent \in 0..FramesPer /\ ext[w].len \in 0..FramesPer /\ FramesPer \in Nat
  BY <1>1, Constants DEF ExtRec
<1>3. ext[w].sent < ext[w].len
  BY DEF PushFrame
<1>4. ext[w].sent + 1 \in 1..FramesPer
  BY ONLY <1>2, <1>3
<1> QED BY <1>1, <1>4 DEF Frames

LEMMA WorkerType ==
  ASSUME Typed, NEW w \in ExtWorkers, Worker(w) \/ FFmpegFails(w)
  PROVE  Typed'
<1> USE Constants
<1>1. CASE ExtTake(w)
  <2>1. PICK new \in ExtRec : ext' = [ext EXCEPT ![w] = new] /\ ExtRowOK(new)
    BY <1>1, TakeStep
  <2>2. /\ UNCHANGED <<disk, inflight, scan, detector, enabled, history>>
        /\ jobs' = Tail(jobs) /\ upsets' \in 0..MaxUpsets
    BY <1>1 DEF ExtTake, Fine, Upset, Typed, DiskType
  <2>3. jobs' \in Seq(Segs) /\ Len(jobs') <= Cardinality(ExtWorkers)
    <3>1. jobs \in Seq(Segs) /\ Len(jobs) <= Cardinality(ExtWorkers) /\ jobs # <<>>
      BY <1>1 DEF Typed, ExtractorType, ExtTake
    <3>2. Tail(jobs) \in Seq(Segs) /\ Len(Tail(jobs)) <= Len(jobs)
      BY <3>1, TailFacts
    <3>3. Len(jobs) \in Nat /\ Len(Tail(jobs)) \in Nat
      BY <3>1, <3>2, LenProperties
    <3> QED BY <2>2, <3>1, <3>2, <3>3
  <2>4. ExtractorType'
    BY <2>1, <2>2, <2>3, ExtUpdate DEF Typed, ExtractorType
  <2>5. DiskType' /\ DetectorType'
    BY <2>2 DEF Typed, DiskType, DetectorType, disk, detector, history
  <2>6. RowsOK'
    BY <2>1, <2>2, ExtUpdate DEF Typed, RowsOK, detector
  <2> QED BY <2>4, <2>5, <2>6 DEF Typed
<1>2. CASE PushFrame(w)
  <2>1. PICK new \in ExtRec : ext' = [ext EXCEPT ![w] = new] /\ ExtRowOK(new)
    BY <1>2, RunStep
  <2>2. /\ UNCHANGED <<disk, inflight, scan, jobs, held, task, emitted, enabled, upsets,
                       answered, cut>>
        /\ frames' = Append(frames, <<ext[w].seg, ext[w].sent + 1>>) /\ lost' \subseteq lost
        /\ ext[w].sent < ext[w].len /\ Len(frames) < Buffer
    BY <1>2 DEF PushFrame, FrameRoom
  <2>3. <<ext[w].seg, ext[w].sent + 1>> \in Frames
    BY <1>2, PushedFrame
  <2>4. frames' \in Seq(Frames) /\ Len(frames') <= Buffer
    <3>1. frames \in Seq(Frames) /\ Len(frames) \in Nat
      BY LenProperties DEF Typed, DetectorType
    <3>2. frames' \in Seq(Frames) /\ Len(frames') = Len(frames) + 1
      BY <2>2, <2>3, <3>1, AppendFacts
    <3> QED BY <2>2, <3>1, <3>2
  <2>5. ExtractorType'
    BY <2>1, <2>2, ExtUpdate DEF Typed, ExtractorType
  <2>6. DiskType' /\ DetectorType'
    BY <2>2, <2>4 DEF Typed, DiskType, DetectorType, disk
  <2>7. RowsOK'
    BY <2>1, <2>2, ExtUpdate DEF Typed, RowsOK
  <2> QED BY <2>5, <2>6, <2>7 DEF Typed
<1>3. CASE MarkExtractor(w) \/ FFmpegFails(w)
  <2>1. PICK new \in ExtRec : ext' = [ext EXCEPT ![w] = new] /\ ExtRowOK(new)
    BY <1>3, RunStep
  <2>2. ext[w].seg \in Segs
    BY <1>3, RunStep
  <2>3. /\ UNCHANGED <<file, flagged, detMark, inflight, scan, jobs, detector, enabled, answered, lost>>
        /\ upsets' \in 0..MaxUpsets
        /\ extMark' \in {extMark, extMark \cup {ext[w].seg}}
        /\ cut' \in {cut, cut \cup {ext[w].seg}}
    BY <1>3 DEF MarkExtractor, FFmpegFails, Fine, Upset, Typed, DiskType, disk, history
  <2>4. DiskType'
    BY <2>2, <2>3 DEF Typed, DiskType
  <2>5. ExtractorType' /\ DetectorType'
    BY <2>1, <2>3, ExtUpdate DEF Typed, ExtractorType, DetectorType, detector
  <2>6. RowsOK'
    BY <2>1, <2>3, ExtUpdate DEF Typed, RowsOK, detector
  <2> QED BY <2>4, <2>5, <2>6 DEF Typed
<1>4. CASE Release(w)
  <2>1. ext' = [ext EXCEPT ![w] = ExtIdle] /\ ExtRowOK(ExtIdle)
    BY <1>4 DEF Release, ExtRowOK, ExtIdle
  <2>2. /\ UNCHANGED <<disk, scan, jobs, detector, enabled, upsets, history>>
        /\ inflight' = inflight \ {ext[w].seg}
    BY <1>4 DEF Release
  <2>3. ExtractorType'
    BY <2>1, <2>2, ExtUpdate DEF Typed, ExtractorType
  <2>4. DiskType' /\ DetectorType'
    BY <2>2 DEF Typed, DiskType, DetectorType, disk, detector, history
  <2>5. RowsOK'
    BY <2>1, <2>2, ExtUpdate DEF Typed, RowsOK, detector
  <2> QED BY <2>3, <2>4, <2>5 DEF Typed
<1> QED BY <1>1, <1>2, <1>3, <1>4 DEF Worker

-----------------------------------------------------------------------------
(* What one step does to the detector's goroutines. *)

\* A goroutine keeps its frame or returns without it; the engine's answer, or
\* its failure, goes on record.
LEMMA TaskStep ==
  ASSUME Typed, NEW d \in DetSlots, Task(d)
  PROVE  /\ task[d].pc # "idle" /\ task[d].frame \in Frames
         /\ UNCHANGED <<file, flagged, extMark, extractor, frames, held, enabled, cut>>
         /\ upsets' \in 0..MaxUpsets /\ upsets <= upsets' /\ emitted' \in BOOLEAN
         /\ detMark' \in {detMark, detMark \cup {task[d].frame[1]}}
         /\ answered' \in {answered, answered \cup {task[d].frame}}
         /\ lost' \in {lost, lost \cup {task[d].frame}}
         /\ upsets' = upsets => lost' = lost
         /\ \/ /\ \E new \in TaskRec :
                    /\ task' = [task EXCEPT ![d] = new]
                    /\ new.pc # "idle" /\ new.frame = task[d].frame
               /\ task[d].pc = "engine" => task[d].frame \in answered'
            \/ /\ task' = [task EXCEPT ![d] = TaskIdle]
               /\ task[d].pc = "engine" => task[d].frame \in lost'
<1> USE DEF Fine, Upset
<1>1. task[d].pc # "idle"
  BY DEF Task, Engine, MarkDetector, Probe, Emit
<1>2. task[d].frame \in Frames /\ task[d] \in TaskRec
  BY <1>1 DEF Typed, RowsOK, DetectorType
<1>3. \A pc \in {"engine", "mark", "probe", "emit"} : Goto(d, pc) =>
        \E new \in TaskRec : task' = [task EXCEPT ![d] = new]
                             /\ new.pc # "idle" /\ new.frame = task[d].frame
  <2> SUFFICES ASSUME NEW pc \in {"engine", "mark", "probe", "emit"}, Goto(d, pc)
               PROVE  \E new \in TaskRec : task' = [task EXCEPT ![d] = new]
                                           /\ new.pc # "idle" /\ new.frame = task[d].frame
    OBVIOUS
  <2> DEFINE new == [task[d] EXCEPT !.pc = pc]
  <2>1. task' = [task EXCEPT ![d] = new]
    BY DEF Goto
  <2>2. new \in TaskRec /\ new.pc # "idle" /\ new.frame = task[d].frame
    BY <1>2 DEF TaskRec
  <2> QED BY <2>1, <2>2
<1>4. /\ UNCHANGED <<file, flagged, extMark, extractor, frames, held, enabled, cut>>
      /\ upsets' \in 0..MaxUpsets /\ upsets <= upsets' /\ emitted' \in BOOLEAN
      /\ detMark' \in {detMark, detMark \cup {task[d].frame[1]}}
      /\ answered' \in {answered, answered \cup {task[d].frame}}
      /\ lost' \in {lost, lost \cup {task[d].frame}}
      /\ upsets' = upsets => lost' = lost
      /\ \/ /\ \E pc \in {"engine", "mark", "probe", "emit"} : Goto(d, pc)
            /\ task[d].pc = "engine" => task[d].frame \in answered'
         \/ Return(d) /\ (task[d].pc = "engine" => task[d].frame \in lost')
  <2> USE Constants DEF Typed, DiskType, DetectorType
  <2>1. CASE Engine(d)
    BY <2>1 DEF Engine, disk
  <2>2. CASE MarkDetector(d)
    BY <2>2 DEF MarkDetector, history
  <2>3. CASE Probe(d)
    BY <2>3 DEF Probe, disk, history
  <2>4. CASE Emit(d)
    BY <2>4 DEF Emit, disk, history
  <2> QED BY <2>1, <2>2, <2>3, <2>4 DEF Task
<1> QED BY <1>1, <1>2, <1>3, <1>4 DEF Return

LEMMA DetectorStepType ==
  ASSUME Typed, Receive \/ \E d \in DetSlots : Spawn(d) \/ Task(d)
  PROVE  Typed'
<1> USE Constants
<1>1. CASE Receive
  <2>1. frames \in Seq(Frames) /\ Len(frames) <= Buffer /\ frames # <<>>
    BY <1>1 DEF Typed, DetectorType, Receive
  <2>2. Head(frames) \in Frames /\ Tail(frames) \in Seq(Frames) /\ Len(Tail(frames)) <= Len(frames)
    BY <2>1, TailFacts
  <2>3. Len(frames) \in Nat /\ Len(Tail(frames)) \in Nat
    BY <2>1, <2>2, LenProperties
  <2>4. /\ UNCHANGED <<disk, extractor, task, emitted, enabled, answered, cut>>
        /\ frames' = Tail(frames) /\ upsets' \in 0..MaxUpsets
        /\ held' \in {held, Head(frames)} /\ lost' \in {lost, lost \cup {Head(frames)}}
    BY <1>1 DEF Receive, Fine, Upset, Typed, DiskType
  <2>5. frames' \in Seq(Frames) /\ Len(frames') <= Buffer
    BY <2>1, <2>2, <2>3, <2>4
  <2>6. DetectorType'
    BY <2>2, <2>4, <2>5 DEF Typed, DetectorType
  <2> QED BY <2>4, <2>6 DEF Typed, DiskType, ExtractorType, RowsOK, disk, extractor
<1>2. ASSUME NEW d \in DetSlots, Spawn(d) PROVE Typed'
  <2> DEFINE new == [pc |-> "engine", frame |-> held]
  <2>1. /\ UNCHANGED <<disk, extractor, frames, emitted, enabled, upsets, history>>
        /\ task' = [task EXCEPT ![d] = new] /\ held' = NoFrame /\ held # NoFrame
    BY <1>2 DEF Spawn
  <2>2. held \in Frames
    BY <2>1 DEF Typed, DetectorType
  <2>3. new \in TaskRec /\ new.frame \in Frames
    BY <2>2 DEF TaskRec
  <2> HIDE DEF new
  <2>4. DetectorType'
    BY <2>1, <2>3 DEF Typed, DetectorType, history
  <2>5. \A e \in DetSlots : task'[e].pc # "idle" => task'[e].frame \in Frames
    BY <2>1, <2>3 DEF Typed, RowsOK, DetectorType
  <2>6. RowsOK'
    BY <2>1, <2>5 DEF Typed, RowsOK, extractor
  <2> QED BY <2>1, <2>4, <2>6 DEF Typed, DiskType, ExtractorType, disk, extractor, history
<1>3. ASSUME NEW d \in DetSlots, Task(d) PROVE Typed'
  <2>1. /\ task[d].frame \in Frames
        /\ UNCHANGED <<file, flagged, extMark, extractor, frames, held, enabled, cut>>
        /\ upsets' \in 0..MaxUpsets /\ emitted' \in BOOLEAN
        /\ detMark' \in {detMark, detMark \cup {task[d].frame[1]}}
        /\ answered' \in {answered, answered \cup {task[d].frame}}
        /\ lost' \in {lost, lost \cup {task[d].frame}}
    BY <1>3, TaskStep
  <2>2. PICK new \in TaskRec : task' = [task EXCEPT ![d] = new]
                             /\ (new.pc # "idle" => new.frame \in Frames)
    BY <1>3, TaskStep DEF TaskIdle
  <2>3. task[d].frame[1] \in Segs
    BY <2>1 DEF Frames
  <2>4. DiskType'
    BY <2>1, <2>3 DEF Typed, DiskType
  <2>5. DetectorType'
    <3>1. answered' \subseteq Frames /\ lost' \subseteq Frames
      BY <2>1 DEF Typed, DetectorType
    <3>2. task' \in [DetSlots -> TaskRec]
      BY <2>2 DEF Typed, DetectorType
    <3> QED BY <2>1, <3>1, <3>2 DEF Typed, DetectorType
  <2>6. \A e \in DetSlots : task'[e].pc # "idle" => task'[e].frame \in Frames
    <3>1. \A e \in DetSlots : task'[e] = IF e = d THEN new ELSE task[e]
      BY <2>2 DEF Typed, DetectorType
    <3>2. \A e \in DetSlots : task[e].pc # "idle" => task[e].frame \in Frames
      BY DEF Typed, RowsOK
    <3> QED BY <2>2, <3>1, <3>2
  <2>7. RowsOK'
    BY <2>1, <2>6 DEF Typed, RowsOK, extractor
  <2> QED BY <2>1, <2>4, <2>5, <2>7 DEF Typed, ExtractorType, extractor
<1> QED BY <1>1, <1>2, <1>3

\* The frames under way are frames.
LEMMA InPipelineType == Typed => InPipeline \subseteq Frames
<1> SUFFICES ASSUME Typed PROVE InPipeline \subseteq Frames
  OBVIOUS
<1>1. \A i \in DOMAIN frames : frames[i] \in Frames
  BY LenProperties DEF Typed, DetectorType
<1>2. \A d \in DetSlots : task[d].frame \in Frames \cup {NoFrame}
  BY DEF Typed, DetectorType, TaskRec
<1> QED BY <1>1, <1>2 DEF InPipeline, Typed, DetectorType

LEMMA ProcessType ==
  ASSUME Typed, Toggle \/ Crash
  PROVE  Typed'
<1> USE Constants DEF Upset
<1>1. CASE Toggle
  <2>1. /\ UNCHANGED <<disk, extractor, detector, history>>
        /\ enabled' \in BOOLEAN /\ upsets' \in 0..MaxUpsets
    BY <1>1 DEF Toggle, Typed, DiskType
  <2> QED BY <2>1 DEF Typed, DiskType, ExtractorType, DetectorType, RowsOK,
                      disk, extractor, detector, history
<1>2. CASE Crash
  <2>1. /\ UNCHANGED <<disk, enabled, answered, cut>>
        /\ upsets' \in 0..MaxUpsets
    BY <1>2 DEF Crash, Typed, DiskType
  <2>2. DiskType'
    BY <2>1 DEF Typed, DiskType, disk
  <2>3. \A S : <<>> \in Seq(S) /\ Len(<<>>) = 0
    BY EmptySeq
  <2>4. /\ inflight' = {} /\ scan' = ScanIdle /\ jobs' = <<>>
        /\ ext' = [w \in ExtWorkers |-> ExtIdle]
        /\ frames' = <<>> /\ held' = NoFrame
        /\ task' = [d \in DetSlots |-> TaskIdle] /\ emitted' = FALSE
        /\ lost' = lost \cup (InPipeline \ answered)
    BY <1>2 DEF Crash
  <2>5. ExtractorType'
    BY <2>3, <2>4 DEF ExtractorType
  <2>6. frames' \in Seq(Frames) /\ Len(frames') <= Buffer
    BY <2>3, <2>4
  <2>7. task' \in [DetSlots -> TaskRec]
    BY <2>4
  <2>8. answered' \subseteq Frames /\ lost' \subseteq Frames
    BY <2>1, <2>4, InPipelineType DEF Typed, DetectorType
  <2>9. DetectorType'
    BY <2>4, <2>6, <2>7, <2>8 DEF DetectorType
  <2>10. RowsOK'
    BY <2>4 DEF RowsOK, ExtIdle, TaskIdle
  <2> QED BY <2>2, <2>5, <2>9, <2>10 DEF Typed
<1> QED BY <1>1, <1>2

LEMMA TypedNext == Typed /\ [Next]_vars => Typed'
<1> SUFFICES ASSUME Typed, [Next]_vars PROVE Typed'
  OBVIOUS
<1>1. ASSUME NEW s \in Segs, Upload(s) PROVE Typed'
  BY <1>1, UploadType
<1>2. CASE Scanner
  BY <1>2, ScannerType
<1>3. ASSUME NEW w \in ExtWorkers, Worker(w) \/ FFmpegFails(w) PROVE Typed'
  BY <1>3, WorkerType
<1>4. CASE Receive \/ \E d \in DetSlots : Spawn(d) \/ Task(d)
  BY <1>4, DetectorStepType
<1>5. CASE Toggle \/ Crash
  BY <1>5, ProcessType
<1>6. CASE UNCHANGED vars
  BY <1>6 DEF Typed, DiskType, ExtractorType, DetectorType, RowsOK, vars, disk,
              extractor, detector, history
<1> QED BY <1>1, <1>2, <1>3, <1>4, <1>5, <1>6 DEF Next

\* Every variable keeps its type: the job channel and the frame channel
\* never hold more than their capacity, whoever sends.
THEOREM PipelineType == Spec => []TypeOK
<1>1. Spec => []Typed
  BY TypedInit, TypedNext, PTL DEF Spec
<1> QED BY <1>1, TypedIsTypeOK, PTL

-----------------------------------------------------------------------------
(* One hand per segment.  The claim is what keeps a second hand away, so   *)
(* the induction needs that whatever is in a hand is claimed: the scanner  *)
(* claims only what is not, and a worker drops its claim with its job.     *)

HeldClaimed ==
  /\ scan.pc = "send" => scan.seg \in inflight
  /\ \A i \in DOMAIN jobs : jobs[i] \in inflight
  /\ \A w \in ExtWorkers : ext[w].pc # "idle" => ext[w].seg \in inflight

Exclusive == ExclusiveExtraction /\ HeldClaimed

LEMMA ExclusiveInit == Init => Exclusive
<1>1. DOMAIN <<>> = {}
  OBVIOUS
<1> QED BY <1>1 DEF Init, Exclusive, ExclusiveExtraction, HeldClaimed, ScanIdle, ExtIdle

LEMMA ScannerExclusive ==
  ASSUME Typed, Exclusive, Scanner
  PROVE  Exclusive'
<1> USE DEF Exclusive, ExclusiveExtraction, HeldClaimed
<1>1. scan \in ScanRec /\ jobs \in Seq(Segs) /\ scan.seg \in Segs
  BY DEF Typed, ExtractorType, ScanRec
<1>2. \A s : NextSeg(s).pc = "check"
  BY DEF NextSeg
<1>3. CASE ScanCheck
  <2>1. UNCHANGED <<inflight, jobs, ext>> /\ scan'.pc # "send"
    BY <1>1, <1>2, <1>3 DEF ScanCheck, ScanRec
  <2> QED BY <2>1
<1>4. CASE ScanClaim
  <2>1. CASE scan.seg \in inflight
    <3>1. UNCHANGED <<inflight, jobs, ext>> /\ scan'.pc # "send"
      BY <1>2, <1>4, <2>1 DEF ScanClaim
    <3> QED BY <3>1
  <2>2. CASE scan.seg \notin inflight
    <3>1. /\ UNCHANGED <<jobs, ext>> /\ inflight' = inflight \cup {scan.seg}
          /\ scan' = [scan EXCEPT !.pc = "send"]
      BY <1>4, <2>2 DEF ScanClaim
    <3>2. scan'.seg = scan.seg
      BY <1>1, <3>1 DEF ScanRec
    <3> QED BY <2>2, <3>1, <3>2
  <2> QED BY <2>1, <2>2
<1>5. CASE ScanSend
  <2>1. /\ UNCHANGED <<inflight, ext>> /\ scan.pc = "send" /\ scan'.pc # "send"
        /\ jobs' = Append(jobs, scan.seg)
    BY <1>2, <1>5 DEF ScanSend
  <2>2. \A i \in DOMAIN jobs' : i = Len(jobs) + 1 \/ (i \in DOMAIN jobs /\ jobs'[i] = jobs[i])
    BY <1>1, <2>1, AppendFacts
  <2>3. jobs'[Len(jobs) + 1] = scan.seg
    BY <1>1, <2>1, AppendFacts
  <2>4. \A i \in DOMAIN jobs' : jobs'[i] \in inflight
    BY <2>1, <2>2, <2>3
  <2>5. \A i, j \in DOMAIN jobs' : i # j => jobs'[i] # jobs'[j]
    BY <2>1, <2>2, <2>3
  <2>6. \A w \in ExtWorkers : ext[w].pc # "idle" =>
          \A i \in DOMAIN jobs' : jobs'[i] # ext[w].seg
    BY <2>1, <2>2, <2>3
  <2> QED BY <2>1, <2>4, <2>5, <2>6
<1> QED BY <1>3, <1>4, <1>5 DEF Scanner

LEMMA WorkerExclusive ==
  ASSUME Typed, Exclusive, NEW w \in ExtWorkers, Worker(w) \/ FFmpegFails(w)
  PROVE  Exclusive'
<1> USE DEF Exclusive, ExclusiveExtraction, HeldClaimed
<1>1. CASE ExtTake(w)
  <2>1. PICK new \in ExtRec : /\ ext' = [ext EXCEPT ![w] = new] /\ ExtRowOK(new)
                              /\ new.seg = Head(jobs)
    BY <1>1, TakeStep
  <2>2. \A v \in ExtWorkers : ext'[v] = IF v = w THEN new ELSE ext[v]
    BY <2>1, ExtUpdate
  <2>3. UNCHANGED <<inflight, scan>> /\ jobs' = Tail(jobs)
    BY <1>1 DEF ExtTake
  <2>4. jobs \in Seq(Segs) /\ jobs # <<>>
    BY <1>1, TakeStep DEF Typed, ExtractorType
  <2>5. 1 \in DOMAIN jobs /\ Head(jobs) = jobs[1]
    BY <2>4, TailFacts
  <2>6. \A i \in DOMAIN jobs' :
          i \in Nat /\ i + 1 \in DOMAIN jobs /\ i + 1 # 1 /\ jobs'[i] = jobs[i + 1]
    BY <2>3, <2>4, TailFacts
  <2>7. \A i, j \in DOMAIN jobs' : i # j => jobs'[i] # jobs'[j]
    <3> SUFFICES ASSUME NEW i \in DOMAIN jobs', NEW j \in DOMAIN jobs', i # j
                 PROVE  jobs'[i] # jobs'[j]
      OBVIOUS
    <3>1. i + 1 # j + 1
      BY <2>6
    <3> QED BY <2>6, <3>1
  <2>8. \A i \in DOMAIN jobs' : jobs'[i] \in inflight /\ jobs'[i] # Head(jobs)
    BY <2>5, <2>6
  <2>9. \A v \in ExtWorkers : ext[v].pc # "idle" =>
          /\ ext[v].seg # Head(jobs)
          /\ \A i \in DOMAIN jobs' : jobs'[i] # ext[v].seg
    BY <2>5, <2>6
  <2>10. scan.pc = "send" => /\ scan.seg # Head(jobs)
                             /\ \A i \in DOMAIN jobs' : jobs'[i] # scan.seg
    BY <2>5, <2>6
  <2>11. HeldClaimed'
    BY <2>1, <2>2, <2>3, <2>5, <2>8
  <2>12. \A v \in ExtWorkers : ext'[v].pc # "idle" =>
          /\ \A i \in DOMAIN jobs' : jobs'[i] # ext'[v].seg
          /\ \A u \in ExtWorkers \ {v} : ext'[u].pc # "idle" => ext'[u].seg # ext'[v].seg
    BY <2>1, <2>2, <2>8, <2>9
  <2>13. scan'.pc = "send" =>
          /\ \A i \in DOMAIN jobs' : jobs'[i] # scan'.seg
          /\ \A v \in ExtWorkers : ext'[v].pc # "idle" => ext'[v].seg # scan'.seg
    BY <2>1, <2>2, <2>3, <2>10
  <2> QED BY <2>7, <2>11, <2>12, <2>13
<1>2. CASE PushFrame(w) \/ MarkExtractor(w) \/ FFmpegFails(w)
  <2>1. PICK new \in ExtRec : /\ ext' = [ext EXCEPT ![w] = new] /\ ExtRowOK(new)
                              /\ new.seg = ext[w].seg
    BY <1>2, RunStep
  <2>2. \A v \in ExtWorkers : ext'[v] = IF v = w THEN new ELSE ext[v]
    BY <2>1, ExtUpdate
  <2>3. ext[w].pc # "idle"
    BY <1>2, RunStep
  <2>4. UNCHANGED <<inflight, scan, jobs>>
    BY <1>2 DEF PushFrame, MarkExtractor, FFmpegFails
  <2>5. \A v \in ExtWorkers : ext'[v].seg = ext[v].seg /\ (ext'[v].pc # "idle" => ext[v].pc # "idle")
    BY <2>1, <2>2, <2>3
  <2> QED BY <2>4, <2>5
<1>3. CASE Release(w)
  <2>1. /\ UNCHANGED <<scan, jobs>> /\ inflight' = inflight \ {ext[w].seg}
        /\ ext' = [ext EXCEPT ![w] = ExtIdle] /\ ext[w].pc # "idle"
    BY <1>3 DEF Release
  <2>2. \A v \in ExtWorkers : ext'[v] = IF v = w THEN ExtIdle ELSE ext[v]
    BY <2>1 DEF Typed, ExtractorType
  <2>3. \A v \in ExtWorkers : ext'[v].pc # "idle" => v # w /\ ext'[v] = ext[v]
    BY <2>2 DEF ExtIdle
  <2>4. HeldClaimed'
    BY <2>1, <2>3
  <2> QED BY <2>1, <2>3, <2>4
<1> QED BY <1>1, <1>2, <1>3 DEF Worker

LEMMA ExclusiveNext == Typed /\ Exclusive /\ [Next]_vars => Exclusive'
<1> SUFFICES ASSUME Typed, Exclusive, [Next]_vars PROVE Exclusive'
  OBVIOUS
<1>1. CASE Scanner
  BY <1>1, ScannerExclusive
<1>2. ASSUME NEW w \in ExtWorkers, Worker(w) \/ FFmpegFails(w) PROVE Exclusive'
  BY <1>2, WorkerExclusive
<1>3. CASE Crash
  <2>1. DOMAIN <<>> = {}
    OBVIOUS
  <2> QED BY <1>3, <2>1 DEF Crash, Exclusive, ExclusiveExtraction, HeldClaimed, ScanIdle, ExtIdle
<1>4. CASE UNCHANGED extractor
  BY <1>4 DEF Exclusive, ExclusiveExtraction, HeldClaimed, extractor
<1>5. ASSUME NEW s \in Segs, Upload(s) PROVE UNCHANGED extractor
  BY <1>5 DEF Upload, StoreBegin, StoreEnd, TrackUpload
<1>6. ASSUME NEW d \in DetSlots, Spawn(d) \/ Task(d) PROVE UNCHANGED extractor
  BY <1>6, TaskStep DEF Spawn
<1>7. Receive \/ Toggle \/ UNCHANGED vars => UNCHANGED extractor
  BY DEF Receive, Toggle, vars
<1> QED BY <1>1, <1>2, <1>3, <1>4, <1>5, <1>6, <1>7 DEF Next

\* However many workers there are and however they interleave with the
\* scanner's passes, no segment is extracted by two hands at a time.
THEOREM PipelineExclusive == Spec => []ExclusiveExtraction
<1>1. Spec => [](Typed /\ Exclusive)
  BY TypedInit, TypedNext, ExclusiveInit, ExclusiveNext, PTL DEF Spec
<1>2. Exclusive => ExclusiveExtraction
  BY DEF Exclusive
<1> QED BY <1>1, <1>2, PTL

-----------------------------------------------------------------------------
(* The extractor implements SingleFlight: ScanClaim is a claim, ExtTake a  *)
(* start, Release a finish and a crash loses everything; the send only     *)
(* moves a waiting segment from the scanner into the channel.              *)

Waiting == {jobs[i] : i \in DOMAIN jobs} \cup {s \in {scan.seg} : scan.pc = "send"}
Has(r)  == IF r.pc = "idle" THEN {} ELSE {r.seg}

\* Steps of the extractor that nothing of this shows.
LEMMA SameFlight ==
  ASSUME inflight' = inflight, Waiting' = Waiting,
         \A w \in ExtWorkers : Has(ext'[w]) = Has(ext[w])
  PROVE  UNCHANGED Extracting!sfVars
BY DEF Extracting!sfVars, Waiting, Has

LEMMA ScannerFlight ==
  ASSUME Typed, Exclusive, Scanner
  PROVE  [Extracting!SFNext]_(Extracting!sfVars)
<1>1. scan \in ScanRec /\ jobs \in Seq(Segs) /\ scan.seg \in Segs
  BY DEF Typed, ExtractorType, ScanRec
<1>2. \A s : NextSeg(s).pc = "check"
  BY DEF NextSeg
<1>3. CASE /\ UNCHANGED <<inflight, jobs, ext>>
           /\ scan.pc # "send" /\ scan'.pc # "send"
  BY <1>3, SameFlight DEF Waiting
<1>4. CASE ScanCheck
  BY <1>1, <1>2, <1>3, <1>4 DEF ScanCheck, ScanRec
<1>5. CASE ScanClaim
  <2>1. CASE scan.seg \in inflight
    BY <1>2, <1>3, <1>5, <2>1 DEF ScanClaim
  <2>2. CASE scan.seg \notin inflight
    <3>1. /\ UNCHANGED <<jobs, ext>> /\ inflight' = inflight \cup {scan.seg}
          /\ scan' = [scan EXCEPT !.pc = "send"] /\ scan.pc # "send"
      BY <1>5, <2>2 DEF ScanClaim
    <3>2. scan'.seg = scan.seg /\ scan'.pc = "send"
      BY <1>1, <3>1 DEF ScanRec
    <3>3. Waiting' = Waiting \cup {scan.seg}
      BY <3>1, <3>2 DEF Waiting
    <3>4. Extracting!Claim(scan.seg)
      BY <2>2, <3>1, <3>3 DEF Extracting!Claim, Waiting
    <3> QED BY <1>1, <3>4 DEF Extracting!SFNext, Extracting!Claim
  <2> QED BY <2>1, <2>2
<1>6. CASE ScanSend
  <2>1. /\ UNCHANGED <<inflight, ext>> /\ scan.pc = "send" /\ scan'.pc # "send"
        /\ jobs' = Append(jobs, scan.seg)
    BY <1>2, <1>6 DEF ScanSend
  <2>2. /\ Len(jobs) + 1 \in DOMAIN jobs' /\ jobs'[Len(jobs) + 1] = scan.seg
        /\ \A i \in DOMAIN jobs : i \in DOMAIN jobs' /\ jobs'[i] = jobs[i]
        /\ \A i \in DOMAIN jobs' : i = Len(jobs) + 1 \/ (i \in DOMAIN jobs /\ jobs'[i] = jobs[i])
    BY <1>1, <2>1, AppendFacts
  <2>3. \A s : s \in Waiting' <=> s \in Waiting
    BY <2>1, <2>2 DEF Waiting
  <2>4. Waiting' = Waiting
    BY <2>3
  <2> QED BY <2>1, <2>4, SameFlight
<1> QED BY <1>4, <1>5, <1>6 DEF Scanner

LEMMA WorkerFlight ==
  ASSUME Typed, Exclusive, NEW w \in ExtWorkers, Worker(w) \/ FFmpegFails(w)
  PROVE  [Extracting!SFNext]_(Extracting!sfVars)
<1> DEFINE hand  == [v \in ExtWorkers |-> Has(ext[v])]
           hand1 == [v \in ExtWorkers |-> Has(ext'[v])]
<1>1. CASE ExtTake(w)
  <2> DEFINE s == Head(jobs)
  <2>1. PICK new \in ExtRec : /\ ext' = [ext EXCEPT ![w] = new] /\ ExtRowOK(new)
                              /\ new.pc # "idle" /\ new.seg = s
    BY <1>1, TakeStep
  <2>2. \A v \in ExtWorkers : ext'[v] = IF v = w THEN new ELSE ext[v]
    BY <2>1, ExtUpdate
  <2>3. UNCHANGED <<inflight, scan>> /\ jobs' = Tail(jobs)
    BY <1>1 DEF ExtTake
  <2>4. jobs \in Seq(Segs) /\ jobs # <<>> /\ s \in Segs /\ ext[w].pc = "idle"
    BY <1>1, TakeStep DEF Typed, ExtractorType
  <2>5. /\ 1 \in DOMAIN jobs /\ s = jobs[1]
        /\ \A i \in DOMAIN jobs' : i + 1 \in DOMAIN jobs /\ i + 1 # 1 /\ jobs'[i] = jobs[i + 1]
        /\ \A i \in DOMAIN jobs : i = 1 \/ (i - 1 \in DOMAIN jobs' /\ jobs[i] = jobs'[i - 1])
    BY <2>3, <2>4, TailFacts
  <2>6. /\ \A i \in DOMAIN jobs' : jobs'[i] # s
        /\ scan.pc = "send" => scan.seg # s
    BY <2>5 DEF Exclusive, ExclusiveExtraction
  <2> HIDE DEF s
  <2>7. s \in Waiting /\ Waiting' = Waiting \ {s}
    <3>1. s \in Waiting
      BY <2>5 DEF Waiting
    <3>2. {jobs'[i] : i \in DOMAIN jobs'} = {jobs[i] : i \in DOMAIN jobs} \ {s}
      <4>1. \A x \in {jobs'[i] : i \in DOMAIN jobs'} : x \in {jobs[i] : i \in DOMAIN jobs} /\ x # s
        BY <2>5, <2>6
      <4>2. \A x \in {jobs[i] : i \in DOMAIN jobs} : x # s => x \in {jobs'[i] : i \in DOMAIN jobs'}
        BY <2>5
      <4> QED BY <4>1, <4>2
    <3>3. {q \in {scan'.seg} : scan'.pc = "send"} = {q \in {scan.seg} : scan.pc = "send"} \ {s}
      BY <2>3, <2>6
    <3> QED BY <3>1, <3>2, <3>3 DEF Waiting
  <2>8. Has(new) = {s} /\ hand[w] = {}
    BY <2>1, <2>4 DEF Has
  <2>9. hand1 = [hand EXCEPT ![w] = {s}]
    BY <2>2, <2>8
  <2>10. Extracting!Start(w, s)
    BY <2>3, <2>7, <2>8, <2>9 DEF Extracting!Start, Waiting, Has
  <2> QED BY <2>4, <2>10 DEF s, Extracting!SFNext, Extracting!Start
<1>2. CASE PushFrame(w) \/ MarkExtractor(w) \/ FFmpegFails(w)
  <2>1. PICK new \in ExtRec : /\ ext' = [ext EXCEPT ![w] = new] /\ ExtRowOK(new)
                              /\ new.pc # "idle" /\ new.seg = ext[w].seg
    BY <1>2, RunStep
  <2>2. \A v \in ExtWorkers : ext'[v] = IF v = w THEN new ELSE ext[v]
    BY <2>1, ExtUpdate
  <2>3. ext[w].pc # "idle" /\ UNCHANGED <<inflight, scan, jobs>>
    BY <1>2, RunStep DEF PushFrame, MarkExtractor, FFmpegFails
  <2>4. \A v \in ExtWorkers : Has(ext'[v]) = Has(ext[v])
    BY <2>1, <2>2, <2>3 DEF Has
  <2> QED BY <2>3, <2>4, SameFlight DEF Waiting
<1>3. CASE Release(w)
  <2> DEFINE s == ext[w].seg
  <2>1. /\ UNCHANGED <<scan, jobs>> /\ inflight' = inflight \ {s}
        /\ ext' = [ext EXCEPT ![w] = ExtIdle] /\ ext[w].pc # "idle"
    BY <1>3 DEF Release
  <2>2. \A v \in ExtWorkers : ext'[v] = IF v = w THEN ExtIdle ELSE ext[v]
    BY <2>1 DEF Typed, ExtractorType
  <2>3. s \in Segs /\ hand[w] = {s} /\ Has(ExtIdle) = {}
    BY <2>1 DEF Typed, RowsOK, Has, ExtIdle
  <2>4. hand1 = [hand EXCEPT ![w] = {}]
    BY <2>2, <2>3
  <2>5. Extracting!Finish(w, s)
    BY <2>1, <2>3, <2>4 DEF Extracting!Finish, Has
  <2> QED BY <2>3, <2>5 DEF Extracting!SFNext, Extracting!Finish
<1> QED BY <1>1, <1>2, <1>3 DEF Worker

(* For any number of workers the extractor implements the pool of          *)
(* SingleFlight: between a claim and its release a segment is waited for   *)
(* once and extracted once, and the claim goes exactly when the worker     *)
(* that has it is done, also where processSegment returns early.           *)
THEOREM PipelineSingleFlight == Spec => ExtractorSingleFlight
<1>1. Init => Extracting!SFInit
  <2>1. DOMAIN <<>> = {}
    OBVIOUS
  <2> QED BY <2>1 DEF Init, Extracting!SFInit, ScanIdle, ExtIdle
<1>2. ASSUME Typed, Exclusive, [Next]_vars PROVE [Extracting!SFNext]_(Extracting!sfVars)
  <2>1. CASE Crash
    <3>1. DOMAIN <<>> = {}
      OBVIOUS
    <3>2. Waiting' = {} /\ inflight' = {} /\ \A w \in ExtWorkers : Has(ext'[w]) = {}
      BY <2>1, <3>1 DEF Crash, Waiting, Has, ScanIdle, ExtIdle
    <3>3. Extracting!Lose
      BY <3>2 DEF Extracting!Lose, Waiting, Has
    <3> QED BY <3>3 DEF Extracting!SFNext
  <2>2. CASE UNCHANGED extractor
    BY <2>2, SameFlight DEF extractor, Waiting
  <2>3. ASSUME NEW s \in Segs, Upload(s) PROVE UNCHANGED extractor
    BY <2>3 DEF Upload, StoreBegin, StoreEnd, TrackUpload
  <2>4. ASSUME NEW d \in DetSlots, Spawn(d) \/ Task(d) PROVE UNCHANGED extractor
    BY <1>2, <2>4, TaskStep DEF Spawn
  <2>5. Receive \/ Toggle \/ UNCHANGED vars => UNCHANGED extractor
    BY DEF Receive, Toggle, vars
  <2> QED BY <1>2, <2>1, <2>2, <2>3, <2>4, <2>5, ScannerFlight, WorkerFlight DEF Next
<1>3. Typed /\ Exclusive /\ [Next]_vars => [Extracting!SFNext]_(Extracting!sfVars)
  BY <1>2
<1>4. Spec => [](Typed /\ Exclusive)
  BY TypedInit, TypedNext, ExclusiveInit, ExclusiveNext, PTL DEF Spec
<1> QED BY <1>1, <1>3, <1>4, PTL DEF Spec, ExtractorSingleFlight, Extracting!SFSpec

-----------------------------------------------------------------------------
(* What a mark hides.  A frame is on record when it is under way, has its  *)
(* answer or is noted as lost; no step takes one off the record, and a     *)
(* worker marks its segment only after all its frames were pushed.         *)

Kept == InPipeline \cup answered \cup lost

\* A goroutine that holds no slot holds no frame: the next one can have it.
\* One that is past the engine call has the answer.
SlotsOK ==
  \A d \in DetSlots :
    /\ task[d].pc = "idle" => task[d].frame = NoFrame
    /\ task[d].pc \notin {"idle", "engine"} => task[d].frame \in answered

PushedKept ==
  \A w \in ExtWorkers : ext[w].pc = "run" =>
    \A i \in 1..ext[w].sent : <<ext[w].seg, i>> \in Kept

MarkedKept == \A f \in Frames : f[1] \in extMark \ cut => f \in Kept

\* Only something that went wrong, or a switch, takes a frame.
Quiet == upsets = 0 => enabled /\ lost = {}

Marked == MarkedKept /\ PushedKept /\ SlotsOK

LEMMA MarkedInit == Init => Marked /\ Quiet
<1> SUFFICES ASSUME Init PROVE Marked /\ Quiet
  OBVIOUS
<1>1. MarkedKept /\ Quiet
  BY DEF Init, MarkedKept, Quiet
<1>2. PushedKept
  BY DEF Init, PushedKept, ExtIdle
<1>3. SlotsOK
  BY DEF Init, SlotsOK, TaskIdle
<1> QED BY <1>1, <1>2, <1>3 DEF Marked

LEMMA QuietNext ==
  ASSUME Typed, Quiet, [Next]_vars
  PROVE  Quiet'
<1> USE Constants DEF Quiet, Fine, Upset, Typed, DiskType
<1>1. ASSUME NEW s \in Segs, Upload(s) PROVE Quiet'
  BY <1>1 DEF Upload, StoreBegin, StoreEnd, TrackUpload, history
<1>2. CASE Scanner
  BY <1>2 DEF Scanner, ScanCheck, ScanClaim, ScanSend, history
<1>3. ASSUME NEW w \in ExtWorkers, Worker(w) \/ FFmpegFails(w) PROVE Quiet'
  BY <1>3 DEF Worker, ExtTake, PushFrame, MarkExtractor, Release, FFmpegFails, history
<1>4. CASE Receive
  BY <1>4 DEF Receive
<1>5. ASSUME NEW d \in DetSlots, Spawn(d) PROVE Quiet'
  BY <1>5 DEF Spawn, history
<1>6. ASSUME NEW d \in DetSlots, Task(d) PROVE Quiet'
  BY <1>6, TaskStep
<1>7. CASE Toggle \/ Crash
  BY <1>7 DEF Toggle, Crash
<1>8. CASE UNCHANGED vars
  BY <1>8 DEF vars, history
<1> QED BY <1>1, <1>2, <1>3, <1>4, <1>5, <1>6, <1>7, <1>8 DEF Next

\* Where a kept frame is, and where it is after a step.
LEMMA KeptWhere ==
  \A f : f \in Kept <=>
    \/ f \in answered \/ f \in lost
    \/ /\ f # NoFrame
       /\ \/ \E i \in DOMAIN frames : f = frames[i]
          \/ f = held
          \/ \E d \in DetSlots : f = task[d].frame
BY DEF Kept, InPipeline

LEMMA KeptWhereNext ==
  \A f : f \in Kept' <=>
    \/ f \in answered' \/ f \in lost'
    \/ /\ f # NoFrame
       /\ \/ \E i \in DOMAIN frames' : f = frames'[i]
          \/ f = held'
          \/ \E d \in DetSlots : f = task'[d].frame
BY DEF Kept, InPipeline

\* No step takes a frame off the record.
LEMMA KeptStays ==
  ASSUME Typed, SlotsOK, [Next]_vars
  PROVE  SlotsOK' /\ Kept \subseteq Kept'
<1>1. CASE UNCHANGED <<frames, held, task, answered, lost>>
  BY <1>1 DEF SlotsOK, Kept, InPipeline
<1>2. ASSUME NEW w \in ExtWorkers, PushFrame(w)
      PROVE  SlotsOK' /\ Kept \subseteq Kept'
  <2> DEFINE f == <<ext[w].seg, ext[w].sent + 1>>
  <2>1. /\ UNCHANGED <<held, task, answered>>
        /\ frames' = Append(frames, f) /\ lost' = lost \ {f}
    BY <1>2 DEF PushFrame
  <2>2. frames \in Seq(Frames) /\ f \in Frames /\ f # NoFrame
    BY <1>2, PushedFrame, Constants DEF Typed, DetectorType
  <2> HIDE DEF f
  <2>3. \A i \in DOMAIN frames : i \in DOMAIN frames' /\ frames'[i] = frames[i]
    BY <2>1, <2>2, AppendFacts
  <2>4. \E i \in DOMAIN frames' : frames'[i] = f
    BY <2>1, <2>2, AppendFacts
  <2>5. f \in Kept'
    BY <2>2, <2>4, KeptWhereNext
  <2>6. SlotsOK'
    BY <2>1 DEF SlotsOK
  <2> QED BY <2>1, <2>3, <2>5, <2>6, KeptWhere, KeptWhereNext
<1>3. CASE Receive
  <2>1. /\ UNCHANGED <<task, answered>> /\ held = NoFrame
        /\ frames # <<>> /\ frames' = Tail(frames)
        /\ (held' = Head(frames) /\ lost' = lost) \/ lost' = lost \cup {Head(frames)}
    BY <1>3 DEF Receive
  <2>2. frames \in Seq(Frames)
    BY DEF Typed, DetectorType
  <2>3. /\ Head(frames) = frames[1]
        /\ \A i \in DOMAIN frames : i = 1 \/ (i - 1 \in DOMAIN frames' /\ frames[i] = frames'[i - 1])
    BY <2>1, <2>2, TailFacts
  <2>4. \A i \in DOMAIN frames : frames[i] # NoFrame => frames[i] \in Kept'
    <3> SUFFICES ASSUME NEW i \in DOMAIN frames, frames[i] # NoFrame
                 PROVE  \/ \E j \in DOMAIN frames' : frames[i] = frames'[j]
                        \/ frames[i] = held' \/ frames[i] \in lost'
      BY KeptWhereNext
    <3>1. CASE i = 1
      BY <2>1, <2>3, <3>1
    <3>2. CASE i # 1
      BY <2>3, <3>2
    <3> QED BY <3>1, <3>2
  <2>5. \A f : f \in lost => f \in lost'
    BY <2>1
  <2> QED BY <2>1, <2>4, <2>5, KeptWhere, KeptWhereNext DEF SlotsOK
<1>4. ASSUME NEW d \in DetSlots, Spawn(d)
      PROVE  SlotsOK' /\ Kept \subseteq Kept'
  <2>1. /\ UNCHANGED <<frames, answered, lost>> /\ task[d].frame = NoFrame
        /\ task' = [task EXCEPT ![d] = [pc |-> "engine", frame |-> held]]
    BY <1>4 DEF Spawn, history, SlotsOK
  <2>2. \A e \in DetSlots : task'[e] = IF e = d THEN [pc |-> "engine", frame |-> held] ELSE task[e]
    BY <2>1 DEF Typed, DetectorType
  <2>3. SlotsOK'
    BY <2>1, <2>2 DEF SlotsOK
  <2>4. task'[d].frame = held /\ \A e \in DetSlots : e # d => task'[e].frame = task[e].frame
    BY <2>2
  <2> QED BY <2>1, <2>3, <2>4, KeptWhere, KeptWhereNext
<1>5. ASSUME NEW d \in DetSlots, Task(d)
      PROVE  SlotsOK' /\ Kept \subseteq Kept'
  <2> DEFINE f == task[d].frame
  <2>1. /\ UNCHANGED <<frames, held>> /\ task[d].pc # "idle"
        /\ answered \subseteq answered' /\ lost \subseteq lost'
    BY <1>5, TaskStep
  <2>2. \/ /\ \E new \in TaskRec : /\ task' = [task EXCEPT ![d] = new]
                                   /\ new.pc # "idle" /\ new.frame = f
           /\ task[d].pc = "engine" => f \in answered'
        \/ /\ task' = [task EXCEPT ![d] = TaskIdle]
           /\ task[d].pc = "engine" => f \in lost'
    BY <1>5, TaskStep
  <2>3. task \in [DetSlots -> TaskRec]
    BY DEF Typed, DetectorType
  <2>4. task[d].pc # "engine" => f \in answered'
    BY <2>1 DEF SlotsOK
  <2>5. CASE /\ \E new \in TaskRec : /\ task' = [task EXCEPT ![d] = new]
                                     /\ new.pc # "idle" /\ new.frame = f
             /\ f \in answered'
    <3>1. \A e \in DetSlots : /\ task'[e].frame = task[e].frame
                              /\ task'[e].pc = "idle" => task[e].pc = "idle"
                              /\ e # d => task'[e] = task[e]
      BY <2>3, <2>5
    <3>2. SlotsOK'
      BY <2>1, <2>5, <3>1 DEF SlotsOK
    <3> QED BY <2>1, <3>1, <3>2, KeptWhere, KeptWhereNext
  <2>6. CASE /\ task' = [task EXCEPT ![d] = TaskIdle]
             /\ f \in answered' \cup lost'
    <3>1. \A e \in DetSlots : task'[e] = IF e = d THEN TaskIdle ELSE task[e]
      BY <2>3, <2>6
    <3>2. SlotsOK'
      BY <2>1, <3>1 DEF SlotsOK, TaskIdle
    <3> QED BY <2>1, <2>6, <3>1, <3>2, KeptWhere, KeptWhereNext
  <2> QED BY <2>2, <2>4, <2>5, <2>6
<1>6. CASE Crash
  <2>1. /\ task' = [d \in DetSlots |-> TaskIdle] /\ answered' = answered
        /\ lost' = lost \cup (InPipeline \ answered)
    BY <1>6 DEF Crash
  <2> QED BY <2>1, KeptWhereNext DEF SlotsOK, TaskIdle, Kept
<1>7. ASSUME NEW s \in Segs, Upload(s) PROVE UNCHANGED <<frames, held, task, answered, lost>>
  BY <1>7 DEF Upload, StoreBegin, StoreEnd, TrackUpload, detector, history
<1>8. ASSUME NEW w \in ExtWorkers,
             ExtTake(w) \/ MarkExtractor(w) \/ Release(w) \/ FFmpegFails(w)
      PROVE  UNCHANGED <<frames, held, task, answered, lost>>
  BY <1>8 DEF ExtTake, MarkExtractor, Release, FFmpegFails, detector, history
<1>9. Scanner \/ Toggle \/ UNCHANGED vars => UNCHANGED <<frames, held, task, answered, lost>>
  BY DEF Scanner, ScanCheck, ScanClaim, ScanSend, Toggle, vars, detector, history
<1> QED BY <1>1, <1>2, <1>3, <1>4, <1>5, <1>6, <1>7, <1>8, <1>9 DEF Next, Worker

LEMMA MarkedNext ==
  ASSUME Typed, Marked, [Next]_vars
  PROVE  Marked'
<1>1. SlotsOK' /\ Kept \subseteq Kept'
  BY KeptStays DEF Marked
<1>2. ASSUME UNCHANGED <<extMark, cut>> PROVE MarkedKept'
  BY <1>1, <1>2 DEF Marked, MarkedKept
<1>3. ASSUME UNCHANGED ext PROVE PushedKept'
  BY <1>1, <1>3 DEF Marked, PushedKept
<1>4. ASSUME NEW w \in ExtWorkers, ExtTake(w) PROVE Marked'
  <2>1. PICK new \in ExtRec : /\ ext' = [ext EXCEPT ![w] = new]
                              /\ ExtRowOK(new) /\ new.sent = 0
    BY <1>4, TakeStep
  <2>2. \A v \in ExtWorkers : ext'[v] = IF v = w THEN new ELSE ext[v]
    BY <2>1, ExtUpdate
  <2>3. ext'[w].sent = 0 /\ 1..0 = {}
    BY <2>1, <2>2
  <2>4. PushedKept'
    BY <1>1, <2>2, <2>3 DEF Marked, PushedKept
  <2>5. UNCHANGED <<extMark, cut>>
    BY <1>4 DEF ExtTake, disk, history
  <2> QED BY <1>1, <1>2, <2>4, <2>5 DEF Marked
<1>5. ASSUME NEW w \in ExtWorkers, PushFrame(w) \/ MarkExtractor(w) \/ FFmpegFails(w)
      PROVE  PushedKept'
  <2>1. PICK new \in ExtRec : /\ ext' = [ext EXCEPT ![w] = new]
                              /\ ExtRowOK(new) /\ new.seg = ext[w].seg
                              /\ new.pc = "run" => PushFrame(w) /\ new.sent = ext[w].sent + 1
    BY <1>5, RunStep
  <2>2. \A v \in ExtWorkers : ext'[v] = IF v = w THEN new ELSE ext[v]
    BY <2>1, ExtUpdate
  <2>3. ext[w].pc = "run"
    BY <1>5, RunStep
  <2>4. new.pc = "run" => \A i \in 1..new.sent : <<new.seg, i>> \in Kept'
    <3> SUFFICES ASSUME new.pc = "run", NEW i \in 1..new.sent
                 PROVE  <<new.seg, i>> \in Kept'
      OBVIOUS
    <3>1. ext[w].sent \in Nat /\ new.sent = ext[w].sent + 1 /\ PushFrame(w)
      BY <2>1, Constants DEF Typed, ExtractorType, ExtRec
    <3>2. CASE i = ext[w].sent + 1
      <4>1. /\ frames' = Append(frames, <<ext[w].seg, i>>)
            /\ <<ext[w].seg, i>> \in Frames /\ frames \in Seq(Frames)
        BY <3>1, <3>2, PushedFrame DEF PushFrame, Typed, DetectorType
      <4>2. /\ Len(frames) + 1 \in DOMAIN frames'
            /\ frames'[Len(frames) + 1] = <<ext[w].seg, i>>
        BY <4>1, AppendFacts
      <4>3. <<ext[w].seg, i>> # NoFrame
        BY <4>1, Constants
      <4> QED BY <2>1, <4>2, <4>3, KeptWhereNext
    <3>3. CASE i # ext[w].sent + 1
      <4>1. i \in 1..ext[w].sent
        BY <3>1, <3>3
      <4> QED BY <1>1, <2>1, <2>3, <4>1 DEF Marked, PushedKept
    <3> QED BY <3>2, <3>3
  <2>5. ASSUME NEW v \in ExtWorkers, v # w, ext[v].pc = "run", NEW i \in 1..ext[v].sent
        PROVE  <<ext[v].seg, i>> \in Kept'
    BY <1>1, <2>5 DEF Marked, PushedKept
  <2> QED BY <2>2, <2>4, <2>5 DEF PushedKept
<1>6. ASSUME NEW w \in ExtWorkers, PushFrame(w) \/ FFmpegFails(w) PROVE Marked'
  <2>1. UNCHANGED <<extMark, cut>>
    BY <1>6 DEF PushFrame, FFmpegFails, disk, history
  <2> QED BY <1>1, <1>2, <1>5, <1>6, <2>1 DEF Marked
<1>7. ASSUME NEW w \in ExtWorkers, MarkExtractor(w) PROVE Marked'
  <2>1. CASE UNCHANGED <<extMark, cut>>
    BY <1>1, <1>2, <1>5, <1>7, <2>1 DEF Marked
  <2>2. CASE /\ extMark' = extMark \cup {ext[w].seg}
             /\ cut' = IF ext[w].len < FramesPer THEN cut \cup {ext[w].seg} ELSE cut
    <3> SUFFICES ASSUME NEW f \in Frames, f[1] \in extMark' \ cut'
                 PROVE  f \in Kept'
      BY <1>1, <1>5, <1>7 DEF Marked, MarkedKept
    <3>1. CASE f[1] \in extMark \ cut
      BY <1>1, <3>1 DEF Marked, MarkedKept
    <3>2. CASE f[1] \notin extMark \ cut
      <4>1. f[1] = ext[w].seg /\ ~(ext[w].len < FramesPer)
        BY <2>2, <3>2
      <4>2. ext[w] \in ExtRec /\ FramesPer \in Nat
        BY Constants DEF Typed, ExtractorType
      <4>3. ext[w].sent = ext[w].len /\ ext[w].pc = "run"
        BY <1>7 DEF MarkExtractor, Exited
      <4>4. ext[w].sent = FramesPer
        BY <4>1, <4>2, <4>3 DEF ExtRec
      <4>5. f[2] \in 1..FramesPer /\ f = <<f[1], f[2]>>
        BY DEF Frames
      <4> QED BY <1>1, <4>1, <4>3, <4>4, <4>5 DEF Marked, PushedKept
    <3> QED BY <3>1, <3>2
  <2> QED BY <1>7, <2>1, <2>2 DEF MarkExtractor
<1>8. ASSUME NEW w \in ExtWorkers, Release(w) PROVE Marked'
  <2>1. /\ ext' = [ext EXCEPT ![w] = ExtIdle] /\ UNCHANGED <<extMark, cut>>
    BY <1>8 DEF Release, disk, history
  <2>2. \A v \in ExtWorkers : ext'[v].pc = "run" => ext'[v] = ext[v] /\ ext[v].pc = "run"
    BY <2>1 DEF Typed, ExtractorType, ExtIdle
  <2>3. PushedKept'
    BY <1>1, <2>2 DEF Marked, PushedKept
  <2> QED BY <1>1, <1>2, <2>1, <2>3 DEF Marked
<1>9. CASE Crash
  <2>1. ext' = [w \in ExtWorkers |-> ExtIdle] /\ UNCHANGED <<extMark, cut>>
    BY <1>9 DEF Crash, disk
  <2>2. PushedKept'
    BY <2>1 DEF PushedKept, ExtIdle
  <2> QED BY <1>1, <1>2, <2>1, <2>2 DEF Marked
<1>10. CASE UNCHANGED <<extMark, cut, ext>>
  BY <1>1, <1>2, <1>3, <1>10 DEF Marked
<1>11. ASSUME NEW s \in Segs, Upload(s) PROVE UNCHANGED <<extMark, cut, ext>>
  BY <1>11 DEF Upload, StoreBegin, StoreEnd, TrackUpload, extractor, history
<1>12. ASSUME NEW d \in DetSlots, Spawn(d) \/ Task(d) PROVE UNCHANGED <<extMark, cut, ext>>
  BY <1>12, TaskStep DEF Spawn, extractor, disk, history
<1>13. Scanner \/ Receive \/ Toggle \/ UNCHANGED vars => UNCHANGED <<extMark, cut, ext>>
  BY DEF Scanner, ScanCheck, ScanClaim, ScanSend, Receive, Toggle, vars, disk,
         extractor, history
<1> QED BY <1>4, <1>6, <1>7, <1>8, <1>9, <1>10, <1>11, <1>12, <1>13 DEF Next, Worker

\* What the mark of a whole segment hides is exactly on record: a frame that
\* the engine has not answered and that is not on its way was lost, by the
\* setting, a failed call or a crash, after its last push; and with nothing
\* gone wrong nothing is lost.
THEOREM PipelineMarkHidesOnlyLost == Spec => []MarkHidesOnlyLost
<1>1. Spec => [](Typed /\ Marked /\ Quiet)
  <2>1. Typed /\ Marked /\ Quiet /\ [Next]_vars => Typed' /\ Marked' /\ Quiet'
    BY TypedNext, MarkedNext, QuietNext
  <2> QED BY <2>1, TypedInit, MarkedInit, PTL DEF Spec
<1>2. Marked /\ Quiet => MarkHidesOnlyLost
  BY DEF Marked, MarkedKept, Quiet, Kept, MarkHidesOnlyLost
<1> QED BY <1>1, <1>2, PTL

-----------------------------------------------------------------------------
(* The counts of the completion probe speak for the sets. *)

\* A subset that is not the smaller one is the whole set.
LEMMA SegCounts ==
  ASSUME NEW S \in SUBSET Segs, NEW T \in SUBSET S, Cardinality(T) >= Cardinality(S)
  PROVE  T = S
<1>1. IsFiniteSet(Segs)
  BY Constants, FS_Interval DEF Segs
<1>2. IsFiniteSet(S)
  BY <1>1, FS_Subset
<1>3. IsFiniteSet(T) /\ Cardinality(T) <= Cardinality(S) /\ (Cardinality(S) = Cardinality(T) => S = T)
  BY <1>2, FS_Subset
<1>4. Cardinality(S) \in Nat /\ Cardinality(T) \in Nat
  BY <1>2, <1>3, FS_CardinalityType
<1> QED BY <1>3, <1>4

LEMMA CompleteMeansSets ==
  ASSUME Typed, Complete, extMark \cup detMark \subseteq flagged
  PROVE  flagged \subseteq extMark \cap detMark
<1>1. extMark = flagged
  BY SegCounts DEF Typed, DiskType, Complete
<1>2. detMark = flagged
  BY <1>1, SegCounts DEF Typed, DiskType, Complete
<1> QED BY <1>1, <1>2

\* Only a complete count takes a goroutine from the probe to the event.
LEMMA EmitOnlyComplete ==
  ASSUME Typed, [Next]_vars, NEW d \in DetSlots,
         task[d].pc = "probe", task'[d].pc = "emit"
  PROVE  Complete
<1>1. task \in [DetSlots -> TaskRec]
  BY DEF Typed, DetectorType
<1>2. task' # task
  OBVIOUS
<1>3. ASSUME NEW e \in DetSlots, Spawn(e) PROVE FALSE
  BY <1>1, <1>3 DEF Spawn
<1>4. ASSUME NEW e \in DetSlots, Task(e) PROVE Complete
  <2>1. e = d
    <3>1. PICK new \in TaskRec \cup {TaskIdle} : task' = [task EXCEPT ![e] = new]
      BY <1>4, TaskStep
    <3> QED BY <1>1, <3>1
  <2>2. Probe(d)
    BY <1>4, <2>1 DEF Task, Engine, MarkDetector, Emit
  <2>3. CASE Return(d)
    BY <1>1, <2>3 DEF Return, TaskIdle
  <2> QED BY <2>2, <2>3 DEF Probe
<1>5. CASE Crash
  BY <1>5 DEF Crash, TaskIdle
<1>6. ASSUME NEW s \in Segs, Upload(s) PROVE UNCHANGED task
  BY <1>6 DEF Upload, StoreBegin, StoreEnd, TrackUpload, detector
<1>7. ASSUME NEW w \in ExtWorkers, Worker(w) \/ FFmpegFails(w) PROVE UNCHANGED task
  BY <1>7 DEF Worker, ExtTake, PushFrame, MarkExtractor, Release, FFmpegFails, detector
<1>8. Scanner \/ Receive \/ Toggle \/ UNCHANGED vars => UNCHANGED task
  BY DEF Scanner, ScanCheck, ScanClaim, ScanSend, Receive, Toggle, vars, detector
<1> QED BY <1>2, <1>3, <1>4, <1>5, <1>6, <1>7, <1>8 DEF Next

\* The probe compares numbers of rows; for any number of segments the event
\* goes out only when each flagged segment has both marks.
THEOREM PipelineCounts == Spec => CountsMeanSets
<1>1. Typed /\ [Next]_vars =>
        [\A d \in DetSlots :
           task[d].pc = "probe" /\ task'[d].pc = "emit"
             /\ extMark \cup detMark \subseteq flagged
           => flagged \subseteq extMark \cap detMark]_vars
  BY EmitOnlyComplete, CompleteMeansSets
<1> QED BY <1>1, TypedInit, TypedNext, PTL DEF Spec, CountsMeanSets

(* What the aggregator cannot see of a route when its event goes out: the  *)
(* frames still in the channel, with the receive loop or at the engine,    *)
(* and those that were lost.  No frame of a whole flagged segment is still *)
(* to be pushed for the first time.                                        *)
EventMissesOnly ==
  [][\A d \in DetSlots :
       task[d].pc = "probe" /\ task'[d].pc = "emit"
         /\ extMark \cup detMark \subseteq flagged
       => \A f \in Frames : f[1] \in flagged \ cut =>
            f \in InPipeline \cup answered \cup lost]_vars

\* The event may come early, since one frame marks its segment as detected;
\* for any number of segments and frames it misses no more than that.
THEOREM PipelineEventMissesOnly == Spec => EventMissesOnly
<1>1. Typed /\ MarkedKept /\ [Next]_vars =>
        [\A d \in DetSlots :
           task[d].pc = "probe" /\ task'[d].pc = "emit"
             /\ extMark \cup detMark \subseteq flagged
           => \A f \in Frames : f[1] \in flagged \ cut =>
                f \in InPipeline \cup answered \cup lost]_vars
  BY EmitOnlyComplete, CompleteMeansSets DEF MarkedKept, Kept
<1>2. Spec => [](Typed /\ MarkedKept)
  <2>1. Marked => MarkedKept
    BY DEF Marked
  <2>2. Typed /\ Marked /\ [Next]_vars => Typed' /\ Marked'
    BY TypedNext, MarkedNext
  <2> QED BY <2>1, <2>2, TypedInit, MarkedInit, PTL DEF Spec
<1> QED BY <1>1, <1>2, PTL DEF Spec, EventMissesOnly

-----------------------------------------------------------------------------
(* Nobody waits on everybody.  A claim has a hand that holds it; whatever   *)
(* that hand waits for is in the next one's hands, down to the goroutines   *)
(* at the engine, which wait for nobody.                                    *)

\* No early return leaves a claim that nobody will drop.
ClaimHeld ==
  \A s \in inflight : \/ scan.pc = "send" /\ scan.seg = s
                      \/ \E i \in DOMAIN jobs : jobs[i] = s
                      \/ \E w \in ExtWorkers : ext[w].pc # "idle" /\ ext[w].seg = s

LEMMA ScannerClaimHeld ==
  ASSUME Typed, ClaimHeld, Scanner
  PROVE  ClaimHeld'
<1> USE DEF ClaimHeld
<1>1. scan \in ScanRec /\ jobs \in Seq(Segs) /\ scan.seg \in Segs
  BY DEF Typed, ExtractorType, ScanRec
<1>2. CASE ScanCheck
  BY <1>2 DEF ScanCheck
<1>3. CASE ScanClaim
  <2>1. CASE scan.seg \in inflight
    BY <1>3, <2>1 DEF ScanClaim
  <2>2. CASE scan.seg \notin inflight
    <3>1. /\ UNCHANGED <<jobs, ext>> /\ inflight' = inflight \cup {scan.seg}
          /\ scan' = [scan EXCEPT !.pc = "send"] /\ scan.pc # "send"
      BY <1>3, <2>2 DEF ScanClaim
    <3>2. scan'.seg = scan.seg /\ scan'.pc = "send"
      BY <1>1, <3>1 DEF ScanRec
    <3> QED BY <3>1, <3>2
  <2> QED BY <2>1, <2>2
<1>4. CASE ScanSend
  <2>1. UNCHANGED <<inflight, ext>> /\ jobs' = Append(jobs, scan.seg)
    BY <1>4 DEF ScanSend
  <2>2. /\ Len(jobs) + 1 \in DOMAIN jobs' /\ jobs'[Len(jobs) + 1] = scan.seg
        /\ \A i \in DOMAIN jobs : i \in DOMAIN jobs' /\ jobs'[i] = jobs[i]
    BY <1>1, <2>1, AppendFacts
  <2> QED BY <2>1, <2>2
<1> QED BY <1>2, <1>3, <1>4 DEF Scanner

LEMMA WorkerClaimHeld ==
  ASSUME Typed, ClaimHeld, NEW w \in ExtWorkers, Worker(w) \/ FFmpegFails(w)
  PROVE  ClaimHeld'
<1> USE DEF ClaimHeld
<1>1. CASE ExtTake(w)
  <2>1. PICK new \in ExtRec : /\ ext' = [ext EXCEPT ![w] = new] /\ ExtRowOK(new)
                              /\ new.pc # "idle" /\ new.seg = Head(jobs)
    BY <1>1, TakeStep
  <2>2. \A v \in ExtWorkers : ext'[v] = IF v = w THEN new ELSE ext[v]
    BY <2>1, ExtUpdate
  <2>3. UNCHANGED <<inflight, scan>> /\ jobs' = Tail(jobs) /\ ext[w].pc = "idle"
    BY <1>1 DEF ExtTake
  <2>4. jobs \in Seq(Segs) /\ jobs # <<>>
    BY <1>1, TakeStep DEF Typed, ExtractorType
  <2>5. \A i \in DOMAIN jobs : jobs[i] = Head(jobs) \/ \E j \in DOMAIN jobs' : jobs'[j] = jobs[i]
    BY <2>3, <2>4, TailFacts
  <2>6. \A v \in ExtWorkers : ext[v].pc # "idle" => ext'[v] = ext[v]
    BY <2>2, <2>3
  <2>7. ext'[w].pc # "idle" /\ ext'[w].seg = Head(jobs)
    BY <2>1, <2>2
  <2> QED BY <2>3, <2>5, <2>6, <2>7
<1>2. CASE PushFrame(w) \/ MarkExtractor(w) \/ FFmpegFails(w)
  <2>1. PICK new \in ExtRec : /\ ext' = [ext EXCEPT ![w] = new] /\ ExtRowOK(new)
                              /\ new.pc # "idle" /\ new.seg = ext[w].seg
    BY <1>2, RunStep
  <2>2. \A v \in ExtWorkers : ext'[v] = IF v = w THEN new ELSE ext[v]
    BY <2>1, ExtUpdate
  <2>3. UNCHANGED <<inflight, scan, jobs>>
    BY <1>2 DEF PushFrame, MarkExtractor, FFmpegFails
  <2>4. \A v \in ExtWorkers : ext[v].pc # "idle" => ext'[v].pc # "idle" /\ ext'[v].seg = ext[v].seg
    BY <2>1, <2>2
  <2> QED BY <2>3, <2>4
<1>3. CASE Release(w)
  <2>1. /\ UNCHANGED <<scan, jobs>> /\ inflight' = inflight \ {ext[w].seg}
        /\ ext' = [ext EXCEPT ![w] = ExtIdle]
    BY <1>3 DEF Release
  <2>2. \A v \in ExtWorkers : v # w => ext'[v] = ext[v]
    BY <2>1 DEF Typed, ExtractorType
  <2> QED BY <2>1, <2>2
<1> QED BY <1>1, <1>2, <1>3 DEF Worker

LEMMA ClaimHeldNext == Typed /\ ClaimHeld /\ [Next]_vars => ClaimHeld'
<1> SUFFICES ASSUME Typed, ClaimHeld, [Next]_vars PROVE ClaimHeld'
  OBVIOUS
<1>1. CASE Scanner
  BY <1>1, ScannerClaimHeld
<1>2. ASSUME NEW w \in ExtWorkers, Worker(w) \/ FFmpegFails(w) PROVE ClaimHeld'
  BY <1>2, WorkerClaimHeld
<1>3. CASE Crash
  BY <1>3 DEF Crash, ClaimHeld
<1>4. CASE UNCHANGED extractor
  BY <1>4 DEF ClaimHeld, extractor
<1>5. ASSUME NEW s \in Segs, Upload(s) PROVE UNCHANGED extractor
  BY <1>5 DEF Upload, StoreBegin, StoreEnd, TrackUpload
<1>6. ASSUME NEW d \in DetSlots, Spawn(d) \/ Task(d) PROVE UNCHANGED extractor
  BY <1>6, TaskStep DEF Spawn
<1>7. Receive \/ Toggle \/ UNCHANGED vars => UNCHANGED extractor
  BY DEF Receive, Toggle, vars
<1> QED BY <1>1, <1>2, <1>3, <1>4, <1>5, <1>6, <1>7 DEF Next

\* The guards of the actions that ClaimMovesOn lists; each of them has a way
\* to go well that asks for nothing else.
SendReady     == scan.pc = "send" /\ Len(jobs) < Cardinality(ExtWorkers)
WorkerReady(w) ==
  \/ ext[w].pc = "idle" /\ jobs # <<>>
  \/ ext[w].pc = "run" /\ ext[w].sent < ext[w].len /\ FrameRoom
  \/ ext[w].pc = "run" /\ Exited(w)
  \/ ext[w].pc = "release"
ReceiveReady  == held = NoFrame /\ frames # <<>>
SlotReady(d)  == held # NoFrame \/ task[d].pc # "idle"

SomebodyReady ==
  \/ SendReady
  \/ \E w \in ExtWorkers : WorkerReady(w)
  \/ ReceiveReady
  \/ \E d \in DetSlots : SlotReady(d)

\* A worker blocked on the frame channel has frames in front of it, and the
\* detector a slot for the first of them or a goroutine in every slot.
LEMMA BusyWorkerReady ==
  ASSUME Typed, NEW w \in ExtWorkers, ext[w].pc # "idle"
  PROVE  SomebodyReady
<1>1. /\ ext[w] \in ExtRec /\ ext[w].sent <= ext[w].len
      /\ frames \in Seq(Frames) /\ Len(frames) <= Buffer
  BY DEF Typed, ExtractorType, DetectorType, RowsOK
<1>2. /\ ext[w].sent \in 0..FramesPer /\ ext[w].len \in 0..FramesPer
      /\ ext[w].pc \in {"run", "release"}
  BY <1>1 DEF ExtRec
<1>3. FramesPer \in Nat /\ Buffer \in Nat /\ Buffer >= 1
  BY Constants
<1>4. CASE frames = <<>>
  <2>1. FrameRoom
    BY <1>3, <1>4, EmptySeq DEF FrameRoom
  <2>2. ext[w].sent < ext[w].len \/ ext[w].sent = ext[w].len
    BY <1>1, <1>2, <1>3
  <2> QED BY <1>2, <2>1, <2>2 DEF SomebodyReady, WorkerReady, Exited
<1>5. CASE frames # <<>>
  <2>1. PICK d \in DetSlots : TRUE
    BY PipelineAssumption
  <2> QED BY <1>5, <2>1 DEF SomebodyReady, ReceiveReady, SlotReady
<1> QED BY <1>4, <1>5

LEMMA ClaimReady ==
  ASSUME Typed, ClaimHeld, inflight # {}
  PROVE  SomebodyReady
<1>1. PICK v \in ExtWorkers : TRUE
  BY PipelineAssumption
<1>2. CASE \E w \in ExtWorkers : ext[w].pc # "idle"
  BY <1>2, BusyWorkerReady
<1>3. CASE /\ \A w \in ExtWorkers : ext[w].pc = "idle"
           /\ jobs # <<>>
  BY <1>1, <1>3 DEF SomebodyReady, WorkerReady
<1>4. CASE /\ \A w \in ExtWorkers : ext[w].pc = "idle"
           /\ jobs = <<>>
  <2>1. Cardinality(ExtWorkers) # 0 /\ Cardinality(ExtWorkers) \in Nat
    BY PipelineAssumption, Constants, FS_EmptySet
  <2>2. DOMAIN <<>> = {}
    OBVIOUS
  <2>3. scan.pc = "send"
    BY <1>4, <2>2 DEF ClaimHeld
  <2>4. Len(jobs) = 0
    BY <1>4, EmptySeq
  <2> QED BY <2>1, <2>3, <2>4 DEF SomebodyReady, SendReady
<1> QED BY <1>2, <1>3, <1>4

\* For any capacity of the job and frame channels and any number of workers
\* and slots, scanner, workers and detector never wait for each other in a
\* ring: while a claim is held, somebody between it and the engine has no
\* guard left to wait for.
THEOREM PipelineMoves == Spec => [](inflight # {} => SomebodyReady)
<1>1. Init => ClaimHeld
  BY DEF Init, ClaimHeld
<1>2. Typed /\ ClaimHeld => (inflight # {} => SomebodyReady)
  BY ClaimReady
<1> QED BY <1>1, <1>2, TypedInit, TypedNext, ClaimHeldNext, PTL DEF Spec
=============================================================================
