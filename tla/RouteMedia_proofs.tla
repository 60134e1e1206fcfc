-------------------------- MODULE RouteMedia_proofs -------------------------
(***************************************************************************)
(* For any number of clips, workers, builders and queue places: no clip is *)
(* written and no route built by two, the in-flight sets are exact, and a  *)
(* playlist that nobody writes is whole, up to the named exceptions.       *)
(***************************************************************************)
EXTENDS RouteStore_proofs

----------------------------------------------------------------------------
(* Queues                                                                  *)

Elems(q) == {q[i] : i \in DOMAIN q}
Distinct(q) == \A i, j \in DOMAIN q : q[i] = q[j] => i = j

LEMMA AppendFacts ==
  ASSUME NEW S, NEW q \in Seq(S), NEW c \in S
  PROVE  /\ Append(q, c) \in Seq(S)
         /\ Elems(Append(q, c)) = Elems(q) \cup {c}
         /\ Distinct(q) /\ c \notin Elems(q) => Distinct(Append(q, c))
<1> DEFINE t == Append(q, c)
<1>1. /\ t \in Seq(S) /\ DOMAIN q = 1..Len(q) /\ Len(q) \in Nat
      /\ DOMAIN t = 1..Len(q) + 1
      /\ t[Len(q) + 1] = c /\ \A i \in 1..Len(q) : t[i] = q[i]
  OBVIOUS
<1> HIDE DEF t
<1>2. \A i \in DOMAIN t : i \in DOMAIN q \/ i = Len(q) + 1
  BY <1>1
<1>3. Len(q) + 1 \in DOMAIN t /\ \A i \in DOMAIN q : i \in DOMAIN t /\ t[i] = q[i]
  BY <1>1
<1>4. Elems(t) = Elems(q) \cup {c}
  BY <1>1, <1>2, <1>3 DEF Elems
<1>5. Distinct(q) /\ c \notin Elems(q) => Distinct(t)
  BY <1>1, <1>2, <1>3 DEF Elems, Distinct
<1> QED BY <1>1, <1>4, <1>5 DEF t

LEMMA TailFacts ==
  ASSUME NEW S, NEW q \in Seq(S), q # <<>>
  PROVE  /\ Head(q) \in S /\ Tail(q) \in Seq(S) /\ Head(q) \in Elems(q)
         /\ Distinct(q) => /\ Elems(Tail(q)) = Elems(q) \ {Head(q)}
                           /\ Distinct(Tail(q))
<1> DEFINE t == Tail(q)
<1>1. /\ Head(q) \in S /\ t \in Seq(S) /\ DOMAIN q = 1..Len(q) /\ Len(q) \in Nat \ {0}
      /\ DOMAIN t = 1..(Len(q) - 1) /\ Head(q) = q[1]
      /\ \A i \in 1..(Len(q) - 1) : t[i] = q[i + 1]
  OBVIOUS
<1> HIDE DEF t
<1>2. \A i \in DOMAIN t : i + 1 \in DOMAIN q /\ i + 1 # 1 /\ t[i] = q[i + 1]
  BY <1>1
<1>3. \A i \in DOMAIN q : i = 1 \/ (i - 1 \in DOMAIN t /\ t[i - 1] = q[i])
  BY <1>1
<1>4. 1 \in DOMAIN q
  BY <1>1
<1>5. ASSUME Distinct(q) PROVE Elems(t) = Elems(q) \ {Head(q)}
  <2>1. \A x \in Elems(t) : x \in Elems(q) /\ x # q[1]
    BY <1>2, <1>4, <1>5 DEF Elems, Distinct
  <2>2. \A x \in Elems(q) : x # q[1] => x \in Elems(t)
    BY <1>3 DEF Elems
  <2> QED BY <1>1, <2>1, <2>2
<1>6. ASSUME Distinct(q) PROVE Distinct(t)
  <2> SUFFICES ASSUME NEW i \in DOMAIN t, NEW j \in DOMAIN t, t[i] = t[j] PROVE i = j
    BY DEF Distinct
  <2>1. i + 1 = j + 1
    BY <1>2, <1>6 DEF Distinct
  <2> QED BY <2>1, <1>1
<1> QED BY <1>1, <1>4, <1>5, <1>6 DEF t, Elems

----------------------------------------------------------------------------
(* The records: the transcoder's workers and the builders.                 *)

LEMMA VideoFacts ==
  ASSUME NEW c \in Clips, NEW k \in Cameras PROVE <<c[1], c[2], k>> \in Videos
BY DEF Clips, Cameras, Videos, Files, Kinds, KindOf

LEMMA WorkerRows ==
  /\ Free \in TcStates /\ Free.at = "free" /\ Free \in RbStates
  /\ \A c \in Clips, L \in SUBSET Cameras :
       /\ [at |-> "look", clip |-> c, left |-> L] \in TcStates
       /\ \A a \in Stages, f \in Videos, d \in {"whole", "cut", "gone"} :
            [at |-> a, clip |-> c, left |-> L, f |-> f, read |-> d] \in TcStates
  /\ \A x \in TcStates :
       /\ x.at \in {"free", "look"} \cup Stages
       /\ x.at = "free" => x = Free
       /\ x.at # "free" => x.clip \in Clips /\ x.left \in SUBSET Cameras
       /\ x.at \in Stages =>
            /\ x.f \in Videos /\ x.read \in {"whole", "cut", "gone"}
            /\ x = [at |-> x.at, clip |-> x.clip, left |-> x.left, f |-> x.f, read |-> x.read]
<1>1. \A x \in TcStates :
        \/ x = Free
        \/ x \in [at : {"look"}, clip : Clips, left : SUBSET Cameras]
        \/ x \in [at : Stages, clip : Clips, left : SUBSET Cameras, f : Videos,
                  read : {"whole", "cut", "gone"}]
  BY DEF TcStates
<1>2. \A x \in TcStates :
       /\ x.at \in {"free", "look"} \cup Stages
       /\ x.at = "free" => x = Free
       /\ x.at # "free" => x.clip \in Clips /\ x.left \in SUBSET Cameras
       /\ x.at \in Stages =>
            x \in [at : Stages, clip : Clips, left : SUBSET Cameras, f : Videos,
                   read : {"whole", "cut", "gone"}]
  BY <1>1 DEF Free, Stages
<1>3. Free \in TcStates /\ Free.at = "free" /\ Free \in RbStates
  BY DEF Free, TcStates, RbStates
<1>4. ASSUME NEW c \in Clips, NEW L \in SUBSET Cameras
      PROVE  /\ [at |-> "look", clip |-> c, left |-> L] \in TcStates
             /\ \A a \in Stages, f \in Videos, d \in {"whole", "cut", "gone"} :
                  [at |-> a, clip |-> c, left |-> L, f |-> f, read |-> d] \in TcStates
  BY DEF TcStates
<1>5. \A x \in [at : Stages, clip : Clips, left : SUBSET Cameras, f : Videos,
                read : {"whole", "cut", "gone"}] :
        /\ x.f \in Videos /\ x.read \in {"whole", "cut", "gone"}
        /\ x = [at |-> x.at, clip |-> x.clip, left |-> x.left, f |-> x.f, read |-> x.read]
  OBVIOUS
<1> QED BY <1>2, <1>3, <1>4, <1>5

LEMMA BuilderRows ==
  /\ \A r \in Routes :
       /\ [at |-> "load", of |-> r] \in RbStates
       /\ \A D \in SUBSET Clips, T \in SUBSET Segs :
            [at |-> "build", of |-> r, dets |-> D, todo |-> T] \in RbStates
  /\ \A x \in RbStates :
       /\ x.at \in {"free", "load", "build"}
       /\ x.at = "free" => x = Free
       /\ x.at # "free" => x.of \in Routes
       /\ x.at = "build" =>
            /\ x.dets \in SUBSET Clips /\ x.todo \in SUBSET Segs
            /\ x = [at |-> "build", of |-> x.of, dets |-> x.dets, todo |-> x.todo]
<1>1. \A x \in RbStates :
        \/ x = Free
        \/ x \in [at : {"load"}, of : Routes]
        \/ x \in [at : {"build"}, of : Routes, dets : SUBSET Clips, todo : SUBSET Segs]
  BY DEF RbStates
<1>2. \A x \in RbStates :
       /\ x.at \in {"free", "load", "build"}
       /\ x.at = "free" => x = Free
       /\ x.at # "free" => x.of \in Routes
       /\ x.at = "build" =>
            x \in [at : {"build"}, of : Routes, dets : SUBSET Clips, todo : SUBSET Segs]
  BY <1>1 DEF Free
<1>3. ASSUME NEW r \in Routes
      PROVE  /\ [at |-> "load", of |-> r] \in RbStates
             /\ \A D \in SUBSET Clips, T \in SUBSET Segs :
                  [at |-> "build", of |-> r, dets |-> D, todo |-> T] \in RbStates
  BY DEF RbStates
<1>4. \A x \in [at : {"build"}, of : Routes, dets : SUBSET Clips, todo : SUBSET Segs] :
        /\ x.dets \in SUBSET Clips /\ x.todo \in SUBSET Segs
        /\ x = [at |-> "build", of |-> x.of, dets |-> x.dets, todo |-> x.todo]
  OBVIOUS
<1> QED BY <1>2, <1>3, <1>4

----------------------------------------------------------------------------
(* The steps that touch the media                                          *)

TcTyped ==
  /\ hls \in [Videos -> {"none", "part", "whole"}]
  /\ tc \in [Workers -> TcStates] /\ jobs \in Seq(Clips)

RbTyped == rb \in [Builders -> RbStates] /\ rjobs \in Seq(Routes) /\ found \subseteq Clips

LEMMA MediaSteps ==
  ASSUME [Next]_vars
  PROVE  \/ MediaWatch
         \/ Scanner
         \/ \E w \in Workers : Transcode(w) \/ FfmpegFails(w)
         \/ \E c \in Clips : Detect(c) \/ View(c)
         \/ \E b \in Builders : Build(b) \/ BuildFails(b)
         \/ MediaRestart
         \/ UNCHANGED mediaVars
<1>1. CASE StoreStep
  BY <1>1 DEF StoreStep
<1>2. CASE MediaStep
  BY <1>2 DEF MediaStep, ScannerStep, TranscodeStep, FfmpegFailsStep
<1>3. CASE DerivedStep
  BY <1>3 DEF DerivedStep, DeriveStep, SettleStep
<1>4. CASE Restart
  BY <1>4 DEF Restart
<1>5. CASE UNCHANGED vars
  BY <1>5 DEF vars
<1>6. CASE ThumbStep
  BY <1>6 DEF ThumbStep, ThumbScanStep, GenerateStep, CoolStep, ShotFailsStep
<1> QED BY <1>1, <1>2, <1>3, <1>4, <1>5, <1>6 DEF Next

----------------------------------------------------------------------------
(* The transcoder.  A worker at an HEVC stage may have a partial playlist. *)

Encoding(x) == x.at \in {"copy", "encode"}
BeingWritten(f)   == \E w \in Workers : Encoding(tc[w]) /\ tc[w].f = f

\* Steps of a worker that keep its clip in its hands.
Works(w) == StartCamera(w) \/ FirstChunk(w) \/ FfmpegDone(w) \/ FfmpegFails(w)

LEMMA WorksEffect ==
  ASSUME TcTyped, NEW w \in Workers, Works(w)
  PROVE  /\ TcTyped' /\ jobs' = jobs /\ inflight' = inflight
         /\ tc[w].at # "free" /\ tc'[w].at # "free" /\ tc'[w].clip = tc[w].clip
         /\ \A v \in Workers : v # w => tc'[v] = tc[v]
         /\ broken \subseteq broken'
         /\ \A f \in Videos :
              hls'[f] = "part" =>
                \/ f \in broken'
                \/ Encoding(tc'[w]) /\ tc'[w].f = f
                \/ hls[f] = "part" /\ ~(Encoding(tc[w]) /\ tc[w].f = f)
<1> DEFINE c == tc[w].clip
           L == tc[w].left
<1>1. /\ hls \in [Videos -> {"none", "part", "whole"}]
      /\ tc \in [Workers -> TcStates] /\ jobs \in Seq(Clips)
  BY DEF TcTyped
<1>2. \A v \in Workers : tc[v] \in TcStates
  BY <1>1
<1>3. CASE StartCamera(w)
  <2>1. PICK k \in L :
          tc' = [tc EXCEPT ![w] =
            [at |-> IF k = "fcamera" THEN "copy" ELSE "package", clip |-> c,
             left |-> IF k = "fcamera" THEN {"qcamera"} ELSE {},
             f |-> <<c[1], c[2], k>>, read |-> Input(<<c[1], c[2], k>>)]]
    BY <1>3 DEF StartCamera
  <2>2. tc[w].at = "look" /\ UNCHANGED <<hls, jobs, inflight, broken>>
    BY <1>3 DEF StartCamera
  <2>3. c \in Clips /\ L \in SUBSET Cameras
    BY <1>2, <2>2, WorkerRows
  <2>4. <<c[1], c[2], k>> \in Videos
    BY <2>3, VideoFacts
  <2> DEFINE x == [at |-> IF k = "fcamera" THEN "copy" ELSE "package", clip |-> c,
                   left |-> IF k = "fcamera" THEN {"qcamera"} ELSE {},
                   f |-> <<c[1], c[2], k>>, read |-> Input(<<c[1], c[2], k>>)]
  <2>5. x \in TcStates
    <3>1. (IF k = "fcamera" THEN "copy" ELSE "package") \in Stages
      BY DEF Stages
    <3>2. (IF k = "fcamera" THEN {"qcamera"} ELSE {}) \in SUBSET Cameras
      BY DEF Cameras
    <3>3. Input(<<c[1], c[2], k>>) \in {"whole", "cut", "gone"}
      BY DEF Input
    <3> QED BY <2>3, <2>4, <3>1, <3>2, <3>3, WorkerRows
  <2>6. x.at # "free" /\ x.clip = c
    OBVIOUS
  <2>7. tc' = [tc EXCEPT ![w] = x]
    BY <2>1
  <2> HIDE DEF x
  <2>8. tc' \in [Workers -> TcStates] /\ tc'[w] = x /\ (\A v \in Workers : v # w => tc'[v] = tc[v])
    BY <1>1, <2>5, <2>7
  <2>9. TcTyped'
    BY <1>1, <2>2, <2>8 DEF TcTyped
  <2> QED BY <2>2, <2>6, <2>8, <2>9 DEF Encoding
<1>4. CASE FirstChunk(w)
  <2>1. /\ Encoding(tc[w]) /\ UNCHANGED <<tc, jobs, inflight, broken>>
        /\ hls' = [hls EXCEPT ![tc[w].f] = "part"]
    BY <1>4 DEF FirstChunk, Encoding
  <2>2. tc[w].at \in Stages /\ tc[w].at # "free" /\ tc[w].f \in Videos
    BY <1>2, <2>1, WorkerRows DEF Encoding, Stages
  <2>3. hls' \in [Videos -> {"none", "part", "whole"}]
        /\ \A f \in Videos : f # tc[w].f => hls'[f] = hls[f]
    BY <1>1, <2>1
  <2>4. TcTyped'
    BY <1>1, <2>1, <2>3 DEF TcTyped
  <2> QED BY <2>1, <2>2, <2>3, <2>4
<1> DEFINE look == [at |-> "look", clip |-> c, left |-> L]
<1>5. ASSUME tc[w].at \in Stages, tc' = [tc EXCEPT ![w] = look]
      PROVE  /\ tc' \in [Workers -> TcStates] /\ tc[w].at # "free" /\ tc[w].f \in Videos
             /\ tc'[w].at = "look" /\ tc'[w].clip = c
             /\ \A v \in Workers : v # w => tc'[v] = tc[v]
  <2>1. tc[w].at # "free" /\ tc[w].f \in Videos
    BY <1>2, <1>5, WorkerRows DEF Stages
  <2>2. look \in TcStates
    BY <1>2, <2>1, WorkerRows
  <2>3. look.at = "look" /\ look.clip = c
    OBVIOUS
  <2> HIDE DEF look
  <2> QED BY <1>1, <1>5, <2>1, <2>2, <2>3
<1>6. ASSUME NEW out \in {"none", "part", "whole"}, tc[w].f \in Videos,
             hls' = [hls EXCEPT ![tc[w].f] = out]
      PROVE  /\ hls' \in [Videos -> {"none", "part", "whole"}] /\ hls'[tc[w].f] = out
             /\ \A f \in Videos : f # tc[w].f => hls'[f] = hls[f]
  BY <1>1, <1>6
<1>7. CASE FfmpegDone(w)
  <2>1. PICK out \in {"whole", "part"} :
          /\ hls' = [hls EXCEPT ![tc[w].f] = out]
          /\ broken' = IF out = "part" THEN broken \cup {tc[w].f} ELSE broken
    BY <1>7 DEF FfmpegDone
  <2>2. tc[w].at \in Stages /\ tc' = [tc EXCEPT ![w] = look] /\ UNCHANGED <<jobs, inflight>>
    BY <1>7 DEF FfmpegDone, Looking
  <2> HIDE DEF look
  <2>3. /\ hls' \in [Videos -> {"none", "part", "whole"}] /\ hls'[tc[w].f] = out
        /\ \A f \in Videos : f # tc[w].f => hls'[f] = hls[f]
    BY <1>5, <1>6, <2>1, <2>2
  <2>4. TcTyped'
    BY <1>1, <1>5, <2>2, <2>3 DEF TcTyped
  <2> QED BY <1>5, <2>1, <2>2, <2>3, <2>4
<1>8. CASE CopyFfmpegFails(w)
  <2> DEFINE d == IF tc[w].read = "gone" THEN tc[w].read ELSE Input(tc[w].f)
             x == [at |-> "encode", clip |-> c, left |-> L, f |-> tc[w].f, read |-> d]
  <2>1. /\ tc[w].at = "copy" /\ hls' = [hls EXCEPT ![tc[w].f] = "none"]
        /\ UNCHANGED <<jobs, inflight, broken>>
    BY <1>8 DEF CopyFfmpegFails
  <2>2. tc[w].at \in Stages /\ tc[w].at # "free"
    BY <2>1 DEF Stages
  <2>3. /\ c \in Clips /\ L \in SUBSET Cameras /\ tc[w].f \in Videos
        /\ tc[w] = [at |-> tc[w].at, clip |-> c, left |-> L, f |-> tc[w].f, read |-> tc[w].read]
    BY <1>2, <2>2, WorkerRows
  <2>4. d \in {"whole", "cut", "gone"} /\ "encode" \in Stages
    BY DEF Input, Stages
  <2>5. tc'[w] = x
    BY <1>1, <1>8, <2>3 DEF CopyFfmpegFails
  <2>6. x \in TcStates
    BY <2>3, <2>4, WorkerRows
  <2>7. x.at = "encode" /\ x.clip = c /\ x.f = tc[w].f
    OBVIOUS
  <2>8. DOMAIN tc' = Workers /\ tc' = [v \in Workers |-> tc'[v]] /\ (\A v \in Workers : v # w => tc'[v] = tc[v])
    BY <1>1, <1>8 DEF CopyFfmpegFails
  <2> HIDE DEF x, d
  <2>9. tc' \in [Workers -> TcStates]
    BY <1>1, <2>5, <2>6, <2>8
  <2>10. /\ hls' \in [Videos -> {"none", "part", "whole"}] /\ hls'[tc[w].f] = "none"
         /\ \A f \in Videos : f # tc[w].f => hls'[f] = hls[f]
    BY <1>6, <2>1, <2>3
  <2>11. TcTyped'
    BY <1>1, <2>1, <2>9, <2>10 DEF TcTyped
  <2> QED BY <2>1, <2>2, <2>5, <2>7, <2>8, <2>10, <2>11 DEF Encoding
<1>9. CASE EncodeFails(w)
  <2>1. /\ tc[w].at = "encode" /\ tc' = [tc EXCEPT ![w] = look]
        /\ UNCHANGED <<hls, jobs, inflight>>
        /\ broken' = IF hls[tc[w].f] = "part" THEN broken \cup {tc[w].f} ELSE broken
    BY <1>9 DEF EncodeFails, Looking
  <2> HIDE DEF look
  <2>2. tc[w].at \in Stages
    BY <2>1 DEF Stages
  <2>3. TcTyped'
    BY <1>1, <1>5, <2>1, <2>2 DEF TcTyped
  <2> QED BY <1>5, <2>1, <2>2, <2>3
<1>10. CASE PackageFails(w)
  <2>1. /\ tc[w].at = "package" /\ tc' = [tc EXCEPT ![w] = look]
        /\ hls' = [hls EXCEPT ![tc[w].f] = "none"] /\ UNCHANGED <<jobs, inflight, broken>>
    BY <1>10 DEF PackageFails, Looking
  <2> HIDE DEF look
  <2>2. tc[w].at \in Stages
    BY <2>1 DEF Stages
  <2>3. /\ hls' \in [Videos -> {"none", "part", "whole"}] /\ hls'[tc[w].f] = "none"
        /\ \A f \in Videos : f # tc[w].f => hls'[f] = hls[f]
    BY <1>5, <1>6, <2>1, <2>2
  <2>4. TcTyped'
    BY <1>1, <1>5, <2>1, <2>2, <2>3 DEF TcTyped
  <2> QED BY <1>5, <2>1, <2>2, <2>3, <2>4
<1> QED BY <1>3, <1>4, <1>7, <1>8, <1>9, <1>10 DEF Works, FfmpegFails

\* OneWriter in terms of the queue's elements.
Held(w) == tc[w].at # "free"

WriterInv ==
  /\ inflight = InHand \cup Elems(jobs) /\ Distinct(jobs)
  /\ \A w \in Workers : Held(w) =>
       /\ \A v \in Workers : Held(v) /\ tc[v].clip = tc[w].clip => v = w
       /\ tc[w].clip \notin Elems(jobs)

LEMMA WriterMeaning == (OneWriter <=> WriterInv) /\ (OneWriter' <=> WriterInv')
BY DEF OneWriter, WriterInv, Held, Elems, Distinct

PlaylistInv ==
  \A f \in Videos : hls[f] = "part" => f \in broken \/ BeingWritten(f)

LEMMA PlaylistMeaning == (PlaylistWhole <=> PlaylistInv) /\ (PlaylistWhole' <=> PlaylistInv')
BY DEF PlaylistWhole, PlaylistInv, BeingWritten, Encoding

TcInv == TcTyped /\ WriterInv /\ PlaylistInv

\* Workers whose hands do not change, and a queue that does not either.
LEMMA SameHands ==
  ASSUME WriterInv, UNCHANGED <<jobs, inflight>>,
         \A w \in Workers : (Held(w)' <=> Held(w)) /\ (Held(w) => tc'[w].clip = tc[w].clip)
  PROVE  WriterInv'
<1>1. InHand' = InHand
  <2>1. \A c \in Clips : c \in InHand' <=> c \in InHand
    BY DEF InHand, Held
  <2> QED BY <2>1 DEF InHand
<1> QED BY <1>1 DEF WriterInv, Held

LEMMA WorksKeeps ==
  ASSUME TcInv, NEW w \in Workers, Works(w)
  PROVE  TcInv'
<1>1. TcTyped
  BY DEF TcInv
<1> USE <1>1, WorksEffect
<1>2. WriterInv'
  <2>1. \A v \in Workers : (Held(v)' <=> Held(v)) /\ (Held(v) => tc'[v].clip = tc[v].clip)
    BY DEF Held
  <2> QED BY <2>1, SameHands DEF TcInv
<1>3. PlaylistInv'
  <2> SUFFICES ASSUME NEW f \in Videos, hls'[f] = "part", f \notin broken'
               PROVE  \E v \in Workers : Encoding(tc'[v]) /\ tc'[v].f = f
    BY DEF PlaylistInv, BeingWritten, Encoding
  <2>1. CASE Encoding(tc'[w]) /\ tc'[w].f = f
    BY <2>1
  <2>2. CASE hls[f] = "part" /\ ~(Encoding(tc[w]) /\ tc[w].f = f)
    <3>1. PICK v \in Workers : Encoding(tc[v]) /\ tc[v].f = f
      BY <2>2 DEF TcInv, PlaylistInv, BeingWritten
    <3>2. v # w
      BY <2>2, <3>1
    <3> QED BY <3>1, <3>2
  <2> QED BY <2>1, <2>2
<1> QED BY <1>2, <1>3 DEF TcInv

\* A job moves from the queue into the hands of a worker.
LEMMA TakeJobKeeps ==
  ASSUME TcInv, NEW w \in Workers, TakeJob(w)
  PROVE  TcInv'
<1> DEFINE c == Head(jobs)
           x == [at |-> "look", clip |-> c, left |-> Cameras]
<1>1. TcTyped /\ jobs \in Seq(Clips) /\ jobs # <<>> /\ Distinct(jobs)
  BY DEF TcInv, TcTyped, WriterInv, TakeJob
<1>2. /\ c \in Clips /\ jobs' \in Seq(Clips) /\ c \in Elems(jobs)
      /\ Elems(jobs') = Elems(jobs) \ {c} /\ Distinct(jobs')
  BY <1>1, TailFacts DEF TakeJob
<1>3. /\ tc[w].at = "free" /\ tc' = [tc EXCEPT ![w] = x]
      /\ UNCHANGED <<hls, inflight, broken>>
  BY WorkerRows DEF TakeJob
<1>4. x \in TcStates /\ x.at = "look" /\ x.clip = c
  BY <1>2, WorkerRows
<1> HIDE DEF x, c
<1>5. /\ tc' \in [Workers -> TcStates] /\ tc'[w] = x
      /\ \A v \in Workers : v # w => tc'[v] = tc[v]
  BY <1>1, <1>3, <1>4 DEF TcTyped
<1>6. Held(w)' /\ ~Held(w) /\ (\A v \in Workers : v # w => (Held(v)' <=> Held(v)))
  BY <1>3, <1>4, <1>5 DEF Held
<1>7. TcTyped'
  BY <1>1, <1>2, <1>3, <1>5 DEF TcTyped
<1>8. WriterInv'
  <2>1. InHand' = InHand \cup {c}
    <3>1. \A d \in Clips : d \in InHand' <=> d \in InHand \/ d = c
      BY <1>4, <1>5, <1>6 DEF InHand, Held
    <3> QED BY <3>1, <1>2 DEF InHand
  <2>2. inflight' = InHand' \cup Elems(jobs')
    BY <2>1, <1>2, <1>3 DEF TcInv, WriterInv
  <2>3. ASSUME NEW v \in Workers, Held(v)'
        PROVE  /\ \A u \in Workers : Held(u)' /\ tc'[u].clip = tc'[v].clip => u = v
               /\ tc'[v].clip \notin Elems(jobs')
    <3>1. \A u \in Workers : u # w /\ Held(u) => tc[u].clip # c
      BY <1>2 DEF TcInv, WriterInv
    <3>2. CASE v = w
      BY <3>1, <3>2, <1>2, <1>4, <1>5, <1>6
    <3>3. CASE v # w
      <4>1. Held(v) /\ tc'[v].clip = tc[v].clip
        BY <2>3, <3>3, <1>5, <1>6
      <4> QED BY <3>1, <3>3, <4>1, <1>2, <1>4, <1>5, <1>6 DEF TcInv, WriterInv
    <3> QED BY <3>2, <3>3
  <2> QED BY <1>2, <2>2, <2>3 DEF WriterInv
<1>9. PlaylistInv'
  BY <1>3, <1>5 DEF TcInv, PlaylistInv, BeingWritten, Encoding
<1> QED BY <1>7, <1>8, <1>9 DEF TcInv

LEMMA FinishJobKeeps ==
  ASSUME TcInv, NEW w \in Workers, FinishJob(w)
  PROVE  TcInv'
<1>1. /\ tc[w].at = "look" /\ tc' = [tc EXCEPT ![w] = Free]
      /\ inflight' = inflight \ {tc[w].clip} /\ UNCHANGED <<hls, jobs, broken>>
  BY DEF FinishJob
<1>2. tc \in [Workers -> TcStates] /\ jobs \in Seq(Clips) /\ tc[w].clip \in Clips
  BY <1>1, WorkerRows DEF TcInv, TcTyped
<1>3. /\ tc' \in [Workers -> TcStates] /\ tc'[w].at = "free"
      /\ \A v \in Workers : v # w => tc'[v] = tc[v]
  BY <1>1, <1>2, WorkerRows
<1>4. Held(w) /\ ~Held(w)' /\ (\A v \in Workers : v # w => (Held(v)' <=> Held(v)))
  BY <1>1, <1>3 DEF Held
<1>5. TcTyped'
  BY <1>1, <1>2, <1>3 DEF TcInv, TcTyped
<1>6. WriterInv'
  <2>1. \A v \in Workers : v # w /\ Held(v) => tc[v].clip # tc[w].clip
    BY <1>4 DEF TcInv, WriterInv
  <2>2. tc[w].clip \notin Elems(jobs)
    BY <1>4 DEF TcInv, WriterInv
  <2>3. InHand' = InHand \ {tc[w].clip}
    <3>1. \A d \in Clips : d \in InHand' <=> d \in InHand /\ d # tc[w].clip
      BY <2>1, <1>3, <1>4 DEF InHand, Held
    <3> QED BY <3>1 DEF InHand
  <2> QED BY <2>2, <2>3, <1>1, <1>3, <1>4 DEF TcInv, WriterInv
<1>7. PlaylistInv'
  BY <1>1, <1>3 DEF TcInv, PlaylistInv, BeingWritten, Encoding
<1> QED BY <1>5, <1>6, <1>7 DEF TcInv

LEMMA ScannerKeeps ==
  ASSUME TcInv, Scanner
  PROVE  TcInv'
<1>1. ASSUME UNCHANGED <<hls, tc, jobs, inflight, broken>> PROVE TcInv'
  <2>1. TcTyped'
    BY <1>1 DEF TcInv, TcTyped
  <2>2. WriterInv'
    BY <1>1 DEF TcInv, WriterInv, Held, InHand
  <2>3. PlaylistInv'
    BY <1>1 DEF TcInv, PlaylistInv, BeingWritten
  <2> QED BY <2>1, <2>2, <2>3 DEF TcInv
<1>2. CASE ScanStart
  BY <1>1, <1>2 DEF ScanStart
<1>3. ASSUME NEW c \in Clips, ScanClip(c) PROVE TcInv'
  <2>1. UNCHANGED <<hls, tc, broken>>
    BY <1>3 DEF ScanClip
  <2>2. CASE UNCHANGED <<jobs, inflight>>
    BY <1>1, <2>1, <2>2
  <2>3. CASE ~UNCHANGED <<jobs, inflight>>
    <3>1. c \notin inflight /\ jobs' = Append(jobs, c) /\ inflight' = inflight \cup {c}
      BY <1>3, <2>3 DEF ScanClip, Enqueue
    <3>2. jobs \in Seq(Clips) /\ Distinct(jobs) /\ c \notin Elems(jobs)
      BY <3>1 DEF TcInv, TcTyped, WriterInv
    <3>3. jobs' \in Seq(Clips) /\ Elems(jobs') = Elems(jobs) \cup {c} /\ Distinct(jobs')
      BY <3>1, <3>2, AppendFacts
    <3>4. TcTyped'
      BY <2>1, <3>3 DEF TcInv, TcTyped
    <3>5. InHand' = InHand /\ (\A w \in Workers : Held(w)' <=> Held(w))
      BY <2>1 DEF InHand, Held
    <3>6. \A w \in Workers : Held(w) => tc[w].clip # c
      <4>1. \A w \in Workers : Held(w) => tc[w].clip \in InHand
        BY WorkerRows DEF InHand, Held, TcInv, TcTyped
      <4> QED BY <3>1, <4>1 DEF TcInv, WriterInv
    <3>7. WriterInv'
      BY <2>1, <3>1, <3>3, <3>5, <3>6 DEF TcInv, WriterInv
    <3>8. PlaylistInv'
      BY <2>1 DEF TcInv, PlaylistInv, BeingWritten
    <3> QED BY <3>4, <3>7, <3>8 DEF TcInv
  <2> QED BY <2>2, <2>3
<1> QED BY <1>2, <1>3 DEF Scanner

\* The store may take a worker's input away, never its clip.
LEMMA WatchHands ==
  ASSUME TcTyped, MediaWatch
  PROVE  /\ tc' \in [Workers -> TcStates]
         /\ \A w \in Workers : /\ tc'[w].at = tc[w].at
                               /\ tc[w].at # "free" => tc'[w].clip = tc[w].clip
                               /\ tc[w].at \in Stages => tc'[w].f = tc[w].f
<1> DEFINE look(w) == IF tc[w].at \notin Stages THEN tc[w]
              ELSE IF Removed(RouteOf(tc[w].f)) THEN [tc[w] EXCEPT !.read = "gone"]
              ELSE IF file'[tc[w].f] = "cut" /\ tc[w].read = "whole"
              THEN [tc[w] EXCEPT !.read = "cut"] ELSE tc[w]
<1>1. tc' = [w \in Workers |-> look(w)]
  BY DEF MediaWatch
<1>2. ASSUME NEW x \in TcStates, x.at \in Stages, NEW d \in {"cut", "gone"}
      PROVE  /\ [x EXCEPT !.read = d] \in TcStates /\ [x EXCEPT !.read = d].at = x.at
             /\ [x EXCEPT !.read = d].clip = x.clip /\ [x EXCEPT !.read = d].f = x.f
  <2>1. x.at # "free" /\ x.clip \in Clips /\ x.left \in SUBSET Cameras /\ x.f \in Videos
    BY <1>2, WorkerRows DEF Stages
  <2>2. x = [at |-> x.at, clip |-> x.clip, left |-> x.left, f |-> x.f, read |-> x.read]
    BY <1>2, WorkerRows
  <2>3. [x EXCEPT !.read = d] = [at |-> x.at, clip |-> x.clip, left |-> x.left, f |-> x.f, read |-> d]
    BY <2>2
  <2> DEFINE y == [at |-> x.at, clip |-> x.clip, left |-> x.left, f |-> x.f, read |-> d]
  <2>4. d \in {"whole", "cut", "gone"}
    OBVIOUS
  <2>5. y \in TcStates
    BY <1>2, <2>1, <2>4, WorkerRows
  <2>6. y.at = x.at /\ y.clip = x.clip /\ y.f = x.f
    OBVIOUS
  <2>7. [x EXCEPT !.read = d] = y
    BY <2>3
  <2> HIDE DEF y
  <2> QED BY <2>5, <2>6, <2>7
<1>3. ASSUME NEW w \in Workers
      PROVE  look(w) \in TcStates /\ look(w).at = tc[w].at
             /\ (tc[w].at # "free" => look(w).clip = tc[w].clip)
             /\ (tc[w].at \in Stages => look(w).f = tc[w].f)
  <2>1. tc[w] \in TcStates
    BY DEF TcTyped
  <2>2. \/ look(w) = tc[w]
        \/ tc[w].at \in Stages /\ \E d \in {"cut", "gone"} : look(w) = [tc[w] EXCEPT !.read = d]
    OBVIOUS
  <2> HIDE DEF look
  <2>3. CASE look(w) = tc[w]
    BY <2>1, <2>3
  <2>4. ASSUME tc[w].at \in Stages, NEW d \in {"cut", "gone"}, look(w) = [tc[w] EXCEPT !.read = d]
        PROVE  look(w) \in TcStates /\ look(w).at = tc[w].at
               /\ look(w).clip = tc[w].clip /\ look(w).f = tc[w].f
    <3> DEFINE y == [tc[w] EXCEPT !.read = d]
    <3>1. y \in TcStates /\ y.at = tc[w].at /\ y.clip = tc[w].clip /\ y.f = tc[w].f
      BY <1>2, <2>1, <2>4
    <3>2. look(w) = y
      BY <2>4
    <3> HIDE DEF y
    <3> QED BY <3>1, <3>2
  <2> QED BY <2>2, <2>3, <2>4
<1> HIDE DEF look
<1> QED BY <1>1, <1>3

LEMMA WatchKeeps ==
  ASSUME TcInv, MediaWatch
  PROVE  TcInv'
<1>1. /\ hls' = [f \in Videos |-> IF Removed(RouteOf(f)) THEN "none" ELSE hls[f]]
      /\ UNCHANGED <<jobs, inflight, broken>>
  BY DEF MediaWatch
<1>2. /\ tc' \in [Workers -> TcStates]
      /\ \A w \in Workers : /\ tc'[w].at = tc[w].at
                            /\ tc[w].at # "free" => tc'[w].clip = tc[w].clip
                            /\ tc[w].at \in Stages => tc'[w].f = tc[w].f
  BY WatchHands DEF TcInv
<1>3. hls' \in [Videos -> {"none", "part", "whole"}]
  BY <1>1 DEF TcInv, TcTyped
<1>4. TcTyped'
  BY <1>1, <1>2, <1>3 DEF TcInv, TcTyped
<1>5. WriterInv'
  <2>1. \A w \in Workers : (Held(w)' <=> Held(w)) /\ (Held(w) => tc'[w].clip = tc[w].clip)
    BY <1>2 DEF Held
  <2> QED BY <1>1, <2>1, SameHands DEF TcInv
<1>6. PlaylistInv'
  <2>1. \A f \in Videos : hls'[f] = "part" => hls[f] = "part"
    BY <1>1
  <2>2. \A f \in Videos : BeingWritten(f) => BeingWritten(f)'
    BY <1>2 DEF BeingWritten, Encoding, Stages
  <2> QED BY <1>1, <2>1, <2>2 DEF TcInv, PlaylistInv
<1> QED BY <1>4, <1>5, <1>6 DEF TcInv

LEMMA TcRestartKeeps ==
  ASSUME TcInv, MediaRestart
  PROVE  TcInv'
<1>1. /\ tc' = [w \in Workers |-> Free] /\ jobs' = <<>> /\ inflight' = {} /\ hls' = hls
      /\ broken' = broken \cup {tc[w].f : w \in {v \in Workers : tc[v].at \in {"copy", "encode"}}}
  BY DEF MediaRestart
<1>2. \A w \in Workers : tc'[w].at = "free" /\ tc'[w] \in TcStates
  BY <1>1, WorkerRows
<1>3. TcTyped'
  BY <1>1, <1>2 DEF TcInv, TcTyped
<1>4. WriterInv'
  <2>1. InHand' = {} /\ (\A w \in Workers : ~Held(w)')
    BY <1>2 DEF InHand, Held
  <2>2. Elems(jobs') = {} /\ Distinct(jobs')
    BY <1>1 DEF Elems, Distinct
  <2> QED BY <1>1, <2>1, <2>2 DEF WriterInv
<1>5. PlaylistInv'
  BY <1>1 DEF TcInv, PlaylistInv, BeingWritten, Encoding
<1> QED BY <1>3, <1>4, <1>5 DEF TcInv

LEMMA TcInvNext ==
  ASSUME TcInv, [Next]_vars
  PROVE  TcInv'
<1>1. ASSUME UNCHANGED <<hls, tc, jobs, inflight, broken>> PROVE TcInv'
  <2>1. TcTyped' /\ WriterInv'
    BY <1>1 DEF TcInv, TcTyped, WriterInv, Held, InHand
  <2>2. PlaylistInv'
    BY <1>1 DEF TcInv, PlaylistInv, BeingWritten
  <2> QED BY <2>1, <2>2 DEF TcInv
<1>2. CASE UNCHANGED tcVars
  BY <1>1, <1>2 DEF tcVars
<1>3. ASSUME NEW w \in Workers, Transcode(w) \/ FfmpegFails(w) PROVE TcInv'
  BY <1>3, TakeJobKeeps, FinishJobKeeps, WorksKeeps DEF Transcode, Works
<1>4. ASSUME NEW c \in Clips, Detect(c) \/ View(c) PROVE UNCHANGED tcVars
  BY <1>4 DEF Detect, View
<1>5. ASSUME NEW b \in Builders, Build(b) \/ BuildFails(b) PROVE UNCHANGED tcVars
  BY <1>5 DEF Build, BuildFails, TakeRoute, LoadDetections, BuildSegment, FinishRoute
<1> QED BY <1>2, <1>3, <1>4, <1>5, WatchKeeps, ScannerKeeps, TcRestartKeeps, MediaSteps DEF mediaVars

----------------------------------------------------------------------------
(* The redaction builder                                                   *)

Taken(b) == rb[b].at # "free"
InWork   == {rb[b].of : b \in {d \in Builders : Taken(d)}}

BuildInv ==
  /\ rinflight = Elems(rjobs) \cup InWork /\ Distinct(rjobs)
  /\ \A b \in Builders : Taken(b) =>
       /\ \A d \in Builders : Taken(d) /\ rb[d].of = rb[b].of => d = b
       /\ rb[b].of \notin Elems(rjobs)

LEMMA BuildMeaning == (OneBuild <=> BuildInv) /\ (OneBuild' <=> BuildInv')
BY DEF OneBuild, BuildInv, InWork, Taken, Elems, Distinct

RbInv == RbTyped /\ BuildInv

\* A builder that goes on with its route.
LEMMA BuilderGoesOn ==
  ASSUME RbInv, NEW b \in Builders, Taken(b),
         rb' \in [Builders -> RbStates], rb'[b].at # "free", rb'[b].of = rb[b].of,
         \A d \in Builders : d # b => rb'[d] = rb[d],
         UNCHANGED <<found, rjobs, rinflight>>
  PROVE  RbInv'
<1>2. \A d \in Builders : (Taken(d)' <=> Taken(d)) /\ rb'[d].of = rb[d].of
  BY DEF Taken
<1>3. InWork' = InWork
  BY <1>2 DEF InWork
<1>4. BuildInv'
  BY <1>2, <1>3 DEF RbInv, BuildInv
<1> QED BY <1>4 DEF RbInv, RbTyped

\* A builder that lets its route go.
LEMMA BuilderLetsGo ==
  ASSUME RbInv, NEW b \in Builders, Taken(b),
         rb' = [rb EXCEPT ![b] = Free], rinflight' = rinflight \ {rb[b].of}, UNCHANGED <<found, rjobs>>
  PROVE  RbInv'
<1>1. /\ rb' \in [Builders -> RbStates] /\ rb'[b].at = "free"
      /\ \A d \in Builders : d # b => rb'[d] = rb[d]
  BY WorkerRows DEF RbInv, RbTyped
<1>2. ~Taken(b)' /\ \A d \in Builders : d # b => (Taken(d)' <=> Taken(d)) /\ rb'[d].of = rb[d].of
  BY <1>1 DEF Taken
<1>3. \A d \in Builders : d # b /\ Taken(d) => rb[d].of # rb[b].of
  BY DEF RbInv, BuildInv
<1>4. rb[b].of \notin Elems(rjobs)
  BY DEF RbInv, BuildInv
<1>5. InWork' = InWork \ {rb[b].of}
  <2>1. \A r : r \in InWork' <=> r \in InWork /\ r # rb[b].of
    BY <1>2, <1>3 DEF InWork
  <2> QED BY <2>1
<1>6. BuildInv'
  BY <1>2, <1>4, <1>5 DEF RbInv, BuildInv
<1> QED BY <1>1, <1>6 DEF RbInv, RbTyped

LEMMA TakeRouteKeeps ==
  ASSUME RbInv, NEW b \in Builders, TakeRoute(b)
  PROVE  RbInv'
<1> DEFINE r == Head(rjobs)
           x == [at |-> "load", of |-> r]
<1>1. rjobs \in Seq(Routes) /\ rjobs # <<>> /\ Distinct(rjobs)
  BY DEF RbInv, RbTyped, BuildInv, TakeRoute
<1>2. /\ r \in Routes /\ rjobs' \in Seq(Routes) /\ r \in Elems(rjobs)
      /\ Elems(rjobs') = Elems(rjobs) \ {r} /\ Distinct(rjobs')
  BY <1>1, TailFacts DEF TakeRoute
<1>3. rb[b].at = "free" /\ rb' = [rb EXCEPT ![b] = x] /\ UNCHANGED <<found, rinflight>>
  BY WorkerRows DEF TakeRoute
<1>4. x \in RbStates /\ x.at = "load" /\ x.of = r
  BY <1>2, BuilderRows
<1> HIDE DEF x, r
<1>5. /\ rb' \in [Builders -> RbStates] /\ rb'[b] = x
      /\ \A d \in Builders : d # b => rb'[d] = rb[d]
  BY <1>3, <1>4 DEF RbInv, RbTyped
<1>6. Taken(b)' /\ ~Taken(b) /\ \A d \in Builders : d # b => (Taken(d)' <=> Taken(d))
  BY <1>3, <1>4, <1>5 DEF Taken
<1>7. InWork' = InWork \cup {r}
  <2>1. \A q : q \in InWork' <=> q \in InWork \/ q = r
    BY <1>4, <1>5, <1>6 DEF InWork
  <2> QED BY <2>1
<1>8. \A d \in Builders : Taken(d) => rb[d].of # r
  BY <1>2 DEF RbInv, BuildInv
<1>9. rinflight' = Elems(rjobs') \cup InWork'
  BY <1>2, <1>3, <1>7 DEF RbInv, BuildInv
<1>10. ASSUME NEW d \in Builders, Taken(d)'
       PROVE  /\ \A e \in Builders : Taken(e)' /\ rb'[e].of = rb'[d].of => e = d
              /\ rb'[d].of \notin Elems(rjobs')
  <2>1. CASE d = b
    BY <2>1, <1>2, <1>4, <1>5, <1>6, <1>8
  <2>2. CASE d # b
    <3>1. Taken(d) /\ rb'[d].of = rb[d].of
      BY <2>2, <1>5, <1>6, <1>10
    <3> QED BY <2>2, <3>1, <1>2, <1>4, <1>5, <1>6, <1>8 DEF RbInv, BuildInv
  <2> QED BY <2>1, <2>2
<1>11. BuildInv'
  BY <1>2, <1>9, <1>10 DEF BuildInv
<1> QED BY <1>2, <1>3, <1>5, <1>11 DEF RbInv, RbTyped

\* Loading and building keep the route in the builder's hands.
LEMMA BuilderWorks ==
  ASSUME RbTyped, NEW b \in Builders, LoadDetections(b) \/ BuildSegment(b)
  PROVE  /\ Taken(b) /\ rb' \in [Builders -> RbStates] /\ rb'[b].at # "free" /\ rb'[b].of = rb[b].of
         /\ \A d \in Builders : d # b => rb'[d] = rb[d]
         /\ UNCHANGED <<found, rjobs, rinflight>>
<1> DEFINE r == rb[b].of
<1>0. rb \in [Builders -> RbStates] /\ rb[b] \in RbStates /\ found \subseteq Clips
  BY DEF RbTyped
<1>1. CASE LoadDetections(b)
  <2> DEFINE T == {s \in Segs : file[Qcam(<<r, s>>)] # "none"}
             x == [at |-> "build", of |-> r, dets |-> found, todo |-> T]
  <2>1. rb[b].at = "load" /\ rb' = [rb EXCEPT ![b] = x] /\ UNCHANGED <<found, rjobs, rinflight>>
    BY <1>1 DEF LoadDetections
  <2>2. Taken(b) /\ r \in Routes
    BY <1>0, <2>1, BuilderRows DEF Taken
  <2>3. T \in SUBSET Segs
    OBVIOUS
  <2> HIDE DEF T
  <2>4. x \in RbStates
    BY <1>0, <2>2, <2>3, BuilderRows
  <2>5. x.at # "free" /\ x.of = r
    OBVIOUS
  <2> HIDE DEF x
  <2>6. /\ rb' \in [Builders -> RbStates] /\ rb'[b] = x
        /\ \A d \in Builders : d # b => rb'[d] = rb[d]
    BY <1>0, <2>1, <2>4
  <2> QED BY <2>1, <2>2, <2>5, <2>6
<1>2. CASE BuildSegment(b)
  <2>1. PICK s \in rb[b].todo : rb' = [rb EXCEPT ![b].todo = @ \ {s}]
    BY <1>2 DEF BuildSegment
  <2>2. rb[b].at = "build" /\ UNCHANGED <<found, rjobs, rinflight>>
    BY <1>2 DEF BuildSegment
  <2> DEFINE T == rb[b].todo \ {s}
             x == [at |-> "build", of |-> r, dets |-> rb[b].dets, todo |-> T]
  <2>3. /\ Taken(b) /\ r \in Routes /\ rb[b].dets \in SUBSET Clips /\ T \in SUBSET Segs
        /\ rb[b] = [at |-> "build", of |-> r, dets |-> rb[b].dets, todo |-> rb[b].todo]
    BY <1>0, <2>2, BuilderRows DEF Taken
  <2>4. rb'[b] = x
    BY <1>0, <2>1, <2>3
  <2>5. DOMAIN rb' = Builders /\ rb' = [d \in Builders |-> rb'[d]]
        /\ \A d \in Builders : d # b => rb'[d] = rb[d]
    BY <1>0, <2>1
  <2> HIDE DEF T
  <2>6. x \in RbStates
    BY <2>3, BuilderRows
  <2>7. x.at # "free" /\ x.of = r
    OBVIOUS
  <2> HIDE DEF x
  <2>8. rb' \in [Builders -> RbStates]
    BY <1>0, <2>4, <2>5, <2>6
  <2> QED BY <2>2, <2>3, <2>4, <2>5, <2>7, <2>8
<1> QED BY <1>1, <1>2

\* A build that ends, well or not, lets the route go.
LEMMA BuilderEnds ==
  ASSUME NEW b \in Builders, FinishRoute(b) \/ BuildFails(b)
  PROVE  /\ Taken(b) /\ rb' = [rb EXCEPT ![b] = Free]
         /\ rinflight' = rinflight \ {rb[b].of} /\ UNCHANGED <<found, rjobs>>
<1>1. rb[b].at \in {"load", "build"}
  BY DEF FinishRoute, BuildFails
<1> QED BY <1>1 DEF Taken, FinishRoute, BuildFails, tcVars

LEMMA BuildKeeps ==
  ASSUME RbInv, NEW b \in Builders, Build(b) \/ BuildFails(b)
  PROVE  RbInv'
<1>1. CASE LoadDetections(b) \/ BuildSegment(b)
  BY <1>1, BuilderWorks, BuilderGoesOn DEF RbInv
<1>2. CASE FinishRoute(b) \/ BuildFails(b)
  BY <1>2, BuilderEnds, BuilderLetsGo
<1> QED BY <1>1, <1>2, TakeRouteKeeps DEF Build

LEMMA ViewKeeps ==
  ASSUME RbInv, NEW c \in Clips, View(c)
  PROVE  RbInv'
<1> DEFINE r == c[1]
<1>1. /\ r \notin rinflight /\ rinflight' = rinflight \cup {r} /\ rjobs' = Append(rjobs, r)
      /\ UNCHANGED <<found, rb>>
  BY DEF View
<1>2. r \in Routes
  BY DEF Clips
<1> HIDE DEF r
<1>3. rjobs \in Seq(Routes) /\ Distinct(rjobs) /\ r \notin Elems(rjobs) /\ r \notin InWork
  BY <1>1 DEF RbInv, RbTyped, BuildInv
<1>4. rjobs' \in Seq(Routes) /\ Elems(rjobs') = Elems(rjobs) \cup {r} /\ Distinct(rjobs')
  BY <1>1, <1>2, <1>3, AppendFacts
<1>5. InWork' = InWork /\ \A b \in Builders : Taken(b)' <=> Taken(b)
  BY <1>1 DEF InWork, Taken
<1>6. \A b \in Builders : Taken(b) => rb[b].of # r
  BY <1>3 DEF InWork
<1>7. BuildInv'
  BY <1>1, <1>4, <1>5, <1>6 DEF RbInv, BuildInv
<1> QED BY <1>1, <1>4, <1>7 DEF RbInv, RbTyped

LEMMA RbInvNext ==
  ASSUME RbInv, [Next]_vars
  PROVE  RbInv'
<1>1. ASSUME UNCHANGED <<rb, rjobs, rinflight>>, found' \subseteq Clips PROVE RbInv'
  BY <1>1 DEF RbInv, RbTyped, BuildInv, InWork, Taken
<1>2. CASE UNCHANGED redVars \/ MediaWatch
  BY <1>1, <1>2 DEF redVars, MediaWatch, RbInv, RbTyped
<1>3. ASSUME NEW w \in Workers, Transcode(w) \/ FfmpegFails(w) PROVE UNCHANGED redVars
  BY <1>3 DEF Transcode, TakeJob, StartCamera, FinishJob, FirstChunk, FfmpegDone,
              FfmpegFails, CopyFfmpegFails, EncodeFails, PackageFails
<1>4. CASE Scanner
  <2>1. UNCHANGED redVars
    BY <1>4 DEF Scanner, ScanStart, ScanClip
  <2> QED BY <1>2, <2>1
<1>5. ASSUME NEW c \in Clips, Detect(c) PROVE RbInv'
  BY <1>1, <1>5 DEF Detect, RbInv, RbTyped
<1>6. CASE MediaRestart
  <2>1. /\ rb' = [b \in Builders |-> Free] /\ rjobs' = <<>> /\ rinflight' = {} /\ found' = found
    BY <1>6 DEF MediaRestart
  <2>2. rb' \in [Builders -> RbStates] /\ (\A b \in Builders : ~Taken(b)')
    BY <2>1, WorkerRows DEF Taken
  <2>3. InWork' = {}
    BY <2>2 DEF InWork
  <2>4. Elems(rjobs') = {} /\ Distinct(rjobs')
    BY <2>1 DEF Elems, Distinct
  <2>5. BuildInv'
    BY <2>1, <2>2, <2>3, <2>4 DEF BuildInv
  <2> QED BY <2>1, <2>2, <2>5 DEF RbInv, RbTyped
<1> QED BY <1>2, <1>3, <1>4, <1>5, <1>6, BuildKeeps, ViewKeeps, MediaSteps DEF mediaVars

----------------------------------------------------------------------------

LEMMA MediaInvInit == Init => TcInv /\ RbInv
<1> SUFFICES ASSUME MediaInit PROVE TcInv /\ RbInv
  BY DEF Init
<1>1. /\ \A w \in Workers : tc[w].at = "free" /\ tc[w] \in TcStates
      /\ \A b \in Builders : rb[b].at = "free" /\ rb[b] \in RbStates
  BY WorkerRows DEF MediaInit
<1>2. TcTyped /\ RbTyped
  BY <1>1 DEF MediaInit, TcTyped, RbTyped
<1>3. Elems(<<>>) = {} /\ Distinct(<<>>)
  BY DEF Elems, Distinct
<1>4. WriterInv
  BY <1>1, <1>3 DEF MediaInit, WriterInv, InHand, Held
<1>5. PlaylistInv
  BY DEF MediaInit, PlaylistInv
<1>6. BuildInv
  BY <1>1, <1>3 DEF MediaInit, BuildInv, InWork, Taken
<1> QED BY <1>2, <1>4, <1>5, <1>6 DEF TcInv, RbInv

LEMMA MediaInvariant == Spec => [](TcInv /\ RbInv)
<1>1. TcInv /\ RbInv /\ [Next]_vars => (TcInv /\ RbInv)'
  BY TcInvNext, RbInvNext
<1> QED BY <1>1, MediaInvInit, PTL DEF Spec

(* No clip is in the hands of two transcoders, or of one and in the queue, *)
(* and the in-flight set is exactly the clips queued and in work: none is  *)
(* given back early, none is kept for good.                                *)
THEOREM UpkeepOneWriter == Spec => []OneWriter
<1>1. TcInv /\ RbInv => OneWriter
  BY WriterMeaning DEF TcInv
<1> QED BY <1>1, MediaInvariant, PTL

(* A playlist that is not whole is being written, or is one of those that  *)
(* the code is known to leave behind.                                      *)
THEOREM UpkeepPlaylistWhole == Spec => []PlaylistWhole
<1>1. TcInv /\ RbInv => PlaylistWhole
  BY PlaylistMeaning DEF TcInv
<1> QED BY <1>1, MediaInvariant, PTL

(* The same for the redaction builder: every way a build ends, by an error *)
(* or by the end of its route, gives the route back exactly once.          *)
THEOREM UpkeepOneBuild == Spec => []OneBuild
<1>1. TcInv /\ RbInv => OneBuild
  BY BuildMeaning DEF RbInv
<1> QED BY <1>1, MediaInvariant, PTL

----------------------------------------------------------------------------
(* The rest of the types: lengths of the queues and the columns on which   *)
(* nothing above depends.                                                  *)

MediaRest ==
  /\ Len(jobs) <= Depth /\ Len(rjobs) <= BuildDepth
  /\ scan \subseteq Clips /\ broken \subseteq Videos
  /\ red \in [Clips -> {"none", "plain", "blurred"}]

LEMMA QueueFits ==
  ASSUME NEW S, NEW q \in Seq(S), NEW c \in S, NEW n \in Nat, Len(q) <= n
  PROVE  /\ Len(q) # n => Len(Append(q, c)) <= n
         /\ q # <<>> => Len(Tail(q)) <= n
OBVIOUS

LEMMA MediaRestNext ==
  ASSUME TcInv, RbInv, MediaRest, [Next]_vars
  PROVE  MediaRest'
<1>0. /\ Depth \in Nat /\ BuildDepth \in Nat
      /\ jobs \in Seq(Clips) /\ rjobs \in Seq(Routes)
      /\ tc \in [Workers -> TcStates] /\ rb \in [Builders -> RbStates]
  BY MediaConstants DEF TcInv, TcTyped, RbInv, RbTyped
<1>1. CASE UNCHANGED mediaVars
  BY <1>1 DEF MediaRest, mediaVars, tcVars, redVars
<1>2. CASE MediaWatch \/ MediaRestart
  <2>1. Len(jobs') <= Depth /\ Len(rjobs') <= BuildDepth
    BY <1>0, <1>2 DEF MediaWatch, MediaRestart, MediaRest
  <2>2. scan' \subseteq Clips /\ red' \in [Clips -> {"none", "plain", "blurred"}]
    BY <1>2 DEF MediaWatch, MediaRestart, MediaRest
  <2>3. broken' \subseteq Videos
    BY <1>0, <1>2, WorkerRows DEF MediaWatch, MediaRestart, MediaRest, Stages
  <2> QED BY <2>1, <2>2, <2>3 DEF MediaRest
<1>3. CASE Scanner
  <2>1. CASE ScanStart
    BY <2>1 DEF ScanStart, MediaRest, redVars
  <2>2. ASSUME NEW c \in Clips, ScanClip(c) PROVE MediaRest'
    <3>1. Len(jobs') <= Depth
      BY <1>0, <2>2, QueueFits DEF ScanClip, Enqueue, MediaRest
    <3> QED BY <2>2, <3>1 DEF ScanClip, MediaRest, redVars
  <2> QED BY <1>3, <2>1, <2>2 DEF Scanner
<1>4. ASSUME NEW w \in Workers, TakeJob(w) PROVE MediaRest'
  <2>1. Len(jobs') <= Depth
    BY <1>0, <1>4, QueueFits DEF TakeJob, MediaRest
  <2> QED BY <1>4, <2>1 DEF TakeJob, MediaRest, redVars
<1>5. ASSUME NEW w \in Workers,
             StartCamera(w) \/ FinishJob(w) \/ FirstChunk(w) \/ FfmpegDone(w) \/ FfmpegFails(w)
      PROVE  MediaRest'
  <2>1. UNCHANGED <<jobs, scan, redVars>>
    BY <1>5 DEF StartCamera, FinishJob, FirstChunk, FfmpegDone, FfmpegFails,
                CopyFfmpegFails, EncodeFails, PackageFails
  <2>2. broken' \subseteq Videos
    BY <1>0, <1>5, WorkerRows DEF MediaRest, StartCamera, FinishJob, FirstChunk, FfmpegDone,
         FfmpegFails, CopyFfmpegFails, EncodeFails, PackageFails, Stages
  <2> QED BY <2>1, <2>2 DEF MediaRest, redVars
<1>6. ASSUME NEW c \in Clips, Detect(c) \/ View(c) PROVE MediaRest'
  <2>1. Len(rjobs') <= BuildDepth
    <3>1. CASE Detect(c)
      BY <3>1 DEF Detect, MediaRest
    <3>2. CASE View(c)
      <4>1. c[1] \in Routes
        BY DEF Clips
      <4> QED BY <1>0, <3>2, <4>1, QueueFits DEF View, MediaRest
    <3> QED BY <1>6, <3>1, <3>2
  <2> QED BY <1>6, <2>1 DEF Detect, View, MediaRest, tcVars
<1>7. ASSUME NEW b \in Builders, Build(b) \/ BuildFails(b) PROVE MediaRest'
  <2>1. UNCHANGED tcVars
    BY <1>7 DEF Build, BuildFails, TakeRoute, LoadDetections, BuildSegment, FinishRoute
  <2>2. Len(rjobs') <= BuildDepth
    <3>1. CASE TakeRoute(b)
      BY <1>0, <3>1, QueueFits DEF TakeRoute, MediaRest
    <3> QED BY <1>7, <3>1 DEF Build, BuildFails, LoadDetections, BuildSegment, FinishRoute, MediaRest
  <2>3. red' \in [Clips -> {"none", "plain", "blurred"}]
    BY <1>7 DEF Build, BuildFails, TakeRoute, LoadDetections, BuildSegment, FinishRoute, MediaRest
  <2> QED BY <2>1, <2>2, <2>3 DEF MediaRest, tcVars
<1> QED BY <1>1, <1>2, <1>3, <1>4, <1>5, <1>6, <1>7, MediaSteps DEF Transcode

LEMMA MediaTypes ==
  ASSUME TcInv, RbInv, MediaRest PROVE MediaTypeOK
<1>1. inflight \subseteq Clips
  <2>1. Elems(jobs) \subseteq Clips
    BY DEF TcInv, TcTyped, Elems
  <2>2. InHand \subseteq Clips
    BY DEF InHand
  <2> QED BY <2>1, <2>2 DEF TcInv, WriterInv
<1>2. rinflight \subseteq Routes
  <2>1. Elems(rjobs) \subseteq Routes
    BY DEF RbInv, RbTyped, Elems
  <2>2. InWork \subseteq Routes
    BY BuilderRows DEF InWork, Taken, RbInv, RbTyped
  <2> QED BY <2>1, <2>2 DEF RbInv, BuildInv
<1> QED BY <1>1, <1>2 DEF MediaTypeOK, MediaRest, TcInv, TcTyped, RbInv, RbTyped

----------------------------------------------------------------------------
(* The thumbnailer                                                         *)

LEMMA ThumbSteps ==
  ASSUME [Next]_vars
  PROVE  \/ ThumbWatch \/ ThumbRestart \/ UNCHANGED thumbVars
         \/ ThumbPass \/ (\E r \in Routes : Consider(r))
         \/ Generate \/ ShotFails \/ \E c \in Clips : CoolsDown(c)
<1>1. CASE StoreStep \/ Restart
  BY <1>1 DEF StoreStep, Restart
<1>2. CASE MediaStep \/ DerivedStep
  BY <1>2 DEF MediaStep, ScannerStep, TranscodeStep, FfmpegFailsStep, DerivedStep, DeriveStep, SettleStep
<1>3. CASE ThumbStep
  BY <1>3 DEF ThumbStep, ThumbScanStep, GenerateStep, CoolStep, ShotFailsStep
<1>4. CASE UNCHANGED vars
  BY <1>4 DEF vars
<1> QED BY <1>1, <1>2, <1>3, <1>4 DEF Next

LEMMA GenRows ==
  /\ Free \in GenStates /\ Free.at = "free"
  /\ \A c \in Clips :
       /\ \A a \in {"stat", "mark", "clear"} : [at |-> a, clip |-> c] \in GenStates
       /\ \A d \in {"whole", "cut", "gone"} : [at |-> "shoot", clip |-> c, read |-> d] \in GenStates
  /\ \A x \in GenStates :
       /\ x.at = "free" => x = Free
       /\ x.at # "free" => x.clip \in Clips
       /\ x.at = "stat" => x = [at |-> "stat", clip |-> x.clip]
       /\ x.at = "shoot" => x = [at |-> "shoot", clip |-> x.clip, read |-> x.read]
<1>1. \A x \in GenStates :
        \/ x = Free
        \/ x \in [at : {"stat", "mark", "clear"}, clip : Clips]
        \/ x \in [at : {"shoot"}, clip : Clips, read : {"whole", "cut", "gone"}]
  BY DEF GenStates
<1>2. Free \in GenStates /\ Free.at = "free"
  BY DEF GenStates, Free
<1>3. ASSUME NEW c \in Clips
      PROVE  /\ \A a \in {"stat", "mark", "clear"} : [at |-> a, clip |-> c] \in GenStates
             /\ \A d \in {"whole", "cut", "gone"} : [at |-> "shoot", clip |-> c, read |-> d] \in GenStates
  BY DEF GenStates
<1>4. ASSUME NEW x \in [at : {"stat", "mark", "clear"}, clip : Clips]
      PROVE  x.at # "free" /\ x.at # "shoot" /\ x.clip \in Clips /\ x = [at |-> x.at, clip |-> x.clip]
  OBVIOUS
<1>5. ASSUME NEW x \in [at : {"shoot"}, clip : Clips, read : {"whole", "cut", "gone"}]
      PROVE  x.at = "shoot" /\ x.clip \in Clips /\ x = [at |-> "shoot", clip |-> x.clip, read |-> x.read]
  OBVIOUS
<1> QED BY <1>1, <1>2, <1>3, <1>4, <1>5

GenTyped == gen \in GenStates /\ shots \in Seq(Clips)

\* What happens to the hands: nothing, the next job is taken, or the
\* generator is done with its route.
GenGoesOn  == UNCHANGED <<shots, claimed>> /\ (gen'.at = "free" <=> gen.at = "free")
                /\ (gen.at # "free" => gen'.clip = gen.clip)
GenTakes   == /\ gen.at = "free" /\ shots # <<>> /\ shots' = Tail(shots)
              /\ gen'.at # "free" /\ gen'.clip = Head(shots) /\ claimed' = claimed
GenLetsGo  == /\ gen.at # "free" /\ gen'.at = "free" /\ shots' = shots
              /\ claimed' = claimed \ {gen.clip[1]}
Queued     == /\ gen' = gen /\ \E c \in Clips : /\ c[1] \notin claimed /\ claimed' = claimed \cup {c[1]}
                                               /\ Len(shots) # ThumbDepth /\ shots' = Append(shots, c)
AllLost    == gen' = Free /\ shots' = <<>> /\ claimed' = {}

LEMMA GenMoves ==
  ASSUME StoreTyped, GenTyped, [Next]_vars
  PROVE  /\ gen' \in GenStates
         /\ GenGoesOn \/ GenTakes \/ GenLetsGo \/ Queued \/ AllLost
<1>1. gen.at # "free" => gen.clip \in Clips
  BY GenRows DEF GenTyped
<1>2. CASE UNCHANGED <<gen, shots, claimed>>
  BY <1>2 DEF GenTyped, GenGoesOn
<1>3. CASE ThumbRestart
  BY <1>3, GenRows DEF ThumbRestart, AllLost
<1>4. CASE ThumbWatch
  <2>1. CASE gen' = gen
    BY <1>4, <2>1 DEF ThumbWatch, GenTyped, GenGoesOn
  <2>2. CASE gen' # gen
    <3>1. gen.at = "shoot" /\ \E d \in {"gone", "cut"} : gen' = [gen EXCEPT !.read = d]
      BY <1>4, <2>2 DEF ThumbWatch
    <3>2. gen = [at |-> "shoot", clip |-> gen.clip, read |-> gen.read]
      BY <3>1, GenRows DEF GenTyped
    <3>3. \E d \in {"gone", "cut"} : gen' = [at |-> "shoot", clip |-> gen.clip, read |-> d]
      BY <3>1, <3>2
    <3>4. PICK d \in {"gone", "cut"} : gen' = [at |-> "shoot", clip |-> gen.clip, read |-> d]
      BY <3>3
    <3>5. gen.clip \in Clips /\ gen.at # "free"
      BY <1>1, <3>1
    <3>6. gen' \in GenStates
      BY <3>4, <3>5, GenRows
    <3>7. gen'.at = "shoot" /\ gen'.clip = gen.clip
      BY <3>4
    <3>8. GenGoesOn
      BY <1>4, <3>5, <3>7 DEF ThumbWatch, GenGoesOn
    <3> QED BY <3>6, <3>8
  <2> QED BY <2>1, <2>2
<1>5. ASSUME NEW r \in Routes, Consider(r)
      PROVE  gen' \in GenStates /\ (GenGoesOn \/ Queued)
  <2>1. \A c \in Selected(r) : c \in Clips /\ c[1] = r
    BY DEF Selected
  <2> QED BY <1>5, <2>1 DEF Consider, GenTyped, GenGoesOn, Queued
<1>6. CASE TakeShot
  <2>1. Head(shots) \in Clips
    BY <1>6, TailFacts DEF TakeShot, GenTyped
  <2> QED BY <1>6, <2>1, GenRows DEF TakeShot, GenTakes
<1>7. CASE StatInput
  <2>1. gen = [at |-> "stat", clip |-> gen.clip] /\ gen.clip \in Clips
    BY <1>1, <1>7, GenRows DEF StatInput, GenTyped
  <2>2. Qcam(gen.clip) \in Files
    BY <2>1 DEF Qcam, Clips, Files, Kinds
  <2>3. file[Qcam(gen.clip)] \in {"none", "cut", "whole"}
    BY <2>2 DEF StoreTyped
  <2>4. \/ gen' = [at |-> "mark", clip |-> gen.clip]
        \/ \E d \in {"cut", "whole"} : gen' = [at |-> "shoot", clip |-> gen.clip, read |-> d]
    BY <1>7, <2>1, <2>3 DEF StatInput
  <2> QED BY <1>7, <2>1, <2>4, GenRows DEF StatInput, GenGoesOn
<1>8. CASE ShotTaken \/ ShotFails
  <2>1. gen.at = "shoot" /\ gen.clip \in Clips /\ UNCHANGED <<shots, claimed>>
    BY <1>1, <1>8 DEF ShotTaken, ShotFails
  <2>2. PICK a \in {"mark", "clear"} : gen' = [at |-> a, clip |-> gen.clip]
    BY <1>8 DEF ShotTaken, ShotFails
  <2>3. gen' \in GenStates
    BY <2>1, <2>2, GenRows
  <2>4. gen'.at # "free" /\ gen'.clip = gen.clip
    BY <2>2
  <2>5. GenGoesOn
    BY <2>1, <2>4 DEF GenGoesOn
  <2> QED BY <2>3, <2>5
<1>9. CASE MarkFailed \/ ClearFailure
  BY <1>9, GenRows DEF MarkFailed, ClearFailure, GenLetsGo
<1>10. CASE ThumbPass \/ \E c \in Clips : CoolsDown(c)
  BY <1>2, <1>10 DEF ThumbPass, CoolsDown
<1> QED BY <1>2, <1>3, <1>4, <1>5, <1>6, <1>7, <1>8, <1>9, <1>10, ThumbSteps DEF thumbVars, Generate

LEMMA Appended ==
  ASSUME NEW S, NEW q \in Seq(S), NEW c \in S, NEW t, t = Append(q, c)
  PROVE  /\ \A i \in DOMAIN t : (i \in DOMAIN q /\ t[i] = q[i]) \/ (i = Len(q) + 1 /\ t[i] = c)
         /\ \A i \in DOMAIN q : i \in DOMAIN t /\ t[i] = q[i] /\ i # Len(q) + 1
         /\ Len(q) + 1 \in DOMAIN t /\ t[Len(q) + 1] = c
<1>1. /\ DOMAIN q = 1..Len(q) /\ Len(q) \in Nat /\ DOMAIN t = 1..(Len(q) + 1)
      /\ \A i \in 1..Len(q) : t[i] = q[i]
      /\ t[Len(q) + 1] = c
  OBVIOUS
<1> QED BY <1>1

LEMMA Shifted ==
  ASSUME NEW S, NEW q \in Seq(S), q # <<>>, NEW t, t = Tail(q)
  PROVE  /\ 1 \in DOMAIN q /\ Head(q) = q[1]
         /\ \A i \in DOMAIN t : i \in Nat /\ i # 0 /\ i + 1 \in DOMAIN q /\ t[i] = q[i + 1]
         /\ \A i \in DOMAIN q : i # 1 => i - 1 \in DOMAIN t /\ t[i - 1] = q[i]
<1>1. /\ DOMAIN q = 1..Len(q) /\ Len(q) \in Nat \ {0} /\ DOMAIN t = 1..(Len(q) - 1)
      /\ Head(q) = q[1] /\ \A i \in 1..(Len(q) - 1) : t[i] = q[i + 1]
  OBVIOUS
<1> QED BY <1>1

ShotInv == GenTyped /\ OneShot /\ Len(shots) <= ThumbDepth

LEMMA ShotInvNext ==
  ASSUME StoreTyped, ShotInv, [Next]_vars
  PROVE  ShotInv'
<1> USE DEF ShotInv
<1>0. ThumbDepth \in Nat /\ shots \in Seq(Clips) /\ (gen.at # "free" => gen.clip \in Clips)
  BY ThumbConstants, GenRows DEF GenTyped
<1>1. gen' \in GenStates
  BY GenMoves
<1>2. CASE GenGoesOn
  BY <1>1, <1>2 DEF GenGoesOn, GenTyped, OneShot
<1>3. CASE AllLost
  <2>1. gen'.at = "free" /\ shots' = <<>> /\ claimed' = {} /\ DOMAIN shots' = {}
    BY <1>3, GenRows DEF AllLost
  <2>2. OneShot'
    BY <2>1 DEF OneShot
  <2>3. Len(shots') <= ThumbDepth /\ shots' \in Seq(Clips)
    BY <1>0, <2>1
  <2> QED BY <1>1, <2>2, <2>3 DEF GenTyped
<1>4. CASE GenLetsGo
  <2>1. OneShot'
    BY <1>4 DEF GenLetsGo, OneShot
  <2> QED BY <1>1, <1>4, <2>1 DEF GenLetsGo, GenTyped
<1>5. CASE GenTakes
  <2> DEFINE t == Tail(shots)
  <2>1. /\ t \in Seq(Clips) /\ Len(t) <= ThumbDepth
        /\ 1 \in DOMAIN shots /\ gen'.clip = shots[1] /\ shots' = t /\ claimed' = claimed
        /\ gen.at = "free" /\ gen'.at # "free"
        /\ \A i \in DOMAIN t : i \in Nat /\ i # 0 /\ i + 1 \in DOMAIN shots /\ t[i] = shots[i + 1]
        /\ \A i \in DOMAIN shots : i # 1 => i - 1 \in DOMAIN t /\ t[i - 1] = shots[i]
    BY <1>0, <1>5, TailFacts, QueueFits, Shifted DEF GenTakes
  <2> HIDE DEF t
  <2>2. \A i \in DOMAIN t : t[i][1] # shots[1][1]
    <3> SUFFICES ASSUME NEW i \in DOMAIN t, t[i][1] = shots[1][1] PROVE FALSE
      OBVIOUS
    <3>1. i + 1 = 1
      BY <2>1 DEF OneShot
    <3> QED BY <2>1, <3>1
  <2>3. \A i, j \in DOMAIN t : t[i][1] = t[j][1] => i = j
    <3> SUFFICES ASSUME NEW i \in DOMAIN t, NEW j \in DOMAIN t, t[i][1] = t[j][1] PROVE i = j
      OBVIOUS
    <3>1. i + 1 = j + 1
      BY <2>1 DEF OneShot
    <3> QED BY <2>1, <3>1
  <2>4. claimed = {t[i][1] : i \in DOMAIN t} \cup {shots[1][1]}
    <3>1. claimed = {shots[i][1] : i \in DOMAIN shots}
      BY <2>1 DEF OneShot
    <3>2. \A x \in claimed : x \in {t[i][1] : i \in DOMAIN t} \cup {shots[1][1]}
      BY <2>1, <3>1
    <3>3. \A x \in {t[i][1] : i \in DOMAIN t} \cup {shots[1][1]} : x \in claimed
      BY <2>1, <3>1
    <3> QED BY <3>2, <3>3
  <2>5. OneShot'
    BY <2>1, <2>2, <2>3, <2>4 DEF OneShot
  <2> QED BY <1>1, <2>1, <2>5 DEF GenTyped
<1>6. CASE Queued
  <2>1. PICK c \in Clips : /\ c[1] \notin claimed /\ claimed' = claimed \cup {c[1]}
                           /\ Len(shots) # ThumbDepth /\ shots' = Append(shots, c)
    BY <1>6 DEF Queued
  <2> DEFINE t == Append(shots, c)
             n == Len(shots) + 1
  <2>2. /\ t \in Seq(Clips) /\ Len(t) <= ThumbDepth
        /\ \A i \in DOMAIN t : (i \in DOMAIN shots /\ t[i] = shots[i]) \/ (i = n /\ t[i] = c)
        /\ \A i \in DOMAIN shots : i \in DOMAIN t /\ t[i] = shots[i]
        /\ n \in DOMAIN t /\ t[n] = c
    BY <1>0, <2>1, QueueFits, Appended
  <2>3. gen' = gen /\ shots' = t /\ claimed' = claimed \cup {c[1]}
    BY <1>6, <2>1 DEF Queued
  <2> HIDE DEF t, n
  <2>4. /\ \A i \in DOMAIN shots : shots[i][1] # c[1]
        /\ gen.at # "free" => gen.clip[1] # c[1]
    BY <2>1 DEF OneShot
  <2>5. {t[i][1] : i \in DOMAIN t} = {shots[i][1] : i \in DOMAIN shots} \cup {c[1]}
    BY <2>2
  <2>6. claimed' = {t[i][1] : i \in DOMAIN t} \cup (IF gen.at = "free" THEN {} ELSE {gen.clip[1]})
    BY <2>3, <2>5 DEF OneShot
  <2>7. \A i, j \in DOMAIN t : t[i][1] = t[j][1] => i = j
    BY <2>2, <2>4 DEF OneShot
  <2>8. gen.at # "free" => \A i \in DOMAIN t : t[i][1] # gen.clip[1]
    BY <2>2, <2>4 DEF OneShot
  <2>9. OneShot'
    <3>1. \A i, j \in DOMAIN shots' : shots'[i][1] = shots'[j][1] => i = j
      BY <2>3, <2>7
    <3>2. gen'.at # "free" => \A i \in DOMAIN shots' : shots'[i][1] # gen'.clip[1]
      BY <2>3, <2>8
    <3>3. claimed' = {shots'[i][1] : i \in DOMAIN shots'}
                       \cup (IF gen'.at = "free" THEN {} ELSE {gen'.clip[1]})
      BY <2>3, <2>6
    <3> QED BY <3>1, <3>2, <3>3 DEF OneShot
  <2> QED BY <1>1, <2>2, <2>3, <2>9 DEF GenTyped
<1> QED BY <1>2, <1>3, <1>4, <1>5, <1>6, GenMoves

ThumbRest == thumb \subseteq Clips /\ cooling \subseteq Clips /\ toScan \subseteq Routes

LEMMA ThumbRestNext ==
  ASSUME GenTyped, ThumbRest, [Next]_vars
  PROVE  ThumbRest'
<1>1. gen.at # "free" => gen.clip \in Clips
  BY GenRows DEF GenTyped
<1>2. CASE ThumbWatch \/ ThumbRestart \/ UNCHANGED thumbVars
  BY <1>2 DEF ThumbWatch, ThumbRestart, thumbVars, ThumbRest
<1>3. CASE ThumbPass \/ \E r \in Routes : Consider(r)
  BY <1>3 DEF ThumbPass, Consider, Recent, ThumbRest
<1>4. CASE Generate \/ ShotFails
  BY <1>1, <1>4 DEF Generate, TakeShot, StatInput, ShotTaken, MarkFailed, ClearFailure, ShotFails, ThumbRest
<1>5. ASSUME NEW c \in Clips, CoolsDown(c) PROVE ThumbRest'
  BY <1>5 DEF CoolsDown, ThumbRest
<1> QED BY <1>2, <1>3, <1>4, <1>5, ThumbSteps

LEMMA ThumbInvariant == Spec => [](StoreTyped /\ ShotInv /\ ThumbRest)
<1>1. Init => StoreTyped /\ ShotInv /\ ThumbRest
  <2> SUFFICES ASSUME ThumbInit PROVE ShotInv /\ ThumbRest
    BY StoreTypedInit DEF Init
  <2>1. Free \in GenStates /\ gen = Free /\ gen.at = "free"
    BY GenRows DEF ThumbInit
  <2>2. shots = <<>> /\ claimed = {} /\ DOMAIN shots = {} /\ Len(shots) = 0 /\ shots \in Seq(Clips)
    BY DEF ThumbInit
  <2>3. OneShot
    BY <2>1, <2>2 DEF OneShot
  <2>4. Len(shots) <= ThumbDepth
    BY <2>2, ThumbConstants
  <2> QED BY <2>1, <2>2, <2>3, <2>4 DEF ShotInv, GenTyped, ThumbInit, ThumbRest
<1>2. StoreTyped /\ ShotInv /\ ThumbRest /\ [Next]_vars => (StoreTyped /\ ShotInv /\ ThumbRest)'
  <2>1. ASSUME StoreTyped, ShotInv, ThumbRest, [Next]_vars PROVE (StoreTyped /\ ShotInv /\ ThumbRest)'
    BY <2>1, StoreTypedNext, ShotInvNext, ThumbRestNext DEF ShotInv
  <2> QED BY <2>1
<1> QED BY <1>1, <1>2, PTL DEF Spec

(* The thumbnailer gives every route back exactly once, however the job    *)
(* ends: the in-flight set is the queue and what the generator works on.   *)
THEOREM UpkeepOneShot == Spec => []OneShot
<1>1. ShotInv => OneShot
  BY DEF ShotInv
<1> QED BY <1>1, ThumbInvariant, PTL

LEMMA ThumbTypes ==
  ASSUME ShotInv, ThumbRest PROVE ThumbTypeOK
<1>1. claimed \subseteq Routes
  <2>1. \A i \in DOMAIN shots : shots[i] \in Clips
    BY DEF ShotInv, GenTyped
  <2>2. gen.at # "free" => gen.clip \in Clips
    BY GenRows DEF ShotInv, GenTyped
  <2>3. \A c \in Clips : c[1] \in Routes
    BY DEF Clips
  <2> QED BY <2>1, <2>2, <2>3 DEF ShotInv, OneShot
<1> QED BY <1>1 DEF ShotInv, GenTyped, ThumbRest, ThumbTypeOK

LEMMA MediaTypesAlways == Spec => [](MediaTypeOK /\ ThumbTypeOK)
<1>1. Init => MediaRest
  <2> SUFFICES ASSUME MediaInit PROVE MediaRest
    BY DEF Init
  <2>1. jobs = <<>> /\ rjobs = <<>> /\ Len(jobs) = 0 /\ Len(rjobs) = 0
    BY DEF MediaInit
  <2>2. Len(jobs) <= Depth /\ Len(rjobs) <= BuildDepth
    BY <2>1, MediaConstants
  <2> QED BY <2>2 DEF MediaInit, MediaRest
<1>2. TcInv /\ RbInv /\ MediaRest /\ [Next]_vars => MediaRest'
  BY MediaRestNext
<1>3. TcInv /\ RbInv /\ MediaRest => MediaTypeOK
  BY MediaTypes
<1>4. ShotInv /\ ThumbRest => ThumbTypeOK
  BY ThumbTypes
<1> QED BY <1>1, <1>2, <1>3, <1>4, MediaInvariant, ThumbInvariant, PTL DEF Spec

----------------------------------------------------------------------------
(* The three pools implement SingleFlight.  What a hand has and what waits *)
(* move only in a claim, a start, a finish and a restart; the invariants   *)
(* say that the head of a queue is in nobody's hands and nowhere else in   *)
(* the queue, so taking it is a Start.                                     *)

\* Steps that change neither the queue nor who has what.
LEMMA TcSame ==
  ASSUME UNCHANGED <<jobs, inflight>>,
         \A w \in Workers : (Held(w)' <=> Held(w)) /\ (Held(w) => tc'[w].clip = tc[w].clip)
  PROVE  UNCHANGED Transcoding!sfVars
<1>1. \A w \in Workers : (IF tc'[w].at = "free" THEN {} ELSE {tc'[w].clip})
                           = (IF tc[w].at = "free" THEN {} ELSE {tc[w].clip})
  BY DEF Held
<1> QED BY <1>1 DEF Transcoding!sfVars

LEMMA TcFlight ==
  ASSUME TcInv, [Next]_vars
  PROVE  [Transcoding!SFNext]_(Transcoding!sfVars)
<1> DEFINE has(x) == IF x.at = "free" THEN {} ELSE {x.clip}
<1>0. /\ TcTyped /\ tc \in [Workers -> TcStates] /\ jobs \in Seq(Clips) /\ Distinct(jobs)
  BY DEF TcInv, TcTyped, WriterInv
<1>1. CASE UNCHANGED <<tc, jobs, inflight>>
  BY <1>1, TcSame DEF Held
<1>2. CASE UNCHANGED tcVars
  BY <1>1, <1>2 DEF tcVars
<1>3. ASSUME NEW w \in Workers, Works(w) PROVE UNCHANGED Transcoding!sfVars
  <2>1. \A v \in Workers : (Held(v)' <=> Held(v)) /\ (Held(v) => tc'[v].clip = tc[v].clip)
    BY <1>0, <1>3, WorksEffect DEF Held
  <2> QED BY <1>0, <1>3, <2>1, WorksEffect, TcSame
<1>4. CASE MediaWatch
  <2>1. UNCHANGED <<jobs, inflight>>
    BY <1>4 DEF MediaWatch
  <2>2. \A w \in Workers : (Held(w)' <=> Held(w)) /\ (Held(w) => tc'[w].clip = tc[w].clip)
    BY <1>0, <1>4, WatchHands DEF Held
  <2> QED BY <2>1, <2>2, TcSame
<1>5. ASSUME NEW w \in Workers, TakeJob(w) PROVE Transcoding!SFNext
  <2> DEFINE c == Head(jobs)
             x == [at |-> "look", clip |-> c, left |-> Cameras]
  <2>1. jobs # <<>> /\ tc[w].at = "free" /\ tc' = [tc EXCEPT ![w] = x] /\ inflight' = inflight
    BY <1>5, WorkerRows DEF TakeJob
  <2>2. c \in Clips /\ c \in Elems(jobs) /\ Elems(jobs') = Elems(jobs) \ {c}
    BY <1>0, <1>5, <2>1, TailFacts DEF TakeJob
  <2>3. has(x) = {c}
    OBVIOUS
  <2> HIDE DEF x, c
  <2>4. \A v \in Workers : tc'[v] = IF v = w THEN x ELSE tc[v]
    BY <1>0, <2>1
  <2>5. [v \in Workers |-> has(tc'[v])] = [[v \in Workers |-> has(tc[v])] EXCEPT ![w] = {c}]
    BY <2>3, <2>4
  <2>6. Transcoding!Start(w, c)
    BY <2>1, <2>2, <2>5 DEF Transcoding!Start, Elems
  <2> QED BY <2>2, <2>6 DEF Transcoding!SFNext, Transcoding!Start
<1>6. ASSUME NEW w \in Workers, FinishJob(w) PROVE Transcoding!SFNext
  <2> DEFINE c == tc[w].clip
  <2>1. /\ tc[w].at = "look" /\ tc' = [tc EXCEPT ![w] = Free]
        /\ inflight' = inflight \ {c} /\ jobs' = jobs
    BY <1>6 DEF FinishJob
  <2>2. c \in Clips /\ has(Free) = {}
    BY <1>0, <2>1, WorkerRows
  <2>3. \A v \in Workers : tc'[v] = IF v = w THEN Free ELSE tc[v]
    BY <1>0, <2>1
  <2>4. [v \in Workers |-> has(tc'[v])] = [[v \in Workers |-> has(tc[v])] EXCEPT ![w] = {}]
    BY <2>2, <2>3
  <2>5. Transcoding!Finish(w, c)
    BY <2>1, <2>4 DEF Transcoding!Finish
  <2> QED BY <2>2, <2>5 DEF Transcoding!SFNext, Transcoding!Finish
<1>7. CASE Scanner
  <2>1. CASE UNCHANGED <<jobs, inflight>>
    <3>1. tc' = tc
      BY <1>7 DEF Scanner, ScanStart, ScanClip
    <3> QED BY <1>1, <2>1, <3>1
  <2>2. CASE ~UNCHANGED <<jobs, inflight>>
    <3>1. PICK c \in Clips : /\ c \notin inflight /\ jobs' = Append(jobs, c)
                             /\ inflight' = inflight \cup {c} /\ tc' = tc
      BY <1>7, <2>2 DEF Scanner, ScanStart, ScanClip, Enqueue
    <3>2. Elems(jobs') = Elems(jobs) \cup {c}
      BY <1>0, <3>1, AppendFacts
    <3>3. Transcoding!Claim(c)
      BY <3>1, <3>2 DEF Transcoding!Claim, Elems
    <3> QED BY <3>3 DEF Transcoding!SFNext
  <2> QED BY <2>1, <2>2
<1>8. CASE MediaRestart
  <2>1. /\ inflight' = {} /\ jobs' = <<>> /\ tc' = [w \in Workers |-> Free]
    BY <1>8 DEF MediaRestart
  <2>2. [w \in Workers |-> has(tc'[w])] = [w \in Workers |-> {}] /\ DOMAIN jobs' = {}
    BY <2>1, WorkerRows
  <2>3. Transcoding!Lose
    BY <2>1, <2>2 DEF Transcoding!Lose
  <2> QED BY <2>3 DEF Transcoding!SFNext
<1>9. ASSUME NEW c \in Clips, Detect(c) \/ View(c) PROVE UNCHANGED tcVars
  BY <1>9 DEF Detect, View
<1>10. ASSUME NEW b \in Builders, Build(b) \/ BuildFails(b) PROVE UNCHANGED tcVars
  BY <1>10 DEF Build, BuildFails, TakeRoute, LoadDetections, BuildSegment, FinishRoute
<1>11. ASSUME NEW w \in Workers, Transcode(w) \/ FfmpegFails(w)
       PROVE  TakeJob(w) \/ FinishJob(w) \/ Works(w)
  BY <1>11 DEF Transcode, Works
<1> QED BY <1>2, <1>3, <1>4, <1>5, <1>6, <1>7, <1>8, <1>9, <1>10, <1>11, MediaSteps DEF mediaVars

\* The same of the builders.
LEMMA RbSame ==
  ASSUME UNCHANGED <<rjobs, rinflight>>,
         \A b \in Builders : (Taken(b)' <=> Taken(b)) /\ (Taken(b) => rb'[b].of = rb[b].of)
  PROVE  UNCHANGED Building!sfVars
<1>1. \A b \in Builders : (IF rb'[b].at = "free" THEN {} ELSE {rb'[b].of})
                            = (IF rb[b].at = "free" THEN {} ELSE {rb[b].of})
  BY DEF Taken
<1> QED BY <1>1 DEF Building!sfVars

LEMMA RbFlight ==
  ASSUME RbInv, [Next]_vars
  PROVE  [Building!SFNext]_(Building!sfVars)
<1> DEFINE has(x) == IF x.at = "free" THEN {} ELSE {x.of}
<1>0. RbTyped /\ rb \in [Builders -> RbStates] /\ rjobs \in Seq(Routes) /\ Distinct(rjobs)
  BY DEF RbInv, RbTyped, BuildInv
<1>1. CASE UNCHANGED <<rb, rjobs, rinflight>>
  BY <1>1, RbSame DEF Taken
<1>2. CASE UNCHANGED redVars \/ MediaWatch
  BY <1>1, <1>2 DEF redVars, MediaWatch
<1>3. ASSUME NEW w \in Workers, Transcode(w) \/ FfmpegFails(w) PROVE UNCHANGED redVars
  BY <1>3 DEF Transcode, TakeJob, StartCamera, FinishJob, FirstChunk, FfmpegDone,
              FfmpegFails, CopyFfmpegFails, EncodeFails, PackageFails
<1>4. CASE Scanner
  BY <1>1, <1>4 DEF Scanner, ScanStart, ScanClip, redVars
<1>5. ASSUME NEW c \in Clips, Detect(c) PROVE UNCHANGED <<rb, rjobs, rinflight>>
  BY <1>5 DEF Detect
<1>6. ASSUME NEW c \in Clips, View(c) PROVE Building!SFNext
  <2>1. c[1] \in Routes
    BY DEF Clips
  <2>2. Elems(rjobs') = Elems(rjobs) \cup {c[1]}
    BY <1>0, <1>6, <2>1, AppendFacts DEF View
  <2>3. Building!Claim(c[1])
    BY <1>6, <2>2 DEF View, Building!Claim, Elems
  <2> QED BY <2>1, <2>3 DEF Building!SFNext, Building!Claim
<1>7. ASSUME NEW b \in Builders, TakeRoute(b) PROVE Building!SFNext
  <2> DEFINE r == Head(rjobs)
             x == [at |-> "load", of |-> r]
  <2>1. rjobs # <<>> /\ rb[b].at = "free" /\ rb' = [rb EXCEPT ![b] = x] /\ rinflight' = rinflight
    BY <1>7, WorkerRows DEF TakeRoute
  <2>2. r \in Routes /\ r \in Elems(rjobs) /\ Elems(rjobs') = Elems(rjobs) \ {r}
    BY <1>0, <1>7, <2>1, TailFacts DEF TakeRoute
  <2>3. has(x) = {r}
    OBVIOUS
  <2> HIDE DEF x, r
  <2>4. \A d \in Builders : rb'[d] = IF d = b THEN x ELSE rb[d]
    BY <1>0, <2>1
  <2>5. [d \in Builders |-> has(rb'[d])] = [[d \in Builders |-> has(rb[d])] EXCEPT ![b] = {r}]
    BY <2>3, <2>4
  <2>6. Building!Start(b, r)
    BY <2>1, <2>2, <2>5 DEF Building!Start, Elems
  <2> QED BY <2>2, <2>6 DEF Building!SFNext, Building!Start
<1>8. ASSUME NEW b \in Builders, FinishRoute(b) \/ BuildFails(b) PROVE Building!SFNext
  <2> DEFINE r == rb[b].of
  <2>1. /\ Taken(b) /\ rb' = [rb EXCEPT ![b] = Free]
        /\ rinflight' = rinflight \ {r} /\ rjobs' = rjobs
    BY <1>8, BuilderEnds
  <2>2. r \in Routes /\ has(Free) = {}
    BY <1>0, <2>1, BuilderRows, WorkerRows DEF Taken
  <2>3. \A d \in Builders : rb'[d] = IF d = b THEN Free ELSE rb[d]
    BY <1>0, <2>1
  <2>4. [d \in Builders |-> has(rb'[d])] = [[d \in Builders |-> has(rb[d])] EXCEPT ![b] = {}]
    BY <2>2, <2>3
  <2>5. Building!Finish(b, r)
    BY <2>1, <2>4 DEF Building!Finish, Taken
  <2> QED BY <2>2, <2>5 DEF Building!SFNext, Building!Finish
<1>9. ASSUME NEW b \in Builders, LoadDetections(b) \/ BuildSegment(b)
      PROVE  UNCHANGED Building!sfVars
  <2>1. \A d \in Builders : (Taken(d)' <=> Taken(d)) /\ (Taken(d) => rb'[d].of = rb[d].of)
    BY <1>0, <1>9, BuilderWorks DEF Taken
  <2> QED BY <1>0, <1>9, <2>1, BuilderWorks, RbSame
<1>10. CASE MediaRestart
  <2>1. rinflight' = {} /\ rjobs' = <<>> /\ rb' = [b \in Builders |-> Free]
    BY <1>10 DEF MediaRestart
  <2>2. [b \in Builders |-> has(rb'[b])] = [b \in Builders |-> {}] /\ DOMAIN rjobs' = {}
    BY <2>1, WorkerRows
  <2>3. Building!Lose
    BY <2>1, <2>2 DEF Building!Lose
  <2> QED BY <2>3 DEF Building!SFNext
<1> QED BY <1>1, <1>2, <1>3, <1>4, <1>5, <1>6, <1>7, <1>8, <1>9, <1>10, MediaSteps
        DEF mediaVars, Build

LEMMA GenFlight ==
  ASSUME StoreTyped, ShotInv, [Next]_vars
  PROVE  [Shooting!SFNext]_(Shooting!sfVars)
<1> DEFINE G == {"generator"}
           its  == IF gen.at = "free" THEN {} ELSE {gen.clip[1]}
           its1 == IF gen'.at = "free" THEN {} ELSE {gen'.clip[1]}
           Q == {shots[i][1] : i \in DOMAIN shots}
<1>0. /\ GenTyped /\ OneShot /\ shots \in Seq(Clips)
      /\ (gen.at # "free" => gen.clip \in Clips) /\ Free.at = "free"
  BY GenRows DEF ShotInv, GenTyped
<1>1. CASE GenGoesOn
  BY <1>1 DEF GenGoesOn, Shooting!sfVars
<1>2. CASE GenTakes
  <2> DEFINE t == Tail(shots)
             r == Head(shots)[1]
  <2>1. /\ gen.at = "free" /\ gen'.at # "free" /\ gen'.clip = Head(shots)
        /\ shots # <<>> /\ shots' = t /\ claimed' = claimed
    BY <1>2 DEF GenTakes
  <2>2. /\ 1 \in DOMAIN shots /\ Head(shots) = shots[1] /\ Head(shots) \in Clips
        /\ \A i \in DOMAIN t : i \in Nat /\ i # 0 /\ i + 1 \in DOMAIN shots /\ t[i] = shots[i + 1]
        /\ \A i \in DOMAIN shots : i # 1 => i - 1 \in DOMAIN t /\ t[i - 1] = shots[i]
    BY <1>0, <2>1, TailFacts, Shifted
  <2>3. r \in Routes /\ r \in Q
    BY <2>2 DEF Clips
  <2> HIDE DEF t
  <2>4. \A i \in DOMAIN t : t[i][1] # r
    <3> SUFFICES ASSUME NEW i \in DOMAIN t, t[i][1] = r PROVE FALSE
      OBVIOUS
    <3>1. i + 1 = 1
      BY <1>0, <2>2 DEF OneShot
    <3> QED BY <2>2, <3>1
  <2>5. {t[i][1] : i \in DOMAIN t} = Q \ {r}
    <3>1. \A x \in {t[i][1] : i \in DOMAIN t} : x \in Q /\ x # r
      BY <2>2, <2>4
    <3>2. \A x \in Q : x # r => x \in {t[i][1] : i \in DOMAIN t}
      BY <2>2
    <3> QED BY <3>1, <3>2
  <2>6. its1 = {r} /\ its = {}
    BY <2>1
  <2>7. [h \in G |-> its1] = [[h \in G |-> its] EXCEPT !["generator"] = {r}]
    BY <2>6
  <2>8. {shots'[i][1] : i \in DOMAIN shots'} = Q \ {r} /\ UNCHANGED claimed
    BY <2>1, <2>5
  <2>9. [h \in G |-> its]["generator"] = {}
    BY <2>6
  <2> HIDE DEF Q, r, its, its1, G
  <2>10. Shooting!Start("generator", r)
    BY <2>3, <2>7, <2>8, <2>9 DEF Shooting!Start, Q, its, its1, G
  <2> QED BY <2>3, <2>10 DEF Shooting!SFNext, Shooting!Start
<1>3. CASE GenLetsGo
  <2> DEFINE r == gen.clip[1]
  <2>1. /\ gen.at # "free" /\ gen'.at = "free" /\ shots' = shots /\ claimed' = claimed \ {r}
    BY <1>3 DEF GenLetsGo
  <2>2. r \in Routes /\ its = {r} /\ its1 = {}
    BY <1>0, <2>1 DEF Clips
  <2>3. [h \in G |-> its1] = [[h \in G |-> its] EXCEPT !["generator"] = {}]
    BY <2>2
  <2>4. Shooting!Finish("generator", r)
    BY <2>1, <2>2, <2>3 DEF Shooting!Finish
  <2> QED BY <2>2, <2>4 DEF Shooting!SFNext, Shooting!Finish
<1>4. CASE Queued
  <2>1. PICK c \in Clips : /\ c[1] \notin claimed /\ claimed' = claimed \cup {c[1]}
                           /\ gen' = gen /\ shots' = Append(shots, c)
    BY <1>4 DEF Queued
  <2> DEFINE t == Append(shots, c)
             n == Len(shots) + 1
  <2>2. /\ \A i \in DOMAIN t : (i \in DOMAIN shots /\ t[i] = shots[i]) \/ (i = n /\ t[i] = c)
        /\ \A i \in DOMAIN shots : i \in DOMAIN t /\ t[i] = shots[i]
        /\ n \in DOMAIN t /\ t[n] = c
    BY <1>0, Appended
  <2>3. shots' = t
    BY <2>1
  <2> HIDE DEF t, n
  <2>4. {t[i][1] : i \in DOMAIN t} = Q \cup {c[1]}
    BY <2>2
  <2>5. c[1] \in Routes
    BY DEF Clips
  <2>6. Shooting!Claim(c[1])
    BY <2>1, <2>3, <2>4 DEF Shooting!Claim
  <2> QED BY <2>5, <2>6 DEF Shooting!SFNext, Shooting!Claim
<1>5. CASE AllLost
  <2>1. gen'.at = "free" /\ shots' = <<>> /\ claimed' = {} /\ DOMAIN shots' = {}
    BY <1>0, <1>5 DEF AllLost
  <2>2. Shooting!Lose
    BY <2>1 DEF Shooting!Lose
  <2> QED BY <2>2 DEF Shooting!SFNext
<1> QED BY <1>0, <1>1, <1>2, <1>3, <1>4, <1>5, GenMoves

(* Transcoder, redaction builder and thumbnailer each implement the pool   *)
(* of SingleFlight, whatever the store, the other pools, failures and      *)
(* restarts do meanwhile: nothing is claimed twice, nothing is worked on   *)
(* unclaimed, and a claim goes with the work of the hand that has it, at   *)
(* every end that work can have.                                           *)
THEOREM UpkeepSingleFlight == Spec => PoolsSingleFlight
<1>1. Init => Transcoding!SFInit /\ Building!SFInit /\ Shooting!SFInit
  <2> SUFFICES ASSUME MediaInit, ThumbInit PROVE Transcoding!SFInit /\ Building!SFInit /\ Shooting!SFInit
    BY DEF Init
  <2>1. /\ jobs = <<>> /\ rjobs = <<>> /\ shots = <<>>
        /\ DOMAIN jobs = {} /\ DOMAIN rjobs = {} /\ DOMAIN shots = {}
    BY DEF MediaInit, ThumbInit
  <2>2. /\ \A w \in Workers : tc[w].at = "free"
        /\ \A b \in Builders : rb[b].at = "free"
        /\ gen.at = "free"
    BY WorkerRows DEF MediaInit, ThumbInit
  <2>3. Transcoding!SFInit
    BY <2>1, <2>2 DEF MediaInit, Transcoding!SFInit
  <2>4. Building!SFInit
    BY <2>1, <2>2 DEF MediaInit, Building!SFInit
  <2>5. Shooting!SFInit
    BY <2>1, <2>2 DEF ThumbInit, Shooting!SFInit
  <2> QED BY <2>3, <2>4, <2>5
<1>2. TcInv /\ RbInv /\ [Next]_vars =>
        [Transcoding!SFNext]_(Transcoding!sfVars) /\ [Building!SFNext]_(Building!sfVars)
  BY TcFlight, RbFlight
<1>3. StoreTyped /\ ShotInv /\ [Next]_vars => [Shooting!SFNext]_(Shooting!sfVars)
  BY GenFlight
<1> QED BY <1>1, <1>2, <1>3, MediaInvariant, ThumbInvariant, PTL
        DEF Spec, PoolsSingleFlight, Transcoding!SFSpec, Building!SFSpec, Shooting!SFSpec
=============================================================================
