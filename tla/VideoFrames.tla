----------------------------- MODULE VideoFrames -----------------------------
(* How a processing worker turns a video into a bundle of frames: the pinned *)
(* tools are identified, the video is probed and its frames extracted in a   *)
(* private directory each, every frame is checked, and the frames are packed *)
(* into one file that the analysis unpacks later.  Two workers of one        *)
(* process, tools that fail or take too long, directories that cannot be     *)
(* removed, and a crash of the process.                                      *)
EXTENDS Naturals, Sequences, FiniteSets, SequencesExt

CONSTANTS
  Extractors,     \* the workers
  Videos,         \* the videos that may be asked for
  Spaces,         \* names of private directories under the work root
  MaxVideoBytes, MaxDuration, MaxPixels, MaxRate, FrameInterval, MaxFrames,
  MaxFrameBytes,  \* VIDEO_LIMITS
  MaxBundle,      \* VIDEO_FRAME_BUNDLE_MAX_BYTES
  Overhead,       \* the bytes of the magic and of the header
  Pinned,         \* the approved identity of a tool
  None

\* A video: its bytes, whether it begins with an ftyp box, what the probe
\* prints (None when that is not one MP4 video stream), and, for every place
\* that can be sought, the size of the picture the extractor writes and
\* whether sharp accepts it.
VideoSet ==
  [id : {v.id : v \in Videos}, bytes : Nat, ftyp : BOOLEAN,
   inspection : {None} \cup [duration : Nat, pixels : Nat, rate : Nat],
   pictures : Seq([size : Nat, valid : BOOLEAN])]

VideoAssumption ==
  /\ Videos \subseteq VideoSet
  /\ {MaxFrames, MaxFrameBytes, MaxBundle, FrameInterval} \subseteq Nat \ {0}
  /\ Spaces # {} /\ None \notin Spaces
  /\ None \notin [source : {v.id : v \in Videos} \cup {None}, frames : SUBSET (0 .. MaxFrames)]

VARIABLES
  tools,     \* tool -> the identity of the file at its path, or None
  attempt,   \* worker -> its attempt at a video
  spaces,    \* directory -> [source, frames] it holds, or None
  orphans,   \* directories whose owner is gone (history)
  mishap     \* whether the one crash or failed removal has happened

videoVars == <<tools, attempt, spaces, orphans, mishap>>

-----------------------------------------------------------------------------
(* The plan and the checks that need no tool.                              *)
\* FAULT: a frame at the very end of the video is planned as well.
PlanPastEnd(duration) ==
  IF duration \notin 1 .. MaxDuration THEN << >>
  ELSE [i \in {n \in 1 .. MaxFrames : (n - 1) * FrameInterval <= duration} |->
          [no |-> i - 1, at |-> (i - 1) * FrameInterval]]

Plan(duration) ==
  IF duration \notin 1 .. MaxDuration THEN << >>
  ELSE [i \in {n \in 1 .. MaxFrames : (n - 1) * FrameInterval < duration} |->
          [no |-> i - 1, at |-> (i - 1) * FrameInterval]]

SourceFits(v) == v.bytes \in 1 .. MaxVideoBytes /\ v.ftyp

InspectionCode(v) ==
  IF v.inspection = None THEN "VIDEO_PROBE_FAILED"
  ELSE IF v.inspection.duration > MaxDuration THEN "VIDEO_DURATION_EXCEEDED"
  ELSE IF v.inspection.pixels > MaxPixels THEN "VIDEO_DIMENSIONS_EXCEEDED"
  ELSE IF v.inspection.rate > MaxRate THEN "VIDEO_FRAME_RATE_EXCEEDED"
  ELSE "fits"

-----------------------------------------------------------------------------
(* Frames and bundles.  A byte is named by the picture it comes from, and a *)
(* digest is the bytes themselves.                                          *)
Frame(v, item) ==
  LET bytes == [i \in 1 .. v.pictures[item.no + 1].size |-> [of |-> v.id, no |-> item.no]] IN
  [no |-> item.no, at |-> item.at, bytes |-> bytes, sha256 |-> bytes]

InOrder(entries) ==
  \A i \in DOMAIN entries :
    /\ entries[i].no = i - 1
    /\ i > 1 => entries[i - 1].at < entries[i].at

SizeOf(frames) == FoldSeq(LAMBDA f, n : Len(f.bytes) + n, 0, frames)

\* FAULT: every frame starts at the payload's first byte.
PackAtOnePlace(frames) ==
  [header |-> [i \in DOMAIN frames |->
     [no |-> frames[i].no, at |-> frames[i].at, length |-> Len(frames[i].bytes),
      offset |-> 0, sha256 |-> frames[i].sha256]],
   payload |-> FlattenSeq([i \in DOMAIN frames |-> frames[i].bytes])]

Pack(frames) ==
  [header |-> [i \in DOMAIN frames |->
     [no |-> frames[i].no, at |-> frames[i].at, length |-> Len(frames[i].bytes),
      offset |-> SizeOf(SubSeq(frames, 1, i - 1)), sha256 |-> frames[i].sha256]],
   payload |-> FlattenSeq([i \in DOMAIN frames |-> frames[i].bytes])]

BytesOf(bundle, e) ==
  SubSeq(bundle.payload, e.offset + 1, e.offset + e.length)

\* FAULT: what lies behind the last frame is not looked at.
UnpackPrefix(bundle) ==
  LET h == bundle.header IN
  IF /\ h # << >> /\ InOrder(h)
     /\ \A i \in DOMAIN h :
          /\ h[i].offset = IF i = 1 THEN 0 ELSE h[i - 1].offset + h[i - 1].length
          /\ h[i].offset + h[i].length <= Len(bundle.payload)
          /\ BytesOf(bundle, h[i]) = h[i].sha256
  THEN [i \in DOMAIN h |-> [no |-> h[i].no, at |-> h[i].at,
                            bytes |-> BytesOf(bundle, h[i]), sha256 |-> h[i].sha256]]
  ELSE None

Unpack(bundle) ==
  LET h == bundle.header IN
  IF /\ h # << >> /\ InOrder(h)
     /\ \A i \in DOMAIN h :
          /\ h[i].offset = IF i = 1 THEN 0 ELSE h[i - 1].offset + h[i - 1].length
          /\ h[i].offset + h[i].length <= Len(bundle.payload)
          /\ BytesOf(bundle, h[i]) = h[i].sha256
     /\ Last(h).offset + Last(h).length = Len(bundle.payload)
  THEN [i \in DOMAIN h |-> [no |-> h[i].no, at |-> h[i].at,
                            bytes |-> BytesOf(bundle, h[i]), sha256 |-> h[i].sha256]]
  ELSE None

-----------------------------------------------------------------------------
Tools == {"ffmpeg", "ffprobe"}
RefusalCodes ==
  {"VIDEO_INPUT_INVALID", "VIDEO_MP4_SIGNATURE_INVALID", "VIDEO_RUNTIME_UNAVAILABLE",
   "VIDEO_RUNTIME_UNVERIFIED", "VIDEO_PROBE_FAILED", "VIDEO_DURATION_EXCEEDED",
   "VIDEO_DIMENSIONS_EXCEEDED", "VIDEO_FRAME_RATE_EXCEEDED", "VIDEO_EXTRACTION_FAILED",
   "VIDEO_FRAME_CONTRACT_INVALID", "VIDEO_FRAME_BUNDLE_TOO_LARGE", "bundle"}

Idle == [at |-> "idle", video |-> None, stage |-> "probe", space |-> None,
         failed |-> FALSE, frames |-> << >>, code |-> None, bundle |-> None]

EmptySpace == [source |-> None, frames |-> {}]

VideoInit ==
  /\ tools \in [Tools -> {Pinned, "other", None}]
  /\ attempt = [w \in Extractors |-> Idle]
  /\ spaces = [s \in Spaces |-> None]
  /\ orphans = {}
  /\ mishap = FALSE

StageCode(stage) ==
  IF stage = "probe" THEN "VIDEO_PROBE_FAILED" ELSE "VIDEO_EXTRACTION_FAILED"

Answered(a, code, bundle) ==
  [a EXCEPT !.at = "done", !.code = code, !.bundle = bundle, !.space = None, !.frames = << >>]

Step(w, changes) == attempt' = [attempt EXCEPT ![w] = changes]

(* prepareVideoEvidence begins: the metadata, whose length is that of the  *)
(* bytes, and the signature.                                               *)
BeginVideo(w, v) ==
  /\ attempt[w].at \in {"idle", "done"}
  /\ LET a == [Idle EXCEPT !.video = v] IN
     Step(w, IF v.bytes \notin 1 .. MaxVideoBytes THEN Answered(a, "VIDEO_INPUT_INVALID", None)
             ELSE IF ~v.ftyp THEN Answered(a, "VIDEO_MP4_SIGNATURE_INVALID", None)
             ELSE [a EXCEPT !.at = "gate"])
  /\ UNCHANGED <<tools, spaces, orphans, mishap>>

\* FAULT: the tool that extracts is not compared with its pin.
GateOnProbe == tools["ffprobe"] = Pinned

ToolsArePinned == \A t \in Tools : tools[t] = Pinned

(* Both tools are hashed and asked for their version; a tool that is not   *)
(* there, or does not answer in time, is unavailable.                      *)
CheckTools(w) ==
  /\ attempt[w].at = "gate"
  /\ \E answers \in BOOLEAN :
       Step(w, IF ~answers \/ \E t \in Tools : tools[t] = None
               THEN Answered(attempt[w], "VIDEO_RUNTIME_UNAVAILABLE", None)
               ELSE IF ToolsArePinned THEN [attempt[w] EXCEPT !.at = "open"]
               ELSE Answered(attempt[w], "VIDEO_RUNTIME_UNVERIFIED", None))
  /\ UNCHANGED <<tools, spaces, orphans, mishap>>

\* FAULT: the directory has one name, and is taken over when it is there.
SharedSpaces == {CHOOSE s \in Spaces : TRUE}

FreeSpaces == {s \in Spaces : spaces[s] = None}

(* withVideoWorkspace makes a directory of a fresh name, unless the paths  *)
(* are not the expected ones.                                              *)
OpenSpace(w) ==
  /\ attempt[w].at = "open"
  /\ \/ \E s \in FreeSpaces :
          /\ spaces' = [spaces EXCEPT ![s] = EmptySpace]
          /\ Step(w, [attempt[w] EXCEPT !.at = "write", !.space = s])
     \/ /\ Step(w, Answered(attempt[w], StageCode(attempt[w].stage), None))
        /\ UNCHANGED spaces
  /\ UNCHANGED <<tools, orphans, mishap>>

Closing(a, failed) == [a EXCEPT !.at = "close", !.failed = failed]

(* writeSource: never over a file that is there.                           *)
WriteSource(w) ==
  LET a == attempt[w] IN
  /\ a.at = "write"
  /\ IF SourceFits(a.video) /\ spaces[a.space].source = None
     THEN /\ spaces' = [spaces EXCEPT ![a.space].source = a.video.id]
          /\ Step(w, [a EXCEPT !.at = "tool"])
     ELSE Step(w, Closing(a, TRUE)) /\ UNCHANGED spaces
  /\ UNCHANGED <<tools, orphans, mishap>>

(* A tool exits with an error, prints too much, or is killed at its limit. *)
ToolFails(w) ==
  /\ attempt[w].at = "tool"
  /\ Step(w, Closing(attempt[w], TRUE))
  /\ UNCHANGED <<tools, spaces, orphans, mishap>>

ProbeAnswers(w) ==
  /\ attempt[w].at = "tool" /\ attempt[w].stage = "probe"
  /\ Step(w, Closing(attempt[w], attempt[w].video.inspection = None))
  /\ UNCHANGED <<tools, spaces, orphans, mishap>>

NextItem(a) == Plan(a.video.inspection.duration)[Len(a.frames) + 1]

(* One run of the extractor and the checks of what it wrote.               *)
ExtractFrame(w) ==
  LET a == attempt[w] IN
  /\ a.at = "tool" /\ a.stage = "extract"
  /\ Len(a.frames) + 1 \in DOMAIN Plan(a.video.inspection.duration)
  /\ LET item == NextItem(a)
         written == item.no + 1 \in DOMAIN a.video.pictures
         picture == a.video.pictures[item.no + 1] IN
     /\ IF written
        THEN spaces' = [spaces EXCEPT ![a.space].frames = @ \cup {item.no}]
        ELSE UNCHANGED spaces
     /\ IF /\ written
           /\ picture.size \in 1 .. MaxFrameBytes /\ picture.valid
           /\ SizeOf(a.frames) + picture.size <= MaxFrameBytes * MaxFrames
        THEN Step(w, [a EXCEPT !.frames = Append(@, Frame(a.video, item))])
        ELSE Step(w, Closing(a, TRUE))
  /\ UNCHANGED <<tools, orphans, mishap>>

(* All frames are there: the directory holds them and the source, no more. *)
ListSpace(w) ==
  LET a == attempt[w] IN
  /\ a.at = "tool" /\ a.stage = "extract"
  /\ Len(a.frames) = Len(Plan(a.video.inspection.duration))
  /\ Step(w, Closing(a, spaces[a.space] #
       [source |-> a.video.id, frames |-> {a.frames[i].no : i \in DOMAIN a.frames}]))
  /\ UNCHANGED <<tools, spaces, orphans, mishap>>

-----------------------------------------------------------------------------
Prepared(a) ==
  LET plan == Plan(a.video.inspection.duration) IN
  /\ Len(a.frames) = Len(plan)
  /\ \A i \in DOMAIN plan :
       /\ a.frames[i].no = plan[i].no /\ a.frames[i].at = plan[i].at
       /\ a.frames[i].sha256 = a.frames[i].bytes

\* The verifier may also take too long.
BundleAnswer(a, verified) ==
  IF ~verified \/ ~Prepared(a) THEN Answered(a, "VIDEO_FRAME_CONTRACT_INVALID", None)
  ELSE IF Overhead + SizeOf(a.frames) > MaxBundle
       THEN Answered(a, "VIDEO_FRAME_BUNDLE_TOO_LARGE", None)
       ELSE Answered(a, "bundle", Pack(a.frames))

(* What follows when the directory is closed: a failure of the stage, the  *)
(* checks of the inspection and the extraction, or the bundle.             *)
AfterSpace(a, verified) ==
  IF a.failed THEN Answered(a, StageCode(a.stage), None)
  ELSE IF a.stage = "extract" THEN BundleAnswer(a, verified)
  ELSE IF InspectionCode(a.video) = "fits"
       THEN [a EXCEPT !.at = "open", !.stage = "extract", !.space = None]
       ELSE Answered(a, InspectionCode(a.video), None)

\* FAULT: the directory is removed only when all went well.
CloseAfterSuccess(w) ==
  LET a == attempt[w] IN
  /\ a.at = "close"
  /\ \E verified \in BOOLEAN : Step(w, AfterSpace(a, verified))
  /\ IF a.failed THEN UNCHANGED spaces ELSE spaces' = [spaces EXCEPT ![a.space] = None]
  /\ UNCHANGED <<tools, orphans, mishap>>

(* The finally of withVideoWorkspace.                                      *)
CloseSpace(w) ==
  LET a == attempt[w] IN
  /\ a.at = "close"
  /\ \E verified \in BOOLEAN : Step(w, AfterSpace(a, verified))
  /\ spaces' = [spaces EXCEPT ![a.space] = None]
  /\ UNCHANGED <<tools, orphans, mishap>>

(* Its path does not resolve: the directory stays.  Or its removal fails,  *)
(* and the error takes the place of the result.                            *)
CloseFails(w) ==
  LET a == attempt[w] IN
  /\ a.at = "close" /\ ~mishap
  /\ Step(w, AfterSpace(a, TRUE)) \/ Step(w, Answered(a, StageCode(a.stage), None))
  /\ orphans' = orphans \cup {a.space}
  /\ mishap' = TRUE
  /\ UNCHANGED <<tools, spaces>>

(* The process dies; nothing removes its directories when it comes back.   *)
Crash ==
  /\ ~mishap /\ mishap' = TRUE
  /\ \E w \in Extractors : attempt[w].at # "idle"
  /\ attempt' = [w \in Extractors |-> Idle]
  /\ orphans' = orphans \cup ({attempt[w].space : w \in Extractors} \ {None})
  /\ UNCHANGED <<tools, spaces>>

VideoNext ==
  \/ \E w \in Extractors, v \in Videos : BeginVideo(w, v)
  \/ \E w \in Extractors :
       \/ CheckTools(w)
       \/ OpenSpace(w)
       \/ WriteSource(w)
       \/ ToolFails(w)
       \/ ProbeAnswers(w)
       \/ ExtractFrame(w)
       \/ ListSpace(w)
       \/ CloseSpace(w)
       \/ CloseFails(w)
  \/ Crash

-----------------------------------------------------------------------------
(* Attempts, directories and answers have their shapes.                    *)
VideoTypeOK ==
  /\ \A w \in Extractors :
       /\ attempt[w].at \in {"idle", "gate", "open", "write", "tool", "close", "done"}
       /\ attempt[w].at = "done" => attempt[w].code \in RefusalCodes
       /\ attempt[w].at \in {"write", "tool", "close"} => spaces[attempt[w].space] # None
       /\ Len(attempt[w].frames) <= MaxFrames
  /\ orphans \subseteq Spaces

(* A directory with a tenant's video on disk belongs to one attempt that   *)
(* is at work in it, whatever failed on the way (windows-ffmpeg-adapters,  *)
(* withVideoWorkspace); only a crash or a failed removal leaves one.       *)
SpacesBelongToWork ==
  /\ \A s \in Spaces :
       spaces[s] # None => s \in orphans \/ \E w \in Extractors : attempt[w].space = s
  /\ \A w, x \in Extractors :
       w # x /\ attempt[w].space # None => attempt[w].space # attempt[x].space

(* A bundle that is handed over unpacks to the pictures of its own video   *)
(* at the planned places, all of them and in their order                   *)
(* (prepare-video-evidence, frame-bundle).                                 *)
BundlesAreTheirVideos ==
  \A w \in Extractors :
    attempt[w].code = "bundle" =>
      LET v == attempt[w].video
          frames == Unpack(attempt[w].bundle) IN
      /\ frames # None
      /\ {frames[i].at : i \in DOMAIN frames} =
           {t \in 0 .. v.inspection.duration - 1 :
              t % FrameInterval = 0 /\ t < MaxFrames * FrameInterval}
      /\ \A i \in DOMAIN frames :
           /\ frames[i].no = i - 1 /\ frames[i].at = (i - 1) * FrameInterval
           /\ Len(frames[i].bytes) = v.pictures[i].size
           /\ \A j \in DOMAIN frames[i].bytes :
                frames[i].bytes[j] = [of |-> v.id, no |-> i - 1]

Noise == [of |-> None, no |-> 0]
Damaged(b) ==
  {[b EXCEPT !.payload[i] = Noise] : i \in DOMAIN b.payload}
  \cup {[b EXCEPT !.payload = Append(@, Noise)], [b EXCEPT !.payload = Front(@)]}
  \cup {[b EXCEPT !.header = Reverse(@)] : i \in {j \in {1} : Len(b.header) > 1}}
  \cup {[b EXCEPT !.header = Tail(@)], [b EXCEPT !.header = Front(@)]}

(* A stored bundle with one unit changed, added or cut off, or with its    *)
(* entries lost or out of order, is refused as a whole (frame-bundle).     *)
DamagedBundlesAreRefused ==
  \A w \in Extractors :
    attempt[w].code = "bundle" => \A d \in Damaged(attempt[w].bundle) : Unpack(d) = None

(* Only tools with the approved digest and version are given a video       *)
(* (pinned-runtime-gate); the check is made once per attempt, and a file   *)
(* replaced after it is outside the model.                                 *)
OnlyPinnedToolsRun ==
  \A w \in Extractors :
    attempt[w].at \in {"write", "tool", "close"} \/ attempt[w].code = "bundle" =>
      \A t \in Tools : tools[t] = Pinned
=============================================================================
