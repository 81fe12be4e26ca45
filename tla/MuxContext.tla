----------------------------- MODULE MuxContext -----------------------------
(***************************************************************************)
(* The interleaver of the WebM muxer filter: class Context of              *)
(* src/webmmux/webmmuxcontext.cc.  Frames arrive on a video and an audio   *)
(* stream, wait in per-stream queues, and are merged into clusters of the  *)
(* output file.                                                            *)
(*                                                                         *)
(* Every entry point of Context runs with the filter lock held, so between *)
(* two entry points the state is that of pc = "idle"; the loops inside an  *)
(* entry point are taken one iteration per step, and pc says where the     *)
(* thread that holds the lock is.                                          *)
(*                                                                         *)
(* A frame pointer is the arrival number of the frame in its stream, and   *)
(* video / audio (what has arrived) are the objects the pointers denote.   *)
(* videoOut / audioOut are the blocks in the file.  Timecodes are          *)
(* milliseconds, the scale the context is constructed with.                *)
(***************************************************************************)
EXTENDS Integers, Sequences

CONSTANTS
  StreamSets,   \* sets of streams a session may have (which pins connect)
  LiveModes,    \* subset of BOOLEAN: values SetLiveMuxMode is called with
  OggModes,     \* subset of BOOLEAN: may the audio be Xiph Ogg Vorbis
  VideoTimes,   \* timecodes a video frame may have
  AudioTimes,   \* timecodes an audio frame may have
  MaxVideoGap,  \* time from one video frame to the next (0 to the first), at most
  Paced,        \* frames come one per Receive, never while their stream must wait
  MaxVideo,     \* video frames accepted in a session
  MaxAudio,     \* audio frames accepted in a session
  MaxFlush,     \* flushes in a session
  MaxSessions   \* times the graph leaves the stopped state

ASSUME StreamSetsAssumption == StreamSets \subseteq (SUBSET {"video", "audio"}) \ {{}}
ASSUME ModesAssumption == LiveModes \subseteq BOOLEAN /\ OggModes \subseteq BOOLEAN /\ Paced \in BOOLEAN
ASSUME TimesAssumption == VideoTimes \subseteq Nat /\ AudioTimes \subseteq Nat
ASSUME BoundsAssumption == /\ MaxVideoGap \in Nat /\ MaxVideo \in Nat /\ MaxAudio \in Nat
                           /\ MaxFlush \in Nat /\ MaxSessions \in Nat

VARIABLES
  streams,      \* the streams that exist: m_pVideo, m_pAudio not null
  open,         \* m_file.GetStream() != 0
  live,         \* m_bLiveMux
  buffering,    \* m_bBufferData: track header still held in m_buf
  headers,      \* Ogg Vorbis headers received: m_ident, m_comment, m_setup
  ogg,          \* the audio stream is a StreamAudioVorbisOgg
  vframes,      \* StreamVideo::m_vframes, pointers
  rframes,      \* StreamVideo::m_rframes, pointers to cluster boundaries
  aframes,      \* StreamAudio::m_frames, pointers
  eosVideo,     \* m_bEOSVideo
  eosAudio,     \* m_bEOSAudio
  cEOS,         \* m_cEOS
  maxTimecode,  \* m_max_timecode
  clusters,     \* m_clusters
  pc,           \* where the thread inside the context is
  ret,          \* where CreateNewCluster[AudioOnly] returns to
  closing,      \* the entry point is Close
  stop,         \* pvf_stop of the cluster being created, 0 for NULL
  cFrames,      \* cFrames of the cluster being created
  video,        \* every video frame accepted in this session
  audio,        \* every audio frame accepted in this session
  videoOut,     \* the video blocks of the file
  audioOut,     \* the audio blocks of the file
  cues,         \* the cue points of the finalised file
  duration,     \* the duration written to the finalised file
  finals,       \* how often this session's file has been finalised
  needKey,      \* upstream must resume with a key frame
  flushes,      \* flushes so far in this session
  sessions      \* sessions so far

queues  == <<vframes, rframes, aframes>>
file    == <<clusters, videoOut, audioOut, maxTimecode>>
sealed  == <<cues, duration, finals>>
inputs  == <<video, audio, needKey, flushes>>
eosVars == <<eosVideo, eosAudio, cEOS>>
setup   == <<streams, open, live, buffering, headers, ogg, sessions>>
control == <<pc, ret, closing, stop, cFrames>>

vars == <<queues, file, sealed, inputs, eosVars, setup, control>>

-----------------------------------------------------------------------------
ClusterMs  == 5000      \* kAudioClusterSizeInTimeMs
RframeMs   == 1000      \* "1 sec" in NotifyVideoFrame
WaitMs     == 1000      \* the bound of WaitVideo and WaitAudio
NoStop     == 0         \* a null pvf_stop

VT(p) == video[p].t     \* pvf->GetTimecode()
AT(p) == audio[p].t     \* paf->GetTimecode()
Back(s) == s[Len(s)]

(***************************************************************************)
(* static_cast<SHORT>(tc_): what is left of a relative timecode.           *)
(***************************************************************************)
ToShort(x) == ((x + 32768) % 65536) - 32768

(***************************************************************************)
(* The block that writes frame p (timecode t) to the cluster being         *)
(* created.                                                                *)
(***************************************************************************)
Block(p, t) ==
  [frame |-> p, cluster |-> Len(clusters), num |-> cFrames + 1,
   tc |-> Back(clusters).tc, rel |-> ToShort(t - Back(clusters).tc)]

VideoOver == "video" \notin streams \/ eosVideo
AudioOver == "audio" \notin streams \/ eosAudio

Init ==
  /\ streams = {} /\ open = FALSE /\ live = FALSE /\ buffering = FALSE
  /\ headers = 0 /\ ogg = FALSE /\ sessions = 0
  /\ vframes = <<>> /\ rframes = <<>> /\ aframes = <<>>
  /\ eosVideo = FALSE /\ eosAudio = FALSE /\ cEOS = 0
  /\ clusters = <<>> /\ videoOut = <<>> /\ audioOut = <<>> /\ maxTimecode = 0
  /\ cues = {} /\ duration = 0 /\ finals = 0
  /\ video = <<>> /\ audio = <<>> /\ needKey = TRUE /\ flushes = 0
  /\ pc = "idle" /\ ret = "idle" /\ closing = FALSE
  /\ stop = NoStop /\ cFrames = 0

-----------------------------------------------------------------------------
(***************************************************************************)
(* SetLiveMuxMode: the filter calls it only when stopped.                  *)
(***************************************************************************)
SetLiveMuxMode(mode) ==
  /\ pc = "idle" /\ streams = {} /\ sessions < MaxSessions
  /\ live' = mode
  /\ UNCHANGED <<queues, file, sealed, inputs, eosVars, control, streams, open,
                 buffering, headers, ogg, sessions>>

(***************************************************************************)
(* SetVideoStream and SetAudioStream (the pins' Init) and Open, which the  *)
(* filter does in one go on leaving the stopped state.  hasFile: the       *)
(* output pin has an IStream.  WriteTrack starts buffering when the audio  *)
(* track is Ogg Vorbis.                                                    *)
(***************************************************************************)
Open(ss, hasFile, isOgg) ==
  /\ pc = "idle" /\ streams = {} /\ sessions < MaxSessions
  /\ sessions' = sessions + 1
  /\ streams' = ss /\ open' = hasFile
  /\ ogg' = (isOgg /\ "audio" \in ss) /\ headers' = 0
  /\ buffering' = IF hasFile THEN isOgg /\ "audio" \in ss ELSE buffering
  /\ eosVideo' = FALSE /\ eosAudio' = FALSE
  /\ cEOS' = (IF "video" \in ss THEN 1 ELSE 0) + (IF "audio" \in ss THEN 1 ELSE 0)
  /\ maxTimecode' = 0
  /\ videoOut' = <<>> /\ audioOut' = <<>> /\ video' = <<>> /\ audio' = <<>>
  /\ cues' = {} /\ duration' = 0 /\ finals' = 0
  /\ needKey' = TRUE /\ flushes' = 0
  /\ UNCHANGED <<queues, clusters, live, control>>

-----------------------------------------------------------------------------
(***************************************************************************)
(* WaitVideo and WaitAudio: must the streaming thread that delivered a     *)
(* frame wait for the other stream?                                        *)
(***************************************************************************)
WaitVideo ==
  /\ open /\ ~VideoOver /\ ~AudioOver
  /\ Len(rframes) > 1 /\ VT(Back(rframes)) - VT(Head(rframes)) >= WaitMs
  /\ aframes = <<>> \/ VT(Back(rframes)) - AT(Back(aframes)) > WaitMs

(* Mutated form of WaitAudio: compares with the fronts of the queues.      *)
WaitAudioOnFront ==
  /\ open /\ ~VideoOver /\ ~AudioOver
  /\ aframes # <<>>
  /\ \/ rframes = <<>>
     \/ /\ AT(Back(aframes)) > VT(Head(rframes))
        /\ AT(Back(aframes)) - VT(Head(vframes)) > WaitMs

WaitAudio ==
  /\ open /\ ~VideoOver /\ ~AudioOver
  /\ aframes # <<>>
  /\ \/ rframes = <<>>
     \/ /\ AT(Back(aframes)) > VT(Back(rframes))
        /\ AT(Back(aframes)) - VT(Back(vframes)) > WaitMs

-----------------------------------------------------------------------------
(***************************************************************************)
(* Entry to the cluster loops.                                             *)
(***************************************************************************)
CallNewCluster(s, r) == pc' = "newCluster" /\ ret' = r /\ stop' = s

CallNewClusterAudioOnly(r) ==
  pc' = "newAudioCluster" /\ ret' = r /\ UNCHANGED stop

(***************************************************************************)
(* NotifyVideoFrame: the new frame is a potential start of a cluster when  *)
(* there is none yet, when it is a key frame and, unless live, when it is  *)
(* more than a second after the last one.                                  *)
(***************************************************************************)
IsRframe(t, key) ==
  \/ rframes = <<>>
  \/ key
  \/ ~live /\ t - VT(Back(rframes)) > RframeMs

AudioReached(t) == AudioOver \/ (aframes # <<>> /\ AT(Back(aframes)) >= t)

(***************************************************************************)
(* StreamVideoVPx::Receive and NotifyVideoFrame.  The frames of a stream   *)
(* have increasing timecodes, and a stream (re)starts with a key frame.    *)
(***************************************************************************)
NotifyVideoFrame(t, key) ==
  LET p == Len(video) + 1 IN
  /\ pc = "idle" /\ open /\ "video" \in streams /\ ~eosVideo
  /\ p <= MaxVideo
  /\ Paced => ~WaitVideo
  /\ video # <<>> => Back(video).t < t
  /\ t - (IF video = <<>> THEN 0 ELSE Back(video).t) <= MaxVideoGap
  /\ needKey => key
  /\ video' = Append(video, [t |-> t, key |-> key])
  /\ vframes' = Append(vframes, p)
  /\ rframes' = IF IsRframe(t, key) THEN Append(rframes, p) ELSE rframes
  /\ needKey' = FALSE
  /\ IF rframes # <<>> /\ IsRframe(t, key) /\ AudioReached(t)
     THEN CallNewCluster(p, "idle")
     ELSE UNCHANGED <<pc, ret, stop>>
  /\ UNCHANGED <<aframes, file, sealed, audio, flushes, eosVars, setup, closing, cFrames>>

(***************************************************************************)
(* StreamAudioVorbisOgg::Receive of one of the three header packets; the   *)
(* third writes the buffered track header to the file                      *)
(* (FinalizeTrackCodecPrivate, FlushBufferedData).                         *)
(***************************************************************************)
ReceiveVorbisHeader ==
  /\ pc = "idle" /\ ogg /\ headers < 3 /\ "audio" \in streams /\ ~eosAudio
  /\ headers' = headers + 1
  /\ buffering' = (buffering /\ ~(headers' = 3 /\ open))
  /\ UNCHANGED <<queues, file, sealed, inputs, eosVars, control,
                 streams, open, live, ogg, sessions>>

(***************************************************************************)
(* NotifyAudioFrame: does a frame with timecode t complete a cluster?      *)
(***************************************************************************)
VideoGone == "video" \notin streams \/ (vframes = <<>> /\ eosVideo)

CompletesAudioCluster(t) ==
  VideoGone /\ aframes # <<>> /\ t - AT(Head(aframes)) >= ClusterMs

(* Mutated form of CompletesLastCluster: reaches the first video frame.    *)
CompletesFirstFrame(t) ==
  ~VideoGone /\ vframes # <<>> /\ eosVideo /\ t >= VT(Head(vframes))

CompletesLastCluster(t) ==
  ~VideoGone /\ vframes # <<>> /\ eosVideo /\ t >= VT(Back(vframes))

CompletesCluster(t) ==
  /\ ~VideoGone /\ vframes # <<>> /\ ~eosVideo
  /\ Len(rframes) > 1 /\ t >= VT(rframes[2])

NotifyAudioFrame(t) ==
  LET p == Len(audio) + 1 IN
  /\ pc = "idle" /\ open /\ "audio" \in streams /\ ~eosAudio
  /\ ogg => headers = 3
  /\ p <= MaxAudio
  /\ Paced => ~WaitAudio
  /\ audio # <<>> => Back(audio).t < t
  /\ audio' = Append(audio, [t |-> t])
  /\ aframes' = Append(aframes, p)
  /\ \/ CompletesAudioCluster(t) /\ CallNewClusterAudioOnly("idle")
     \/ CompletesLastCluster(t) /\ CallNewCluster(NoStop, "idle")
     \/ CompletesCluster(t) /\ CallNewCluster(rframes[2], "idle")
     \/ /\ ~CompletesAudioCluster(t) /\ ~CompletesLastCluster(t) /\ ~CompletesCluster(t)
        /\ UNCHANGED <<pc, ret, stop>>
  /\ UNCHANGED <<vframes, rframes, file, sealed, video, needKey, flushes, eosVars,
                 setup, closing, cFrames>>

-----------------------------------------------------------------------------
(***************************************************************************)
(* CreateNewCluster, up to its loop: the cluster header.                   *)
(***************************************************************************)
ClusterTimecode ==
  LET vt == VT(Head(vframes)) IN
  IF aframes = <<>> THEN vt
  ELSE IF AT(Head(aframes)) <= vt THEN AT(Head(aframes)) ELSE vt

CreateNewCluster ==
  /\ pc = "newCluster"
  /\ clusters' = Append(clusters, [tc |-> ClusterTimecode, keys |-> <<>>])
  /\ cFrames' = 0
  /\ pc' = "merge"
  /\ UNCHANGED <<queues, videoOut, audioOut, maxTimecode, sealed, inputs, eosVars,
                 setup, ret, closing, stop>>

(***************************************************************************)
(* The largest audio frame below the stop frame goes to the next cluster,  *)
(* and with it the video frames that follow it.                            *)
(***************************************************************************)
AudioHeldBack ==
  \/ AT(Head(aframes)) >= VT(stop)
  \/ Len(aframes) = 1
  \/ AT(aframes[2]) >= VT(stop)

(***************************************************************************)
(* What the next iteration of CreateNewCluster's loop does.                *)
(***************************************************************************)
MergeChoice ==
  IF vframes = <<>> \/ Head(vframes) = stop THEN "done"
  ELSE IF aframes = <<>> \/ VT(Head(vframes)) < AT(Head(aframes)) THEN "video"
  ELSE IF stop = NoStop \/ ~AudioHeldBack THEN "audio"
  ELSE "done"

(* Mutated form of AudioMergeChoice: no limit on the cluster's time.       *)
AudioMergeUnbounded == IF aframes = <<>> THEN "done" ELSE "audio"

(***************************************************************************)
(* What the next iteration of CreateNewClusterAudioOnly's loop does.       *)
(***************************************************************************)
AudioMergeChoice ==
  IF aframes = <<>> \/ AT(Head(aframes)) - Back(clusters).tc > ClusterMs
  THEN "done" ELSE "audio"

Latest(t) == IF t > maxTimecode THEN t ELSE maxTimecode

(* Mutated form of WithoutRframe: the boundary stays in the queue.         *)
KeepRframe(p) == rframes

(***************************************************************************)
(* CreateNewCluster takes a frame out of rframes just before writing it.   *)
(***************************************************************************)
WithoutRframe(p) == IF rframes # <<>> /\ p = Head(rframes) THEN Tail(rframes) ELSE rframes

(* Mutated form of KeyframeEntry: the count before this block.             *)
KeyframeEntryZeroBased(t) == [t |-> t, block |-> cFrames]

KeyframeEntry(t) == [t |-> t, block |-> cFrames + 1]

(***************************************************************************)
(* WriteVideoFrame: a key frame also leaves an entry for the cues.         *)
(***************************************************************************)
WriteVideoFrame ==
  LET p == Head(vframes) IN
  /\ pc = "merge" /\ MergeChoice = "video"
  /\ rframes' = WithoutRframe(p)
  /\ vframes' = Tail(vframes)
  /\ cFrames' = cFrames + 1
  /\ videoOut' = Append(videoOut, Block(p, VT(p)))
  /\ clusters' = IF video[p].key
                 THEN [clusters EXCEPT ![Len(clusters)].keys =
                         Append(@, KeyframeEntry(VT(p)))]
                 ELSE clusters
  /\ maxTimecode' = Latest(VT(p))
  /\ UNCHANGED <<aframes, audioOut, sealed, inputs, eosVars, setup, pc, ret, closing, stop>>

WriteAudioFrame ==
  LET p == Head(aframes) IN
  /\ \/ pc = "merge" /\ MergeChoice = "audio"
     \/ pc = "audioMerge" /\ AudioMergeChoice = "audio"
  /\ aframes' = Tail(aframes)
  /\ cFrames' = cFrames + 1
  /\ audioOut' = Append(audioOut, Block(p, AT(p)))
  /\ maxTimecode' = Latest(AT(p))
  /\ UNCHANGED <<vframes, rframes, clusters, videoOut, sealed, inputs, eosVars, setup,
                 pc, ret, closing, stop>>

EndCluster ==
  /\ \/ pc = "merge" /\ MergeChoice = "done"
     \/ pc = "audioMerge" /\ AudioMergeChoice = "done"
  /\ pc' = ret
  /\ UNCHANGED <<queues, file, sealed, inputs, eosVars, setup, ret, closing, stop, cFrames>>

CreateNewClusterAudioOnly ==
  /\ pc = "newAudioCluster"
  /\ clusters' = Append(clusters, [tc |-> AT(Head(aframes)), keys |-> <<>>])
  /\ cFrames' = 0
  /\ pc' = "audioMerge"
  /\ UNCHANGED <<queues, videoOut, audioOut, maxTimecode, sealed, inputs, eosVars,
                 setup, ret, closing, stop>>

-----------------------------------------------------------------------------
(***************************************************************************)
(* NotifyVideoEOS and NotifyAudioEOS, called by a pin (pc = "idle") or by  *)
(* Close.  A second call for the same stream returns at once.              *)
(***************************************************************************)
(* Mutated form of AfterEOSFlag: never drains.                             *)
AfterEOSFlagNoDrain(otherOver) == "eos"

AfterEOSFlag(otherOver) == IF open /\ otherOver THEN "drain" ELSE "eos"

NotifyVideoEOS ==
  /\ pc \in {"idle", "close"} /\ "video" \in streams /\ ~eosVideo
  /\ eosVideo' = TRUE
  /\ pc' = AfterEOSFlag(AudioOver)
  /\ UNCHANGED <<queues, file, sealed, inputs, eosAudio, cEOS, setup, ret, closing,
                 stop, cFrames>>

NotifyAudioEOS ==
  /\ \/ pc = "idle"
     \/ pc = "close" /\ VideoOver
  /\ "audio" \in streams /\ ~eosAudio
  /\ eosAudio' = TRUE
  /\ pc' = AfterEOSFlag(VideoOver)
  /\ UNCHANGED <<queues, file, sealed, inputs, eosVideo, cEOS, setup, ret, closing,
                 stop, cFrames>>

(* Mutated form of Drain: it ends when the video queue is empty.           *)
DrainVideo ==
  /\ pc = "drain"
  /\ \/ vframes # <<>> /\ CallNewCluster(NoStop, "drain")
     \/ vframes = <<>> /\ pc' = "eos" /\ UNCHANGED <<ret, stop>>
  /\ UNCHANGED <<queues, file, sealed, inputs, eosVars, setup, closing, cFrames>>

(***************************************************************************)
(* The loop of Notify*EOS that writes whatever is queued.                  *)
(***************************************************************************)
Drain ==
  /\ pc = "drain"
  /\ \/ vframes # <<>> /\ CallNewCluster(NoStop, "drain")
     \/ vframes = <<>> /\ aframes # <<>> /\ CallNewClusterAudioOnly("drain")
     \/ vframes = <<>> /\ aframes = <<>> /\ pc' = "eos" /\ UNCHANGED <<ret, stop>>
  /\ UNCHANGED <<queues, file, sealed, inputs, eosVars, setup, closing, cFrames>>

Resume == IF closing THEN "close" ELSE "idle"

(* Mutated form of EOS: the first end of stream finalises the file.        *)
EOSOfAnyStream ==
  /\ pc = "eos"
  /\ cEOS' = cEOS - 1
  /\ pc' = "final"
  /\ UNCHANGED <<queues, file, sealed, inputs, eosVideo, eosAudio, setup, ret, closing,
                 stop, cFrames>>

EOS ==
  /\ pc = "eos"
  /\ cEOS' = cEOS - 1
  /\ pc' = IF cEOS' > 0 THEN Resume ELSE "final"
  /\ UNCHANGED <<queues, file, sealed, inputs, eosVideo, eosAudio, setup, ret, closing,
                 stop, cFrames>>

(***************************************************************************)
(* Final and FinalSegment: cues, duration, and the stream is let go.       *)
(***************************************************************************)
CuePoints ==
  UNION {{[t |-> clusters[i].keys[k].t, cluster |-> i, block |-> clusters[i].keys[k].block] :
            k \in DOMAIN clusters[i].keys} : i \in DOMAIN clusters}

(* Mutated form of FinalSegment: does not test for the stream.             *)
FinalSegmentAlways ==
  /\ open' = FALSE
  /\ finals' = finals + 1
  /\ cues' = IF ~live /\ "video" \in streams THEN CuePoints ELSE cues
  /\ duration' = IF ~live THEN maxTimecode ELSE duration
  /\ clusters' = <<>>
  /\ UNCHANGED <<queues, videoOut, audioOut, maxTimecode, inputs, eosVars, streams, live,
                 buffering, headers, ogg, sessions, ret, closing, stop, cFrames>>

FinalSegment ==
  /\ open' = FALSE
  /\ finals' = IF open THEN finals + 1 ELSE finals
  /\ cues' = IF open /\ ~live /\ "video" \in streams THEN CuePoints ELSE cues
  /\ duration' = IF open /\ ~live THEN maxTimecode ELSE duration
  /\ clusters' = IF open THEN <<>> ELSE clusters
  /\ UNCHANGED <<queues, videoOut, audioOut, maxTimecode, inputs, eosVars, streams, live,
                 buffering, headers, ogg, sessions, ret, closing, stop, cFrames>>

Final == pc = "final" /\ FinalSegment /\ pc' = Resume

-----------------------------------------------------------------------------
(***************************************************************************)
(* FlushVideo and FlushAudio.                                              *)
(***************************************************************************)
FlushVideo ==
  /\ pc = "idle" /\ "video" \in streams /\ flushes < MaxFlush
  /\ flushes' = flushes + 1 /\ needKey' = TRUE
  /\ pc' = IF open THEN "flushVideo" ELSE "idle"
  /\ UNCHANGED <<queues, file, sealed, video, audio, eosVars, setup, ret, closing, stop, cFrames>>

FlushAudio ==
  /\ pc = "idle" /\ "audio" \in streams /\ flushes < MaxFlush
  /\ flushes' = flushes + 1
  /\ pc' = IF open THEN "flushAudio" ELSE "idle"
  /\ UNCHANGED <<queues, file, sealed, video, audio, needKey, eosVars, setup, ret, closing,
                 stop, cFrames>>

FlushVideoLoop ==
  /\ pc = "flushVideo"
  /\ \/ vframes # <<>> /\ CallNewCluster(NoStop, "flushVideo")
     \/ vframes = <<>> /\ pc' = "idle" /\ UNCHANGED <<ret, stop>>
  /\ UNCHANGED <<queues, file, sealed, inputs, eosVars, setup, closing, cFrames>>

(* Mutated form of FlushAudioLoop: nothing is done when only audio is left.*)
FlushAudioLoopVideoOnly ==
  /\ pc = "flushAudio"
  /\ \/ aframes # <<>> /\ vframes # <<>> /\ CallNewCluster(NoStop, "flushAudio")
     \/ aframes # <<>> /\ vframes = <<>> /\ UNCHANGED <<pc, ret, stop>>
     \/ aframes = <<>> /\ pc' = "idle" /\ UNCHANGED <<ret, stop>>
  /\ UNCHANGED <<queues, file, sealed, inputs, eosVars, setup, closing, cFrames>>

FlushAudioLoop ==
  /\ pc = "flushAudio"
  /\ \/ aframes # <<>> /\ vframes # <<>> /\ CallNewCluster(NoStop, "flushAudio")
     \/ aframes # <<>> /\ vframes = <<>> /\ CallNewClusterAudioOnly("flushAudio")
     \/ aframes = <<>> /\ pc' = "idle" /\ UNCHANGED <<ret, stop>>
  /\ UNCHANGED <<queues, file, sealed, inputs, eosVars, setup, closing, cFrames>>

-----------------------------------------------------------------------------
(***************************************************************************)
(* Close, and the pins' Final that follows it in Filter::Stop: the two EOS *)
(* notifications, Final, and then the streams are deleted with whatever    *)
(* their queues hold.                                                      *)
(***************************************************************************)
Close ==
  /\ pc = "idle" /\ streams # {}
  /\ closing' = TRUE /\ pc' = "close"
  /\ UNCHANGED <<queues, file, sealed, inputs, eosVars, setup, ret, stop, cFrames>>

CloseFinal == pc = "close" /\ VideoOver /\ AudioOver /\ FinalSegment /\ pc' = "detach"

DeleteStreams ==
  /\ pc = "detach"
  /\ streams' = {} /\ vframes' = <<>> /\ rframes' = <<>> /\ aframes' = <<>>
  /\ closing' = FALSE /\ pc' = "idle"
  /\ UNCHANGED <<file, sealed, inputs, eosVars, open, live, buffering, headers, ogg,
                 sessions, ret, stop, cFrames>>

-----------------------------------------------------------------------------
(***************************************************************************)
(* The calls from outside, and the steps of the thread that is inside.     *)
(***************************************************************************)
EntryPoint ==
  \/ \E mode \in LiveModes : SetLiveMuxMode(mode)
  \/ \E ss \in StreamSets, hasFile \in BOOLEAN, isOgg \in OggModes : Open(ss, hasFile, isOgg)
  \/ \E t \in VideoTimes, key \in BOOLEAN : NotifyVideoFrame(t, key)
  \/ ReceiveVorbisHeader
  \/ \E t \in AudioTimes : NotifyAudioFrame(t)
  \/ pc = "idle" /\ NotifyVideoEOS
  \/ pc = "idle" /\ NotifyAudioEOS
  \/ FlushVideo \/ FlushAudio
  \/ Close

InternalStep ==
  \/ CreateNewCluster \/ CreateNewClusterAudioOnly
  \/ WriteVideoFrame \/ WriteAudioFrame \/ EndCluster
  \/ Drain \/ EOS \/ Final
  \/ FlushVideoLoop \/ FlushAudioLoop
  \/ pc = "close" /\ NotifyVideoEOS
  \/ pc = "close" /\ NotifyAudioEOS
  \/ CloseFinal \/ DeleteStreams

Next == EntryPoint \/ InternalStep

Spec == Init /\ [][Next]_vars

(* The thread inside the context holds the lock and does not block. *)
FairSpec == Spec /\ WF_vars(InternalStep)

-----------------------------------------------------------------------------
(***************************************************************************)
(* Types.                                                                  *)
(***************************************************************************)
BlockType == [frame : Nat, cluster : Nat, num : Nat, tc : Nat, rel : Int]

PCs == {"idle", "newCluster", "merge", "newAudioCluster", "audioMerge", "drain", "eos",
        "final", "flushVideo", "flushAudio", "close", "detach"}

(* Every variable holds a value the code's declarations allow. *)
TypeOK ==
  /\ streams \in SUBSET {"video", "audio"}
  /\ open \in BOOLEAN /\ live \in BOOLEAN /\ buffering \in BOOLEAN /\ ogg \in BOOLEAN
  /\ headers \in 0..3 /\ sessions \in 0..MaxSessions
  /\ vframes \in Seq(Nat) /\ rframes \in Seq(Nat) /\ aframes \in Seq(Nat)
  /\ eosVideo \in BOOLEAN /\ eosAudio \in BOOLEAN /\ cEOS \in Int
  /\ maxTimecode \in Nat /\ duration \in Nat /\ finals \in Nat
  /\ clusters \in Seq([tc : Nat, keys : Seq([t : Nat, block : Nat])])
  /\ pc \in PCs /\ ret \in {"idle", "drain", "flushVideo", "flushAudio"}
  /\ closing \in BOOLEAN /\ stop \in Nat /\ cFrames \in Nat
  /\ video \in Seq([t : Nat, key : BOOLEAN]) /\ audio \in Seq([t : Nat])
  /\ videoOut \in Seq(BlockType) /\ audioOut \in Seq(BlockType)
  /\ cues \subseteq [t : Nat, cluster : Nat, block : Nat]
  /\ needKey \in BOOLEAN /\ flushes \in 0..MaxFlush

-----------------------------------------------------------------------------
(***************************************************************************)
(* Safety.                                                                 *)
(***************************************************************************)

(* No frame is lost, written twice or written out of turn: what a stream   *)
(* has delivered is what the file holds followed by what the queue holds,  *)
(* through every cluster cut, flush, end of stream and stop (the queues    *)
(* are deleted by DeleteStreams whatever they hold).                       *)
FramesKept ==
  /\ Len(videoOut) + Len(vframes) = Len(video)
  /\ Len(audioOut) + Len(aframes) = Len(audio)
  /\ \A i \in 1..Len(videoOut) : videoOut[i].frame = i
  /\ \A i \in 1..Len(audioOut) : audioOut[i].frame = i
  /\ \A i \in 1..Len(vframes) : vframes[i] = Len(videoOut) + i
  /\ \A i \in 1..Len(aframes) : aframes[i] = Len(audioOut) + i

(* The pointers rframes keeps are to frames still queued, in queue order   *)
(* (the objects are released when written), some boundary is known while   *)
(* video is queued, and the stop frame of the cluster being created is     *)
(* still ahead of the merge (CreateNewCluster asserts pvf # pvf_stop).     *)
PointersValid ==
  /\ \A i \in 1..Len(rframes) : rframes[i] \in Len(videoOut) + 1 .. Len(video)
  /\ \A i, j \in 1..Len(rframes) : i < j => rframes[i] < rframes[j]
  /\ vframes # <<>> => rframes # <<>> \/ (pc = "merge" /\ stop = NoStop)
  /\ pc \in {"newCluster", "merge"} /\ stop # NoStop =>
       \E i \in 1..Len(rframes) : rframes[i] = stop
  /\ pc = "newCluster" => vframes # <<>> /\ Head(vframes) # stop

FileBlocks ==
  {[c |-> videoOut[i].cluster, n |-> videoOut[i].num, t |-> VT(videoOut[i].frame)] :
     i \in 1..Len(videoOut)} \cup
  {[c |-> audioOut[i].cluster, n |-> audioOut[i].num, t |-> AT(audioOut[i].frame)] :
     i \in 1..Len(audioOut)}

(* Without a flush the file is ordered by time over both tracks, across    *)
(* cluster boundaries: what the hold-back rules of the merge are for.      *)
FileInOrder ==
  flushes = 0 =>
    \A a, b \in FileBlocks : a.c < b.c \/ (a.c = b.c /\ a.n < b.n) => a.t <= b.t

(* WriteBlock: tc_ >= SHRT_MIN and tc_ <= SHRT_MAX, so that a player gets  *)
(* back the timecode of the frame.                                         *)
BlockTimecodeFits ==
  /\ \A i \in 1..Len(videoOut) : videoOut[i].tc + videoOut[i].rel = VT(videoOut[i].frame)
  /\ \A i \in 1..Len(audioOut) : audioOut[i].tc + audioOut[i].rel = AT(audioOut[i].frame)

(* The index of a finalised file: exactly one cue per key frame, naming    *)
(* the cluster and block number the frame was written at, and the duration *)
(* is the time of the last frame in the file.                              *)
IndexMatchesFile ==
  finals > 0 /\ ~live /\ streams # {} =>
    /\ cues = {[t |-> VT(videoOut[i].frame), cluster |-> videoOut[i].cluster,
                block |-> videoOut[i].num] :
                 i \in {j \in 1..Len(videoOut) : video[videoOut[j].frame].key}}
    /\ \A b \in FileBlocks : b.t <= duration
    /\ FileBlocks # {} => \E b \in FileBlocks : b.t = duration

(* A session that accepted a frame finalises its file exactly once, when   *)
(* both streams have ended and nothing is queued, whether the end came     *)
(* from the streams, from Stop, or one from each; and cEOS never goes      *)
(* negative (EOS asserts m_cEOS > 0).                                      *)
FinalisedOnce ==
  /\ finals <= 1
  /\ pc = "eos" => cEOS > 0
  /\ finals = 1 => ~open /\ vframes = <<>> /\ rframes = <<>> /\ aframes = <<>>
  /\ pc = "detach" /\ (video # <<>> \/ audio # <<>>) => finals = 1

(* The two streaming threads are never both told to wait for each other.   *)
NoMutualWait == ~(WaitVideo /\ WaitAudio)

(***************************************************************************)
(* Action properties.                                                      *)
(***************************************************************************)

(* Once finalised, nothing is written to the file.                         *)
SealedIsFinal ==
  [][finals > 0 /\ sessions' = sessions =>
       UNCHANGED <<videoOut, audioOut, cues, duration, finals>>]_vars

(***************************************************************************)
(* Liveness.                                                               *)
(***************************************************************************)

(* Every entry point returns: the loops that create clusters until the     *)
(* queues are empty (end of stream, flush) never create one that takes     *)
(* nothing from a queue for ever.                                          *)
CallsReturn == pc # "idle" ~> pc = "idle"

=============================================================================
