----------------------------- MODULE Vp8Encoder -----------------------------
(***************************************************************************)
(* The VP8 encoder filter at work (src/vp8encoder/vp8encoderinpin.cc and   *)
(* vp8encoderfilter.cc): the streaming thread of a source gives it         *)
(* samples, which are shown on the preview pin, encoded, and passed on     *)
(* frame by frame; a seeking thread flushes; the application starts,       *)
(* stops, and asks for key frames.                                         *)
(*                                                                         *)
(* The filter lock is given up while a sample is rendered on the preview   *)
(* pin, in GetBuffer and in a call downstream; between two such places all *)
(* is one action.  The codec is a library: it keeps some frames back and   *)
(* gives them out in order, one as soon as it has more than that.          *)
(*                                                                         *)
(* The times of samples are in units of 100 ns and those of the codec in   *)
(* milliseconds.  A frame is the sample it shows (`from', the time for     *)
(* which it was encoded, in 100 ns), its time in the codec's units (`pts') *)
(* and, when it has come out, in 100 ns again (`start'), and whether it is *)
(* a key frame.                                                            *)
(***************************************************************************)
EXTENDS Integers, Sequences, SequencesExt

CONSTANTS
  LagsInFrames, \* frames the codec keeps back (g_lag_in_frames)
  Intervals,   \* m_keyframe_interval, 0 for none; a codec with one makes no
               \* key frames of its own (kKeyframeModeDisabled)
  Decimates,   \* m_decimate
  Origins,     \* times of the first sample of a session, or after a seek
  Steps,       \* times between two samples
  NBuffers,    \* buffers of the video output pin's allocator
  MaxSamples,  \* bound: samples of a session
  MaxSessions, \* bound: starts
  MaxFlushes,  \* bound: seeks
  MaxRequests  \* bound: SetForceKeyframe calls

ASSUME EncoderAssumption ==
  /\ LagsInFrames \subseteq Nat /\ Intervals \subseteq Nat /\ Decimates \subseteq Nat \ {0}
  /\ Origins \subseteq Int /\ Origins # {} /\ Steps \subseteq Nat \ {0}
  /\ NBuffers \in Nat \ {0}

VARIABLES
  lagInFrames, interval, decimate,  \* g_lag_in_frames, m_keyframe_interval, m_decimate
  active,     \* m_state # State_Stopped, and then m_ctx is initialised
  eos, flush, \* m_bEndOfStream, m_bFlush
  start,      \* m_start_reftime, -1: no sample yet
  received,   \* m_frames_received
  force,      \* m_bForceKeyframe
  lastKey,    \* m_last_keyframe_time, in 100 ns
  disc,       \* m_bDiscontinuity
  inCodec,    \* frames the codec keeps back
  pending,    \* m_pending
  committed,  \* whether the allocator hands out buffers
  held,       \* buffers downstream has
  down,       \* downstream: "open", "flush", "stopped"
  up,         \* the streaming thread: place, call, and its sample's time and flag
  time,       \* the source's next time
  seek,       \* the seeking thread: "none", "begin", "flushed", "end"
  given,      \* frames the codec was given since the last start
  sent,       \* frames put into samples since then
  short,      \* since then a frame was not taken, or no buffer was to be had
  ended,      \* downstream has the end of stream
  due,        \* a key frame has been asked for and none encoded since
  receives, sessions, flushes, requests

settings == <<lagInFrames, interval, decimate>>
pin      == <<eos, flush, start, received, lastKey, disc>>
encoder  == <<inCodec, given>>
outpin   == <<committed, held, down>>
history  == <<sent, short, ended>>
bounds   == <<receives, sessions, flushes, requests>>
encVars  == <<settings, active, pin, force, encoder, pending, outpin, up, time, seek,
              history, due, bounds>>

Idle == [at |-> "idle"]

Ms == 10000  \* a millisecond

EncoderInit ==
  /\ lagInFrames \in LagsInFrames /\ interval \in Intervals /\ decimate \in Decimates
  /\ active = FALSE /\ eos = FALSE /\ flush = FALSE
  /\ start = -1 /\ received = 0 /\ force = FALSE /\ lastKey = 0 /\ disc = FALSE
  /\ inCodec = <<>> /\ pending = <<>> /\ given = <<>> /\ sent = <<>>
  /\ committed = FALSE /\ held = 0 /\ down = "stopped"
  /\ up = Idle /\ time \in Origins /\ seek = "none"
  /\ short = FALSE /\ ended = FALSE /\ due = FALSE
  /\ receives = 0 /\ sessions = 0 /\ flushes = 0 /\ requests = 0

-----------------------------------------------------------------------------
(* The application.                                                        *)

(* (Mutated form: frames of the last session are not purged.)              *)
StartWithPending ==
  /\ ~active /\ up = Idle /\ seek = "none" /\ sessions < MaxSessions
  /\ active' = TRUE /\ eos' = FALSE /\ flush' = FALSE /\ start' = -1 /\ disc' = TRUE
  /\ inCodec' = <<>> /\ given' = <<>> /\ sent' = <<>> /\ short' = FALSE /\ ended' = FALSE
  /\ committed' = TRUE /\ down' = "open" /\ time' \in Origins /\ receives' = 0
  /\ sessions' = sessions + 1
  /\ UNCHANGED <<settings, received, force, lastKey, pending, held, up, seek, due, flushes,
                 requests>>

(* Filter::Pause or Run of a stopped filter: Inpin::Start, and the commit  *)
(* of the allocators.  The source's thread starts after it.                *)
StartFilter ==
  /\ ~active /\ up = Idle /\ seek = "none" /\ sessions < MaxSessions
  /\ active' = TRUE /\ eos' = FALSE /\ flush' = FALSE /\ start' = -1 /\ disc' = TRUE
  /\ inCodec' = <<>> /\ pending' = <<>>
  /\ given' = <<>> /\ sent' = <<>> /\ short' = FALSE /\ ended' = FALSE
  /\ committed' = TRUE /\ down' = "open" /\ time' \in Origins /\ receives' = 0
  /\ sessions' = sessions + 1
  /\ UNCHANGED <<settings, received, force, lastKey, held, up, seek, due, flushes, requests>>

(* A graph is stopped from its renderers up: first the filters downstream, *)
(* which let go of their samples.                                          *)
DownstreamStops ==
  /\ active /\ down = "open" /\ down' = "stopped" /\ held' = 0
  /\ UNCHANGED <<settings, active, pin, force, encoder, pending, committed, up, time, seek,
                 history, due, bounds>>

(* Filter::Stop: the allocators are decommitted and the codec destroyed,   *)
(* wherever the streaming thread is.                                       *)
StopFilter ==
  /\ active /\ down = "stopped"
  /\ active' = FALSE /\ committed' = FALSE /\ inCodec' = <<>>
  /\ UNCHANGED <<settings, pin, force, given, pending, held, down, up, time, seek, history,
                 due, bounds>>

SetForceKeyframe ==
  /\ requests < MaxRequests /\ requests' = requests + 1
  /\ force' = TRUE /\ due' = TRUE
  /\ UNCHANGED <<settings, active, pin, encoder, pending, outpin, up, time, seek, history,
                 receives, sessions, flushes>>

ClearForceKeyframe ==
  /\ force /\ force' = FALSE /\ due' = FALSE
  /\ UNCHANGED <<settings, active, pin, encoder, pending, outpin, up, time, seek, history,
                 bounds>>

-----------------------------------------------------------------------------
(* Inpin::Receive.  A sample is refused when the filter is stopped, at the *)
(* end of stream and during a flush; of `decimate' samples one is used.    *)
Sample(d, discont) ==
  /\ up = Idle /\ active /\ ~eos /\ ~flush /\ receives < MaxSamples
  /\ receives' = receives + 1 /\ time' = time + d
  /\ received' = IF decimate > 1 THEN received + 1 ELSE received
  /\ up' = IF decimate > 1 /\ received % decimate # 0 THEN Idle
           ELSE [at |-> "render", t |-> time, disc |-> discont]
  /\ UNCHANGED <<settings, active, eos, flush, start, force, lastKey, disc, encoder, pending,
                 outpin, seek, history, due, sessions, flushes, requests>>

(* What comes out of the codec when it has the frames q and keeps n back.  *)
Out(q, n) == SubSeq(q, 1, Len(q) - n)
Kept(q, n) == SubSeq(q, Len(q) - n + 1, Len(q))

(* AppendFrame, for each of the frames q that come out: their times are    *)
(* scaled back, which does not bring back what was cut off.                *)
Stamp(f) == [from |-> f.from, start |-> f.pts * Ms, key |-> f.key]
Stamped(q) == [i \in DOMAIN q |-> Stamp(q[i])]

LastKeyOf(q) == CHOOSE k \in DOMAIN q : q[k].key /\ \A j \in k + 1 .. Len(q) : ~q[j].key

(* (Mutated form: the time of the key frame is left in milliseconds.)      *)
AppendFramesInMs(q) ==
  /\ pending' = pending \o Stamped(q)
  /\ lastKey' = IF \E i \in DOMAIN q : q[i].key THEN q[LastKeyOf(q)].pts ELSE lastKey

AppendFrames(q) ==
  /\ pending' = pending \o Stamped(q)
  /\ lastKey' = IF \E i \in DOMAIN q : q[i].key THEN Stamp(q[LastKeyOf(q)]).start ELSE lastKey

Continue(call) ==
  up' = IF pending' # <<>> THEN [at |-> "getbuffer", call |-> call]
        ELSE IF call = "eos" THEN [at |-> "end"] ELSE Idle

(* (Mutated form: the time of the last sample is not looked at.)           *)
UsedAnyway == up.t >= 0

(* A sample that has a negative time, or is not later than the last one,   *)
(* is dropped.                                                             *)
Used == up.t >= 0 /\ (start < 0 \/ up.t > start)

(* (Mutated form: a frame just an interval after the last is not forced.)  *)
ForcedLate ==
  \/ force \/ up.disc \/ start < 0
  \/ interval > 0 /\ up.t - lastKey > interval

Forced ==
  \/ force \/ up.disc \/ start < 0
  \/ interval > 0 /\ up.t - lastKey >= interval

(* What the codec is given: the first sample's time is zero, whatever it   *)
(* was, and that of another is cut down to milliseconds.                   *)
Picture(t) == [from |-> t, pts |-> t \div Ms, key |-> Forced]

(* After Render, with the lock again: the sample is encoded, whatever has  *)
(* happened meanwhile.  A codec that Stop has destroyed refuses it, which  *)
(* a debug build asserts it does not; one that is given a time twice takes *)
(* it.                                                                     *)
Encode ==
  /\ up.at = "render"
  /\ IF ~Used
     THEN /\ up' = Idle
          /\ UNCHANGED <<start, force, due, lastKey, encoder, pending>>
     ELSE /\ start' = IF start < 0 THEN 0 ELSE up.t
          /\ force' = IF force \/ up.disc \/ start < 0 THEN FALSE ELSE force
          /\ IF ~active THEN UNCHANGED <<encoder, pending, lastKey, due>>
             ELSE LET f == Picture(start')
                      q == Append(inCodec, f)
                      n == IF Len(q) < lagInFrames THEN Len(q) ELSE lagInFrames
                  IN  /\ given' = Append(given, f)
                      /\ due' = (due /\ ~f.key)
                      /\ inCodec' = Kept(q, n) /\ AppendFrames(Out(q, n))
          /\ Continue("receive")
  /\ UNCHANGED <<settings, active, eos, flush, received, disc, outpin, time, seek, history,
                 bounds>>

(* (Mutated form: the codec is not asked for what it has kept back.)       *)
EndOfStreamAsIs ==
  /\ up = Idle /\ active /\ ~flush /\ ~eos /\ eos' = TRUE
  /\ UNCHANGED <<inCodec, lastKey, pending>>
  /\ Continue("eos")
  /\ UNCHANGED <<settings, active, flush, start, received, force, disc, given, outpin, time,
                 seek, history, due, bounds>>

(* Inpin::EndOfStream: the codec gives out what it has kept back.          *)
EndOfStream ==
  /\ up = Idle /\ active /\ ~flush /\ ~eos /\ eos' = TRUE
  /\ inCodec' = <<>> /\ AppendFrames(inCodec)
  /\ Continue("eos")
  /\ UNCHANGED <<settings, active, flush, start, received, force, disc, given, outpin, time,
                 seek, history, due, bounds>>

-----------------------------------------------------------------------------
(* The loop of Receive and EndOfStream over the pending frames: a buffer   *)
(* without the lock, the frame with it, the call downstream without it.    *)
(* When one fails Receive returns and EndOfStream passes on the end.       *)
Fails == up' = (IF up.call = "eos" THEN [at |-> "end"] ELSE Idle) /\ short' = TRUE

GetBuffer ==
  /\ up.at = "getbuffer" /\ committed /\ held < NBuffers
  /\ up' = [up EXCEPT !.at = "populate"]
  /\ UNCHANGED <<settings, active, pin, force, encoder, pending, outpin, time, seek, history,
                 due, bounds>>

GetBufferFails ==
  /\ up.at = "getbuffer" /\ ~committed /\ Fails
  /\ UNCHANGED <<settings, active, pin, force, encoder, pending, outpin, time, seek, sent,
                 ended, due, bounds>>

PopulateSample ==
  /\ up.at = "populate" /\ up' = [up EXCEPT !.at = "deliver"]
  /\ sent' = Append(sent, [from |-> Head(pending).from, start |-> Head(pending).start,
                           key |-> Head(pending).key, disc |-> disc])
  /\ pending' = Tail(pending) /\ disc' = FALSE
  /\ UNCHANGED <<settings, active, eos, flush, start, received, lastKey, force, encoder, outpin,
                 time, seek, short, ended, due, bounds>>

Delivered ==
  /\ up.at = "deliver" /\ down = "open"
  /\ held' = held + 1 /\ pending' = pending /\ Continue(up.call)
  /\ UNCHANGED <<settings, active, pin, force, encoder, committed, down, time, seek, history,
                 due, bounds>>

Refused ==
  /\ up.at = "deliver" /\ down # "open" /\ Fails
  /\ UNCHANGED <<settings, active, pin, force, encoder, pending, outpin, time, seek, sent,
                 ended, due, bounds>>

(* The end of stream goes to the preview pin and then to the video pin,    *)
(* where a filter that is flushed or stopped ignores it.                   *)
PassEnd ==
  /\ up.at = "end" /\ up' = Idle /\ ended' = (down = "open")
  /\ UNCHANGED <<settings, active, pin, force, encoder, pending, outpin, time, seek, sent, short,
                 due, bounds>>

DownstreamReleases ==
  /\ held > 0 /\ held' = held - 1
  /\ UNCHANGED <<settings, active, pin, force, encoder, pending, committed, down, up, time,
                 seek, history, due, bounds>>

-----------------------------------------------------------------------------
(* A seek: BeginFlush and EndFlush each change m_bFlush and are then       *)
(* passed on.  The source's thread has returned before EndFlush and starts *)
(* after it, at a time of its own.  Nothing of the pin is reset.           *)
BeginFlush ==
  /\ active /\ seek = "none" /\ flushes < MaxFlushes /\ flushes' = flushes + 1
  /\ flush' = TRUE /\ seek' = "begin"
  /\ UNCHANGED <<settings, active, eos, start, received, lastKey, disc, force, encoder, pending,
                 outpin, up, time, history, due, receives, sessions, requests>>

PassBeginFlush ==
  /\ seek = "begin" /\ seek' = "flushed"
  /\ IF down = "open" THEN down' = "flush" /\ held' = 0 /\ ended' = FALSE
                      ELSE UNCHANGED <<down, held, ended>>
  /\ UNCHANGED <<settings, active, pin, force, encoder, pending, committed, up, time, sent,
                 short, due, bounds>>

EndFlush ==
  /\ seek = "flushed" /\ up = Idle
  /\ flush' = FALSE /\ seek' = "end" /\ time' \in Origins
  /\ UNCHANGED <<settings, active, eos, start, received, lastKey, disc, force, encoder, pending,
                 outpin, up, history, due, bounds>>

PassEndFlush ==
  /\ seek = "end" /\ up = Idle /\ seek' = "none"
  /\ down' = IF down = "flush" THEN "open" ELSE down
  /\ UNCHANGED <<settings, active, pin, force, encoder, pending, committed, held, up, time,
                 history, due, bounds>>

-----------------------------------------------------------------------------
Source ==
  /\ seek = "none"
  /\ EndOfStream \/ \E d \in Steps : \E discont \in BOOLEAN : Sample(d, discont)

Streaming ==
  \/ Encode \/ GetBuffer \/ GetBufferFails \/ PopulateSample
  \/ Delivered \/ Refused \/ PassEnd

EncoderNext ==
  \/ StartFilter \/ DownstreamStops \/ StopFilter
  \/ SetForceKeyframe \/ ClearForceKeyframe
  \/ Source \/ Streaming \/ DownstreamReleases
  \/ BeginFlush \/ PassBeginFlush \/ EndFlush \/ PassEndFlush

EncoderSpec == EncoderInit /\ [][EncoderNext]_encVars

-----------------------------------------------------------------------------
(***************************************************************************)
(* Types.                                                                  *)
(***************************************************************************)
CodecFrames == [from : Nat, pts : Nat, key : BOOLEAN]
Frames      == [from : Nat, start : Nat, key : BOOLEAN]

EncoderTypeOK ==
  /\ start \in Nat \cup {-1} /\ received \in Nat /\ lastKey \in Nat /\ time \in Int
  /\ {active, eos, flush, force, disc, committed, short, ended, due} \subseteq BOOLEAN
  /\ inCodec \in Seq(CodecFrames) /\ pending \in Seq(Frames) /\ given \in Seq(CodecFrames)
  /\ held \in 0 .. NBuffers
  /\ up.at = "populate" => pending # <<>>

(***************************************************************************)
(* Frames leave the filter in the order in which they were encoded, none   *)
(* twice and none left out, through flushes, stops and calls that fail     *)
(* half way; each is of a later sample than the one before, and starts     *)
(* less than a millisecond before it, and not after it; and when           *)
(* downstream is told that the stream has ended it has all of them.        *)
(* (AppendFrame and PopulateSample; two frames may well start at the same  *)
(* time.)                                                                  *)
(***************************************************************************)
Plain(s) == [i \in DOMAIN s |-> [from |-> s[i].from, start |-> s[i].start, key |-> s[i].key]]

FramesInOrder ==
  /\ EncoderTypeOK
  /\ IsPrefix(Plain(sent) \o pending \o Stamped(inCodec), Stamped(given))
  /\ active => Len(sent) + Len(pending) + Len(inCodec) = Len(given)
  /\ \A i \in 1 .. Len(given) - 1 : given[i].from < given[i + 1].from
  /\ \A i \in DOMAIN sent : sent[i].from - sent[i].start \in 0 .. Ms - 1
  /\ \A i \in DOMAIN sent : sent[i].disc = (i = 1)
  /\ ended /\ ~short => Len(sent) = Len(given)

(***************************************************************************)
(* Key frames come when they are asked for (vp8encoder.idl, ``Force        *)
(* Keyframe'' and ``Fixed keyframe interval''): the first frame of a       *)
(* session is one; a request is not forgotten before a frame has met it,   *)
(* whatever samples are dropped meanwhile; and no frame whose sample is an *)
(* interval or more later than that of the last key frame is a delta       *)
(* frame, though the time of the one is cut down and that of the other is  *)
(* not (line 836 of vp8encoderinpin.cc).  The last part is about the first *)
(* session, and later ones of a codec that keeps nothing back:             *)
(* m_last_keyframe_time is not reset by Start.                             *)
(***************************************************************************)
LastKeyBefore(i) == CHOOSE k \in 1 .. i - 1 :
  given[k].key /\ \A j \in k + 1 .. i - 1 : ~given[j].key

NotLate ==
  /\ given # <<>> => given[1].key
  /\ due => force \/ given = <<>> \/ ~active
  /\ interval > 0 /\ (sessions = 1 \/ lagInFrames = 0) =>
       \A i \in 2 .. Len(given) :
         ~given[i].key => given[i].from - given[LastKeyBefore(i)].from < interval

(* Nor do they come when they are not: a frame that is a key frame for the *)
(* interval alone is of a sample later than that of the last key frame by  *)
(* the interval, or less than the millisecond short of it that was cut     *)
(* off, in all sessions of a codec that keeps nothing back.                *)
NotEarly ==
  LET n == Len(given) + 1
  IN  Len(given') = n /\ n > 1 /\ given'[n].key /\ ~force /\ ~up.disc /\ lagInFrames = 0 =>
        interval > 0 /\ given'[n].from - given[LastKeyBefore(n)].from > interval - Ms

KeyFramesInTime == []NotLate /\ [][NotEarly]_encVars

=============================================================================
