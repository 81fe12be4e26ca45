----------------------------- MODULE OggSource ------------------------------
(***************************************************************************)
(* The Ogg file source (src/webmoggsource): the parser that makes packets  *)
(* of the pages of a file (oggparser.cc), the track that gathers the       *)
(* packets of one granule position (oggtrackaudio.cc), and the output      *)
(* pin's thread that delivers them while the application starts and stops  *)
(* the filter (webmoggsourceoutpin.cc, webmoggsourcefilter.cc).            *)
(*                                                                         *)
(* The Vorbis stream is a sequence of segments, "full" or "less" than 255  *)
(* bytes; a packet ends with one that is less.  A file is the segments of  *)
(* the stream and the pages that carry them, which may be interleaved with *)
(* pages of other streams.  A packet is the numbers of its segments.       *)
(* What is done with the filter lock is one action; Stop gives it up       *)
(* before it stops the pin.                                                *)
(***************************************************************************)
EXTENDS Integers, Sequences, FiniteSets, SequencesExt

CONSTANTS
  OggFiles,      \* files: [lacing, pages]
  SegmentLimit,  \* 255: segments a page can have
  HeaderPages,   \* 10: what GetPacket may read for a header packet
  OggSessions    \* bound: starts

ASSUME OggAssumption ==
  /\ SegmentLimit \in Nat \ {0} /\ HeaderPages \in Nat \ {0} /\ OggSessions \in Nat
  /\ \A f \in OggFiles : \A i \in DOMAIN f.pages :
       Len(f.pages[i].lacing) \in 1 .. SegmentLimit

VARIABLES
  file,        \* the file
  oggState,    \* "unloaded", "refused", "stopped", "active"
  subtype,     \* of the connection: "none", "packets" or "lacing"
  stream,      \* OggStream: [pos, num, queue], m_pos, m_page_num, m_packets
  base,        \* [pos, num]: m_base, m_page_base
  packets,     \* OggTrackAudio::m_packets
  granule,     \* m_granule_pos
  oggDisc,     \* m_bDiscontinuity
  pin,         \* the pin's thread: place, and the samples it has
  batch,       \* what PopulateSamples has put into these
  oggAlloc,    \* whether the allocator hands out samples
  kept,        \* samples downstream has
  refusing,    \* downstream is flushed or stopped
  stopping,    \* where Stop is: "no", "flush", "join"
  delivered,   \* samples downstream has had since the start
  oggEnded,    \* and the end of stream
  left,        \* a stop has left packets in the track
  oggStarts

oggVars == <<file, oggState, subtype, stream, base, packets, granule, oggDisc, pin, batch,
             oggAlloc, kept, refusing, stopping, delivered, oggEnded, left, oggStarts>>

NoThread == [at |-> "none", samples |-> 0]

(* The constructor of OggTrack leaves m_bDiscontinuity as it finds it.     *)
OggInit ==
  /\ file \in OggFiles /\ oggState = "unloaded" /\ subtype = "none"
  /\ stream = [pos |-> 1, num |-> 0, queue |-> <<>>] /\ base = [pos |-> 1, num |-> 0]
  /\ packets = <<>> /\ granule = 0 /\ oggDisc \in BOOLEAN
  /\ pin = NoThread /\ batch = <<>> /\ oggAlloc = FALSE /\ kept = 0
  /\ refusing = FALSE /\ stopping = "no"
  /\ delivered = <<>> /\ oggEnded = FALSE /\ left = FALSE /\ oggStarts = 0

-----------------------------------------------------------------------------
(***************************************************************************)
(* Pages and packets.  A parse result is the stream with hr added: "ok",   *)
(* "eof" (E_END_OF_FILE) or "bad" (E_FILE_FORMAT_INVALID).                 *)
(***************************************************************************)
Whole(segments) == file.lacing[Last(segments)] = "less"

Failed(s, hr) == [s EXCEPT !.hr = hr]

(* The descriptors OggPage::Read makes of the lacing values, each the      *)
(* segments of one packet on page p; the last one is incomplete when the   *)
(* last value is 255.                                                      *)
Descriptors(p) ==
  LET n     == Len(p.lacing)
      Ends  == {i \in 1 .. n : p.lacing[i] = "less" \/ i = n}
      To(k) == CHOOSE e \in Ends : Cardinality({i \in Ends : i <= e}) = k
      From(k) == IF k = 1 THEN 1 ELSE To(k - 1) + 1
  IN  [k \in 1 .. Cardinality(Ends) |->
         [j \in 1 .. To(k) - From(k) + 1 |-> p.first + From(k) + j - 2]]

(* OggPage::Read at the end of a file: without its capture pattern there   *)
(* is no page; when another field is missing ReadInt leaves a zero in its  *)
(* place and the number of segments is refused.                            *)
ReadPage(pos) ==
  IF pos > Len(file.pages) \/ file.pages[pos].cut = "pattern" THEN "eof"
  ELSE IF file.pages[pos].cut = "fields" THEN "bad" ELSE "ok"

NewPackets(ds) == [k \in DOMAIN ds |-> [segments |-> ds[k], gran |-> -1]]

(* The packets of the queue and the page: its first descriptor continues   *)
(* the last packet of the queue when the page says so, which must agree    *)
(* with the packet; <<>> when it does not.                                 *)
Joined(queue, p) ==
  LET ds   == Descriptors(p)
      open == queue # <<>> /\ ~Whole(Last(queue).segments)
  IN  IF p.continued # open THEN <<>>
      ELSE IF open
      THEN Front(queue)
             \o <<[Last(queue) EXCEPT !.segments = @ \o Head(ds)]>> \o NewPackets(Tail(ds))
      ELSE queue \o NewPackets(ds)

(* The granule position belongs to the last packet that is whole, which    *)
(* must end on this page.                                                  *)
Completes(q, p) ==
  LET k == IF Whole(Last(q).segments) THEN Len(q) ELSE Len(q) - 1
  IN  IF k > 0 /\ Last(q[k].segments) >= p.first THEN k ELSE 0

(* (Mutated form: page sequence numbers are not looked at.)                *)
ParsePageAnyNumber(s) ==
  IF s.pos < 0 THEN Failed(s, "eof")
  ELSE IF ReadPage(s.pos) # "ok" THEN Failed(s, ReadPage(s.pos))
  ELSE
  LET p    == file.pages[s.pos]
      q    == Joined(s.queue, p)
      k    == Completes(q, p)
      next == [s EXCEPT !.pos = @ + 1]
  IN
  IF ~p.mine THEN next
  ELSE IF q = <<>> \/ (p.gran < 0 /\ Whole(Last(q).segments)) \/ (p.gran >= 0 /\ k = 0)
       THEN Failed(next, "bad")
  ELSE IF p.gran < 0 THEN [next EXCEPT !.num = @ + 1, !.queue = q]
  ELSE [next EXCEPT !.num = @ + 1, !.queue = [q EXCEPT ![k].gran = p.gran],
                    !.pos = IF p.eos THEN -1 ELSE @]

(* OggStream::ParsePage.  Pages of other streams are passed over.          *)
ParsePage(s) ==
  IF s.pos < 0 THEN Failed(s, "eof")
  ELSE IF ReadPage(s.pos) # "ok" THEN Failed(s, ReadPage(s.pos))
  ELSE
  LET p    == file.pages[s.pos]
      q    == Joined(s.queue, p)
      k    == Completes(q, p)
      next == [s EXCEPT !.pos = @ + 1]
  IN
  IF ~p.mine THEN next
  ELSE IF \/ p.num # s.num \/ q = <<>>
          \/ p.gran < 0 /\ Whole(Last(q).segments)
          \/ p.gran >= 0 /\ k = 0
       THEN Failed(next, "bad")
  ELSE IF p.gran < 0 THEN [next EXCEPT !.num = @ + 1, !.queue = q]
  ELSE [next EXCEPT !.num = @ + 1, !.queue = [q EXCEPT ![k].gran = p.gran],
                    !.pos = IF p.eos THEN -1 ELSE @]

(* OggStream::GetPacket: pages are parsed until the first packet of the    *)
(* queue is whole, at most n - 1 of them unless n is 0.                    *)
RECURSIVE GetPacket(_, _)
GetPacket(s, n) ==
  IF s.queue # <<>> /\ Whole(Head(s.queue).segments)
  THEN [s EXCEPT !.queue = Tail(@), !.packet = Head(s.queue)]
  ELSE LET t == ParsePage(s) IN
       IF t.hr # "ok" THEN t
       ELSE IF n = 1 THEN Failed(t, "bad") ELSE GetPacket(t, n - 1)

Parser(s) == [pos |-> s.pos, num |-> s.num, queue |-> s.queue, hr |-> "ok",
              packet |-> [segments |-> <<>>, gran |-> -1]]
StreamOf(s) == [pos |-> s.pos, num |-> s.num, queue |-> s.queue]

-----------------------------------------------------------------------------
(***************************************************************************)
(* The application.                                                        *)
(***************************************************************************)
(* OggStream::Init: the first page of a Vorbis stream comes among the      *)
(* first pages of all streams; the third header packet ends its page.      *)
IdentPages ==
  {i \in DOMAIN file.pages :
     file.pages[i].bos = "vorbis" /\ \A j \in 1 .. i - 1 : file.pages[j].bos = "other"}

Headers ==
  LET ident == CHOOSE i \in IdentPages : TRUE
      after == Parser([pos |-> ident + 1, num |-> 1, queue |-> <<>>])
      comment == GetPacket(after, HeaderPages)
      setup   == GetPacket(comment, HeaderPages)
  IN  IF comment.hr # "ok" THEN comment
      ELSE IF setup.hr = "ok" /\ setup.queue # <<>> THEN Failed(setup, "bad") ELSE setup

(* Filter::Load, with OggInit and OggTrackAudio::Init.  A filter that has  *)
(* refused a file is not used again.                                       *)
Load ==
  /\ oggState = "unloaded"
  /\ IF IdentPages # {} /\ Headers.hr = "ok"
     THEN /\ oggState' = "stopped" /\ stream' = StreamOf(Headers)
          /\ base' = [pos |-> Headers.pos, num |-> Headers.num]
     ELSE oggState' = "refused" /\ UNCHANGED <<stream, base>>
  /\ UNCHANGED <<file, subtype, packets, granule, oggDisc, pin, batch, oggAlloc, kept,
                 refusing, stopping, delivered, oggEnded, left, oggStarts>>

(* Outpin::Connect and SetConnectionMediaType.                             *)
Connect ==
  /\ oggState = "stopped" /\ subtype = "none"
  /\ subtype' \in {"packets", "lacing"}
  /\ UNCHANGED <<file, oggState, stream, base, packets, granule, oggDisc, pin, batch,
                 oggAlloc, kept, refusing, stopping, delivered, oggEnded, left, oggStarts>>

(* Filter::Pause or Run of a stopped filter, Outpin::Init.                 *)
StartPin ==
  /\ oggState = "stopped" /\ subtype # "none" /\ oggStarts < OggSessions
  /\ oggState' = "active" /\ oggStarts' = oggStarts + 1
  /\ oggAlloc' = TRUE /\ pin' = [NoThread EXCEPT !.at = "packets"]
  /\ refusing' = FALSE /\ delivered' = <<>> /\ oggEnded' = FALSE
  /\ UNCHANGED <<file, subtype, stream, base, packets, granule, oggDisc, batch, kept,
                 stopping, left>>

(* Filter::Stop, Outpin::Final and StopThread: Decommit, BeginFlush, the   *)
(* wait for the thread, EndFlush.                                          *)
StopPin ==
  /\ oggState = "active" /\ stopping = "no"
  /\ stopping' = "flush" /\ oggAlloc' = FALSE
  /\ UNCHANGED <<file, oggState, subtype, stream, base, packets, granule, oggDisc, pin,
                 batch, kept, refusing, delivered, oggEnded, left, oggStarts>>

FlushDownstream ==
  /\ stopping = "flush" /\ stopping' = "join"
  /\ refusing' = TRUE /\ kept' = 0
  /\ UNCHANGED <<file, oggState, subtype, stream, base, packets, granule, oggDisc, pin,
                 batch, oggAlloc, delivered, oggEnded, left, oggStarts>>

(* ... and OggTrack::Reset, which leaves the packets of the track.         *)
(* (Mutated form: the place in the file stays as well.)                    *)
ThreadEndedHere ==
  /\ stopping = "join" /\ pin.at = "end"
  /\ stopping' = "no" /\ oggState' = "stopped" /\ pin' = NoThread
  /\ granule' = 0 /\ oggDisc' = TRUE
  /\ left' = (left \/ packets # <<>>)
  /\ UNCHANGED <<file, subtype, stream, base, packets, batch, oggAlloc, kept, refusing,
                 delivered, oggEnded, oggStarts>>

ThreadEnded ==
  /\ stopping = "join" /\ pin.at = "end"
  /\ stopping' = "no" /\ oggState' = "stopped" /\ pin' = NoThread
  /\ stream' = [pos |-> base.pos, num |-> base.num, queue |-> <<>>]
  /\ granule' = 0 /\ oggDisc' = TRUE
  /\ left' = (left \/ packets # <<>>)
  /\ UNCHANGED <<file, subtype, base, packets, batch, oggAlloc, kept, refusing, delivered,
                 oggEnded, oggStarts>>

-----------------------------------------------------------------------------
(***************************************************************************)
(* The pin's thread, Outpin::Main and Outpin::PopulateSamples.             *)
(***************************************************************************)
HasPackets == packets # <<>> /\ Last(packets).gran >= 0

(* A thread that ends gives back what it has (OggTrack::Clear).            *)
Ends == pin' = [NoThread EXCEPT !.at = "end"]

(* OggTrackAudio::GetPackets, one round of its loop and of GetPacket's:    *)
(* until it has a packet with a granule position it takes a whole packet   *)
(* from the stream's queue or parses a page.  The filter lock is held all  *)
(* the time; nothing another thread does meanwhile makes a difference.     *)
GetPackets ==
  /\ pin.at = "packets"
  /\ IF HasPackets
     THEN pin' = [pin EXCEPT !.at = "buffers"] /\ UNCHANGED <<packets, stream>>
     ELSE IF stream.queue # <<>> /\ Whole(Head(stream.queue).segments)
     THEN /\ packets' = Append(packets, Head(stream.queue))
          /\ stream' = [stream EXCEPT !.queue = Tail(@)] /\ UNCHANGED pin
     ELSE \E t \in {ParsePage(Parser(stream))} :
          /\ stream' = StreamOf(t) /\ UNCHANGED packets
          /\ CASE t.hr = "ok" -> UNCHANGED pin
               [] t.hr = "eof" /\ packets = <<>> -> pin' = [pin EXCEPT !.at = "eos"]
               [] OTHER -> Ends
  /\ UNCHANGED <<file, oggState, subtype, base, granule, oggDisc, batch, oggAlloc, kept,
                 refusing, stopping, delivered, oggEnded, left, oggStarts>>

GetSampleCount == IF subtype = "packets" THEN Len(packets) ELSE 1

(* OggTrackAudio::UpdateAllocatorProperties: cBuffers.                     *)
(* (Mutated form: too few for a page full of packets.)                     *)
TooFewBuffers == IF subtype = "packets" THEN SegmentLimit - 1 ELSE 1

CBuffers == IF subtype = "packets" THEN SegmentLimit + 1 ELSE 1

GetBuffers ==
  /\ pin.at = "buffers" /\ pin.samples < GetSampleCount
  /\ \/ /\ oggAlloc /\ pin.samples + kept < CBuffers
        /\ pin' = [pin EXCEPT !.samples = @ + 1]
     \/ ~oggAlloc /\ Ends
  /\ UNCHANGED <<file, oggState, subtype, stream, base, packets, granule, oggDisc, batch,
                 oggAlloc, kept, refusing, stopping, delivered, oggEnded, left, oggStarts>>

(* OggTrackAudio::PopulateSamples: a sample for each packet, their times   *)
(* interpolated up to the granule position of the last one; or one sample  *)
(* for all packets.                                                        *)
SamplesOf(ps) ==
  LET n     == Len(ps)
      total == Last(ps).gran - granule
  IN  IF subtype = "packets"
      THEN [i \in 1 .. n |->
              [packets |-> <<ps[i].segments>>, disc |-> oggDisc /\ i = 1,
               from |-> granule + (total * (i - 1)) \div n,
               to   |-> granule + (total * i) \div n]]
      ELSE <<[packets |-> [i \in 1 .. n |-> ps[i].segments], disc |-> oggDisc,
              from |-> granule, to |-> Last(ps).gran]>>

(* (Mutated form: the track keeps the granule position it had.)            *)
PopulateKeepsGranule ==
  /\ pin.at = "buffers" /\ pin.samples = GetSampleCount
  /\ IF Last(packets).gran > granule /\ (subtype = "lacing" => Len(packets) <= SegmentLimit + 1)
     THEN /\ pin' = [pin EXCEPT !.at = "deliver"] /\ batch' = SamplesOf(packets)
          /\ oggDisc' = FALSE /\ packets' = <<>>
     ELSE Ends /\ UNCHANGED <<batch, oggDisc, packets>>
  /\ UNCHANGED <<file, oggState, subtype, stream, base, granule, oggAlloc, kept, refusing,
                 stopping, delivered, oggEnded, left, oggStarts>>

PopulateSamples ==
  /\ pin.at = "buffers" /\ pin.samples = GetSampleCount
  /\ IF Last(packets).gran > granule /\ (subtype = "lacing" => Len(packets) <= SegmentLimit + 1)
     THEN /\ pin' = [pin EXCEPT !.at = "deliver"] /\ batch' = SamplesOf(packets)
          /\ granule' = Last(packets).gran /\ oggDisc' = FALSE /\ packets' = <<>>
     ELSE Ends /\ UNCHANGED <<batch, granule, oggDisc, packets>>
  /\ UNCHANGED <<file, oggState, subtype, stream, base, oggAlloc, kept, refusing,
                 stopping, delivered, oggEnded, left, oggStarts>>

(* ReceiveMultiple; how many samples downstream has taken is not looked at *)
(* (it takes all or refuses).                                              *)
ReceiveMultiple ==
  /\ pin.at = "deliver" /\ ~refusing
  /\ delivered' = delivered \o batch /\ kept' = kept + pin.samples
  /\ pin' = [NoThread EXCEPT !.at = "packets"] /\ batch' = <<>>
  /\ UNCHANGED <<file, oggState, subtype, stream, base, packets, granule, oggDisc, oggAlloc,
                 refusing, stopping, oggEnded, left, oggStarts>>

ReceiveMultipleFails ==
  /\ pin.at = "deliver" /\ refusing
  /\ Ends /\ batch' = <<>>
  /\ UNCHANGED <<file, oggState, subtype, stream, base, packets, granule, oggDisc, oggAlloc,
                 kept, refusing, stopping, delivered, oggEnded, left, oggStarts>>

SendEndOfStream ==
  /\ pin.at = "eos" /\ Ends /\ oggEnded' = ~refusing
  /\ UNCHANGED <<file, oggState, subtype, stream, base, packets, granule, oggDisc, batch,
                 oggAlloc, kept, refusing, stopping, delivered, left, oggStarts>>

(* Downstream gives a sample back, or is stopped.                          *)
SampleReleased ==
  /\ kept > 0 /\ kept' = kept - 1
  /\ UNCHANGED <<file, oggState, subtype, stream, base, packets, granule, oggDisc, pin,
                 batch, oggAlloc, refusing, stopping, delivered, oggEnded, left, oggStarts>>

SinkStops ==
  /\ oggState = "active" /\ ~refusing
  /\ refusing' = TRUE /\ kept' = 0
  /\ UNCHANGED <<file, oggState, subtype, stream, base, packets, granule, oggDisc, pin,
                 batch, oggAlloc, stopping, delivered, oggEnded, left, oggStarts>>

-----------------------------------------------------------------------------
PinThread ==
  \/ GetPackets \/ GetBuffers \/ PopulateSamples
  \/ ReceiveMultiple \/ ReceiveMultipleFails \/ SendEndOfStream

OggNext ==
  \/ Load \/ Connect \/ StartPin
  \/ StopPin \/ FlushDownstream \/ ThreadEnded
  \/ PinThread \/ SampleReleased \/ SinkStops

OggSpec == OggInit /\ [][OggNext]_oggVars

(* The thread runs, downstream plays what it is given, and a Stop that     *)
(* began goes on.                                                          *)
OggFairness ==
  /\ WF_oggVars(PinThread) /\ WF_oggVars(SampleReleased)
  /\ WF_oggVars(FlushDownstream) /\ WF_oggVars(ThreadEnded)

OggFairSpec == OggSpec /\ OggFairness

-----------------------------------------------------------------------------
OggTypeOK ==
  /\ stream.pos \in {-1} \cup 1 .. Len(file.pages) + 1
  /\ pin.samples + kept \in 0 .. CBuffers
  /\ pin.at \in {"none", "packets", "buffers", "deliver", "eos", "end"}
  /\ pin.at = "buffers" => packets # <<>> /\ Last(packets).gran >= 0

(* The audio packets of the stream, by what a packet is: the segments from *)
(* one end to the next, without the comment and the setup.                 *)
PacketEnds == {i \in DOMAIN file.lacing : file.lacing[i] = "less"}
EndOf(k)   == CHOOSE e \in PacketEnds : Cardinality({i \in PacketEnds : i <= e}) = k
AudioPacket(k) == [j \in 1 .. EndOf(k + 2) - EndOf(k + 1) |-> EndOf(k + 1) + j]

OnPages == UNION {{file.pages[i].first + j - 1 : j \in DOMAIN file.pages[i].lacing} :
                    i \in {i \in DOMAIN file.pages :
                             file.pages[i].mine /\ file.pages[i].cut = "no"}}
Readable == {k \in 1 .. Cardinality(PacketEnds) - 2 : ToSet(AudioPacket(k)) \subseteq OnPages}
Sound    == DOMAIN file.lacing \subseteq OnPages

(* However the packets are spread over pages and whatever is missing in    *)
(* the file, downstream gets the packets of the stream from the first on,  *)
(* each whole and once, with times that join, the first sample and no      *)
(* other marked as a discontinuity (but see OggInit); the end only after   *)
(* every packet that is in the file; and assert(pkt.granule_pos >          *)
(* m_granule_pos).  A stop that leaves packets in the track ends all this: *)
(* the next start plays them first.                                        *)
Played == FlattenSeq([i \in DOMAIN delivered |-> delivered[i].packets])

OggInOrder ==
  /\ OggTypeOK
  /\ ~left =>
       /\ Len(Played) <= Cardinality(PacketEnds) - 2
       /\ \A k \in DOMAIN Played : Played[k] = AudioPacket(k)
       /\ \A i \in DOMAIN delivered :
            /\ delivered[i].from = IF i = 1 THEN 0 ELSE delivered[i - 1].to
            /\ oggStarts > 1 \/ i > 1 => delivered[i].disc = (i = 1)
       /\ oggEnded => Len(Played) = Cardinality(Readable)
       /\ pin.at = "buffers" => Last(packets).gran > granule

(* A file without a gap is played to its end, and Stop returns.            *)
OggProgress ==
  /\ oggState = "active" /\ Sound /\ ~left ~> oggEnded \/ refusing \/ stopping # "no"
  /\ stopping # "no" ~> stopping = "no"

=============================================================================
