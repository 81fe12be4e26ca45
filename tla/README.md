# Verification of webmdshow

webmdshow is a set of DirectShow and Media Foundation components for WebM files:
a muxer, a splitter, file sources, VP8/VP9 and Vorbis encoders and decoders, and
two command line applications that build graphs of them. This directory holds
TLA+ models of the components' own logic, TLC configurations that check them on
small instances, and TLAPS proofs for every value of their parameters.

1. [The system](#the-system)
2. [Modules](#modules)
3. [How the models correspond to the code](#how-the-models-correspond-to-the-code)
4. [What is checked](#what-is-checked)
5. [What is proved](#what-is-proved)
6. [Disagreements found](#disagreements-found)
7. [Not modelled](#not-modelled)
8. [Plan](#plan)

## The system

A DirectShow filter is a COM object whose state is guarded by one lock
(`CLockable`, `common/clockable.cc`): every entry point of the filter and of its
pins seizes it. Threads come from outside: the application (through the filter
graph manager) calls `Stop`, `Pause`, `Run` and connects pins; each upstream
filter has a *streaming thread* that calls `Receive` and `EndOfStream` of an input
pin; a seeking thread calls `BeginFlush` and `EndFlush`. A source or splitter has
threads of its own, one per output pin, and the splitter one that parses; the
Vorbis filters have one per output pin. A Media Foundation source has a work
thread and is called by the pipeline's; a transform is only called.

| component | state | operations | interacts with | hard behaviour | correct when |
|---|---|---|---|---|---|
| `webmmux` Context (interleaver) | frame queues of both streams, the list of possible cluster boundaries, clusters with their key frames, end-of-stream flags and count, live mode, buffered track header | Open, NotifyVideoFrame/AudioFrame, WaitVideo/Audio, NotifyVideoEOS/AudioEOS, FlushVideo/Audio, Close, SetLiveMuxMode | called by pins and filter with the lock held; writes the output stream | merge order of two streams; three ways to the end; pointers between lists; 16-bit relative time | the file is ordered in time, holds every frame once, its index is right, it is finalised once |
| `webmmux` streams | queues of frames (each holds an upstream sample), Ogg header packets | Receive, EndOfStream, Flush, Wait | pins call them, they call the context | sample accepted or refused; headers before frames | queue order is arrival order |
| `webmmux` pins and filter | filter state, `m_bFlush`, `m_bEndOfStream`, two auto-reset events per pin | Receive with its Wait, EndOfStream, BeginFlush, EndFlush, Stop, Pause, Run | two streaming threads block on each other's events | lost wake-ups, mutual waiting, Stop under a blocked thread | a thread that may go on is woken, the file gets finished |
| `webmmux` output pin, EBML writer | connection, stream position | Init, Final; Serialize* | downstream file writer | none of its own | bytes well formed |
| `webmsplit` MkvReader | page list, multimap of free pages, sorted cache, page lock counts | Read, Wait, LockPages, UnlockPages, flush, SetSource | reads from an async reader, called by parser and pin threads | a page owned by a waiter without the lock, all pages locked, failure half way | a locked page stays and holds what its block needs |
| `webmsplit` filter, pins | parser thread, segment, per-pin streams and threads, events | Stop, Pause, Run, GetState, Main, OnNewCluster, OnStarvation, SetPositions | parser thread feeds output pin threads | parse error, starvation, seek under delivery | every block is delivered in order, threads end on Stop |
| `webmsource` | as the splitter, on a local file, without the parser thread | Stop, Pause, Run, SetPositions | the pins' threads load clusters themselves | both threads and a seek move the same parser on | as the splitter |
| `libmkvparser` | a stream's current, base and stop block, preroll | GetSampleCount, PopulateSamples, SetCurrPosition | the splitter and the source | end of cluster list, stop time | no block is skipped |
| `webmoggsource` | page and packet reader, the track's packets, an output thread | Load, page and packet parsing, PopulateSamples, Start, Stop | output pin thread, downstream's allocator | packets over several pages, truncated files, a stop between two steps | packets as multiplexed, times that join |
| `vp8encoder` | codec, pending frames, settings | Receive, EndOfStream, flush, settings | encoder library, preview pin | settings while running, calls with the lock given up | frames in order, key frames in time |
| `vpxdecoder`, `vp8decoder`, `vp9decoder` | codec, key-frame wait, flags, pins' types, allocator | Receive, EndOfStream, flush, Stop, Pause, Run, connecting | decoder library, the renderer and its buffers | a stop, seek or start while Receive has given up the lock; a type the renderer changes | each picture bears its sample's time, a flag does not outlive its seek |
| `webmvorbisdecoder`, `webmvorbisencoder` | codec, queue of buffers, output thread | Receive, EndOfStream, flush, thread Main | library, output thread | thread and Stop, drain at the end | no audio lost at the end |
| `webmcc` | media types | Receive | pixel conversion | none | - |
| `webmmfsource` | command queue, work thread, streams with requests, one asynchronous read | Start, Stop, Pause, SetRate, Shutdown, RequestSample | Media Foundation, the byte stream | commands queued against state, reads that end at any time | a request is answered once, samples in order |
| `webmmfvp8dec`, `webmmfvorbisdec` | input queue, media types, quality control, times | ProcessInput, ProcessOutput, messages | decoder library | drop modes, drain, mixing of channels | each input produces its output |
| `common` samples and allocators | pools, reference counts, waiting threads | GetBuffer, ReleaseBuffer, Commit, Decommit | every filter | blocked getter and Decommit | a sample has one owner |
| `common` lock | mutex | Seize, Release | every filter | five second time-out | mutual exclusion |
| applications, IDL, `libcc`, samples, installers | - | - | - | - | - |
| `third_party` | vendored | - | - | - | - |

The hazards these components are exposed to are listed, with their lines and the
properties that cover them, under `hazards` in `PROJECT.json`; where a property
does not hold, or excludes a case, the note there says so.

## Modules

| module | what it is |
|---|---|
| `MuxContext` | the interleaver: `webmmuxcontext.cc` and the streams it owns |
| `MuxFile` | what the muxer promises about its file, for any set of tracks |
| `MuxContextRefinesFile` | the refinement mapping from the interleaver to `MuxFile` |
| `MuxFilter` | the muxer's pins, filter and threads, composed with `MuxContext` |
| `MkvReader` | the splitter's page cache, with the two operations of a stream of `libmkvparser` that lock pages |
| `SplitFilter` | the splitter: parser thread, output pins' threads, Stop, GetState and seeks |
| `WebmSource` | the file source filter, with the pins and streams of `SplitFilter` |
| `SamplePool` | `CMemAllocator` and the reference counts of its samples |
| `OggSource` | the Ogg file source: page parser, track and output pin's thread |
| `MFSource` | the Media Foundation source: work thread, commands, requests, reads |
| `AsyncReader` | the page cache under it: asynchronous reads, regions of pages, locks of the streams, seeks |
| `VorbisDecoder` | the DirectShow Vorbis decoder: Receive, the queue of buffers and its thread |
| `VpxDecoder` | the DirectShow VP8 and VP9 decoders |
| `MFVp8Decoder` | the Media Foundation VP8 decoder with its quality control |
| `MFVorbisDecoder` | the Media Foundation Vorbis decoder: times, channels |
| `Vp8Encoder` | the VP8 encoder filter |
| `MCMuxContext`, `MCMuxFilter`, `MCMFSource` | values for the configurations |
| `MCMkvReader`, `MCSplitFilter`, `MCVorbisDecoder`, `MCPoolAndOgg`, `MCTransforms` | several components that share nothing, side by side: a behaviour is of one of them |
| `MuxProofs` | proofs about the muxer. The interleaver: types, frame accounting, boundary pointers, finalisation, sealed files, waits; its file: order in time, index, and that it is a `MuxFile`; the threads: the lock, ends of stream, wake-ups |
| `SplitFilterProofs` | proofs about the splitter and the file source: threads, delivery, seek bases |
| `ReaderProofs` | proofs about the splitter's page cache |
| `SamplePoolProofs` | proofs about the allocator |
| `DecoderProofs` | proofs about the DirectShow decoders, `VorbisDecoder` and `VpxDecoder` |
| `TransformsProofs` | proofs about `MFVp8Decoder`, `MFVorbisDecoder` and `Vp8Encoder` |
| `MFSourceProofs` | proofs about the Media Foundation source, `MFSource` |
| `AsyncReaderProofs` | proofs about the page cache under it, `AsyncReader` |

In all modules what a component does with its lock held, from where it gets it to
where it gives it up, is one action, unless it is a loop whose intermediate states
matter. A definition whose comment says *Mutated form* is a faulty
variant of the one after it and is part of no specification; the properties are
tested with it.

## How the models correspond to the code

### MuxContext

Every entry point of `Context` runs under the filter lock, so between entry
points the model is in `pc = "idle"`. The loops inside are taken one iteration
per step (`CreateNewCluster`, `WriteVideoFrame`, `WriteAudioFrame`,
`EndCluster`, `Drain`, `FlushVideoLoop`, `FlushAudioLoop`), with `pc` and `ret`
for the program counter: no other entry point starts meanwhile, but the
invariants see every intermediate state.

* A frame pointer is the frame's arrival number in its stream. `video` and
  `audio` are the objects pointed to, `videoOut` and `audioOut` the blocks of the
  file, each with the cluster, the block number and the 16-bit relative
  timecode that `WriteBlock` stores. A pointer below `Len(videoOut) + 1` is one to
  a released object.
* Timecodes are milliseconds (the scale the context is constructed with).
* `Close` is the whole of `Close` and of the pins' `Final` that follows in
  `Filter::Stop`: both ends of stream if they have not come, `Final`, and then the
  streams go with whatever their queues hold (`DeleteStreams`).
* `Open` keeps `m_bBufferData` when there is no file and keeps `m_clusters`, as the
  code does.
* What the code writes after the fact (sizes, seek head, the SegmentInfo
  duration) is the state `cues` and `duration` of the sealed file.

Inputs are the states upstream can put the program in: timecodes grow within a
stream (frames with equal or falling time are outside of the model), a stream
begins with a key frame and so does video after a flush (`needKey`).
`Paced = TRUE` restricts a run to frames that come one per `Receive`, never while
the stream has been told to wait; with `FALSE` any number may come.
`MaxVideoGap` limits the distance of video frames.

### MuxFilter

One streaming thread per pin, with the places `upstream`, `receive` (in
`m_pStream->Receive`), `wait` (in the loop of `Inpin::Wait`, with the lock),
`blocked` (in `CoWaitForMultipleHandles`, without), `seize` and `eos`. The
application's `Pause`, `Run` and `Stop` and the flushing thread take the same
`lock`. `ContextStep` runs the interleaver for whoever holds it. The auto-reset
events are booleans that `Wake` takes. `hSample[p]` is the event pin `p` sets for
the other pin.

`VideoBuffers` is the number of samples of the upstream video allocator: a
queued frame keeps its sample. The runs have more of them than frames, so that `FileFinished` says nothing of an allocator that
runs dry; that it can is described below. `planned` is how many frames each upstream has.
`Orderly` says that upstream respects the DirectShow rules the code counts on:
its thread has left `Receive` before `EndFlush` and before the graph is restarted.

`FlushAudio` empties the video queue too and sets no event of the video pin, so that a
blocked video thread then sleeps until the next audio sample: the last case of `NoLostWakeup`,
the other stream has caught up, is for sessions without a flush.

### MkvReader

`MkvReader` has the buffers of one connection as numbered pages. Which page is free,
cached or owned by the waiter is `freePages` (the multimap, with the key each
page was listed under, which may differ from what it holds now), `cache` (the deque) and
`owned`; `pos` is the time stamp of a page's sample, -1 without one. `avail` is what the
source says it has of the file: it grows at any moment, for it is the downloader's.

Parser and streams call with the filter lock held, so one call runs at a time; `Read`
and `SetCurr` (which unlocks the last block's pages and locks the next one's) are taken
one page per step: `TakeCached` or `InsertPage`, which ends with the page in the
cache or in one of the three ways it fails. Only `Wait` gives up the lock, with
`owned` set: all other calls may come before `WaitReturn` or `WaitCancelled`.

The debug assertion in `SetCurr` ends the program when a lock fails, and so does the
model: `fault` says why, and nothing is called after it. What a release build does with
the pages that were locked so far is not modelled. Between connections the pages
keep their numbers, and a second connection has other ones.

### SplitFilter

The lock is never held across a blocking call, so each stretch under it is one
action. A file is, for each cluster, the set of tracks that have a block in it;
a block is named by its cluster. What the parser library (not part of the repository)
answers is in `FirstOf`, `NextOf`, `SeekOf` and `EntryOf`, marked external in the map.

The parser thread loads a cluster at a time (`ParserLoads`), or waits for more of the
file (`ParserWaits`) between which it gives up the lock. A pin's thread counts the
samples of its current block, gets buffers without the lock, populates them with
the lock - the block may have moved in between - and delivers. When it starves it
waits for its two events. The application's `Stop` gives up the lock to stop the
threads one pin after the other (`Final`, `StopNextPin`, `StopReturns`), `SetPositions`
to stop the one pin's (`SeekAndRestart`), and `GetState` to sleep until the stream is fed.
`group` remembers pins that were sought to the same time: the code keeps a seek
base for the second of them. Between files (`Reopen`) the input pin is reconnected.

### WebmSource

The file source has the splitter's pins, streams and seeks, and its variables. What is
different is who loads clusters: a pin's thread, in the loops of `GetSampleCount` and
`PopulateSamples` that go on until the stream's next block is known, with the lock held all the time
(`LoadUntil`), and a seek in the same way. The variables of the parser thread and of
starvation keep their first values.

### SamplePool

Each call of the allocator takes its lock for its whole length, with two exceptions
that are steps of their own: the wait in `GetBuffer` (`Wait`, `Wake`), and
`CMediaSample::Release`, which first takes the count to zero (`Release`) and then calls
`ReleaseBuffer`. The free list is a set, for which sample is taken makes no difference.
`Commit` that runs out of memory half way (`CommitFails`) leaves what it made in the list,
as the code does. The owner is a pin: it lets go of the allocator when disconnected
(`OwnerReleases`), which is when the filter is stopped.

### OggSource

A file is the list of segments ("full" is a lacing value of 255, "less" a smaller
one) of the Vorbis stream and the pages that carry them, between pages of other streams,
of which some may be missing and the last cut short. `Descriptors` is the table `OggPage::Read`
makes, `ParsePage`, `GetPacket` and `Headers` are the functions of the parser with their
early returns. A packet is the numbers of its segments, so that a packet put together
wrongly is not one of the stream's. The track gathers packets up to one with a
granule position (`GetPackets`, a page or packet per step), takes a sample for each
(`GetBuffers`, without the lock), and `PopulateSamples` gives them interpolated times. Stop
gives up the lock, decommits (`StopPin`), flushes (`FlushDownstream`) and waits for the
thread (`ThreadEnded`), then puts the track back to its start.

`m_bDiscontinuity` is not initialised in the constructor: its first value is arbitrary.
`left` remembers that a stop has left packets in the track.

### MFSource

A block is a cluster and an index. The pipeline's calls append to `commands`, whose first
entry is the state the source is in, and to `requests`; the work thread is `at` one of the
thread states of the code and is `woken` by one of its events. What it does next in each state of
the asynchronous work (`astate`: loading the first blocks or the cues, parsing for
a request, seeking) is one action. `Stall` is `AsyncReadInit`: the bytes are in
the cache, or a read of some pages begins, whose pages come one at a time (`io`), may
fail, and may be cancelled by a command when `interrupt` allows.

`StreamsConsistent` holds what the streams have: the type invariant, one read at a time,
samples held back only while paused, the locked block is the current one,
every selected stream has a position, the presentation has ended exactly when every
selected stream has, and a work thread that gives up has told the pipeline. `Restarts`
are the selections of a start while the source plays, which do not add streams
(see [Disagreements found](#disagreements-found)). `SetRate` refuses thinning, which is left out.

### AsyncReader

The reader's members are the fields of one record, `file`: `slots` are the pages of all regions allocated so far
(position, length, lock count, -1 while it is read), `free` those in `m_free_pages`, `cache` those in the deque, whose order is that of
their positions, `pos` and `len` the range that is asked for, `at` the position of the byte stream. The methods are operators on it.
`AsyncReadContinue` is the whole loop up to the first page it has to read, or to the end of the range:
pages that are cached are passed over and free ones that still hold what is wanted are taken back.
`AsyncReadCompletion` has the outcomes of `EndRead`: a full page, a short one at the end, nothing, an error.

Above it is as much of `MFSource` as asks for bytes: `Parse` is any call of the parser for a range that is not before the
clusters in use, ahead of time or for the request in front; `OnRequestSample` takes the request, and `LoadSample`, a step for each block with the
lock held all the time (`worker = "load"`), loads the blocks of a sample, locks the
current one (`LockCurrBlock`), reads, unlocks and purges; `Invoke` is the callback of a read, `OnAsyncRead` the
thread that finds its result, `Cancelled` the same in `StateAsyncCancel`. `OnStart` and `OnStop` are the
commands, in any state of the thread: a read in progress is aborted and waited for, but it may have completed
already, with `Invoke` waiting for the lock (`aborted` has both outcomes). `MFSource` has the states of the
thread in detail and abstracts a read to the number of its pages; here it is the other way round.
Seeks of the byte stream succeed, and only the last page of a file comes short.

### VorbisDecoder

A packet is the number of PCM samples it decodes to; a buffer the range of samples it
carries. The upstream's thread is in `Receive` (`up`): it decodes, and for each full
buffer waits in the allocator (`getbuffer`) and fills it. The decoder's thread (`th`) takes
buffers from `m_buffers`, the end of stream last, passes them on, and when
the renderer refuses one empties the queue up to the end (`completing`). `Stop` decommits,
signals and waits for the thread; `BeginFlush` stops the thread, `EndFlush` starts it.

### VpxDecoder

The filter has no thread. The source's thread (`stream`) is between two samples (`idle`), waits for a buffer
with the lock given up (`getBuffer`), has it but not yet the lock (`getFrame`), is in the renderer's
`Receive` (`render`) or passes the end of stream on (`end`); it ends (`none`) when a call does not return `S_OK`.
A sample is its number since the last start or seek; `ctx` is the sample whose picture the codec would give next.
The application's calls are actions, two of them in several: `Stop` waits for the source's thread
afterwards (`SourceStopped`), and a seek is `VpxBeginFlush`, `FlushRenderer`, the wait for the thread and
`VpxEndFlush`. That the renderer is stopped first and the source last, and that a source that
flushes waits for its thread between the two calls, is how the filter graph and the source filters of
this repository do it (`SplitFilter`); the model assumes no other order. Of a media type only the size counts:
the renderer's may be wider than the picture, and may change with a buffer (`GetFrame`).

### MFVp8Decoder, MFVorbisDecoder

Frames and blocks are numbered from the last flush on. For VP8, `ProcessOutput`'s loop
takes one frame per step, for `ProcessMessage` flushes without the lock; `dropMode`, `budget`
and the averaged lag are those of the quality control interface, and `gap`
counts what was rendered since a picture was left out. For Vorbis, a packet is its place and length; a block of channels is
the sequence of its speakers in the order libvorbis gives them;
`ReorderAndInterleaveBlock`, `PostProcess` and `GetChannelMask` say which input ends in which output
channel. Times are a count of samples, converted with the rounding of the code.

### Vp8Encoder

`Receive` gives up the lock in three places, at which its thread can be (`up`): while the
sample is rendered on the preview pin, in `GetBuffer`, and in the downstream call. The codec keeps
`lagInFrames` frames back; what it puts out goes to `pending` and leaves one frame at a
time. `given` is what the codec was given since the start, `sent` what left the filter.
Times of samples are in units of 100 ns and those of the codec in milliseconds, as in the code: a frame has the time of
its sample (`from`), what `Picture` makes of it for the codec (`pts`, cut down by the division of line 844), and what
`Stamp` makes of that when it comes out (`start`, line 990). `Used` compares times of samples; `Forced` compares one with
`lastKey`, which went through the division. The first sample of a session is given as zero whatever its time, and
one of negative time is dropped. The source begins a session, and goes on after a seek, at one of `Origins`.
A codec that is given the same time twice is taken to accept it; its header asks its callers not to (see
[Disagreements found](#disagreements-found)).

## What is checked

All configurations set `CHECK_DEADLOCK FALSE`: inputs are finite and the system
stops when they are used up. What must go on is said by liveness properties instead.

| run | instance | shows |
|---|---|---|
| `context` | any set of streams, both mux modes, Ogg headers or not, a file or none, three frames per stream at 0, 600, 2800 and at 0, 1700, 5001, 38000 ms, one flush, two sessions, 1.2 million states | `FramesKept`, `FinalisedOnce`, `BlockTimecodeFits`, `PointersValid`, `FileInOrder` (time order over both tracks, across clusters), `IndexMatchesFile` (one cue per key frame with the right cluster and block; duration), `NoMutualWait`, `SealedIsFinal`, `CallsReturn`, `ImplementsFile` |
| `filter_run` | two threads, three video and two audio frames, pause and run | `NoLostWakeup`, `CompleteOnce`, `FileFinished` |
| `filter_stop` | audio alone or both, Stop, restart, flush, Ogg | `StreamAlive`, `Released` |
| `reader_pages` | the splitter's page cache: two streams and a parser, five pages of two bytes, a file of six pages, five calls, reads may fail, one connection; or the Media Foundation cache: two streams, three clusters, files of nine and of ten bytes whose length is known or not, regions of two pages, two starts, seeks or stops and two calls of the parser, reads that fail or are aborted. 3.2 million states | `PagesConsistent`, `LockedPagesStable`; `ReaderSound` |
| `split_filter` | the splitter, or the file source: two clusters, video in each, audio in some, three calls of the application, parse errors, a second file, 1.1 million states | `SameBase`, `ThreadsInv`, `DeliveredInOrder`, `StopAndSeekReturn` |
| `pool_and_ogg` | three samples, one waiting thread, nine calls, commits that fail; or an Ogg file of up to five segments in every division into pages, the short ones with foreign, missing and truncated pages, two sessions | `OneOwner`, `SampleThere`, `DeletedWhenUnused`, `GetBufferReturns`; `OggInOrder`, `OggProgress` |
| `mf_source` | two tracks with interleaved blocks in three clusters of which one has no audio, cues at the end, reads that fail while loading or playing, three calls and two requests, 1.5 million states | `StreamsConsistent`, `SamplesInOrder`, `AllHandled` |
| `vorbis_decoder` | three buffers of two samples, packets of 0, 1 and 5 samples, four calls; or the VP8/VP9 decoder with two sizes, two buffers, three samples between two seeks and eight calls | `RenderedOnce`, `CallsReturn`; `DecoderSound`, `DecoderGoesOn` |
| `transforms` | VP8: three frames in samples of one or two, four pieces of advice (two averages of lag, so that the second can be compared with the first), changes of rate and mode. Vorbis: 1, 2, 3, 5, 6 and 8 channels, packets of one or two blocks, three blocks in ten units of time. Encoder: up to four samples, 0.4 or 1 ms apart, from a time below zero or one that is no whole number of milliseconds, in two sessions, a flush, no key frame interval or one of 1.4 ms, codecs that keep none or two frames, one buffer. Two samples can then fall into one millisecond, and a key frame's time lose half of one. 8.6 million states | `CodecFollows`, `DropShare`; `OutputSound`; `FramesInOrder`, `KeyFramesInTime` |
| `audio_ends_first`, `vorbis_flush`, `mf_downmix` | see [Disagreements found](#disagreements-found) | a counterexample each |

The type invariant of a module is a conjunct of one of these: `TypeOK` of `PagesConsistent`, `ReaderTypes` of `ReaderSound`,
`SplitTypeOK` of `ThreadsInv`, `FilterTypeOK` of `StreamAlive`, `MFTypeOK` of `StreamsConsistent`,
`VorbisTypeOK` of `RenderedOnce`, `Vp8TypeOK` of `CodecFollows`, `EncoderTypeOK` of `FramesInOrder`,
`OggTypeOK` of `OggInOrder`, `VpxTypeOK` of `DecoderSound`; those of `MuxContext` and `SamplePool` are proved only.

**Bounds.** A cut of the interleaver depends on at most two boundaries, the two
audio frames around the stop frame and the queues' fronts and backs: three
frames per stream and times on both sides of the one second limits let
every branch of `NotifyVideoFrame`, `NotifyAudioFrame` and the merge be taken, with
equal times on both streams. The five second limit of an audio cluster needs times
on both sides of it, and gaps beyond the 32.7 s of a 16-bit time. One flush and two
sessions are what it takes to see state left over from the one in the other. For
the threads, two video boundaries more than a second apart and one audio frame
are what makes a thread wait; three application calls are a start, a stop and a
restart.

For the page cache there must be fewer pages than the file has, or nothing is
purged, and one more than the blocks of the streams and the waiter need: an insertion
keeps the page its iterator stands on. With four pages `NeverShortOfPages` (a part of `PagesConsistent`) fails, as it
would in the program if blocks grew to the five megabytes of its buffers. The blocks
lie on one page and on two, share a page, and one is on the last, partial page. Five calls fill the cache,
purge it while two streams have pages locked, and lock once more.

For the asynchronous cache an odd and an even length are a last page that is short and one that is full; regions of two pages are
allocated more than once, and `PurgeMax` (16 in the code) is two, so that a purge is cut off by it, by a lock and by the position. An audio
sample has two blocks on two pages, one of them shared with video. Two commands are a start and a
seek or stop that meets what the first began; after a start nothing before its cluster is asked for.

Two clusters are a pin that has delivered and one that starves; three calls are a start, a
seek or a stop, and what comes after it; the second file shows what a reconnection leaves. Every
cluster has a video block, as the muxer writes them: without it `SameBase` fails, for a
pin sought to a place past the last loaded block of its track has another base.

Three samples are one more than a commit that fails needs to leave some and the next to
add; nine calls are two commits with what lies between, and a third. An Ogg page of up to three
segments can end one packet, hold another and begin a third; two sessions show
what a stop leaves. For the Media Foundation source three clusters are one the streams
start in, one without audio and the end; two requests are enough for one to
wait behind the other, and three calls for a command to be queued behind two more.
The Vorbis decoder's constructor asks for at least three buffers; a packet of five samples
fills two buffers and leaves a rest. Eight calls of the VP8 decoder's application are two connections,
a start, a pause, a seek, a stop and two more; with two buffers the thread waits for one while the renderer has both. A drop mode leaves out one picture in two at most, and one in sixteen at least:
`gap` is initially sixteen, so that three frames see the counter from both ends. The rate of three blocks in ten
units makes every conversion round.

`FileInOrder` is for sessions without a flush: after a flush the code writes whatever is
queued, and a later frame of the other stream may be earlier. `FileFinished` is a property
of the filter while the graph keeps running with enough video samples.
`OggInOrder` is for sessions before the first stop that leaves packets in the track.
`KeyFramesInTime` speaks of the first session, and of all sessions of a codec that
keeps nothing back. `OutputTimes` (of `OutputSound`) is for a stream none of whose packets was refused.

**Fairness.** All of it is weak unless said otherwise, and stands for a thread that the operating
system schedules. In `MuxFilter` the thread that holds the lock runs on and does not block, a streaming
thread whose event is set or whose lock is free goes on, and a flush that began is
ended; nobody has to call, and no thread wins the lock against an endless
series of calls (their number is bounded). In `SplitFilter` the parser's and the pins' threads run, and a
flush makes downstream give samples back; nothing is assumed of the network. In `SamplePool`
a thread in `GetBuffer` runs and holders of samples release them; the last reference's release has
strong fairness, for an `AddRef` may come again and again in between. In `OggSource` the pin's thread runs,
downstream plays what it is given, and a `Stop` that began goes on. In `WebmSource` the same
without the parser's. In `VorbisDecoder` both threads run and the renderer answers and
gives buffers back. In `VpxDecoder` a call that began ends, the source's thread ends when it is asked to, and a
renderer that runs answers and gives buffers back; nothing is assumed of one that is paused, which may keep
the thread, nor of the source, which may be slow. In `MFSource` the work thread runs and reads end, with success or not. `CallsReturn` of
`MuxContext` needs that the thread in the loop goes on. The transforms and the page cache are
called by others and have safety properties only.

## What is proved

For every value of the constants that meets the named assumptions (stream sets,
modes, times and bounds of the right kind; nothing about their size):

| theorem | states |
|---|---|
| `TypeCorrect` | `Spec => []TypeOK` (`MuxContext`) |
| `NoFrameLost` | `Spec => []FramesKept` |
| `BoundariesValid` | `Spec => []PointersValid` |
| `OneFinal` | `Spec => []FinalisedOnce` |
| `SealHolds` | `Spec => SealedIsFinal` |
| `WaitsAreOneSided` | `Spec => []NoMutualWait` |
| `FileIsOrdered` | `Spec => []FileInOrder` |
| `IndexIsRight` | `Spec => []IndexMatchesFile` |
| `ContextImplementsFile` | `Spec => ImplementsFile` |
| `FilterTypeCorrect` | `FilterSpec => []FilterTypeOK` |
| `FilterKeepsContext` | the context's `FramesKept`, `PointersValid`, `FinalisedOnce`, `NoMutualWait` under `FilterSpec` |
| `CompletesOnce` | `FilterSpec => []CompleteOnce` |
| `StreamsStayAlive` | `Orderly => (FilterSpec => []StreamAlive)` |
| `WakeupsAreKept` | `Orderly => (FilterSpec => []NoLostWakeup)` |
| `PagesAreInOnePlace` | `Spec => []PagesInOnePlace` (`MkvReader`) |
| `LockedPagesStay` | `Spec => LockedPagesStable` |
| `CacheIsConsistent` | `Spec => []`(in the first connection `TypeOK`, `CacheSorted`, `IteratorValid`, `RefsMatchLocks`, `LockedResident`) |
| `PagesAreConsistent` | `Spec => []PagesConsistent`, for one connection and with `RoomForBlocks` |
| `ThreadsAreRight` | `SplitSpec => []ThreadsInv` |
| `DeliveryInOrder` | `SplitSpec => DeliveredInOrder` |
| `SameBaseHolds` | `SplitSpec => []SameBase`, if every cluster has video |
| `SourceThreadsAreRight` | `SourceSpec => []ThreadsInv` |
| `SourceDeliveryInOrder` | `SourceSpec => DeliveredInOrder` |
| `SourceSameBase` | `SourceSpec => []SameBase`, for every file |
| `PoolTypes` | `PoolSpec => []PoolTypeOK` |
| `PoolOwners` | `PoolSpec => []OneOwner` |
| `PoolNeverEmpty` | `PoolSpec => []SampleThere` |
| `PoolDeletedLast` | `PoolSpec => []DeletedWhenUnused` |
| `AudioRenderedOnce` | `Spec => []RenderedOnce` (`VorbisDecoder`) |
| `DecoderIsSound` | `VpxSpec => []DecoderSound` |
| `CodecIsFed` | `Vp8Spec => []CodecFollows` |
| `DropsAreSpaced` | `Vp8Spec => DropShare` |
| `OutputOnTime` | `VbSpec => []OutputTimes` (`MFVorbisDecoder`) |
| `OutputAlwaysSound` | `VbSpec => []OutputSound`, for one set of types and no stream of four or of seven channels |
| `FramesLeaveInOrder` | `EncoderSpec => []FramesInOrder` |
| `KeyFramesCome` | `EncoderSpec => KeyFramesInTime` |
| `StreamsAgree` | `MFSpec => []`(all of `StreamsConsistent` but `DeathIsTold`) |
| `StreamsAlwaysConsistent` | `MFSpec => []StreamsConsistent`, if the parsing of a block does not fail |
| `SamplesAlwaysInOrder` | `MFSpec => SamplesInOrder` |
| `ReaderAlwaysSound` | `ReaderSpec => []ReaderSound` (`AsyncReader`) |

Each rests on an inductive invariant, proved by the theorem whose name ends in `Invariance`
(and inside `DecoderIsSound`, the pool's theorems and those of `MFSourceProofs`). Six assumptions are not of that kind. `Orderly`
is what a filter may count on of its upstream: the DirectShow rules, as above; without it
`StreamAlive` is false. That every cluster has video (`AlwaysVideo`) is what this repository's muxer
writes; without it a seek may find its base in a cluster that the other pin passes over.
`PagesAreConsistent` is about one connection (`MaxConnects = 1`), since `Decommit` leaves the cache to the next one (see below), and
`RoomForBlocks` asks for two pages more than the blocks of the streams can lie on: with fewer a lock may fail for want of a
page. `MCMkvReader` states it as an assumption, so that TLC confirms it of the instance that `reader_pages` checks.
`StreamsAlwaysConsistent` leaves "block" out of `FailIn`, as the run does: when the parsing of a block fails while its bytes are
there, the code ends the work thread and tells nobody, so that without the assumption its last conjunct is false.
That the blocks of `AsyncReader` lie in the file (`ReaderAssumption`) is what it is for a file that is not cut short after its clusters were parsed.
`OutputAlwaysSound` leaves out four and seven channels, of which the code puts some in the wrong place (`mf_downmix`), and types that are set a second time.

**The interleaver.** `FramesKept` is not inductive: `WriteAudioFrame` needs its queue to be
non-empty, `DeleteStreams` needs the queues to be empty, and `finals = 1` must mean
that nothing is queued. `IInv` of `MuxProofs` adds `ClusterInv` (while a
cluster is under construction there is one, entered with a frame in the queue that
its loop works on) and `EndInv` (what the flags, the count `cEOS`, the file and the
queues are at each place on the way to the end: a count of the streams that are not
over, empty queues from the drain on, empty queues without a file). `Invariance` proves it, one
lemma per conjunct and one step per action; `TypeCorrect` and `NoFrameLost` follow.

`FullInv` strengthens it with `PointersValid`, which relates
`rframes`, the queue and the stop frame, and `SealInv`, which says that a finalised
file is closed and how many ends of stream were needed. `SealedIsFinal` is an action
property: each action that writes is shown to need an open file, and `SealInv`
excludes that once `finals > 0`. `NoMutualWait` follows from `PointersValid` by
arithmetic: each wait compares the two backs, and they cannot both be ahead.

**Its file.** `FileInOrder` compares blocks that are written; that the next one is not
older needs to be known before it is written, while its stream may still be waiting for frames.
`OrderInv` adds `LeadInv`: whatever is written is not newer than what is queued
of the other stream (`WrittenFirst`), nor than the back of a stream that goes on (`Leads`, times in a stream grow), and what the
cluster under construction will take of video, up to its stop frame, is covered by audio
(`MergeLeads`). This is the reason for the hold-back rules of `NotifyAudioFrame` and `NotifyVideoFrame`, and it
ends with the first flush. `PositionInv` says that a new block comes after all of the file. `IndexInv` keeps, while the
file is open, the key frames noted in the clusters equal to those of the blocks, and
`m_max_timecode` to the latest.

Every step maps to a step of `MuxFile` or leaves its
variables alone: `WriteVideoFrame` and `WriteAudioFrame` are `Write`, a frame that
arrives is `Accept`, `Final` and `CloseFinal` are `Seal` and need `FramesKept` with empty
queues for `written = accepted`, `Open` is `Begin`.

**The muxer's threads.** The interleaver's invariant is carried over: each action of `MuxFilter` is a step of it or leaves
its variables alone. `LockInv` says who has the lock: the thread that is inside a call, and only then is the context
at work. `CompleteInv` ties the pins' end-of-stream flags to the context's until the file closes, which happens only with
both; so the second of them, and no other, sends `EC_COMPLETE`. `StreamInv` and `WakeInv` need upstream's
rules. The latter says why a blocked thread sleeps: it has an event coming, or what it waits for has not
happened, or the thread that will set its event still has the lock (`Notifies`): a property that holds
only when the lock is free would not be inductive.

**The page cache.** Which page is purged is a choice, the iterator of the call in progress moves with it, and the page
that is taken may be the one purged just now. `CacheInv` of `ReaderProofs` has, besides the places
of the pages, that only a cached page is locked and that the iterator lies in the cache, also for pages that a
connection left behind. That a locked page stays is then a matter of `Idle`: the victim's count is not positive. The lemmas `InsertAtIs` and
`RemoveAtIs` say what the operators on sequences return. These two theorems hold for any number of connections and failures.

`ReaderInv` adds what holds while the first connection lasts. `RefsMatchLocks` speaks of the time between calls; the
invariant needs it in the middle of one. `CountedIn` therefore counts a stream as holding its block up to some position: all of it,
or up to `cur` if `LockPages` is at work for it (`LockingBy`). A page that is passed or
inserted is then one more that the stream holds (`CountedTouch`, `OneMoreLock`), a page that is purged is held by none (`CountedRemove`), and at
the end of the call it holds all of its block (`CountedEnd`). `UnlockPages` searches again for the pages it once locked; that it
visits the same ones (`VisitedIs`) needs all of them to be cached still, so counts and residency are proved together.
`PassedIn` says where the iterator is, and carries over when a page before it or behind it is purged and when one is inserted
(`PassedRemove`, `PassedInsert`). That a lock finds a page (`RoomLeft`) is a count: if none is free and none can be purged, all
but the waiting thread's page and the one under the iterator lie under blocks, none of them is the page that is missed, and it lies under a block too.

**The splitter.** A thread exists, and an allocator is committed, as the call of the application that is
in progress has left them (`CallInv`): `ThreadsInv` alone says it only for a filter at rest.
`ToldInv` says that the parser thread ends only with all loaded or an error told, so that a pin that starves is told.
`OrderInv` follows a pin's block from the count through buffers, populating and delivery, each a moment at which a seek may move
it: what is delivered next is the track's next block after what was last delivered. Lemmas state what the parser library answers (`FirstOf`,
`NextOf`, `SeekOf`, `EntryOf`). `SeekInv` remembers for pins sought to the same time that the base is the one found
first, or the file's start if nothing was loaded then.

**The file source.** The splitter's types and `OrderInv` hold of it as they stand; what its calls have stopped is different
(`SourceCalls`: it stays active until the last thread has ended, and no thread ever sleeps). `LoadUntilIs` says that a loop of `LoadCluster`
ends with an answer, so that a pin always knows its next block before it delivers one, although the other pin
and seeks move the same parser on between its two steps. The same lemma makes a search end with a block or the end of the stream
(`SourceSeekEffect`), and `SameBase` needs no assumption about the file. In the splitter a search may stop short of both
for want of data; that is what its assumption excludes.

**The allocator.** `SampleThere` (the assertion that the list is not empty when the count
says so) is not inductive: a commit that failed half way leaves samples of its own, samples
of an earlier commit come back after the next, and the owner may decommit in between. `PoolInv` of `SamplePoolProofs`
counts: while committed, the list and the samples that are out make up at least `cBuffers`; the properties
are not set again while a sample is out; and a deleted allocator has no owner and nothing to come back. The cardinalities are
handled by two lemmas (`OneLess`, `OneMore`) on taking a member out of a finite set and
putting one in.

**The Vorbis decoder.** `RenderedOnce` speaks of what the renderer has got. `VorbisInv` of `DecoderProofs` follows all of it
from the codec on: `ChainInv` numbers the buffers that the renderer has, the one in the thread's hand and those in the queue
as one chain of pieces of the audio, with an end of stream only at its end; `TimeInv` makes the time of the next
buffer that of the chain; `AllocatorInv` conserves buffers. `PlacesInv` and `SessionInv` say when a buffer is in hand, a queue may be
left over, and what a stop or a flush has reached, since both give up the lock half way.

**The VP8/VP9 decoder.** `VpxInv` of `DecoderProofs` strengthens `DecoderSound` by four facts. Buffers are conserved
(`BuffersCounted`). While the thread is in `Receive` no frame is decoded, so that the codec has
its sample's picture or none, unless the filter was stopped (`LastSampleInHand`). What was shown is older than that sample
(`ShownBefore`). The flags fit where the application's call is (`FlagsFit`): in particular the allocator is
committed exactly when the output is connected, and a thread that can call `Receive` has not seen
the end of stream, which is why a sample is refused only for a reason that `NotCutOff` names. One lemma proves each part,
with a step for each action that touches it.

**The transforms.** The VP8 decoder's queue is the last frames that came without a gap (`QueueInv`), which is why its front
is the codec's next frame (`CodecInv`) also when a drop mode discards a picture instead of its frame. `DropShare` is an action property; `BudgetInv` is
what makes it true: the budget left and the pictures since the last drop make up the mode's share. The encoder's `FlowInv` has the frames the codec
was given as those sent, pending and kept back, in this order, through the three places at which `Receive` gives
up the lock; `TimesInv` ties each frame's time in milliseconds to its sample's, and `StampWithin` is the lemma on the division:
what comes back is less than a millisecond short. `KeyInv` says that `lastKey` is at the last key frame's sample or behind it,
never ahead, which is why no key frame is late though line 836 mixes times that were cut down with times that were not; a later session of a codec that keeps
frames back is excluded, for there it is not so (see below). If the codec keeps none back `lastKey` is less than a millisecond
behind (`KeyTime`), so that none is early by more; `KeyFramesInTime` has the first
as `NotLate`, an invariant, and the second as `NotEarly`, of each step.
Of the Vorbis decoder, `VbInv` has the packets that wait without a gap between them, and `TimesAt` ties the
time the decoder counts from, and what it has counted since, to the place of the next block that comes out; `QuotientsAdd` is the rounding lemma this rests on.
That each channel is put on its own side (`OwnSide`) is decided for each number of channels.

**The Media Foundation source.** `MFInv` of `MFSourceProofs` has six parts, and none is inductive without the others.
`ControlInv` says which state the work thread can be in at each point of the source's life, and who owes it an event. `QueueInv` is about the
commands not carried out yet: a start comes only after a stop, a pause not after a pause, and a restart keeps to what will be
selected when its turn comes (`SelAt`); that is why a stream that a restart keeps is one that has a position. `StreamsInv` has each stream by itself
and all of them against the commands. `ParsedInv` and `PlacesParsed` say how far the file has been
read, and that no stream stands at a block that has not been parsed. `FrontInv` is what a read for the request in front
may rely on when it is over: the request is there, it was not interrupted, and its stream is where the state of the read left it, unless
it was deselected meanwhile. The quota of an audio sample, the numbers of blocks and the files are arbitrary.

`SamplesInOrder` speaks of the step that makes a sample. `SearchInv` follows the search for a stream's next block through all the places at
which it can be left and taken up again: bytes that are missing in the middle of a cluster, a cluster that ends, the next one
that is found, parsed in part and searched again, a command that comes between. `Gathered` says that the blocks taken so far are
those of the stream from the current one up to the place reached, each once and in order; `Continues`, that the current
block is the one after the last sample, or the first at the position sought. The lemma `ScanIs` says what one scan does; `SearchedOn` and
`GatherCross` carry `Gathered` over a part of a cluster and over its end; `TimeOrder`, that the count of blocks that
stands for the time in the model orders them as the file does. TLC has checked `SearchInv` on the instance of `mf_source`.

**The Media Foundation page cache.** `ReaderSound` says what is true of the pages, the read in progress, the counts
and the position of the stream, and that `LockPage` never misses (`~missed`); only together with what a request has achieved so far
are they inductive. `AsyncInv` of `AsyncReaderProofs` has the pages (`HeldPages`: each is blank, being read, or holds all that the file has
at its place), the counts against the blocks the streams have locked (`RefsAre`, `PinsThere`), and four parts about the work thread.
`AsyncRange` ties the range that is remembered, the page that is read into and the position of the stream to the result of the read; after
a seek the position is that of the page or not behind the place sought. `AsyncSerial` is `ReadSerially`, for each stream by itself.
`AsyncExtents` says that the blocks `GetSampleExtent` is done with are in the cache, and `AsyncTarget` that the range ends where the block
that is wanted does and all of the block before it is cached: so when the read is over, `LockPage` finds its pages.
Lemmas state what each method returns, with `Outcome` for the results of `AsyncReadInit` and `AsyncReadContinue`. They rest on two more:
what is cached with its bytes stays until a purge (`Keeps`, `ThereStays`), and a change that leaves locked pages
alone leaves the counts right (`LocksStay`). `PurgeIs` is why a purge does no harm: a page that ends before the first
cluster in use is no stream's. That there are never more pages than the file has and the rest of a region (`AllInUse`) is a count: a region is
made only when every page holds a place of the file and one place is missing.

**Only model-checked:**

* Liveness (`CallsReturn`, `FileFinished`, `Released`, `StopAndSeekReturn`,
  `GetBufferReturns`, `OggProgress`, `AllHandled`, `DecoderGoesOn`), which is out of the prover's reach.
* `BlockTimecodeFits` of the interleaver: it is not true of all times and lengths of queue (`audio_ends_first` is a case where it fails), so that
  a theorem would need a bound on the frames of an upstream that the code does not have.
* `OggSource`: its page parser uses a recursive operator, which is out of the prover's reach.

## Disagreements found

With a run:

* `audio_ends_first`: when audio ends with one frame queued, the hold-back rule
  (`if (i == j)  //weird`, `webmmuxcontext.cc:1284`) keeps that frame, and all video
  behind it, until video ends. The last cluster then begins at that frame's time
  and the relative timecodes overflow a `SHORT`, against the assertion in `WriteBlock`.
* `vorbis_flush`: `BeginFlush` of the Vorbis decoder leaves a `Receive` that waits for a
  buffer blocked, when all buffers are in the queue, against the comment that says what a
  flush has to do (`webmvorbisdecoderinpin.cc:269`).
* `mf_downmix`: of a stream of 6.1 channels the Media Foundation Vorbis decoder mixes
  the side channels to the wrong sides, and its fold to 5.1 puts left into right's place.

Found with the models and confirmed in the code, without a run of their own:

* Muxer. The same hold-back rule makes the muxer keep every video sample, so a
  finite allocator runs dry and the graph stalls, against the comment that sizes
  the allocator (`webmmuxinpinvideo.cc:146`). `FlushAudio` empties the video queue as well, and the next video
  frame may be a delta frame, against the assertion in `StreamVideoVPx::Receive`. Stopping before the third
  Ogg Vorbis header writes clusters while the track header is still in `m_buf`, against
  `assert(m_bBufferData == false)`.
* Splitter's page cache. A block can be wholly available while the page it ends on is not;
  `InsertPage` then refuses the page, so `LockPages` fails, against the assertion in
  `Stream::SetCurr`; the model ends there, and does not follow the locks that were already taken. `Decommit` destroys the pages but leaves the cache of iterators to
  them, which the first `Read` of the next connection searches.
* Splitter. The sample count is taken before the lock is given up for buffers; after a seek to a place
  that is not loaded `PopulateSamples` answers underflow, against the assertion (`webmsplitoutpin.cc:1445`). A
  `GetState` without time-out that sleeps while the stream starves is not woken by `Stop`.
  After a parse error the pins are not told and wait until `Stop`.
* Allocator. Of two threads that wait in `GetBuffer`, `Decommit` wakes one, for the event is an
  auto-reset one; the other sleeps on. (`SamplePool` is checked with one, as every pin uses it.)
* Ogg source. A stop between the gathering of packets and the buffers for them leaves the packets in the track
  (`OggTrackAudio::OnReset` does not clear them). The next session plays them first, after
  which the granule positions of the file's start are not larger than the track's: a debug
  build asserts (`oggtrackaudio.cc:415`), a release build ends the thread without an end of stream.
  `ReadInt` returns a positive number on an error, so that a file that ends inside a page header is
  read as zeros. A second `Load` after one that was refused
  begins where that one stopped, against `assert(m_page_num == 0)`.
* Media Foundation source. A read that fails while the file is being loaded is never answered. A parse error during playback
  ends the work thread without `Error()`. A restart that adds a stream which has
  no position fails an assertion (`webmmfsource.cc:2604`), one that deselects a stream while its block
  is being found leaves the work thread with a null block (`webmmfsource.cc:5051`; the model stops there).
* Media Foundation page cache. A read may have completed, with its callback waiting for the lock, when a seek resets
  `m_avail`: the callback then raises it to the place the reader was at (`mkvreader.cc:1479`), and `Length` announces bytes
  that are not cached. `AsyncReadInit` raises it to the length of the file when it is asked at the end. What is
  read is in the cache all the same (`ReaderSound`). Of a file of unknown length that ends with a full page,
  a request at the end reads nothing and is answered `S_OK` without a page.
* Vorbis decoder. An end of stream that comes while the filter is stopped is kept for the next session
  (`LateEOS`). `Stop` gives its thread five seconds and then goes on without it.
* DirectShow VP8/VP9 decoder. `ApplyPostProcessing` compares the filter's own state with `State_Paused`
  (`vpxdecoderfilter.cc:564`), whose value is that of `kStatePausedWaitingForKeyframe`, so that a paused filter that has
  its key frame answers that it is not paused. Pictures are delivered while the state says that a key frame is waited
  for. A start that fails is only asserted not to. `Outpin::Connect` that fails after the
  other pin has accepted leaves the type stored.
* File source. A damaged cluster makes `LoadCluster` fail for ever, and the loop that
  only asserts it does not (`webmsource/webmsourceoutpin.cc`) runs on with the lock held; the model's file is sound.
* Media Foundation decoders. A comment says that a key frame resets the drop counter (`webmmfvp8dec.cc:1766`);
  it only spends from it. `m_post_process_samples` is never reset, so that after a second
  negotiation of types the samples of another format are mixed (`Renegotiates`).
* Encoder. A sample is let through that is later than the last by any number of units of 100 ns
  (`vp8encoderinpin.cc:770`), and then its time is divided to milliseconds (line 844), so that samples less than a
  millisecond apart have the same time in the codec (`given` with equal `pts`, which the model's run reaches). Its header says that times "MUST be strictly
  increasing" (`third_party/libvpx/vpx/vpx_encoder.h:906`). `Stop` while the preview pin renders destroys the codec that `Receive` then uses, against the
  assertion that encoding succeeds (`vp8encoderinpin.cc:849`). A flush resets neither `m_start_reftime` nor `m_bEndOfStream`
  and leaves `m_pending`: samples after a seek back are dropped, and frames from before it are
  sent. `m_last_keyframe_time` is not reset by `Start`, and with frames kept back in
  the codec it lags: key frames come in bursts or late, against "Fixed keyframe
  interval" (`vp8encoder.idl`).

## Not modelled

* Of the muxer: media type negotiation and pin connection, the byte layout of the file, property
  pages, codec private data, malformed samples, frames whose time does not grow within a
  stream, overflow of the 32-bit timecode.
* Of the splitter's page cache: the synchronous reads while the pin connects, the release counts of
  samples, a lock that fails in a release build.
* Of the splitter: media types, property reporting, the quality and latency interfaces, rates,
  stop positions; of `libmkvparser` laced blocks, preroll and discontinuity flags.
* Of the samples: their contents and times; the pool of `CVP8Sample`, whose free list is used without a
  lock by two threads (a data race).
* Of the Ogg source: corrupt fields other than page numbers and missing bytes, a file that ends inside a table of
  segments, the contents of packets, the position of the allocator's sizes. Seeking is commented out in the code.
* Of the Media Foundation source: thinning, the loading of cue points block by block, the
  cancellation of reads inside the byte stream, presentation descriptors; of its page cache short
  reads before the end, a seek of the byte stream that fails, a restart that adds streams.
* Of the decoders and the encoder: media types, sizes, strides and pixels, codec settings and how they are kept,
  property pages, first-pass statistics, the preview pin's allocator, the codecs themselves and
  key frames they choose.
* The five second time-outs: `Seize` of the lock always succeeds in the end, and a wait for a thread has no limit. The time a
  call takes is not in the models.
* Data races: where the code reads without the lock what another thread writes (the request queue of
  the Media Foundation source, the flush of its VP8 decoder) the models interleave whole steps.
* Of the file source: the headers that `Load` parses, a damaged file; otherwise as the splitter.
* Of the DirectShow VP8/VP9 decoders: the contents of media types, scaling and copying, post-processing settings, a codec that
  cannot be set up, position requests that are passed on. `vp8decoder` and `vp9decoder` are copies of
  `vpxdecoder` for one codec; the map names the lines of `vpxdecoder`.
* `webmvorbisencoder` has the queue, thread and events of
  `webmvorbisdecoder`; a separate model would repeat it.
* `webmcc`, the EBML writer, COM and media type helpers, IDL, `makewebm` and `playwebm` are conversions,
  plumbing or straight-line use of DirectShow: no state that steps of several actors could get wrong.
  Installers, samples, imported assembly and vendored code are left out for good.

The components with status `not_modelled` in `PROJECT.json` have their reasons there.

## Plan

Done: the interleaver with its abstract file, the muxer's threads, the splitter's page cache,
the splitter, the file source, the allocator, the DirectShow decoders, the Media Foundation source and its page cache,
the Media Foundation decoders, the encoder, the Ogg source; proofs of what the runs check of the
interleaver, the muxer's threads, the splitter and its page cache, the file source, the allocator, the DirectShow decoders,
the Media Foundation source, its page cache, its decoders and the encoder.

Next, in order:

1. An abstract store that both page caches implement (a locked page stays readable).
2. `SplitFilter` composed with `MkvReader`, and `MFSource` with `AsyncReader`, at the interface of a stream's block.
