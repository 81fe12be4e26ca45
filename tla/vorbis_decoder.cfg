\* Vorbis: buffers of two samples, three of them; a seek, a stop and a second session.
\* VP8, VP9: one buffer; connections, pauses, seeks and sessions.
SPECIFICATION DecodersSpec
CONSTANTS
  Target = 2
  NBuffers = 3
  Packets <- SmallOrLarge
  LateEOS = FALSE
  MaxPackets = 3
  MaxCalls = 4
  PictureSizes = {1, 2}
  CBuffers = 2
  MaxFed = 3
  MaxOps = 8
INVARIANTS RenderedOnce DecoderSound
PROPERTIES CallsReturn DecoderGoesOn
CHECK_DEADLOCK FALSE
