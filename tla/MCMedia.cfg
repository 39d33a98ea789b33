SPECIFICATION MediaSpec
CONSTANTS
  uint16SizeHalf = 4
  Size = 2
  Packet = {k1, k2, k3}
  Resender = {r1}
  MaxRetries = 1
  NoPacket = NoPacket
  RedWidth = 4
  TsWidth = 4
  Distance = 2
  MaxOffset = 3
  MaxBlock = 2
  MaxSize = 9
  HeaderSize = 2
  Window = 3
  Lengths = {1, 3}
  Steps = {1, 4}
  MaxSent = 4
  MaxDuplicates = 1
  Stream = {s1, s2}
  BatchSize = 2
  Interval = 2
  Duration = 4
  InitialDelay = 1
  MaxNow = 7
  HalfTicks = 8
  Rate = 3
  ClockSecond = 2
  SampleDurations = {0, 1}
  Walls = {0, 1, 3}
  Drops = {0, 1}
  MaxSamples = 3
  ReadSeqMod = 6
  ReadTsMod = 12
  FrameTicks = 2
  FirstSent = {0, 4}
  MaxConceal = 2
  MaxReadSent = 8
  frameSamples = 2
  maxFrames = 2
  WriteSizes = {1, 5}
  MaxWritten = 8
  MaxClears = 1
  StreamBytes = {7, 12}
  BytesPerSample = 2
  Layouts = {1, 2}
  MaxRead = 5
  ChunkSizes = {2, 3}
  Overlaps = {0, 1, 4}
  Durations = {0, 5, 30}
  PcmRate = 3
  Second = 10
  WavRate = 8000
  WavChannels = {1, 2}
  SampleByte = {0, 130, 255}
  MaxWavFrames = 3
  Block = 512
  Shape <- MCShape
  OutRate = 6
  FrameSize = 4
  Zeros = 2
  MaxWrite = 4
  MaxFed = 16
  ReportId = {r1}
  FieldValue = {1, 2}
  Tracer = {g1}
  MaxTicks = 3
  MaxStatsPeers = 2
INVARIANTS
  NackSound
  RedLossless
  
  SamplesNeverOverlap
  AudioInOrder
  PlaysNewest
  PcmFaithful
  WavReadsBack
  CompandingFaithful
  ResampledExactly
  
CHECK_DEADLOCK FALSE
