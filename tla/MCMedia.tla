---- MODULE MCMedia ----
(***************************************************************************)
(* One TLC run for the components that handle media and their statistics   *)
(* and share no state. A behaviour picks one component, runs it, and       *)
(* leaves the others where they start: the states of the run are the sum   *)
(* of the components' states and not their product.                        *)
(***************************************************************************)
EXTENDS NackBuffer, Red, RtxProber, SampleClock, AudioReader, AudioWriter, PcmBuffer, WavFile,
        G711, Resampler, RtcStats

VARIABLE mediaFocus    \* the component this behaviour runs

MCShape == {[rate |-> 6, channels |-> 1], [rate |-> 4, channels |-> 1], [rate |-> 9, channels |-> 2]}

MediaComponent == {"nack", "red", "prober", "clock", "reader", "writer", "pcm", "wav", "g711",
                    "resampler", "stats"}

mediaVars == <<mediaFocus, nackVars, redVars, proberVars, writerVars, readerVars, audioWriterVars,
               pcmVars, wavVars, companderVars, resamplerVars, statsVars>>

(* A component with several initial states takes one of them when it only waits. *)
MediaInit ==
    /\ mediaFocus \in MediaComponent
    /\ NackInit
    /\ RedInit /\ (mediaFocus = "red" \/ next.seq = 0)
    /\ ProberInit /\ WriterInit
    /\ ReaderInit /\ (mediaFocus = "reader" \/ (startSeq = 0 /\ conceal))
    /\ AudioWriterInit
    /\ PcmInit /\ (mediaFocus = "pcm" \/ (total = 12 /\ channels = 1))
    /\ WavInit /\ (mediaFocus = "wav" \/ (wavFormat = "s16" /\ wavChannels = 1 /\ ~wavClosed))
    /\ CompanderInit /\ ResamplerInit /\ RtcStatsInit

MediaNext ==
    /\ UNCHANGED mediaFocus
    /\ \/ /\ mediaFocus = "nack" /\ NackNext
          /\ UNCHANGED <<redVars, proberVars, writerVars, readerVars, audioWriterVars, pcmVars,
                         wavVars, companderVars, resamplerVars, statsVars>>
       \/ /\ mediaFocus = "red" /\ RedNext
          /\ UNCHANGED <<nackVars, proberVars, writerVars, readerVars, audioWriterVars, pcmVars,
                         wavVars, companderVars, resamplerVars, statsVars>>
       \/ /\ mediaFocus = "prober" /\ ProberNext
          /\ UNCHANGED <<nackVars, redVars, writerVars, readerVars, audioWriterVars, pcmVars,
                         wavVars, companderVars, resamplerVars, statsVars>>
       \/ /\ mediaFocus = "clock" /\ WriterNext
          /\ UNCHANGED <<nackVars, redVars, proberVars, readerVars, audioWriterVars, pcmVars,
                         wavVars, companderVars, resamplerVars, statsVars>>
       \/ /\ mediaFocus = "reader" /\ ReaderNext
          /\ UNCHANGED <<nackVars, redVars, proberVars, writerVars, audioWriterVars, pcmVars,
                         wavVars, companderVars, resamplerVars, statsVars>>
       \/ /\ mediaFocus = "writer" /\ AudioWriterNext
          /\ UNCHANGED <<nackVars, redVars, proberVars, writerVars, readerVars, pcmVars, wavVars,
                         companderVars, resamplerVars, statsVars>>
       \/ /\ mediaFocus = "pcm" /\ PcmNext
          /\ UNCHANGED <<nackVars, redVars, proberVars, writerVars, readerVars, audioWriterVars,
                         wavVars, companderVars, resamplerVars, statsVars>>
       \/ /\ mediaFocus = "wav" /\ WavNext
          /\ UNCHANGED <<nackVars, redVars, proberVars, writerVars, readerVars, audioWriterVars,
                         pcmVars, companderVars, resamplerVars, statsVars>>
       \/ /\ mediaFocus = "g711" /\ CompanderNext
          /\ UNCHANGED <<nackVars, redVars, proberVars, writerVars, readerVars, audioWriterVars,
                         pcmVars, wavVars, resamplerVars, statsVars>>
       \/ /\ mediaFocus = "resampler" /\ ResamplerNext
          /\ UNCHANGED <<nackVars, redVars, proberVars, writerVars, readerVars, audioWriterVars,
                         pcmVars, wavVars, companderVars, statsVars>>
       \/ /\ mediaFocus = "stats" /\ RtcStatsNext
          /\ UNCHANGED <<nackVars, redVars, proberVars, writerVars, readerVars, audioWriterVars,
                         pcmVars, wavVars, companderVars, resamplerVars>>

MediaSpec == MediaInit /\ [][MediaNext]_mediaVars

====
