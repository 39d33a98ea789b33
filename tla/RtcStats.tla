------------------------------ MODULE RtcStats ------------------------------
(***************************************************************************)
(* Stats reporting (webrtcStatsWorker of call.go, rtcstats/rtcstats.go):   *)
(* each tick sends the plain stats, which keep nothing, then a report      *)
(* compressed against the previous tick's together with the trace lines    *)
(* that other goroutines have queued.  One of the two peers is modelled,   *)
(* the other is alike.                                                     *)
(***************************************************************************)
EXTENDS Integers, Sequences, FiniteSets, SequencesExt

CONSTANTS ReportId,     \* keys of a getStats report
          FieldValue,   \* values of a report's counter
          Tracer,       \* goroutines that emit trace lines
          MaxTicks,     \* bound: ticks of the worker
          MaxStatsPeers \* bound: peers the call builds

ASSUME RtcStatsAssumption ==
    /\ FieldValue \subseteq Nat /\ MaxTicks \in Nat /\ MaxStatsPeers \in Nat \ {0}

VARIABLES now,           \* milliseconds
          ticks,
          worker,        \* where statsTick stands: "idle", "collected", "sending" or "stopped"
          statsPeer,     \* the current peer
          traceBuf,      \* peer |-> its TraceBuffer
          tracing,       \* tracer |-> the line it has stamped and not queued yet
          prevRtcStats,  \* the baseline
          snapshot,      \* the stats last collected
          batch,         \* the lines being sent
          received,      \* the times of the lines the SFU last received
          rebuilt,       \* the stats the SFU has rebuilt
          reportLost     \* a report did not reach the SFU

statsVars == <<now, ticks, worker, statsPeer, traceBuf, tracing, prevRtcStats, snapshot,
               batch, received, rebuilt, reportLost>>

Absent == -1
traceLine(ts) == [ts |-> ts, delta |-> <<>>]
NotTracing == [state |-> "idle", ts |-> 0, peer |-> 0]
emptyStats == [r \in {} |-> [v |-> 0, ts |-> 0]]

RtcStatsInit ==
    /\ now = 2 /\ ticks = 0 /\ worker = "idle" /\ statsPeer = 1
    /\ traceBuf = [p \in 1..MaxStatsPeers |-> <<>>] /\ tracing = [t \in Tracer |-> NotTracing]
    /\ prevRtcStats = emptyStats /\ snapshot = emptyStats /\ batch = <<>>
    /\ received = <<>> /\ rebuilt = emptyStats /\ reportLost = FALSE

(***************************************************************************)
(* DeltaCompressionRtcStats: unchanged fields go, and the largest time is  *)
(* hoisted, 0 standing for it.                                             *)
(***************************************************************************)
maxTimestamp(stats) ==
    IF \E r \in DOMAIN stats : TRUE
    THEN CHOOSE ts \in {stats[r].ts : r \in DOMAIN stats} : \A r \in DOMAIN stats : stats[r].ts <= ts
    ELSE -1

compressed(old, new) ==
    [r \in DOMAIN new |->
       LET same(f) == r \in DOMAIN old /\ old[r][f] = new[r][f] IN
       [v |-> IF same("v") THEN Absent ELSE new[r].v,
        ts |-> IF same("ts") THEN Absent ELSE IF new[r].ts = maxTimestamp(new) THEN 0 ELSE new[r].ts]]

\* What a receiver makes of it: an absent field keeps its value.
applied(old, delta, hoisted) ==
    [r \in DOMAIN delta |->
       LET kept(f) == IF r \in DOMAIN old THEN old[r][f] ELSE Absent IN
       [v |-> IF delta[r].v = Absent THEN kept("v") ELSE delta[r].v,
        ts |-> IF delta[r].ts = Absent THEN kept("ts") ELSE IF delta[r].ts = 0 THEN hoisted ELSE delta[r].ts]]

-----------------------------------------------------------------------------
(***************************************************************************)
(* Emit reads the clock, then takes the lock to append: lines may be       *)
(* queued out of order.  Each tracer emits one line.                       *)
(***************************************************************************)
EmitStamps(t) ==
    /\ tracing[t].state = "idle"
    /\ tracing' = [tracing EXCEPT ![t] = [state |-> "stamped", ts |-> now, peer |-> statsPeer]]
    /\ UNCHANGED <<now, ticks, worker, statsPeer, traceBuf, prevRtcStats, snapshot, batch,
                   received, rebuilt, reportLost>>

EmitQueues(t) ==
    /\ tracing[t].state = "stamped"
    /\ traceBuf' = [traceBuf EXCEPT ![tracing[t].peer] = Append(@, traceLine(tracing[t].ts))]
    /\ tracing' = [tracing EXCEPT ![t].state = "done"]
    /\ UNCHANGED <<now, ticks, worker, statsPeer, prevRtcStats, snapshot, batch,
                   received, rebuilt, reportLost>>

isReport(line) == line.delta # <<>>
reportQueued == \E i \in DOMAIN traceBuf[statsPeer] : isReport(traceBuf[statsPeer][i])

\* A reconnect builds new peers with empty buffers, and what the old peer's holds is never
\* drained; the baseline stays.
NewStatsPeer ==
    /\ statsPeer < MaxStatsPeers /\ statsPeer' = statsPeer + 1
    /\ reportLost' = (reportLost \/ reportQueued)
    /\ UNCHANGED <<now, ticks, worker, traceBuf, tracing, prevRtcStats, snapshot, batch,
                   received, rebuilt>>

-----------------------------------------------------------------------------
\* A tick while connecting is skipped, and a panic in the plain report (report) ends it; one
\* while disconnected ends the worker.
SkipTick ==
    /\ worker = "idle" /\ ticks < MaxTicks
    /\ ticks' = ticks + 1 /\ now' = now + 1
    /\ UNCHANGED <<worker, statsPeer, traceBuf, tracing, prevRtcStats, snapshot, batch,
                   received, rebuilt, reportLost>>

StopStats ==
    /\ worker = "idle" /\ worker' = "stopped"
    /\ UNCHANGED <<now, ticks, statsPeer, traceBuf, tracing, prevRtcStats, snapshot, batch,
                   received, rebuilt, reportLost>>

\* Mutant: the first report stays the baseline.
nextBaselineFirst(stats) == IF prevRtcStats = emptyStats THEN stats ELSE prevRtcStats

nextBaseline(stats) == stats

\* A record for every stream S of a peer, stamped with this tick or earlier.
recordsOf(S) == [S -> [v : FieldValue, ts : {now - 1, now}]]

\* GetRtcStats of the publisher and of the subscriber: whichever streams there are
\* by then, or nothing when they do not encode.
statsNow == UNION {recordsOf(S) : S \in SUBSET ReportId}

\* reportRtcStats up to the emission of the compressed report.
CollectRtcStats(stats) ==
    /\ worker = "idle" /\ ticks < MaxTicks
    /\ ticks' = ticks + 1
    /\ snapshot' = stats /\ prevRtcStats' = nextBaseline(stats)
    /\ traceBuf' = [traceBuf EXCEPT ![statsPeer] =
         Append(@, [ts |-> now, delta |-> <<compressed(prevRtcStats, stats), maxTimestamp(stats)>>])]
    /\ worker' = "collected"
    /\ UNCHANGED <<now, statsPeer, tracing, batch, received, rebuilt, reportLost>>

\* The other peer's stats do not encode: the tick returns before it drains.
OtherPeerFails ==
    /\ worker = "collected" /\ worker' = "idle" /\ now' = now + 1
    /\ UNCHANGED <<ticks, statsPeer, traceBuf, tracing, prevRtcStats, snapshot, batch,
                   received, rebuilt, reportLost>>

\* A line goes behind those that are not later.
inserted(acc, line) ==
    LET later == SelectInSeq(acc, LAMBDA a : a.ts > line.ts)
    IN  InsertAt(acc, IF later = 0 THEN Len(acc) + 1 ELSE later, line)

sorted(lines) ==
    LET upTo[n \in 0..Len(lines)] == IF n = 0 THEN <<>> ELSE inserted(upTo[n - 1], lines[n])
    IN  upTo[Len(lines)]

\* collectTracing drains the peer that is current by then.
collectTracing ==
    /\ worker = "collected" /\ worker' = "sending"
    /\ batch' = sorted(traceBuf[statsPeer])
    /\ traceBuf' = [traceBuf EXCEPT ![statsPeer] = <<>>]
    /\ UNCHANGED <<now, ticks, statsPeer, tracing, prevRtcStats, snapshot,
                   received, rebuilt, reportLost>>

appliedAll(old, lines) ==
    LET upTo[n \in 0..Len(lines)] ==
          IF n = 0 THEN old
          ELSE IF isReport(lines[n]) THEN applied(upTo[n - 1], lines[n].delta[1], lines[n].delta[2])
          ELSE upTo[n - 1]
    IN  upTo[Len(lines)]

timesOf(lines) == [i \in DOMAIN lines |-> lines[i].ts]

\* SendStats: the SFU gets the lines or not; the worker does not retry.
SendStats(arrives) ==
    /\ worker = "sending" /\ worker' = "idle" /\ now' = now + 1
    /\ received' = IF arrives THEN timesOf(batch) ELSE received
    /\ rebuilt' = IF arrives /\ ~reportLost THEN appliedAll(rebuilt, batch) ELSE rebuilt
    /\ reportLost' = (reportLost \/ (~arrives /\ \E i \in DOMAIN batch : isReport(batch[i])))
    /\ batch' = <<>>
    /\ UNCHANGED <<ticks, statsPeer, traceBuf, tracing, prevRtcStats, snapshot>>

RtcStatsNext ==
    \/ \E t \in Tracer : EmitStamps(t) \/ EmitQueues(t)
    \/ NewStatsPeer \/ SkipTick \/ StopStats
    \/ \E stats \in statsNow : CollectRtcStats(stats)
    \/ OtherPeerFails \/ collectTracing
    \/ \E arrives \in BOOLEAN : SendStats(arrives)

RtcStatsSpec == RtcStatsInit /\ [][RtcStatsNext]_statsVars

(***************************************************************************)
(* As long as no report is lost, an SFU that applies the compressed        *)
(* reports in the order it gets them has rebuilt the stats last collected, *)
(* across ticks that were skipped, panicked or stopped before sending and  *)
(* across a change of peers; and the lines of one batch are in the order   *)
(* of their times however their goroutines raced for the lock.             *)
(***************************************************************************)
StatsRebuilt ==
    /\ (~reportLost /\ worker # "sending" /\ ~reportQueued) => rebuilt = snapshot
    /\ \A i \in DOMAIN received : i > 1 => received[i - 1] <= received[i]
=============================================================================
