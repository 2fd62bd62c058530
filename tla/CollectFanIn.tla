---------------------------- MODULE CollectFanIn ----------------------------
(***************************************************************************)
(* One scrape inside PrometheusCollector.Collect                           *)
(* (pkg/registry/collector.go): every collector runs in a goroutine of its *)
(* own and sends its metrics, through a channel that a wrapper goroutine   *)
(* empties when the registry has an instance name, to the channel of the   *)
(* scrape.  A collector may panic after any of its metrics.  Metrics are   *)
(* counted; which ones they are is left out.                               *)
(***************************************************************************)
EXTENDS Naturals, FiniteSets

CONSTANTS
  Sources,      \* the collectors of the copied map
  PerSource,    \* bound: metrics a collector emits
  WrapCap       \* capacity of the wrapper's channel (100)

ASSUME FanInAssumption ==
  PerSource \in Nat /\ WrapCap \in Nat /\ IsFiniteSet(Sources)

VARIABLES
  wrapping,     \* r.instance # ""
  fanAt,        \* Collect: waiting, closed, emitting, returned
  source,       \* per collector: [left, at, ok]
  buffered,     \* metrics in the wrapper's channel
  wrapClosed,   \* close(metricCh)
  wrapper,      \* the wrapper goroutine: none, running, done
  sent,         \* history: metrics the collectors have sent
  delivered,    \* metrics in the scrape's channel
  results       \* collectors with a result in resultCh

fanVars == <<wrapping, fanAt, source, buffered, wrapClosed, wrapper, sent,
             delivered, results>>

MaxSent == PerSource * Cardinality(Sources)

FanTypeOK ==
  /\ wrapping \in BOOLEAN
  /\ fanAt \in {"waiting", "closed", "emitting", "returned"}
  /\ source \in [Sources -> [left : 0..PerSource, at : {"run", "done"}, ok : BOOLEAN]]
  /\ buffered \in 0..WrapCap /\ wrapClosed \in BOOLEAN
  /\ wrapper \in {"none", "running", "done"}
  /\ sent \in 0..MaxSent /\ delivered \in 0..MaxSent
  /\ results \subseteq Sources

FanInit ==
  /\ wrapping \in BOOLEAN
  /\ fanAt = "waiting"
  /\ source \in [Sources -> [left : 0..PerSource, at : {"run"}, ok : {TRUE}]]
  /\ buffered = 0 /\ wrapClosed = FALSE
  /\ wrapper = IF wrapping THEN "running" ELSE "none"
  /\ sent = 0 /\ delivered = 0 /\ results = {}

(* col.Collect(ch) sends; a full channel makes it wait. *)
SourceEmits(c) ==
  /\ source[c].at = "run" /\ source[c].left > 0
  /\ IF wrapping
     THEN buffered < WrapCap /\ buffered' = buffered + 1 /\ UNCHANGED delivered
     ELSE delivered' = delivered + 1 /\ UNCHANGED buffered
  /\ source' = [source EXCEPT ![c].left = @ - 1]
  /\ sent' = sent + 1
  /\ UNCHANGED <<wrapping, fanAt, wrapClosed, wrapper, results>>

(* collectFromCollector returns, after a panic too, and leaves its result. *)
SourceReturns(c) ==
  /\ source[c].at = "run"
  /\ \E panic \in BOOLEAN :
       /\ ~panic => source[c].left = 0
       /\ source' = [source EXCEPT ![c].at = "done", ![c].ok = ~panic]
  /\ results' = results \union {c}
  /\ UNCHANGED <<wrapping, fanAt, buffered, wrapClosed, wrapper, sent, delivered>>

(* collectWg.Wait, then close of both channels. *)
SlipCloseWrapper ==
  /\ fanAt = "waiting"
  /\ \E c \in Sources : source[c].at = "done"
  /\ fanAt' = "closed" /\ wrapClosed' = wrapping
  /\ UNCHANGED <<wrapping, source, buffered, wrapper, sent, delivered, results>>

CloseWrapper ==
  /\ fanAt = "waiting"
  /\ \A c \in Sources : source[c].at = "done"
  /\ fanAt' = "closed" /\ wrapClosed' = wrapping
  /\ UNCHANGED <<wrapping, source, buffered, wrapper, sent, delivered, results>>

(* wrapMetricsWithInstance: until the channel is closed and empty. *)
SlipWrapperForwards ==
  /\ wrapper = "running" /\ (buffered > 0 \/ wrapClosed)
  /\ buffered' = buffered - 1 /\ delivered' = delivered + 1
  /\ UNCHANGED <<wrapping, fanAt, source, wrapClosed, wrapper, sent, results>>

WrapperForwards ==
  /\ wrapper = "running" /\ buffered > 0
  /\ buffered' = buffered - 1 /\ delivered' = delivered + 1
  /\ UNCHANGED <<wrapping, fanAt, source, wrapClosed, wrapper, sent, results>>

WrapperReturns ==
  /\ wrapper = "running" /\ buffered = 0 /\ wrapClosed
  /\ wrapper' = "done"
  /\ UNCHANGED <<wrapping, fanAt, source, buffered, wrapClosed, sent, delivered,
                 results>>

(* wrapperWg.Wait; the results are read, and every collector gets its duration
   and success metric. *)
AwaitWrapper ==
  /\ fanAt = "closed" /\ wrapper # "running"
  /\ fanAt' = "emitting"
  /\ UNCHANGED <<wrapping, source, buffered, wrapClosed, wrapper, sent,
                 delivered, results>>

EmitResults ==
  /\ fanAt = "emitting"
  /\ fanAt' = "returned"
  /\ UNCHANGED <<wrapping, source, buffered, wrapClosed, wrapper, sent,
                 delivered, results>>

FanNext ==
  \/ \E c \in Sources : SourceEmits(c) \/ SourceReturns(c)
  \/ CloseWrapper \/ WrapperForwards \/ WrapperReturns
  \/ AwaitWrapper \/ EmitResults

FanSpec == FanInit /\ [][FanNext]_fanVars /\ WF_fanVars(FanNext)

(* Nothing is sent on a closed channel and nothing is lost: the wrapper's
   channel is closed only when no collector runs any more, panicked ones
   included, and a scrape returns with every metric that was sent and a result
   for every collector (registry/collector.go:181-204). *)
ScrapeIsComplete ==
  /\ wrapClosed => \A c \in Sources : source[c].at = "done"
  /\ fanAt = "returned" => delivered = sent /\ results = Sources
=============================================================================
