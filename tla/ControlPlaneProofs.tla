------------------------- MODULE ControlPlaneProofs -------------------------
(***************************************************************************)
(* What TLAPS proves of the control plane, for every value of the          *)
(* constants: of CollectFanIn, that a scrape loses no metric and is never  *)
(* stuck; of ServerLocks, that a scrape sees one generation and nobody     *)
(* waits in a circle; of ConfigReload, that the settings in effect are     *)
(* those of the file once all is quiet.                                    *)
(***************************************************************************)
EXTENDS MCControlPlane, FiniteSetTheorems, TLAPS

(***************************************************************************)
(* CollectFanIn                                                            *)
(***************************************************************************)

(* Types, without the bound on what is sent. *)
FanTypes ==
  /\ wrapping \in BOOLEAN
  /\ fanAt \in {"waiting", "closed", "emitting", "returned"}
  /\ source \in [Sources -> [left : 0..PerSource, at : {"run", "done"}, ok : BOOLEAN]]
  /\ buffered \in 0..WrapCap /\ wrapClosed \in BOOLEAN
  /\ wrapper \in {"none", "running", "done"}
  /\ sent \in Nat /\ delivered \in Nat
  /\ results \subseteq Sources

(* A metric that was sent is in the wrapper's channel or in the scrape's.  *)
NoMetricLost == sent = delivered + buffered

(* Collect closes the channels after the last collector, and only then.    *)
ClosedAfterSources ==
  fanAt # "waiting" => \A c \in Sources : source[c].at = "done"

WrapClosedLate == wrapClosed => fanAt # "waiting"

ResultPerReturn == results = {c \in Sources : source[c].at = "done"}

(* The wrapper leaves its channel empty, and Collect does not go on before *)
(* the wrapper has left.                                                   *)
WrapperEmpties ==
  /\ wrapper = "none" <=> ~wrapping
  /\ ~wrapping => buffered = 0
  /\ wrapper = "done" => wrapClosed /\ buffered = 0
  /\ fanAt \in {"emitting", "returned"} => wrapper # "running"

FanInv ==
  /\ FanTypes /\ NoMetricLost /\ ClosedAfterSources /\ WrapClosedLate
  /\ ResultPerReturn /\ WrapperEmpties

(* The invariant holds when Collect has started its goroutines.            *)
LEMMA FanInitInv == FanInit => FanInv
<1> SUFFICES ASSUME FanInit PROVE FanInv
  OBVIOUS
<1> USE FanInAssumption DEF FanInit
<1>1. source \in [Sources -> [left : 0..PerSource, at : {"run", "done"}, ok : BOOLEAN]]
  OBVIOUS
<1>2. \A c \in Sources : source[c].at = "run"
  OBVIOUS
<1>w. wrapping \in BOOLEAN /\ wrapClosed \in BOOLEAN
  BY Zenon
<1>x. wrapper \in {"none", "running", "done"}
  BY Zenon
<1>b. buffered \in 0..WrapCap /\ sent \in Nat /\ delivered \in Nat
  OBVIOUS
<1> HIDE DEF FanInit
<1>3. FanTypes
  <2>1. fanAt = "waiting" /\ results = {}
    BY DEF FanInit
  <2> QED  BY <1>1, <1>b, <1>w, <1>x, <2>1 DEF FanTypes
<1> USE DEF FanInit
<1> QED
  BY <1>2, <1>3 DEF FanInv, NoMetricLost, ClosedAfterSources, WrapClosedLate,
                    ResultPerReturn, WrapperEmpties

(* The invariant survives every step of a scrape.                          *)
LEMMA FanNextInv == FanInv /\ [FanNext]_fanVars => FanInv'
<1> SUFFICES ASSUME FanInv, [FanNext]_fanVars PROVE FanInv'
  OBVIOUS
<1> USE FanInAssumption
    DEF FanInv, FanTypes, NoMetricLost, ClosedAfterSources, WrapClosedLate,
        ResultPerReturn, WrapperEmpties
<1>1. ASSUME NEW c \in Sources, SourceEmits(c) PROVE FanInv'
  <2> USE <1>1 DEF SourceEmits
  <2>1. source[c] \in [left : 0..PerSource, at : {"run", "done"}, ok : BOOLEAN]
    OBVIOUS
  <2>2. /\ source' \in [Sources -> [left : 0..PerSource, at : {"run", "done"},
                                    ok : BOOLEAN]]
        /\ \A b \in Sources : source'[b].at = source[b].at
    BY <2>1
  <2>3. fanAt = "waiting" /\ ~wrapClosed /\ wrapper # "done"
    OBVIOUS
  <2>4. /\ buffered' \in 0..WrapCap /\ sent' \in Nat /\ delivered' \in Nat
        /\ sent' = delivered' + buffered'
    BY <2>1
  <2>5. FanTypes'
    BY <2>2, <2>4
  <2>6. ResultPerReturn'
    BY <2>2
  <2>7. WrapperEmpties'
    BY <2>3
  <2> QED  BY <2>2, <2>3, <2>4, <2>5, <2>6, <2>7
<1>2. ASSUME NEW c \in Sources, SourceReturns(c) PROVE FanInv'
  <2> USE <1>2 DEF SourceReturns
  <2>1. fanAt = "waiting" /\ ~wrapClosed
    OBVIOUS
  <2>2. PICK panic \in BOOLEAN :
          source' = [source EXCEPT ![c].at = "done", ![c].ok = ~panic]
    OBVIOUS
  <2>3. source' \in [Sources -> [left : 0..PerSource, at : {"run", "done"},
                                 ok : BOOLEAN]]
    <3>1. source \in [Sources -> [left : 0..PerSource, at : {"run", "done"}, ok : BOOLEAN]]
      OBVIOUS
    <3>2. source[c].left \in 0..PerSource
      BY <3>1
    <3> DEFINE x == [left |-> source[c].left, at |-> "done", ok |-> ~panic]
    <3>3. x \in [left : 0..PerSource, at : {"run", "done"}, ok : BOOLEAN]
      BY <3>2, Zenon
    <3>4. source' = [source EXCEPT ![c] = x]
      BY <2>2, <3>1
    <3> HIDE <1>2, FanInAssumption
             DEF x, SourceReturns, FanInv, FanTypes, NoMetricLost, ClosedAfterSources,
                 WrapClosedLate, ResultPerReturn, WrapperEmpties
    <3> QED  BY <3>1, <3>3, <3>4
  <2>4. \A b \in Sources : source'[b].at = IF b = c THEN "done" ELSE source[b].at
    BY <2>2
  <2>5. ResultPerReturn'
    BY <2>4
  <2> QED  BY <2>1, <2>3, <2>5
<1>3. CASE CloseWrapper
  BY <1>3 DEF CloseWrapper
<1>4. CASE WrapperForwards
  BY <1>4 DEF WrapperForwards
<1>5. CASE WrapperReturns
  BY <1>5 DEF WrapperReturns
<1>6. CASE AwaitWrapper
  BY <1>6 DEF AwaitWrapper
<1>7. CASE EmitResults
  BY <1>7 DEF EmitResults
<1>8. CASE UNCHANGED fanVars
  BY <1>8 DEF fanVars
<1> QED
  BY <1>1, <1>2, <1>3, <1>4, <1>5, <1>6, <1>7, <1>8 DEF FanNext

(* With every collector done and the wrapper gone, nothing is on its way.  *)
LEMMA InvIsComplete == FanInv => ScrapeIsComplete
  BY FanInAssumption
     DEF FanInv, FanTypes, NoMetricLost, ClosedAfterSources, WrapClosedLate,
         ResultPerReturn, WrapperEmpties, ScrapeIsComplete

(* Whatever the number of collectors, the metrics of each and the capacity *)
(* of the channel, the wrapper's channel is closed only when no collector  *)
(* runs any more and a scrape returns with every metric that was sent and  *)
(* a result for every collector (registry/collector.go:181-204).           *)
THEOREM ScrapeComplete == FanSpec => []ScrapeIsComplete
  BY InvIsComplete, FanInitInv, FanNextInv, PTL DEF FanSpec

(* Collect that has waited for its collectors has closed the wrapper's     *)
(* channel too.                                                            *)
WrapperIsTold == fanAt # "waiting" /\ wrapping => wrapClosed

(* As long as a scrape is under way one of its goroutines can go on,       *)
(* without a panic: a collector that has sent everything or finds room, or *)
(* the wrapper, or Collect in one of its two waits or at its results.      *)
ScrapeGoesOn ==
  fanAt # "returned" =>
    \/ \E c \in Sources : /\ source[c].at = "run"
                          /\ source[c].left = 0 \/ ~wrapping \/ buffered < WrapCap
    \/ wrapper = "running" /\ (buffered > 0 \/ wrapClosed)
    \/ fanAt = "waiting" /\ \A c \in Sources : source[c].at = "done"
    \/ fanAt = "closed" /\ wrapper # "running"
    \/ fanAt = "emitting"

(* Both channels are closed in one go, and none is opened again.           *)
LEMMA FanNextTold == FanInv /\ WrapperIsTold /\ [FanNext]_fanVars => WrapperIsTold'
<1> SUFFICES ASSUME FanInv, WrapperIsTold, [FanNext]_fanVars PROVE WrapperIsTold'
  OBVIOUS
<1>1. ASSUME UNCHANGED <<fanAt, wrapping, wrapClosed>> PROVE WrapperIsTold'
  BY <1>1 DEF WrapperIsTold
<1>2. CASE CloseWrapper
  BY <1>2, Zenon DEF WrapperIsTold, CloseWrapper
<1>3. CASE AwaitWrapper
  BY <1>3 DEF WrapperIsTold, AwaitWrapper
<1>4. CASE EmitResults
  BY <1>4 DEF WrapperIsTold, EmitResults
<1> QED
  BY <1>1, <1>2, <1>3, <1>4
     DEF FanNext, fanVars, SourceEmits, SourceReturns, WrapperForwards, WrapperReturns

(* A collector waits for the wrapper only when the channel is full, and    *)
(* then the wrapper has something to forward.                              *)
LEMMA ScrapeIsNotStuck == WrapCap > 0 /\ FanInv /\ WrapperIsTold => ScrapeGoesOn
<1> SUFFICES ASSUME WrapCap > 0, FanInv, WrapperIsTold, ~ScrapeGoesOn PROVE FALSE
  OBVIOUS
<1>1. fanAt = "waiting" \/ fanAt = "closed"
  BY DEF FanInv, FanTypes, ScrapeGoesOn
<1>2. CASE fanAt = "waiting"
  <2>1. PICK c \in Sources : source[c].at # "done"
    BY <1>2 DEF ScrapeGoesOn
  <2>2. source[c].at = "run"
    BY <2>1 DEF FanInv, FanTypes
  <2>3. wrapping /\ ~(buffered < WrapCap)
    BY <2>2 DEF ScrapeGoesOn
  <2>4. wrapper = "running"
    BY <1>2, <2>3 DEF FanInv, FanTypes, WrapperEmpties, WrapClosedLate
  <2>5. buffered > 0
    BY <2>3, FanInAssumption DEF FanInv, FanTypes
  <2> QED  BY <2>4, <2>5, <1>2 DEF ScrapeGoesOn
<1>3. CASE fanAt = "closed"
  <2>1. wrapper = "running"
    BY <1>3 DEF ScrapeGoesOn
  <2>2. wrapping
    BY <2>1 DEF FanInv, WrapperEmpties
  <2>3. wrapClosed
    BY <1>3, <2>2 DEF WrapperIsTold
  <2> QED  BY <1>3, <2>1, <2>3 DEF ScrapeGoesOn
<1> QED
  BY <1>1, <1>2, <1>3

(* With any collectors and metrics, and any room in the wrapper's channel  *)
(* (registry/collector.go:168 makes it 100), the goroutines of a scrape    *)
(* never all wait for each other, with no panic to free them.              *)
THEOREM ScrapesNeverStick ==
  ASSUME WrapCap > 0
  PROVE  FanSpec => []ScrapeGoesOn
<1>1. FanInit => WrapperIsTold
  BY DEF FanInit, WrapperIsTold
<1>2. FanInv /\ WrapperIsTold => ScrapeGoesOn
  BY ScrapeIsNotStuck
<1> QED
  BY <1>1, <1>2, FanInitInv, FanNextInv, FanNextTold, PTL DEF FanSpec

(* The metrics the collectors have still to send, as pairs.                *)
Tokens == Sources \X (1..PerSource)
ToSend == {t \in Tokens : t[2] <= source[t[1]].left}

SentBounded == Cardinality(ToSend) + sent <= MaxSent

(* There are as many pairs as the bound says.                              *)
LEMMA TokenCount ==
  /\ IsFiniteSet(Tokens) /\ Cardinality(Tokens) = MaxSent /\ MaxSent \in Nat
  /\ \A T \in SUBSET Tokens :
       IsFiniteSet(T) /\ Cardinality(T) \in Nat /\ Cardinality(T) <= MaxSent
<1>1. IsFiniteSet(1..PerSource) /\ Cardinality(1..PerSource) = PerSource
  BY FS_Interval, FanInAssumption
<1>2. /\ IsFiniteSet(Tokens)
      /\ Cardinality(Tokens) = Cardinality(Sources) * Cardinality(1..PerSource)
  BY <1>1, FS_Product, FanInAssumption DEF Tokens
<1>3. Cardinality(Sources) \in Nat /\ Cardinality(Tokens) \in Nat
  BY <1>2, FS_CardinalityType, FanInAssumption
<1>4. Cardinality(Tokens) = MaxSent
  BY <1>1, <1>2, <1>3, FanInAssumption DEF MaxSent
<1>5. ASSUME NEW T \in SUBSET Tokens
      PROVE  IsFiniteSet(T) /\ Cardinality(T) \in Nat /\ Cardinality(T) <= MaxSent
  BY <1>2, <1>4, <1>5, FS_Subset, FS_CardinalityType
<1> QED
  BY <1>2, <1>3, <1>4, <1>5

(* A metric that is sent is one that was still to send.                    *)
LEMMA SentBound == FanInv /\ SentBounded /\ [FanNext]_fanVars => SentBounded'
<1> SUFFICES ASSUME FanInv, SentBounded, [FanNext]_fanVars PROVE SentBounded'
  OBVIOUS
<1>f. /\ ToSend \subseteq Tokens /\ ToSend' \subseteq Tokens /\ MaxSent \in Nat
      /\ IsFiniteSet(ToSend) /\ Cardinality(ToSend) \in Nat /\ sent \in Nat
  BY TokenCount DEF ToSend, FanInv, FanTypes
<1>s. source \in [Sources -> [left : 0..PerSource, at : {"run", "done"}, ok : BOOLEAN]]
  BY DEF FanInv, FanTypes
<1>1. ASSUME NEW c \in Sources, SourceEmits(c) PROVE SentBounded'
  <2> DEFINE t == <<c, source[c].left>>
  <2>1. /\ source[c].left \in 1..PerSource /\ sent' = sent + 1
        /\ \A b \in Sources :
             source'[b].left = IF b = c THEN source[b].left - 1 ELSE source[b].left
    BY <1>1, <1>s, FanInAssumption DEF SourceEmits
  <2>2. t \in ToSend
    BY <2>1, FanInAssumption DEF ToSend, Tokens
  <2>3. \A u \in Tokens : u \in ToSend' <=> u \in ToSend /\ u # t
    BY <2>1, <1>s, FanInAssumption DEF ToSend, Tokens
  <2>4. ToSend' = ToSend \ {t}
    BY <1>f, <2>3
  <2>5. Cardinality(ToSend') = Cardinality(ToSend) - 1
    BY <1>f, <2>2, <2>4, FS_RemoveElement
  <2> QED  BY <1>f, <2>1, <2>5 DEF SentBounded
<1>2. ASSUME UNCHANGED sent, \A b \in Sources : source'[b].left = source[b].left
      PROVE  SentBounded'
  <2>1. ToSend' = ToSend
    BY <1>2 DEF ToSend, Tokens
  <2> QED  BY <1>2, <2>1 DEF SentBounded, MaxSent
<1>3. ASSUME NEW c \in Sources, SourceReturns(c) PROVE SentBounded'
  BY <1>2, <1>3, <1>s DEF SourceReturns
<1>4. ASSUME UNCHANGED <<source, sent>> PROVE SentBounded'
  BY <1>2, <1>4
<1> QED
  BY <1>1, <1>3, <1>4 DEF FanNext, CloseWrapper, WrapperForwards, WrapperReturns,
                          AwaitWrapper, EmitResults, fanVars

(* At first everything is still to send ...                                *)
LEMMA FanInitBound == FanInit => SentBounded
<1> SUFFICES ASSUME FanInit PROVE SentBounded
  OBVIOUS
<1>1. ToSend \subseteq Tokens
  BY DEF ToSend
<1> QED
  BY <1>1, TokenCount DEF SentBounded, FanInit

(* ... and what is delivered has been sent.                                *)
LEMMA FanBoundType == FanInv /\ SentBounded => FanTypeOK
<1> SUFFICES ASSUME FanInv, SentBounded PROVE FanTypeOK
  OBVIOUS
<1>1. Cardinality(ToSend) \in Nat /\ MaxSent \in Nat
  BY TokenCount DEF ToSend
<1>2. sent \in 0..MaxSent /\ delivered \in 0..MaxSent
  BY <1>1, FanInAssumption DEF FanInv, FanTypes, NoMetricLost, SentBounded
<1> QED
  BY <1>2 DEF FanInv, FanTypes, FanTypeOK

(* What a scrape counts stays within the bound on its metrics.             *)
THEOREM FanTypeCorrect == FanSpec => []FanTypeOK
  BY FanInitBound, FanBoundType, FanInitInv, FanNextInv, SentBound, PTL DEF FanSpec

(***************************************************************************)
(* ServerLocks                                                             *)
(***************************************************************************)

(* A reload that goes on will make one more generation, at most.           *)
RoomToReload ==
  reloadAt \in {"lockS", "electors", "plain", "drain", "lockR", "reinit"}
    => gen < MaxGens

(* A hook that runs, runs on an instance.                                  *)
HooksHaveInstance == \A g \in Gens : InHook(g) => starter[g].on \in Gens

(* s.mu: who reads keeps the writer out.                                   *)
WriterAlone == ServerReaders # {} => reloadAt \in {"idle", "lockS"}

(* A scrape that has copied the map has that of the current generation.    *)
CopyIsCurrent ==
  \A s \in Scrapes : scrape[s].at \in {"collect", "emit"} => scrape[s].gen = gen

LInv == LockTypeOK /\ RoomToReload /\ HooksHaveInstance /\ WriterAlone /\ CopyIsCurrent

(* Two generations are two instances; the first one exists.                *)
LEMMA GensFacts == Gens \subseteq Nat /\ 1 \in Gens /\ \A g \in Gens : g \in 0..MaxGens
  BY GensAssumption DEF Gens

(* Both servers listen and nothing has happened.                           *)
LEMMA LockInitInv == LockInit => LInv
<1> SUFFICES ASSUME LockInit PROVE LInv
  OBVIOUS
<1>1. \A s \in Scrapes : scrape[s].at = "idle"
  BY DEF LockInit, NoScrape
<1>2. election \in BOOLEAN /\ synced \in BOOLEAN
  BY Zenon DEF LockInit
<1>3. scrape \in [Scrapes -> [at : {"idle", "lockS", "copy", "collect", "emit"},
                              via : Http, gen : 0..MaxGens]]
  <2>1. NoScrape \in [at : {"idle", "lockS", "copy", "collect", "emit"},
                      via : Http, gen : 0..MaxGens]
    BY GensAssumption DEF NoScrape, Http
  <2> QED  BY <2>1 DEF LockInit
<1>4. starter \in [Gens -> [at : {"none", "spawned", "started", "hook"},
                            on : 0..MaxGens]]
  <2>1. NoStarter \in [at : {"none", "spawned", "started", "hook"}, on : 0..MaxGens]
    BY GensAssumption DEF NoStarter
  <2> QED  BY <2>1 DEF LockInit
<1>5. inst \in [Gens -> [started : BOOLEAN, up : BOOLEAN, told : BOOLEAN]]
  <2>1. ASSUME NEW g \in Gens PROVE (g = 1 /\ ~election) \in BOOLEAN
    BY Zenon
  <2> QED  BY <2>1 DEF LockInit, NewInst
<1>e. /\ elector \in [Gens -> {"off", "running", "leading", "stopping", "done"}]
      /\ http \in [Http -> {"up", "draining", "down"}]
  BY DEF LockInit, Http
<1>6. LockTypeOK
  <2>1. /\ hookWaits \in {"stopCh", "ctx"} /\ gen \in Gens /\ reloadAt \in ReloadSteps
        /\ downAt \in DownSteps /\ health \in {"idle", "asked", "unhealthy"}
        /\ cancelled \subseteq Gens
    BY GensFacts DEF LockInit, ReloadSteps, DownSteps
  <2> QED  BY <1>2, <1>3, <1>4, <1>5, <1>e, <2>1 DEF LockTypeOK
<1>7. HooksHaveInstance
  BY DEF LockInit, HooksHaveInstance, InHook, NoStarter
<1> QED
  BY <1>1, <1>6, <1>7
     DEF LInv, LockInit, RoomToReload, WriterAlone, ServerReaders, CopyIsCurrent

(* Stop leaves instances behind.                                           *)
LEMMA StoppedType ==
  ASSUME LockTypeOK, NEW n \in Gens
  PROVE  Stopped(n) \in [Gens -> [started : BOOLEAN, up : BOOLEAN, told : BOOLEAN]]
<1>1. (reloadAt = "hook" \/ \E g \in Gens : starter[g] = [at |-> "hook", on |-> n])
        \in BOOLEAN
  BY Zenon
<1> QED
  BY <1>1 DEF Stopped, LockTypeOK

(* Scrapes: each changes its own record, within the locks.                 *)
LEMMA ScrapeSteps ==
  ASSUME LInv, NEW s \in Scrapes,
         ScrapeStep(s) \/ \E v \in Http : ScrapeBegins(s, v)
  PROVE  LInv'
<1> USE GensAssumption DEF LInv, LockTypeOK
<1>1. /\ UNCHANGED <<election, hookWaits, gen, reloadAt, downAt, health, http,
                     elector, cancelled, starter, inst, synced>>
      /\ \E rec \in [at : {"idle", "lockS", "copy", "collect", "emit"},
                      via : Http, gen : 0..MaxGens] :
           /\ scrape' = [scrape EXCEPT ![s] = rec]
           /\ rec.at \in {"collect", "emit"} => rec.gen = gen
           /\ rec.at \notin {"idle", "lockS"} => reloadAt \in {"idle", "lockS"}
  <2> DEFINE Goal(rec) ==
           /\ scrape' = [scrape EXCEPT ![s] = rec]
           /\ rec.at \in {"collect", "emit"} => rec.gen = gen
           /\ rec.at \notin {"idle", "lockS"} => reloadAt \in {"idle", "lockS"}
  <2> DEFINE Rec == [at : {"idle", "lockS", "copy", "collect", "emit"},
                     via : Http, gen : 0..MaxGens]
  <2>0. scrape[s] \in Rec /\ gen \in 0..MaxGens /\ 0 \in 0..MaxGens
    BY GensFacts
  <2>1. ASSUME NEW v \in Http, ScrapeBegins(s, v)
        PROVE  \E rec \in Rec : Goal(rec)
    <3>1. [at |-> "lockS", via |-> v, gen |-> 0] \in Rec
      OBVIOUS
    <3> QED  BY <2>1, <3>1 DEF ScrapeBegins
  <2>2. ASSUME NEW from, NEW to \in {"idle", "lockS", "copy", "collect", "emit"},
               NEW g \in 0..MaxGens, ScrapeAt(s, from, to, g),
               to \in {"collect", "emit"} => g = gen,
               to \notin {"idle", "lockS"} => reloadAt \in {"idle", "lockS"}
        PROVE  \E rec \in Rec : Goal(rec)
    <3>1. [scrape[s] EXCEPT !.at = to, !.gen = g] \in Rec
      BY <2>0
    <3>2. scrape' = [scrape EXCEPT ![s] = [scrape[s] EXCEPT !.at = to, !.gen = g]]
      BY <2>2 DEF ScrapeAt
    <3> QED  BY <2>0, <2>2, <3>1, <3>2
  <2> HIDE DEF Goal, Rec
  <2>3. ASSUME ScrapeStep(s) PROVE \E rec \in Rec : Goal(rec)
    <3>1. CASE ScrapeLocks(s)
      BY <3>1, <2>0, <2>2 DEF ScrapeLocks, ServerReadable
    <3>2. CASE ScrapeCopies(s)
      <4>1. reloadAt \in {"idle", "lockS"}
        BY <3>2 DEF ScrapeCopies, ScrapeAt, WriterAlone, ServerReaders
      <4> QED  BY <3>2, <2>0, <2>2, <4>1 DEF ScrapeCopies
    <3>3. CASE ScrapeCollects(s)
      <4>1. reloadAt \in {"idle", "lockS"} /\ scrape[s].gen = gen
        BY <3>3 DEF ScrapeCollects, ScrapeAt, WriterAlone, ServerReaders, CopyIsCurrent
      <4> QED  BY <3>3, <2>0, <2>2, <4>1 DEF ScrapeCollects
    <3>4. CASE ScrapeEmits(s)
      BY <3>4, <2>0, <2>2 DEF ScrapeEmits
    <3> QED  BY <2>3, <3>1, <3>2, <3>3, <3>4 DEF ScrapeStep
  <2>4. UNCHANGED <<election, hookWaits, gen, reloadAt, downAt, health, http,
                    elector, cancelled, starter, inst, synced>>
    BY DEF ScrapeStep, ScrapeLocks, ScrapeCopies, ScrapeCollects, ScrapeEmits,
           ScrapeAt, ScrapeBegins
  <2> QED  BY <2>1, <2>3, <2>4 DEF Goal, Rec
<1>2. LockTypeOK' /\ CopyIsCurrent'
  BY <1>1 DEF CopyIsCurrent
<1>3. WriterAlone'
  BY <1>1 DEF WriterAlone, ServerReaders
<1>4. RoomToReload' /\ HooksHaveInstance'
  BY <1>1 DEF RoomToReload, HooksHaveInstance, InHook
<1> QED
  BY <1>2, <1>3, <1>4

(* Health requests, electors and hooks touch neither lock nor scrapes.     *)
LEMMA CallbackSteps ==
  ASSUME LInv, NEW g \in Gens,
         \/ HealthAsked \/ HealthAnswered \/ ProbeRestarts \/ CacheSyncs
         \/ ElectorLeads(g) \/ ElectorReturns(g) \/ HookFails(g)
         \/ StopCallback(g) \/ StartCallback(g) \/ HookWaits(g) \/ HookSyncs(g)
  PROVE  LInv'
<1> DEFINE Starter == [at : {"none", "spawned", "started", "hook"}, on : 0..MaxGens]
           Inst == [started : BOOLEAN, up : BOOLEAN, told : BOOLEAN]
<1>1. UNCHANGED <<election, hookWaits, gen, reloadAt, scrape, http>>
  BY DEF HealthAsked, HealthAnswered, ProbeRestarts, CacheSyncs, ElectorLeads,
         ElectorReturns, HookFails, StopCallback, StartCallback, HookWaits, HookSyncs
<1>2. RoomToReload' /\ WriterAlone' /\ CopyIsCurrent'
  BY <1>1 DEF LInv, RoomToReload, WriterAlone, ServerReaders, CopyIsCurrent
<1>3. downAt' \in DownSteps /\ health' \in {"idle", "asked", "unhealthy"}
      /\ cancelled' \subseteq Gens
  BY DEF LInv, LockTypeOK, DownSteps,
         HealthAsked, HealthAnswered, ProbeRestarts, CacheSyncs, ElectorLeads,
         ElectorReturns, HookFails, StopCallback, StartCallback, HookWaits, HookSyncs
<1>4. synced' \in BOOLEAN
  <2>1. UNCHANGED synced \/ synced' = TRUE
    BY DEF HealthAsked, HealthAnswered, ProbeRestarts, CacheSyncs, ElectorLeads,
           ElectorReturns, HookFails, StopCallback, StartCallback, HookWaits, HookSyncs
  <2> QED  BY <2>1 DEF LInv, LockTypeOK
<1>5. elector' \in [Gens -> {"off", "running", "leading", "stopping", "done"}]
  BY DEF LInv, LockTypeOK,
         HealthAsked, HealthAnswered, ProbeRestarts, CacheSyncs, ElectorLeads,
         ElectorReturns, HookFails, StopCallback, StartCallback, HookWaits, HookSyncs
<1>6. \/ UNCHANGED starter
      \/ \E st \in Starter :
           /\ starter' = [starter EXCEPT ![g] = st]
           /\ st.at \in {"started", "hook"} => st.on \in Gens
  <2> USE GensAssumption, GensFacts DEF LInv, LockTypeOK
  <2>1. NoStarter \in Starter /\ [at |-> "spawned", on |-> 0] \in Starter
        /\ [at |-> "started", on |-> gen] \in Starter
        /\ starter[g] \in Starter
    BY DEF NoStarter
  <2>2. CASE ElectorLeads(g)
    BY <2>1, <2>2 DEF ElectorLeads
  <2>3. CASE StartCallback(g)
    BY <2>1, <2>3 DEF StartCallback, NoStarter
  <2>4. CASE HookWaits(g)
    <3>1. [starter[g] EXCEPT !.at = "hook"] \in Starter /\ starter[g].on \in Gens
      BY <2>1, <2>4 DEF HookWaits, HooksHaveInstance, InHook
    <3>2. starter' = [starter EXCEPT ![g] = [starter[g] EXCEPT !.at = "hook"]]
      BY <2>4 DEF HookWaits
    <3> QED  BY <2>1, <3>1, <3>2
  <2>5. CASE HookSyncs(g) \/ HookFails(g)
    BY <2>1, <2>5 DEF HookSyncs, HookFails, NoStarter
  <2> QED
    BY <2>2, <2>3, <2>4, <2>5
       DEF HealthAsked, HealthAnswered, ProbeRestarts, CacheSyncs, ElectorReturns,
           StopCallback
<1>7. starter' \in [Gens -> Starter] /\ HooksHaveInstance'
  BY <1>6 DEF LInv, LockTypeOK, HooksHaveInstance, InHook
<1>8. inst' \in [Gens -> Inst]
  <2>0. inst \in [Gens -> Inst] /\ gen \in Gens
    BY DEF LInv, LockTypeOK
  <2>1. CASE StopCallback(g)
    BY <2>0, <2>1, StoppedType DEF StopCallback, LInv
  <2>2. CASE StartCallback(g)
    BY <2>0, <2>2 DEF StartCallback
  <2>3. CASE HookSyncs(g) \/ HookFails(g)
    <3>1. starter[g].on \in Gens
      BY <2>3 DEF HookSyncs, HookFails, LInv, HooksHaveInstance, InHook
    <3>2. inst[starter[g].on] \in Inst
      BY <2>0, <3>1
    <3>3. PICK n \in Gens : n = starter[g].on
      BY <3>1
    <3>4. inst[n].started \in BOOLEAN /\ inst[n].up \in BOOLEAN /\ inst[n].told \in BOOLEAN
      BY <3>2, <3>3
    <3>5. CASE inst' = [inst EXCEPT ![n].up = inst[n].started]
      BY <2>0, <3>4, <3>5
    <3>6. CASE inst' = [inst EXCEPT ![n].started = FALSE]
      BY <2>0, <3>4, <3>6
    <3> QED  BY <2>3, <3>3, <3>5, <3>6 DEF HookSyncs, HookFails
  <2> QED
    BY <2>0, <2>1, <2>2, <2>3
       DEF HealthAsked, HealthAnswered, ProbeRestarts, CacheSyncs, ElectorLeads,
           ElectorReturns, HookWaits
<1>9. LockTypeOK'
  BY <1>1, <1>3, <1>4, <1>5, <1>7, <1>8 DEF LInv, LockTypeOK
<1> QED
  BY <1>2, <1>7, <1>9 DEF LInv

(* Reload: it leaves the readers' part of s.mu alone, and while it holds   *)
(* the writers' part no scrape has copied a map.                           *)
LEMMA ReloadKeepsLocks ==
  ASSUME LInv, ReloadBegins \/ ReloadProceeds
  PROVE  LInv'
<1> DEFINE Inst == [started : BOOLEAN, up : BOOLEAN, told : BOOLEAN]
<1>1. UNCHANGED <<election, hookWaits, downAt, scrape, health, starter, synced>>
  BY DEF ReloadProceeds, ReloadGoes, ReloadBegins, ReloadLocks, ReloadStops, ReloadDebug,
         ReloadDrained, ReloadLocksRegistry, Reinitializes, ReloadStarts, ReloadHookEnds
<1>2. HooksHaveInstance'
  BY <1>1 DEF LInv, HooksHaveInstance, InHook
<1>t. gen \in Gens /\ gen \in Nat
  BY GensFacts DEF LInv, LockTypeOK
<1>3. \/ UNCHANGED gen /\ reloadAt' \in ReloadSteps
         /\ (reloadAt' \in {"lockS", "electors", "plain", "drain", "lockR", "reinit"}
              => gen < MaxGens)
         /\ (reloadAt' \in {"idle", "lockS"} \/ ServerReaders = {})
      \/ reloadAt = "reinit" /\ reloadAt' = "start" /\ gen' = gen + 1
  <2> USE DEF ReloadGoes, ReloadSteps, LInv, RoomToReload, WriterAlone
  <2>1. CASE ReloadBegins
    BY <2>1 DEF ReloadBegins
  <2>2. CASE ReloadLocks
    BY <2>2 DEF ReloadLocks
  <2>3. CASE ReloadStops
    BY <2>3 DEF ReloadStops
  <2>4. CASE ReloadDebug
    BY <2>4 DEF ReloadDebug
  <2>5. CASE ReloadDrained
    BY <2>5 DEF ReloadDrained
  <2>6. CASE ReloadLocksRegistry
    BY <2>6 DEF ReloadLocksRegistry
  <2>7. CASE Reinitializes
    BY <2>7 DEF Reinitializes
  <2>8. CASE ReloadStarts
    BY <2>8 DEF ReloadStarts
  <2>9. CASE ReloadHookEnds
    BY <2>9 DEF ReloadHookEnds
  <2> QED
    BY <2>1, <2>2, <2>3, <2>4, <2>5, <2>6, <2>7, <2>8, <2>9 DEF ReloadProceeds
<1>4. RoomToReload' /\ gen' \in Gens /\ reloadAt' \in ReloadSteps
  BY <1>3, <1>t, GensAssumption DEF RoomToReload, Gens, LInv, ReloadSteps
<1>5. WriterAlone' /\ CopyIsCurrent'
  <2>1. ServerReaders' = ServerReaders
    BY <1>1 DEF ServerReaders
  <2>2. reloadAt = "reinit" => ServerReaders = {}
    BY DEF LInv, WriterAlone
  <2>3. \A s \in Scrapes : scrape[s].at \in {"collect", "emit"} => s \in ServerReaders
    BY DEF ServerReaders
  <2> QED  BY <1>1, <1>3, <2>1, <2>2, <2>3 DEF LInv, WriterAlone, CopyIsCurrent
<1>6. http' \in [Http -> {"up", "draining", "down"}]
  BY DEF LInv, LockTypeOK, ReloadProceeds, ReloadGoes, ReloadBegins, ReloadLocks,
         ReloadStops, ReloadDebug, ReloadDrained, StartDebug, ReloadLocksRegistry,
         Reinitializes, ReloadStarts, ReloadHookEnds
<1>7. cancelled' \subseteq Gens
  BY <1>t DEF LInv, LockTypeOK, ReloadProceeds, ReloadGoes, ReloadBegins, ReloadLocks,
         ReloadStops, ReloadDebug, ReloadDrained, ReloadLocksRegistry,
         Reinitializes, ReloadStarts, ReloadHookEnds
<1>8. elector' \in [Gens -> {"off", "running", "leading", "stopping", "done"}]
  BY DEF LInv, LockTypeOK, ReloadProceeds, ReloadGoes, ReloadBegins, ReloadLocks,
         ReloadStops, ReloadDebug, ReloadDrained, ReloadLocksRegistry,
         Reinitializes, ReloadStarts, ReloadHookEnds
<1>9. inst' \in [Gens -> Inst]
  <2>0. inst \in [Gens -> Inst]
    BY DEF LInv, LockTypeOK
  <2>1. CASE ReloadStops
    BY <2>0, <2>1, <1>t, StoppedType DEF ReloadStops, LInv
  <2>2. CASE ReloadStarts
    BY <2>0, <2>2 DEF ReloadStarts
  <2>3. CASE ReloadHookEnds
    <3>1. PICK ok \in BOOLEAN :
            inst' = [inst EXCEPT ![gen].up = ok /\ synced /\ inst[gen].started,
                                 ![gen].started = ok /\ synced /\ inst[gen].started]
      BY <2>3 DEF ReloadHookEnds
    <3>2. (ok /\ synced /\ inst[gen].started) \in BOOLEAN
      BY Zenon
    <3> QED  BY <2>0, <3>1, <3>2
  <2> QED
    BY <2>0, <2>1, <2>2, <2>3
       DEF ReloadProceeds, ReloadGoes, ReloadBegins, ReloadLocks, ReloadDebug,
           ReloadDrained, ReloadLocksRegistry, Reinitializes
<1>10. LockTypeOK'
  BY <1>1, <1>4, <1>6, <1>7, <1>8, <1>9 DEF LInv, LockTypeOK
<1> QED
  BY <1>2, <1>4, <1>5, <1>10 DEF LInv

(* Shutdown takes neither lock.                                            *)
LEMMA ShutdownSteps ==
  ASSUME LInv, Sigterm \/ DownProceeds
  PROVE  LInv'
<1> DEFINE Inst == [started : BOOLEAN, up : BOOLEAN, told : BOOLEAN]
<1> USE DEF DownProceeds, DownGoes, Sigterm, DownMain, DownDebug, DownElectors, DownPlain
<1>1. UNCHANGED <<election, hookWaits, gen, reloadAt, scrape, health, starter, synced,
                  elector>>
  OBVIOUS
<1>2. RoomToReload' /\ HooksHaveInstance' /\ WriterAlone' /\ CopyIsCurrent'
  BY <1>1 DEF LInv, RoomToReload, HooksHaveInstance, InHook, WriterAlone, ServerReaders,
              CopyIsCurrent
<1>3. /\ downAt' \in DownSteps /\ cancelled' \subseteq Gens
      /\ http' \in [Http -> {"up", "draining", "down"}]
  BY DEF LInv, LockTypeOK, DownSteps
<1>4. inst' \in [Gens -> Inst]
  BY StoppedType DEF LInv, LockTypeOK
<1>5. LockTypeOK'
  BY <1>1, <1>3, <1>4 DEF LInv, LockTypeOK
<1> QED
  BY <1>2, <1>5 DEF LInv

(* Every step keeps the locks' invariant.                                  *)
LEMMA LockNextInv == LInv /\ [LockNext]_lockVars => LInv'
<1> SUFFICES ASSUME LInv, [LockNext]_lockVars PROVE LInv'
  OBVIOUS
<1>1. CASE UNCHANGED lockVars
  BY <1>1 DEF lockVars, LInv, LockTypeOK, RoomToReload, HooksHaveInstance, InHook,
              WriterAlone, ServerReaders, CopyIsCurrent
<1> QED
  BY <1>1, GensFacts, ScrapeSteps, CallbackSteps, ReloadKeepsLocks, ShutdownSteps
     DEF LockNext

(* Every value of the locks' state is of its type, and no more generations *)
(* are made than the bound allows.                                         *)
THEOREM LockTypeCorrect == LockSpec => []LockTypeOK
<1>1. LInv => LockTypeOK
  BY DEF LInv
<1> QED
  BY <1>1, LockInitInv, LockNextInv, PTL DEF LockSpec

(* A scrape emits what it has copied.                                      *)
LEMMA InvIsOneGeneration == LInv => ScrapeOfOneGeneration
  BY DEF LInv, CopyIsCurrent, ScrapeOfOneGeneration

(* Whatever number of scrapes meets whatever reloads and shutdown, a       *)
(* scrape that reads the instance name finds that of the generation whose  *)
(* collectors it copied (registry/collector.go:155 and 127).               *)
THEOREM ScrapesOfOneGeneration == LockSpec => []ScrapeOfOneGeneration
  BY InvIsOneGeneration, LockInitInv, LockNextInv, PTL DEF LockSpec

(* What a reload leaves of the generations before the current one: their   *)
(* contexts are cancelled and, unless the process is going down, their     *)
(* electors have ended.  Only an elector that ran has a started callback.  *)
EarlierEnd ==
  /\ \A g \in Gens : g < gen => /\ g \in cancelled
                                /\ downAt = "no" => elector[g] \in {"off", "done"}
  /\ \A g \in Gens : g > gen => elector[g] = "off"
  /\ \A g \in Gens : elector[g] = "off" => starter[g].at = "none"
  /\ reloadAt \in {"electors", "plain", "drain", "lockR", "reinit"} => gen \in cancelled
  /\ reloadAt \in {"plain", "drain", "lockR", "reinit"} /\ downAt = "no"
       => elector[gen] \in {"off", "done"}

(* Nobody waits in a circle: a request that reads s.mu never waits for     *)
(* r.mu; a reload waits at r.mu only for hooks whose context has ended;    *)
(* and unless the process is going down, the electors of earlier           *)
(* generations have ended, so no callback of theirs is still to come that  *)
(* wants r.mu.                                                             *)
WaitsInOrder ==
  /\ ServerReaders # {} => RegistryReadable
  /\ ~RegistryReadable => \A g \in RegistryReaders : HookCtxDone(g)
  /\ downAt = "no" => \A g \in Gens : g < gen => elector[g] \in {"off", "done"}

(* There is one generation.                                                *)
LEMMA EarlierInit == LockInit => EarlierEnd
<1> SUFFICES ASSUME LockInit PROVE EarlierEnd
  OBVIOUS
<1>1. gen = 1 /\ reloadAt = "idle" /\ \A g \in Gens : starter[g].at = "none"
  BY DEF LockInit, NoStarter
<1>2. \A g \in Gens : g > 1 => elector[g] = "off"
  <2>1. \A g \in Gens : g > 1 => g # 1
    BY DEF Gens
  <2>2. \A g \in Gens : g # 1 => elector[g] = "off"
    BY Zenon DEF LockInit
  <2> QED  BY <2>1, <2>2
<1>3. \A g \in Gens : ~(g < 1)
  BY DEF Gens
<1> QED
  BY <1>1, <1>2, <1>3 DEF EarlierEnd

(* An elector and its callbacks change only what is theirs, and an elector *)
(* that has ended stays so.                                                *)
LEMMA ElectorsKeepEarlier ==
  ASSUME LInv, EarlierEnd, NEW g \in Gens,
         ElectorLeads(g) \/ ElectorReturns(g) \/ StopCallback(g) \/ StartCallback(g)
           \/ HookWaits(g) \/ HookSyncs(g) \/ HookFails(g)
  PROVE  EarlierEnd'
<1>0. /\ elector \in [Gens -> {"off", "running", "leading", "stopping", "done"}]
      /\ starter \in [Gens -> [at : {"none", "spawned", "started", "hook"}, on : 0..MaxGens]]
      /\ gen \in Gens
  BY DEF LInv, LockTypeOK
<1>1. UNCHANGED <<gen, reloadAt, downAt, cancelled>>
  BY DEF ElectorLeads, ElectorReturns, StopCallback, StartCallback, HookWaits, HookSyncs,
         HookFails
<1>2. \A h \in Gens : /\ elector'[h] = "off" <=> elector[h] = "off"
                      /\ elector[h] = "done" => elector'[h] = "done"
  BY <1>0 DEF ElectorLeads, ElectorReturns, StopCallback, StartCallback, HookWaits, HookSyncs,
         HookFails
<1>3. \A h \in Gens : elector[h] = "off" => starter'[h].at = "none"
  BY <1>0 DEF EarlierEnd, ElectorLeads, ElectorReturns, StopCallback, StartCallback,
              HookWaits, HookSyncs, HookFails, NoStarter
<1> QED
  BY <1>0, <1>1, <1>2, <1>3 DEF EarlierEnd

(* A reload cancels the current generation and waits for its elector       *)
(* before it makes the next one.                                           *)
LEMMA ReloadsKeepEarlier ==
  ASSUME LInv, EarlierEnd, ReloadBegins \/ ReloadProceeds
  PROVE  EarlierEnd'
<1>0. /\ elector \in [Gens -> {"off", "running", "leading", "stopping", "done"}]
      /\ gen \in Gens /\ Gens \subseteq Nat
  BY GensFacts DEF LInv, LockTypeOK
<1>1. UNCHANGED <<downAt, starter>>
  BY DEF ReloadProceeds, ReloadGoes, ReloadBegins, ReloadLocks, ReloadStops, ReloadDebug,
         ReloadDrained, ReloadLocksRegistry, Reinitializes, ReloadStarts, ReloadHookEnds
<1>2. CASE ReloadBegins \/ ReloadHookEnds
  <2>1. UNCHANGED <<gen, elector, cancelled>> /\ reloadAt' \in {"lockS", "idle"}
    BY <1>2 DEF ReloadBegins, ReloadHookEnds, ReloadGoes
  <2> QED  BY <1>1, <2>1 DEF EarlierEnd
<1>3. CASE ReloadLocks
  <2>1. /\ UNCHANGED <<gen, elector>> /\ reloadAt' = "electors"
        /\ cancelled' = cancelled \union {gen}
    BY <1>3 DEF ReloadLocks, ReloadGoes
  <2> QED  BY <1>1, <2>1 DEF EarlierEnd
<1>4. CASE ReloadStops
  <2>1. /\ UNCHANGED <<gen, elector, cancelled>> /\ reloadAt = "electors" /\ reloadAt' = "plain"
        /\ elector[gen] \in {"off", "done"} \/ downAt # "no"
    BY <1>4 DEF ReloadStops, ReloadGoes
  <2> QED  BY <1>1, <2>1 DEF EarlierEnd
<1>5. CASE ReloadDebug \/ ReloadDrained \/ ReloadLocksRegistry
  <2>1. /\ UNCHANGED <<gen, elector, cancelled>>
        /\ reloadAt \in {"plain", "drain", "lockR"} /\ reloadAt' \in {"drain", "lockR", "reinit"}
    BY <1>5 DEF ReloadDebug, ReloadDrained, ReloadLocksRegistry, ReloadGoes
  <2> QED  BY <1>1, <2>1 DEF EarlierEnd
<1>6. CASE Reinitializes
  <2>1. /\ UNCHANGED <<elector, cancelled>> /\ gen' = gen + 1
        /\ reloadAt = "reinit" /\ reloadAt' = "start"
    BY <1>6 DEF Reinitializes, ReloadGoes
  <2>2. \A g \in Gens : (g < gen' => g < gen \/ g = gen) /\ (g > gen' => g > gen)
    BY <1>0, <2>1
  <2> QED  BY <1>1, <2>1, <2>2 DEF EarlierEnd
<1>7. CASE ReloadStarts
  <2>1. /\ UNCHANGED <<gen, cancelled>> /\ reloadAt' \in {"idle", "hook"}
        /\ elector' = elector \/ elector' = [elector EXCEPT ![gen] = "running"]
    BY <1>7 DEF ReloadStarts, ReloadGoes
  <2>2. \A g \in Gens : /\ g < gen \/ g > gen => elector'[g] = elector[g]
                        /\ elector'[g] = "off" => elector[g] = "off"
    BY <1>0, <2>1
  <2> QED  BY <1>1, <2>1, <2>2 DEF EarlierEnd
<1> QED
  BY <1>2, <1>3, <1>4, <1>5, <1>6, <1>7 DEF ReloadProceeds

(* Every step keeps what is left of earlier generations.                   *)
LEMMA EarlierNext == LInv /\ EarlierEnd /\ [LockNext]_lockVars => EarlierEnd'
<1> SUFFICES ASSUME LInv, EarlierEnd, [LockNext]_lockVars PROVE EarlierEnd'
  OBVIOUS
<1>1. ASSUME UNCHANGED <<gen, reloadAt, downAt, elector, cancelled, starter>>
      PROVE  EarlierEnd'
  BY <1>1 DEF EarlierEnd
<1>2. CASE \/ \E s \in Scrapes : ScrapeStep(s) \/ \E v \in Http : ScrapeBegins(s, v)
           \/ HealthAsked \/ HealthAnswered \/ CacheSyncs \/ UNCHANGED lockVars
  <2>1. UNCHANGED <<gen, reloadAt, downAt, elector, cancelled, starter>>
    BY <1>2 DEF ScrapeStep, ScrapeLocks, ScrapeCopies, ScrapeCollects, ScrapeEmits, ScrapeAt,
                ScrapeBegins, HealthAsked, HealthAnswered, CacheSyncs, lockVars
  <2> QED  BY <1>1, <2>1
<1>3. CASE ProbeRestarts \/ Sigterm \/ DownProceeds
  <2>1. /\ UNCHANGED <<gen, reloadAt, elector, starter>> /\ downAt' # "no"
        /\ cancelled' = cancelled \/ cancelled' = Gens
    BY <1>3 DEF ProbeRestarts, Sigterm, DownProceeds, DownGoes, DownMain, DownDebug,
                DownElectors, DownPlain
  <2>2. gen \in Gens
    BY DEF LInv, LockTypeOK
  <2> QED  BY <2>1, <2>2 DEF EarlierEnd
<1> QED
  BY <1>2, <1>3, ElectorsKeepEarlier, ReloadsKeepEarlier DEF LockNext

(* So the waits are in order.                                              *)
LEMMA EarlierOrders == LInv /\ EarlierEnd => WaitsInOrder
<1> SUFFICES ASSUME LInv, EarlierEnd PROVE WaitsInOrder
  OBVIOUS
<1>1. ServerReaders # {} => RegistryReadable
  BY DEF LInv, WriterAlone, RegistryReadable
<1>2. ASSUME ~RegistryReadable, NEW g \in RegistryReaders PROVE HookCtxDone(g)
  <2>1. g \in Gens /\ starter[g].at # "none" /\ gen \in Gens /\ Gens \subseteq Nat
    BY <1>2, GensFacts DEF RegistryReaders, InHook, LInv, LockTypeOK
  <2>2. elector[g] # "off" /\ ~(g > gen)
    BY <2>1 DEF EarlierEnd
  <2>3. g < gen \/ g = gen
    BY <2>1, <2>2
  <2>4. g \in cancelled
    BY <1>2, <2>1, <2>3 DEF EarlierEnd, RegistryReadable
  <2> QED  BY <2>4 DEF HookCtxDone
<1> QED
  BY <1>1, <1>2 DEF WaitsInOrder, EarlierEnd

(* With any number of requests, generations and electors, however late a   *)
(* callback runs and whenever the process is told to stop: no two of the   *)
(* goroutines wait for each other's lock (reload.go:89 and registry.go:215 *)
(* are where one waits while it holds one).  EveryWaitEnds adds that the   *)
(* waits end, which needs fairness.                                        *)
THEOREM LocksInOrder == LockSpec => []WaitsInOrder
<1>1. LockInit => LInv /\ EarlierEnd
  BY LockInitInv, EarlierInit
<1>2. LInv /\ EarlierEnd /\ [LockNext]_lockVars => (LInv /\ EarlierEnd)'
  BY LockNextInv, EarlierNext
<1> QED
  BY <1>1, <1>2, EarlierOrders, PTL DEF LockSpec

(***************************************************************************)
(* ConfigReload                                                            *)
(***************************************************************************)

(* Nothing is watched, and nothing under way, until main has begun to      *)
(* watch; the watch begins at a revision that was on disk.                 *)
BeforeWatch ==
  /\ phase \in {"load", "read", "init", "watch"} =>
       /\ watchedFrom = NoRev /\ events.change = 0 /\ ~timer
       /\ \A g \in Reloads : job[g].at = "idle"
  /\ phase \in {"serving", "stopping"} => watchedFrom \in 0..disk.rev

(* What the process works with has loaded; a pprof server that is moved is *)
(* moved to a port.                                                        *)
OnlyWhatLoads ==
  /\ Loads(server.body)
  /\ \A g \in Reloads :
       /\ job[g].at \notin {"idle", "fired", "load"} => Loads(job[g].body)
       /\ job[g].at \in {"pprofStop", "pprofPort", "pprofStart"} =>
            pprof.made /\ job[g].body \in Ports

OneReload ==
  ~overlapped => \A g, h \in Reloads : job[g].at # "idle" /\ job[h].at # "idle" => g = h

(* The pprof server listens on its port, or a reload is moving it.         *)
UpIsPort == ~overlapped /\ pprof.up # 0 => pprof.up = pprof.port

(* What a reload has applied so far, when it is the only one.              *)
JobProgress ==
  ~overlapped => \A g \in Reloads :
    /\ job[g].at \in {"pprof", "pprofStop", "pprofPort", "pprofStart", "lock", "apply"}
         => logRev = job[g].rev
    /\ job[g].at \in {"pprofPort", "pprofStart"} => pprof.up = 0
    /\ job[g].at = "pprofStart" => pprof.port = job[g].body
    /\ job[g].at \in {"lock", "apply"} => (pprof.made => PprofFollows(job[g].body))

InForce ==
  /\ \A g \in Reloads : job[g].at = "idle"
  /\ server = [config |-> disk.rev, content |-> disk.rev, body |-> disk.body]
  /\ logRev = disk.rev
  /\ pprof.made => PprofFollows(disk.body)

(* Who will bring the revision on disk into force, if it is not.           *)
Pending ==
  \/ events.change > 0 \/ timer
  \/ \E g \in Reloads : job[g].at = "fired"
  \/ \E g \in Reloads : /\ job[g].at \notin {"idle", "fired"}
                         /\ job[g].rev = disk.rev /\ job[g].body = disk.body
  \/ InForce

ChangeIsPending ==
  (phase = "serving" /\ ~overlapped /\ Loads(disk.body) /\ disk.rev > watchedFrom)
    => Pending

RInv ==
  /\ ReloadTypeOK /\ BeforeWatch /\ OnlyWhatLoads /\ OneReload /\ UpIsPort
  /\ JobProgress /\ ChangeIsPending

USE DEF PprofServers, PprofFollows

(* What loads is a port or switches pprof off.                             *)
LEMMA LoadsIsPort ==
  /\ \A b \in Bodies : Loads(b) => b = Disabled \/ b \in Ports
  /\ \A b \in Ports : Loads(b) /\ b \in Bodies
  /\ Loads(Disabled) /\ Disabled \in Bodies /\ Absent \in Bodies
  /\ 0 \in Revs /\ NoRev \notin Revs
  /\ ~Loads(Absent)
  BY PortsAssumption, EditsAssumption
     DEF Bodies, Loads, Absent, Invalid, Disabled, Revs, NoRev

(* A process that has not loaded anything has nothing under way.           *)
LEMMA ReloadInitInv == ReloadInit => RInv
<1> SUFFICES ASSUME ReloadInit PROVE RInv
  OBVIOUS
<1> USE LoadsIsPort DEF ReloadInit
<1>1. \A g \in Reloads : job[g] = Idle
  OBVIOUS
<1>2. Idle \in [at : Steps, rev : Revs, body : Bodies] /\ Idle.at = "idle"
  BY DEF Idle, Steps
<1>3. job \in [Reloads -> [at : Steps, rev : Revs, body : Bodies]]
  BY <1>2
<1>b. timer \in BOOLEAN /\ overlapped \in BOOLEAN
  BY Zenon
<1>c. /\ disk \in [rev : Revs, body : Bodies]
      /\ server \in [config : Revs, content : Revs, body : Bodies]
      /\ events \in [change : 0..2, other : 0..1]
  OBVIOUS
<1>d. pprof \in PprofServers
  OBVIOUS
<1>4. ReloadTypeOK
  <2>1. /\ phase = "load" /\ watchedFrom = NoRev /\ serverLock = "none" /\ logRev \in Revs
        /\ detached = {}
    OBVIOUS
  <2> HIDE DEF ReloadInit
  <2> QED  BY <1>3, <1>b, <1>c, <1>d, <2>1 DEF ReloadTypeOK
<1> QED
  BY <1>1, <1>2, <1>4
     DEF RInv, BeforeWatch, OnlyWhatLoads, OneReload, UpIsPort, JobProgress,
         ChangeIsPending

(* A change of the file leaves an event behind, once it is watched.        *)
LEMMA FileSteps ==
  ASSUME RInv, OtherEvent \/ \E b \in Bodies : Edit(b)
  PROVE  RInv'
<1> USE EditsAssumption, LoadsIsPort
<1>0. ReloadTypeOK /\ disk.rev \in Nat /\ disk.rev \in Revs
  BY DEF RInv, ReloadTypeOK, Revs
<1>1. UNCHANGED <<phase, watchedFrom, timer, job, serverLock, server, logRev, pprof,
                  detached, overlapped>>
  BY DEF OtherEvent, Edit
<1>2. /\ disk' \in [rev : Revs, body : Bodies] /\ events' \in [change : 0..2, other : 0..1]
      /\ disk'.rev >= disk.rev /\ events'.change >= events.change
      /\ ~Watching => events' = events
      /\ \/ disk' = disk
         \/ ~Loads(disk'.body)
         \/ Watching => events'.change > 0
  <2>1. CASE OtherEvent
    BY <1>0, <2>1 DEF OtherEvent, ReloadTypeOK, Revs
  <2>2. ASSUME NEW b \in Bodies, Edit(b)
        PROVE  /\ disk' \in [rev : Revs, body : Bodies]
               /\ events' \in [change : 0..2, other : 0..1]
               /\ disk'.rev >= disk.rev /\ events'.change >= events.change
               /\ ~Watching => events' = events
               /\ Watching => events'.change > 0
    BY <1>0, <2>2 DEF Edit, ReloadTypeOK, Revs
  <2> QED  BY <2>1, <2>2
<1>3. ReloadTypeOK'
  BY <1>0, <1>1, <1>2 DEF ReloadTypeOK
<1>4. BeforeWatch'
  <2>1. watchedFrom = NoRev => ~Watching
    BY DEF Watching
  <2> QED  BY <1>0, <1>1, <1>2, <1>3, <2>1 DEF RInv, BeforeWatch, ReloadTypeOK, Revs
<1>5. OnlyWhatLoads' /\ OneReload' /\ UpIsPort' /\ JobProgress'
  BY <1>1 DEF RInv, OnlyWhatLoads, OneReload, UpIsPort, JobProgress
<1>6. ChangeIsPending'
  <2> SUFFICES ASSUME phase = "serving", ~overlapped, Loads(disk'.body),
                      disk'.rev > watchedFrom
               PROVE  Pending'
    BY <1>1 DEF ChangeIsPending
  <2>1. Watching
    BY DEF Watching, RInv, BeforeWatch, NoRev, ReloadTypeOK, Revs
  <2>2. CASE disk' = disk
    <3>1. Pending
      BY <2>2 DEF RInv, ChangeIsPending
    <3>2. events.change > 0 => events'.change > 0
      BY <1>2, <1>3, <1>0 DEF ReloadTypeOK
    <3>3. InForce => InForce'
      BY <1>1, <2>2 DEF InForce
    <3> QED  BY <1>1, <2>2, <3>1, <3>2, <3>3 DEF Pending
  <2>3. CASE events'.change > 0
    BY <2>3 DEF Pending
  <2> QED  BY <1>2, <2>1, <2>2, <2>3
<1> QED
  BY <1>3, <1>4, <1>5, <1>6 DEF RInv

(* main: no reload runs before the watch, and none after the exit.         *)
LEMMA MainSteps ==
  ASSUME RInv,
         BootLoad \/ BootRead \/ BootInit \/ WatchBegins \/ Terminate \/ ExitMain
  PROVE  RInv'
<1> USE EditsAssumption, LoadsIsPort
<1>0. ReloadTypeOK /\ Loads(server.body) /\ disk.rev \in Nat /\ disk.rev \in Revs
  BY DEF RInv, ReloadTypeOK, Revs, OnlyWhatLoads
<1>b. ASSUME BootLoad \/ BootRead \/ BootInit \/ WatchBegins PROVE
         /\ watchedFrom = NoRev /\ events.change = 0 /\ ~timer
         /\ \A g \in Reloads : job[g].at = "idle"
         /\ UNCHANGED <<disk, events, timer, job, serverLock, detached, overlapped>>
  BY <1>b DEF RInv, BeforeWatch, BootLoad, BootRead, BootInit, WatchBegins
<1>1. CASE BootLoad
  <2>1. /\ UNCHANGED <<watchedFrom, pprof>> /\ phase' \in {"read", "exited"}
        /\ server' \in [config : Revs, content : Revs, body : Bodies]
        /\ logRev' \in Revs /\ Loads(server'.body)
    BY <1>0, <1>1 DEF BootLoad, ReloadTypeOK
  <2>2. ReloadTypeOK'
    BY <1>0, <1>1, <1>b, <2>1 DEF ReloadTypeOK
  <2> QED
    BY <1>1, <1>b, <2>1, <2>2
       DEF RInv, BeforeWatch, OnlyWhatLoads, OneReload, UpIsPort, JobProgress,
           ChangeIsPending
<1>2. CASE BootRead
  <2>1. /\ UNCHANGED <<watchedFrom, logRev>> /\ phase' \in {"init", "exited"}
        /\ server' \in [config : Revs, content : Revs, body : Bodies]
        /\ Loads(server'.body)
    BY <1>0, <1>2 DEF BootRead, ReloadTypeOK
  <2>2. /\ pprof' \in PprofServers
        /\ pprof' = pprof \/ pprof'.up = 0
    <3>1. server.body \in Ports \union {0} /\ (server.body # Disabled) \in BOOLEAN
      BY <1>0 DEF ReloadTypeOK, Disabled
    <3>2. CASE disk.body = Absent
      BY <1>0, <1>2, <3>2 DEF BootRead, ReloadTypeOK
    <3>3. CASE disk.body # Absent
      <4>1. pprof' = [made |-> server.body # Disabled, port |-> server.body, up |-> 0,
                     refused |-> FALSE]
        BY <1>2, <3>3 DEF BootRead
      <4> QED  BY <3>1, <4>1
    <3> QED  BY <3>2, <3>3
  <2>3. ReloadTypeOK'
    BY <1>0, <1>2, <1>b, <2>1, <2>2 DEF ReloadTypeOK
  <2> QED
    BY <1>2, <1>b, <2>1, <2>2, <2>3
       DEF RInv, BeforeWatch, OnlyWhatLoads, OneReload, UpIsPort, JobProgress,
           ChangeIsPending
<1>3. CASE BootInit
  <2>1. UNCHANGED <<watchedFrom, logRev, server>> /\ phase' \in {"watch", "exited"}
    BY <1>3 DEF BootInit
  <2>2. /\ pprof' \in PprofServers
        /\ pprof' = pprof \/ pprof'.up = pprof'.port
    BY <1>0, <1>3 DEF BootInit, ReloadTypeOK
  <2>3. ReloadTypeOK'
    BY <1>0, <1>3, <1>b, <2>1, <2>2 DEF ReloadTypeOK
  <2> QED
    BY <1>3, <1>b, <2>1, <2>2, <2>3
       DEF RInv, BeforeWatch, OnlyWhatLoads, OneReload, UpIsPort, JobProgress,
           ChangeIsPending
<1>4. CASE WatchBegins
  <2>1. /\ UNCHANGED <<pprof, logRev, server>> /\ phase' = "serving"
        /\ watchedFrom' = disk.rev
    BY <1>4 DEF WatchBegins
  <2>2. ReloadTypeOK'
    BY <1>0, <1>b, <1>4, <2>1 DEF ReloadTypeOK
  <2> QED
    BY <1>0, <1>4, <1>b, <2>1, <2>2
       DEF RInv, BeforeWatch, OnlyWhatLoads, OneReload, UpIsPort, JobProgress,
           ChangeIsPending
<1>5. CASE Terminate
  BY <1>0, <1>5
     DEF Terminate, RInv, ReloadTypeOK, BeforeWatch, OnlyWhatLoads, OneReload, UpIsPort,
         JobProgress, ChangeIsPending
<1>6. CASE ExitMain
  <2>1. /\ job' = [g \in Reloads |-> Idle] /\ phase' = "exited" /\ timer' = FALSE
        /\ pprof' = [pprof EXCEPT !.up = 0] /\ serverLock' = "none" /\ detached' = {}
        /\ events' = [change |-> 0, other |-> 0]
        /\ UNCHANGED <<disk, watchedFrom, server, logRev, overlapped>>
    BY <1>6 DEF ExitMain
  <2>2. \A g \in Reloads : job'[g].at = "idle"
    BY <2>1 DEF Idle
  <2>3. Idle \in [at : Steps, rev : Revs, body : Bodies]
    BY DEF Idle, Steps
  <2>4. pprof' \in PprofServers
        /\ pprof'.up = 0
    BY <1>0, <2>1 DEF ReloadTypeOK
  <2>b. timer' \in BOOLEAN
    BY <2>1, Zenon
  <2>5. events' \in [change : 0..2, other : 0..1]
    BY <2>1
  <2>6. ReloadTypeOK'
    BY <1>0, <2>1, <2>3, <2>4, <2>5, <2>b DEF ReloadTypeOK
  <2> QED
    BY <1>0, <2>1, <2>2, <2>4, <2>6
       DEF RInv, BeforeWatch, OnlyWhatLoads, OneReload, UpIsPort, JobProgress,
           ChangeIsPending
<1> QED
  BY <1>1, <1>2, <1>3, <1>4, <1>5, <1>6

(* The watch loop hands an event on to the timer, the timer to a reload.   *)
LEMMA WatchSteps ==
  ASSUME RInv, ReceiveChange \/ ReceiveOther \/ DebounceEnds
  PROVE  RInv'
<1> USE EditsAssumption, LoadsIsPort
<1>0. ReloadTypeOK /\ phase \in {"serving", "stopping"}
  BY DEF RInv, ReceiveChange, ReceiveOther, DebounceEnds, TimerFires
<1>1. CASE ReceiveChange
  <2>1. UNCHANGED <<disk, phase, watchedFrom, job, serverLock, server, logRev, pprof,
                    detached, overlapped>> /\ timer'
    BY <1>1 DEF ReceiveChange
  <2>2. events' \in [change : 0..2, other : 0..1]
    BY <1>0, <1>1 DEF ReceiveChange, ReloadTypeOK
  <2>3. timer' \in BOOLEAN
    BY <1>1, Zenon DEF ReceiveChange
  <2>4. ReloadTypeOK'
    BY <1>0, <2>1, <2>2, <2>3 DEF ReloadTypeOK
  <2> QED
    BY <1>0, <2>1, <2>4
       DEF RInv, BeforeWatch, OnlyWhatLoads, OneReload, UpIsPort, JobProgress,
           ChangeIsPending, Pending
<1>2. CASE ReceiveOther
  <2>1. UNCHANGED <<disk, phase, watchedFrom, timer, job, serverLock, server, logRev,
                    pprof, detached, overlapped>>
    BY <1>2 DEF ReceiveOther
  <2>2. events' \in [change : 0..2, other : 0..1] /\ events'.change = events.change
    BY <1>0, <1>2 DEF ReceiveOther, ReloadTypeOK
  <2>3. ReloadTypeOK'
    BY <1>0, <2>1, <2>2 DEF ReloadTypeOK
  <2> QED
    BY <1>0, <2>1, <2>2, <2>3
       DEF RInv, BeforeWatch, OnlyWhatLoads, OneReload, UpIsPort, JobProgress,
           ChangeIsPending, Pending, InForce
<1>3. ASSUME NEW g \in Reloads, TimerFires(g) PROVE RInv'
  <2>1. /\ job' = [job EXCEPT ![g] = [Idle EXCEPT !.at = "fired"]]
        /\ timer' = FALSE
        /\ UNCHANGED <<disk, phase, watchedFrom, events, serverLock, server, logRev,
                       pprof, detached>>
    BY <1>3 DEF TimerFires
  <2>2. [Idle EXCEPT !.at = "fired"] \in [at : Steps, rev : Revs, body : Bodies]
    BY DEF Idle, Steps
  <2>3. job' \in [Reloads -> [at : Steps, rev : Revs, body : Bodies]]
        /\ job'[g].at = "fired" /\ \A h \in Reloads : h # g => job'[h] = job[h]
    BY <1>0, <2>1, <2>2 DEF ReloadTypeOK, Idle
  <2>4. timer' \in BOOLEAN /\ overlapped' \in BOOLEAN
    BY <1>3, Zenon DEF TimerFires
  <2>5. ReloadTypeOK'
    BY <1>0, <2>1, <2>3, <2>4 DEF ReloadTypeOK
  <2>6. ~overlapped' => ~overlapped /\ \A h \in Reloads : job[h].at = "idle"
    BY <1>3 DEF TimerFires
  <2> QED
    BY <1>0, <2>1, <2>3, <2>5, <2>6
       DEF RInv, BeforeWatch, OnlyWhatLoads, OneReload, UpIsPort, JobProgress,
           ChangeIsPending, Pending
<1> QED
  BY <1>1, <1>2, <1>3 DEF DebounceEnds

JobRecord == [at : Steps, rev : Revs, body : Bodies]

(* A step of one reload; while reloads do not overlap, the others idle.    *)
LEMMA OneJobMoves ==
  ASSUME RInv, NEW g \in Reloads, NEW new \in JobRecord, job[g].at # "idle",
         job' = [job EXCEPT ![g] = new],
         UNCHANGED <<disk, phase, watchedFrom, events, timer, overlapped>>
  PROVE  /\ job' \in [Reloads -> JobRecord]
         /\ job'[g] = new /\ \A h \in Reloads : h # g => job'[h] = job[h]
         /\ ~overlapped => \A h \in Reloads : h # g => job[h].at = "idle"
         /\ BeforeWatch' /\ OneReload'
<1>1. job \in [Reloads -> JobRecord]
  BY DEF RInv, ReloadTypeOK, JobRecord
<1>2. /\ job' \in [Reloads -> JobRecord]
      /\ job'[g] = new /\ \A h \in Reloads : h # g => job'[h] = job[h]
  BY <1>1
<1>3. ~overlapped => \A h \in Reloads : h # g => job[h].at = "idle"
  BY DEF RInv, OneReload
<1>4. BeforeWatch'
  BY <1>2 DEF RInv, BeforeWatch
<1>5. OneReload'
  BY <1>2, <1>3 DEF OneReload
<1> QED
  BY <1>2, <1>3, <1>4, <1>5

(* A reload that goes on keeps what it has read.                           *)
LEMMA GoingOnIsPending ==
  ASSUME RInv, NEW g \in Reloads, NEW new \in JobRecord,
         job[g].at \notin {"idle", "fired"}, job' = [job EXCEPT ![g] = new],
         new.at \notin {"idle", "fired"}, new.rev = job[g].rev, new.body = job[g].body,
         UNCHANGED <<disk, phase, watchedFrom, events, timer, overlapped>>
  PROVE  ChangeIsPending'
<1>1. /\ job'[g] = new
      /\ ~overlapped => \A h \in Reloads : h # g => job[h].at = "idle"
  BY OneJobMoves
<1> SUFFICES ASSUME phase = "serving", ~overlapped, Loads(disk.body),
                    disk.rev > watchedFrom
             PROVE  Pending'
  BY DEF ChangeIsPending
<1>2. Pending
  BY DEF RInv, ChangeIsPending
<1>3. events.change > 0 \/ timer \/ (job[g].rev = disk.rev /\ job[g].body = disk.body)
  BY <1>1, <1>2 DEF Pending, InForce
<1> QED
  BY <1>1, <1>3 DEF Pending

(* A reload that gives up had read something else than what is on disk     *)
(* now, or what is on disk does not load.                                  *)
LEMMA GivingUpIsFine ==
  ASSUME RInv, NEW g \in Reloads,
         \/ job[g].at = "fired" /\ ~Loads(disk.body)
         \/ job[g].at = "load" /\ ~Loads(job[g].body),
         job' = [job EXCEPT ![g] = Idle],
         UNCHANGED <<disk, phase, watchedFrom, events, timer, overlapped>>
  PROVE  ChangeIsPending'
<1>1. Idle \in JobRecord
  BY EditsAssumption, LoadsIsPort DEF Idle, JobRecord, Steps, Revs
<1>2. ~overlapped => \A h \in Reloads : h # g => job[h].at = "idle"
  BY <1>1, OneJobMoves
<1> SUFFICES ASSUME phase = "serving", ~overlapped, Loads(disk.body),
                    disk.rev > watchedFrom
             PROVE  Pending'
  BY DEF ChangeIsPending
<1>3. Pending
  BY DEF RInv, ChangeIsPending
<1>4. events.change > 0 \/ timer
  BY <1>2, <1>3 DEF Pending, InForce
<1> QED
  BY <1>4 DEF Pending

(* The steps of a reload.                                                  *)
LEMMA JobSteps ==
  ASSUME RInv, NEW g \in Reloads, ReloadStep(g)
  PROVE  RInv'
<1> DEFINE To(at) == [job[g] EXCEPT !.at = at]
<1> USE LoadsIsPort
<1>0. /\ ReloadTypeOK /\ BeforeWatch /\ OnlyWhatLoads /\ OneReload /\ UpIsPort
      /\ JobProgress /\ ChangeIsPending
      /\ job[g] \in JobRecord /\ job \in [Reloads -> JobRecord]
  BY DEF RInv, ReloadTypeOK, JobRecord
<1>i. Idle \in JobRecord /\ Idle.at = "idle"
  BY DEF Idle, JobRecord, Steps
<1>g. ASSUME NEW at \in Steps
      PROVE  To(at) \in JobRecord /\ To(at).at = at /\ To(at).rev = job[g].rev
             /\ To(at).body = job[g].body
  BY <1>0 DEF JobRecord
<1>j. ASSUME NEW at \in Steps, Goto(g, at) PROVE job' = [job EXCEPT ![g] = To(at)]
  BY <1>j DEF Goto
<1>u. /\ UNCHANGED <<disk, phase, watchedFrom, events, timer, overlapped>>
      /\ job[g].at # "idle"
  BY DEF ReloadStep, ReadConfig, ValidateConfig, ReloadLogger, ReloadPprof, PprofStop,
         PprofPort, PprofStart, LockServer, ApplyConfig
<1>s. {"logger", "pprof", "pprofStop", "pprofPort", "pprofStart", "lock", "apply"}
         \subseteq Steps
  BY DEF Steps
<1> HIDE DEF To
<1>1. CASE ReadConfig(g)
  <2>1. UNCHANGED <<serverLock, server, logRev, pprof, detached>> /\ job[g].at = "fired"
    BY <1>1 DEF ReadConfig
  <2>2. CASE disk.body = Absent
    <3>1. job' = [job EXCEPT ![g] = Idle]
      BY <1>1, <2>2 DEF ReadConfig, Finish
    <3>2. BeforeWatch' /\ OneReload' /\ job' \in [Reloads -> JobRecord] /\ job'[g] = Idle
          /\ \A h \in Reloads : h # g => job'[h] = job[h]
      BY <1>i, <1>u, <3>1, OneJobMoves
    <3>3. ChangeIsPending'
      BY <1>u, <2>1, <2>2, <3>1, GivingUpIsFine
    <3>4. ReloadTypeOK'
      BY <1>0, <1>u, <2>1, <3>2 DEF ReloadTypeOK, JobRecord
    <3>5. OnlyWhatLoads' /\ UpIsPort' /\ JobProgress'
      BY <1>0, <1>i, <1>u, <2>1, <3>2 DEF OnlyWhatLoads, UpIsPort, JobProgress
    <3> QED  BY <3>2, <3>3, <3>4, <3>5 DEF RInv
  <2>3. CASE disk.body # Absent
    <3> DEFINE new == [at |-> "load", rev |-> disk.rev, body |-> disk.body]
    <3>1. job' = [job EXCEPT ![g] = new]
      BY <1>1, <2>3 DEF ReadConfig
    <3>2. new \in JobRecord
      BY <1>0 DEF ReloadTypeOK, JobRecord, Steps
    <3>3. BeforeWatch' /\ OneReload' /\ job' \in [Reloads -> JobRecord] /\ job'[g] = new
          /\ \A h \in Reloads : h # g => job'[h] = job[h]
      BY <1>u, <3>1, <3>2, OneJobMoves
    <3>4. ChangeIsPending'
      BY <1>u, <3>3 DEF ChangeIsPending, Pending
    <3>5. ReloadTypeOK'
      BY <1>0, <1>u, <2>1, <3>3 DEF ReloadTypeOK, JobRecord
    <3>6. OnlyWhatLoads' /\ UpIsPort' /\ JobProgress'
      BY <1>0, <1>u, <2>1, <3>3 DEF OnlyWhatLoads, UpIsPort, JobProgress
    <3> QED  BY <3>3, <3>4, <3>5, <3>6 DEF RInv
  <2> QED  BY <2>2, <2>3
<1>2. CASE ValidateConfig(g)
  <2>1. UNCHANGED <<serverLock, server, logRev, pprof, detached>> /\ job[g].at = "load"
    BY <1>2 DEF ValidateConfig
  <2>2. CASE ~Loads(job[g].body)
    <3>1. job' = [job EXCEPT ![g] = Idle]
      BY <1>2, <2>2 DEF ValidateConfig, Finish
    <3>2. BeforeWatch' /\ OneReload' /\ job' \in [Reloads -> JobRecord] /\ job'[g] = Idle
          /\ \A h \in Reloads : h # g => job'[h] = job[h]
      BY <1>i, <1>u, <3>1, OneJobMoves
    <3>3. ChangeIsPending'
      BY <1>u, <2>1, <2>2, <3>1, GivingUpIsFine
    <3>4. ReloadTypeOK'
      BY <1>0, <1>u, <2>1, <3>2 DEF ReloadTypeOK, JobRecord
    <3>5. OnlyWhatLoads' /\ UpIsPort' /\ JobProgress'
      BY <1>0, <1>i, <1>u, <2>1, <3>2 DEF OnlyWhatLoads, UpIsPort, JobProgress
    <3> QED  BY <3>2, <3>3, <3>4, <3>5 DEF RInv
  <2>3. CASE Loads(job[g].body)
    <3>1. job' = [job EXCEPT ![g] = To("logger")]
      BY <1>2, <1>j, <1>s, <2>3 DEF ValidateConfig
    <3>2. To("logger") \in JobRecord /\ To("logger").at = "logger"
          /\ To("logger").rev = job[g].rev /\ To("logger").body = job[g].body
      BY <1>g, <1>s
    <3>3. BeforeWatch' /\ OneReload' /\ job' \in [Reloads -> JobRecord]
          /\ job'[g] = To("logger") /\ \A h \in Reloads : h # g => job'[h] = job[h]
      BY <1>u, <3>1, <3>2, OneJobMoves
    <3>4. ChangeIsPending'
      BY <1>u, <2>1, <3>1, <3>2, GoingOnIsPending
    <3>5. ReloadTypeOK'
      BY <1>0, <1>u, <2>1, <3>3 DEF ReloadTypeOK, JobRecord
    <3>6. OnlyWhatLoads' /\ UpIsPort' /\ JobProgress'
      BY <1>0, <1>u, <2>1, <2>3, <3>2, <3>3 DEF OnlyWhatLoads, UpIsPort, JobProgress
    <3> QED  BY <3>3, <3>4, <3>5, <3>6 DEF RInv
  <2> QED  BY <2>2, <2>3
<1>3. CASE ReloadLogger(g)
  <2>1. /\ job[g].at = "logger" /\ job' = [job EXCEPT ![g] = To("pprof")]
        /\ UNCHANGED <<serverLock, server, pprof, detached>>
    BY <1>3, <1>j, <1>s DEF ReloadLogger
  <2>2. To("pprof") \in JobRecord /\ To("pprof").at = "pprof"
        /\ To("pprof").rev = job[g].rev /\ To("pprof").body = job[g].body
    BY <1>g, <1>s
  <2>3. /\ BeforeWatch' /\ OneReload' /\ job' \in [Reloads -> JobRecord]
        /\ job'[g] = To("pprof") /\ \A h \in Reloads : h # g => job'[h] = job[h]
        /\ ~overlapped => \A h \in Reloads : h # g => job[h].at = "idle"
    BY <1>u, <2>1, <2>2, OneJobMoves
  <2>4. ChangeIsPending'
    BY <1>u, <2>1, <2>2, GoingOnIsPending
  <2>5. logRev' = job[g].rev /\ logRev' \in Revs
    BY <1>0, <1>3, <2>1 DEF ReloadLogger, JobRecord
  <2>6. ReloadTypeOK'
    BY <1>0, <1>u, <2>1, <2>3, <2>5 DEF ReloadTypeOK, JobRecord
  <2>7. OnlyWhatLoads'
    BY <1>0, <1>u, <2>1, <2>2, <2>3, <2>5 DEF OnlyWhatLoads
  <2>8. UpIsPort' /\ JobProgress'
    BY <1>0, <1>u, <2>1, <2>2, <2>3, <2>5 DEF UpIsPort, JobProgress
  <2> QED  BY <2>3, <2>4, <2>6, <2>7, <2>8 DEF RInv
<1>4. CASE ReloadPprof(g)
  <2> DEFINE b == job[g].body
  <2>0. job[g].at = "pprof" /\ UNCHANGED <<serverLock, server, logRev>>
        /\ Loads(b) /\ b \in Bodies /\ pprof.made \in BOOLEAN
        /\ pprof \in PprofServers
    BY <1>0, <1>4 DEF ReloadPprof, OnlyWhatLoads, JobRecord, ReloadTypeOK
  <2>1. \E to \in {"lock", "pprofStop"} :
          /\ Goto(g, to)
          /\ to = "pprofStop" => pprof.made /\ b \in Ports
          /\ pprof' \in PprofServers
          /\ pprof'.made = pprof.made /\ pprof'.port = pprof.port
          /\ pprof'.up \in {0, pprof.up}
          /\ detached' \subseteq Ports
          /\ to = "lock" /\ pprof.made /\ ~overlapped => pprof'.up = b
    <3>d. detached \subseteq Ports /\ (b # Disabled => b \in Ports)
      BY <1>0, <2>0 DEF ReloadTypeOK
    <3>1. CASE pprof.made /\ b = Disabled
      <4>1. pprof' = [pprof EXCEPT !.up = 0] /\ Goto(g, "lock") /\ UNCHANGED detached
        BY <1>4, <3>1 DEF ReloadPprof
      <4> QED  BY <2>0, <3>1, <3>d, <4>1 DEF Disabled
    <3>2. CASE pprof.made /\ b # Disabled
      <4>1. /\ Goto(g, IF pprof.port = b /\ pprof.up # 0 THEN "lock" ELSE "pprofStop")
            /\ UNCHANGED <<pprof, detached>>
        BY <1>4, <3>2 DEF ReloadPprof
      <4>2. CASE pprof.port = b /\ pprof.up # 0
        BY <1>0, <2>0, <3>2, <3>d, <4>1, <4>2 DEF UpIsPort
      <4>3. CASE ~(pprof.port = b /\ pprof.up # 0)
        BY <2>0, <3>2, <3>d, <4>1, <4>3
      <4> QED  BY <4>2, <4>3
    <3>3. CASE ~pprof.made
      <4>1. /\ Goto(g, "lock") /\ UNCHANGED pprof
            /\ \/ UNCHANGED detached
               \/ b # Disabled /\ detached' = detached \union {b}
        BY <1>4, <3>3 DEF ReloadPprof
      <4> QED  BY <2>0, <3>3, <3>d, <4>1
    <3> QED  BY <3>1, <3>2, <3>3
  <2>2. PICK to \in {"lock", "pprofStop"} :
          /\ Goto(g, to)
          /\ to = "pprofStop" => pprof.made /\ b \in Ports
          /\ pprof' \in PprofServers
          /\ pprof'.made = pprof.made /\ pprof'.port = pprof.port
          /\ pprof'.up \in {0, pprof.up}
          /\ detached' \subseteq Ports
          /\ to = "lock" /\ pprof.made /\ ~overlapped => pprof'.up = b
    BY <2>1
  <2>3. /\ job' = [job EXCEPT ![g] = To(to)] /\ To(to) \in JobRecord /\ To(to).at = to
        /\ To(to).rev = job[g].rev /\ To(to).body = job[g].body
    BY <1>g, <1>j, <1>s, <2>2
  <2>4. /\ BeforeWatch' /\ OneReload' /\ job' \in [Reloads -> JobRecord]
        /\ job'[g] = To(to) /\ \A h \in Reloads : h # g => job'[h] = job[h]
        /\ ~overlapped => \A h \in Reloads : h # g => job[h].at = "idle"
    BY <1>u, <2>0, <2>3, OneJobMoves
  <2>5. ChangeIsPending'
    BY <1>u, <2>0, <2>2, <2>3, GoingOnIsPending
  <2>6. ReloadTypeOK'
    BY <1>0, <1>u, <2>0, <2>2, <2>4 DEF ReloadTypeOK, JobRecord
  <2>7. OnlyWhatLoads'
    BY <1>0, <1>u, <2>0, <2>2, <2>3, <2>4 DEF OnlyWhatLoads
  <2>8. UpIsPort' /\ JobProgress'
    BY <1>0, <1>u, <2>0, <2>2, <2>3, <2>4 DEF UpIsPort, JobProgress
  <2> QED  BY <2>4, <2>5, <2>6, <2>7, <2>8 DEF RInv
<1>5. CASE PprofStop(g)
  <2>1. /\ job[g].at = "pprofStop" /\ job' = [job EXCEPT ![g] = To("pprofPort")]
        /\ UNCHANGED <<serverLock, server, logRev, detached>>
    BY <1>5, <1>j, <1>s DEF PprofStop
  <2>2. To("pprofPort") \in JobRecord /\ To("pprofPort").at = "pprofPort"
        /\ To("pprofPort").rev = job[g].rev /\ To("pprofPort").body = job[g].body
    BY <1>g, <1>s
  <2>3. /\ BeforeWatch' /\ OneReload' /\ job' \in [Reloads -> JobRecord]
        /\ job'[g] = To("pprofPort") /\ \A h \in Reloads : h # g => job'[h] = job[h]
        /\ ~overlapped => \A h \in Reloads : h # g => job[h].at = "idle"
    BY <1>u, <2>1, <2>2, OneJobMoves
  <2>4. ChangeIsPending'
    BY <1>u, <2>1, <2>2, GoingOnIsPending
  <2>5. /\ pprof' \in PprofServers
        /\ pprof'.made = pprof.made /\ pprof'.up = 0
    BY <1>0, <1>5, <2>1 DEF PprofStop, ReloadTypeOK
  <2>6. ReloadTypeOK'
    BY <1>0, <1>u, <2>1, <2>3, <2>5 DEF ReloadTypeOK, JobRecord
  <2>7. OnlyWhatLoads'
    BY <1>0, <1>u, <2>1, <2>2, <2>3, <2>5 DEF OnlyWhatLoads
  <2>8. UpIsPort' /\ JobProgress'
    BY <1>0, <1>u, <2>1, <2>2, <2>3, <2>5 DEF UpIsPort, JobProgress
  <2> QED  BY <2>3, <2>4, <2>6, <2>7, <2>8 DEF RInv
<1>6. CASE PprofPort(g)
  <2>1. /\ job[g].at = "pprofPort" /\ job' = [job EXCEPT ![g] = To("pprofStart")]
        /\ UNCHANGED <<serverLock, server, logRev, detached>>
    BY <1>6, <1>j, <1>s DEF PprofPort
  <2>2. To("pprofStart") \in JobRecord /\ To("pprofStart").at = "pprofStart"
        /\ To("pprofStart").rev = job[g].rev /\ To("pprofStart").body = job[g].body
    BY <1>g, <1>s
  <2>3. /\ BeforeWatch' /\ OneReload' /\ job' \in [Reloads -> JobRecord]
        /\ job'[g] = To("pprofStart") /\ \A h \in Reloads : h # g => job'[h] = job[h]
        /\ ~overlapped => \A h \in Reloads : h # g => job[h].at = "idle"
    BY <1>u, <2>1, <2>2, OneJobMoves
  <2>4. ChangeIsPending'
    BY <1>u, <2>1, <2>2, GoingOnIsPending
  <2>5. /\ pprof' \in PprofServers
        /\ pprof'.made = pprof.made /\ pprof'.up = pprof.up /\ pprof'.port = job[g].body
    BY <1>0, <1>6, <2>1 DEF PprofPort, ReloadTypeOK, OnlyWhatLoads
  <2>6. ReloadTypeOK'
    BY <1>0, <1>u, <2>1, <2>3, <2>5 DEF ReloadTypeOK, JobRecord
  <2>7. OnlyWhatLoads'
    BY <1>0, <1>u, <2>1, <2>2, <2>3, <2>5 DEF OnlyWhatLoads
  <2>8. UpIsPort' /\ JobProgress'
    BY <1>0, <1>u, <2>1, <2>2, <2>3, <2>5 DEF UpIsPort, JobProgress
  <2> QED  BY <2>3, <2>4, <2>6, <2>7, <2>8 DEF RInv
<1>7. CASE PprofStart(g)
  <2>1. /\ job[g].at = "pprofStart" /\ job' = [job EXCEPT ![g] = To("lock")]
        /\ UNCHANGED <<serverLock, server, logRev, detached>>
    BY <1>7, <1>j, <1>s DEF PprofStart
  <2>2. To("lock") \in JobRecord /\ To("lock").at = "lock"
        /\ To("lock").rev = job[g].rev /\ To("lock").body = job[g].body
    BY <1>g, <1>s
  <2>3. /\ BeforeWatch' /\ OneReload' /\ job' \in [Reloads -> JobRecord]
        /\ job'[g] = To("lock") /\ \A h \in Reloads : h # g => job'[h] = job[h]
        /\ ~overlapped => \A h \in Reloads : h # g => job[h].at = "idle"
    BY <1>u, <2>1, <2>2, OneJobMoves
  <2>4. ChangeIsPending'
    BY <1>u, <2>1, <2>2, GoingOnIsPending
  <2>5. /\ pprof' \in PprofServers
        /\ pprof'.made = pprof.made /\ pprof'.port = pprof.port
        /\ \/ pprof'.up = IF pprof.up = 0 THEN pprof.port ELSE pprof.up
           \/ pprof'.up = 0 /\ pprof.up = 0 /\ pprof'.refused
    BY <1>0, <1>7, <2>1 DEF PprofStart, ReloadTypeOK
  <2>6. ReloadTypeOK'
    BY <1>0, <1>u, <2>1, <2>3, <2>5 DEF ReloadTypeOK, JobRecord
  <2>7. OnlyWhatLoads'
    BY <1>0, <1>u, <2>1, <2>2, <2>3, <2>5 DEF OnlyWhatLoads
  <2>8. UpIsPort' /\ JobProgress'
    BY <1>0, <1>u, <2>1, <2>2, <2>3, <2>5 DEF UpIsPort, JobProgress
  <2> QED  BY <2>3, <2>4, <2>6, <2>7, <2>8 DEF RInv
<1>8. CASE LockServer(g)
  <2>1. /\ job[g].at = "lock" /\ job' = [job EXCEPT ![g] = To("apply")]
        /\ UNCHANGED <<server, logRev, pprof, detached>>
    BY <1>8, <1>j, <1>s DEF LockServer
  <2>2. To("apply") \in JobRecord /\ To("apply").at = "apply"
        /\ To("apply").rev = job[g].rev /\ To("apply").body = job[g].body
    BY <1>g, <1>s
  <2>3. /\ BeforeWatch' /\ OneReload' /\ job' \in [Reloads -> JobRecord]
        /\ job'[g] = To("apply") /\ \A h \in Reloads : h # g => job'[h] = job[h]
        /\ ~overlapped => \A h \in Reloads : h # g => job[h].at = "idle"
    BY <1>u, <2>1, <2>2, OneJobMoves
  <2>4. ChangeIsPending'
    BY <1>u, <2>1, <2>2, GoingOnIsPending
  <2>5. serverLock' \in Reloads
    BY <1>0, <1>8, <2>1 DEF LockServer, JobRecord
  <2>6. ReloadTypeOK'
    BY <1>0, <1>u, <2>1, <2>3, <2>5 DEF ReloadTypeOK, JobRecord
  <2>7. OnlyWhatLoads'
    BY <1>0, <1>u, <2>1, <2>2, <2>3, <2>5 DEF OnlyWhatLoads
  <2>8. UpIsPort' /\ JobProgress'
    BY <1>0, <1>u, <2>1, <2>2, <2>3, <2>5 DEF UpIsPort, JobProgress
  <2> QED  BY <2>3, <2>4, <2>6, <2>7, <2>8 DEF RInv
<1>9. CASE ApplyConfig(g)
  <2>1. /\ job[g].at = "apply" /\ job' = [job EXCEPT ![g] = Idle] /\ serverLock' = "none"
        /\ server' = [config |-> job[g].rev, content |-> job[g].rev, body |-> job[g].body]
        /\ UNCHANGED <<logRev, pprof, detached>>
    BY <1>9 DEF ApplyConfig, Finish
  <2>2. /\ BeforeWatch' /\ OneReload' /\ job' \in [Reloads -> JobRecord] /\ job'[g] = Idle
        /\ \A h \in Reloads : h # g => job'[h] = job[h]
        /\ ~overlapped => \A h \in Reloads : h # g => job[h].at = "idle"
    BY <1>i, <1>u, <2>1, OneJobMoves
  <2>3. ReloadTypeOK'
    <3>1. server' \in [config : Revs, content : Revs, body : Bodies]
      BY <1>0, <2>1 DEF JobRecord
    <3> QED  BY <1>0, <1>u, <2>1, <2>2, <3>1 DEF ReloadTypeOK, JobRecord
  <2>4. OnlyWhatLoads' /\ UpIsPort' /\ JobProgress'
    BY <1>0, <1>i, <1>u, <2>1, <2>2 DEF OnlyWhatLoads, UpIsPort, JobProgress
  <2>5. ChangeIsPending'
    <3> SUFFICES ASSUME phase = "serving", ~overlapped, Loads(disk.body),
                        disk.rev > watchedFrom
                 PROVE  Pending'
      BY <1>u DEF ChangeIsPending
    <3>1. Pending
      BY <1>0 DEF ChangeIsPending
    <3>2. CASE events.change > 0 \/ timer
      BY <1>u, <3>2 DEF Pending
    <3>3. CASE ~(events.change > 0 \/ timer)
      <4>1. job[g].rev = disk.rev /\ job[g].body = disk.body
        BY <2>1, <2>2, <3>1, <3>3 DEF Pending, InForce
      <4>2. logRev = disk.rev /\ (pprof.made => PprofFollows(disk.body))
        BY <1>0, <2>1, <4>1 DEF JobProgress
      <4>3. \A h \in Reloads : job'[h].at = "idle"
        BY <1>i, <2>2
      <4>4. InForce'
        BY <1>u, <2>1, <4>1, <4>2, <4>3 DEF InForce
      <4> QED  BY <4>4 DEF Pending
    <3> QED  BY <3>2, <3>3
  <2> QED  BY <2>2, <2>3, <2>4, <2>5 DEF RInv
<1> QED
  BY <1>1, <1>2, <1>3, <1>4, <1>5, <1>6, <1>7, <1>8, <1>9 DEF ReloadStep

(* Every step keeps the invariant of the reloads.                          *)
LEMMA ReloadNextInv == RInv /\ [ReloadNext]_reloadVars => RInv'
<1> SUFFICES ASSUME RInv, [ReloadNext]_reloadVars PROVE RInv'
  OBVIOUS
<1>1. CASE UNCHANGED reloadVars
  BY <1>1 DEF reloadVars, RInv, ReloadTypeOK, BeforeWatch, OnlyWhatLoads, OneReload,
              UpIsPort, JobProgress, ChangeIsPending, Pending, InForce
<1> QED
  BY <1>1, FileSteps, MainSteps, WatchSteps, JobSteps DEF ReloadNext

(* Every value of the reloader's state is of its type: pprof listens on a  *)
(* port a configuration named, and no body that does not load is applied.  *)
THEOREM ReloadTypeCorrect == ReloadSpec => []ReloadTypeOK
<1>1. RInv => ReloadTypeOK
  BY DEF RInv
<1> QED
  BY <1>1, ReloadInitInv, ReloadNextInv, PTL DEF ReloadSpec

(* When nothing is pending, what is on disk is in force.                   *)
LEMMA InvIsSettled == RInv => SettledFollowsFile
  BY DEF RInv, ReloadTypeOK, ChangeIsPending, Pending, InForce, SettledFollowsFile, Settled

(* For any number of edits, of ports and of reload goroutines: once the    *)
(* watch loop, the timer and the reloads have come to rest, the server,    *)
(* its content, the logger and main's pprof server follow the revision on  *)
(* disk, unless two reloads have overlapped (reloader.go:170).             *)
THEOREM ReloadsSettle == ReloadSpec => []SettledFollowsFile
  BY InvIsSettled, ReloadInitInv, ReloadNextInv, PTL DEF ReloadSpec

(* The three modules run side by side, one at a time: what holds of each   *)
(* alone holds of the specification TLC runs.                              *)
THEOREM ControlPlaneCorrect ==
  MCSpec => [](TypeOK /\ SettledFollowsFile /\ ScrapeOfOneGeneration /\ ScrapeIsComplete)
<1> DEFINE Inv == RInv /\ LInv /\ FanInv /\ SentBounded
<1>1. MCInit => Inv
  <2>1. FanInit => SentBounded
    BY FanInitBound
  <2> QED
    BY <2>1, ReloadInitInv, LockInitInv, FanInitInv
       DEF MCInit, ReloadRests, LockRests, FanRests
<1>2. Inv /\ [MCNext]_vars => Inv'
  <2>1. [MCNext]_vars => /\ [ReloadNext]_reloadVars /\ [LockNext]_lockVars
                         /\ [FanNext]_fanVars
    BY DEF MCNext, vars
  <2> QED  BY <2>1, ReloadNextInv, LockNextInv, FanNextInv, SentBound
<1>3. Inv => TypeOK /\ SettledFollowsFile /\ ScrapeOfOneGeneration /\ ScrapeIsComplete
  BY InvIsSettled, InvIsOneGeneration, InvIsComplete, FanBoundType DEF TypeOK, RInv, LInv
<1> QED
  BY <1>1, <1>2, <1>3, PTL DEF MCSpec
=============================================================================
