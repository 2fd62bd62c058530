-------------------------- MODULE CollectorsProofs --------------------------
(***************************************************************************)
(* The probes, the balances and the bill, and the nine modules of          *)
(* MCCollectors together.                                                  *)
(*                                                                         *)
(* ProbePool: JobSound says of each target how far its checks are: an      *)
(* index that is out is checked or in a worker's hand, and a count is of   *)
(* results that no worker changes any more.  BalancePoll: the map under    *)
(* construction has each user from one source, because a discovery leaves  *)
(* out whoever has an answer.  BillingLedger: the window of a poll is an   *)
(* hour that is over, the pipeline's $match takes exactly the documents    *)
(* of that hour, and the ledger only grows, so that an answer stays the    *)
(* sums over the documents its query saw; a sum of sums over parts that    *)
(* share nothing is the sum over all, so the bill is what the documents    *)
(* one by one give.                                                        *)
(*                                                                         *)
(* The modules share no variable: a step of MCNext is a step or a stutter  *)
(* of each of them, and MCInv is the conjunction of their invariants.      *)
(***************************************************************************)
EXTENDS MCCollectors, InformerProofs, ReviewCacheProofs, FiniteSetTheorems,
        WellFoundedInduction, TLAPS

(***************************************************************************)
(* ProbePool                                                               *)
(***************************************************************************)

JobSet    == [at : {"none", "resolve", "serial", "enqueue", "wait", "counted", "merged"},
              ips : 0..MaxIPs, next : 1..(MaxIPs + 1), ok : BOOLEAN, healthy : 0..MaxIPs]
HandSet   == [Workers -> 0..(MaxIPs + 1)]
ResultSet == [1..MaxIPs -> {"unread", "passed", "failed"}]

Healthy(j, res) == {i \in 1..j.ips : res[i] = "passed" \/ checks = {}}

(* What CheckIPs of a target has done, by what its record j, its workers h *)
(* and its results res say: an index that is out is checked or in a hand;  *)
(* all of them are out when the pool is closed, unless the poll was        *)
(* cancelled; and the count is of results that do not change any more.     *)
JobSound(j, h, res) ==
  /\ j.at \in {"none", "resolve"} => j.ips = 0 /\ j.next = 1 /\ j.ok /\ j.healthy = 0
  /\ j.at \notin {"enqueue", "wait"} => \A w \in Workers : h[w] = Returned
  /\ ~j.ok => j.at \in {"counted", "merged"} /\ j.ips = 0
  /\ j.at = "serial" => \A i \in 1..MaxIPs : i < j.next => res[i] # "unread"
  /\ j.at \in {"enqueue", "wait"} =>
       \A i \in 1..MaxIPs : i < j.next => res[i] # "unread" \/ \E w \in Workers : h[w] = i
  /\ j.at = "wait" /\ probeCtx => j.next > j.ips
  /\ j.at \in {"counted", "merged"} =>
       /\ j.healthy = Cardinality(Healthy(j, res))
       /\ probeCtx => \A i \in 1..j.ips : res[i] # "unread"

JobsSound == \A t \in Targets : JobSound(job[t], hand[t], result[t])

(* The maps hold what was merged, and nothing before the poll.             *)
MapsAreMerged ==
  /\ \A k \in Targets : /\ newHealth[k] # 0 => job[newHealth[k]].at = "merged"
                        /\ health[k] # 0 => job[health[k]].at = "merged"
  /\ probing \in {"parse", "refused", "idle"} =>
       \A k \in Targets : newHealth[k] = 0 /\ health[k] = 0 /\ job[k].at = "none"

ProbeInv == ProbeTypeOK /\ JobsSound /\ MapsAreMerged

(* The parts of a typed state.                                             *)
LEMMA ProbeValues ==
  ASSUME ProbeTypeOK
  PROVE  /\ \A t \in Targets : job[t] \in JobSet /\ hand[t] \in HandSet /\ result[t] \in ResultSet
         /\ job \in [Targets -> JobSet] /\ hand \in [Targets -> HandSet]
         /\ result \in [Targets -> ResultSet]
  BY DEF ProbeTypeOK, JobSet, HandSet, ResultSet

(* Counts and indices.                                                     *)
LEMMA ProbeNumbers ==
  /\ MaxIPs \in Nat /\ MaxIPs > 0 /\ MaxWorkers \in Nat /\ MaxWorkers > 0
  /\ 0 \in 0..MaxIPs /\ 1 \in 1..(MaxIPs + 1) /\ AtChannel \in 0..(MaxIPs + 1)
  /\ Returned \in 0..(MaxIPs + 1) /\ Returned # AtChannel
  /\ Returned \notin 1..MaxIPs /\ AtChannel \notin 1..MaxIPs
  BY ProbeAssumption DEF AtChannel, Returned

(* A count of addresses is one of its type.                                *)
LEMMA HealthyCount ==
  ASSUME NEW j \in JobSet, NEW res \in ResultSet
  PROVE  /\ Cardinality(1..j.ips) = j.ips
         /\ Cardinality(Healthy(j, res)) \in 0..j.ips
         /\ Cardinality(Healthy(j, res)) \in 0..MaxIPs
         /\ j.ips = 0 => Cardinality(Healthy(j, res)) = 0
<1>0. j.ips \in Nat /\ j.ips <= MaxIPs
  BY ProbeNumbers DEF JobSet
<1>1. IsFiniteSet(1..j.ips) /\ Cardinality(1..j.ips) = j.ips
  <2>1. PICK n \in Nat : n = j.ips
    BY <1>0
  <2>2. IsFiniteSet(1..n) /\ Cardinality(1..n) = IF 1 > n THEN 0 ELSE n - 1 + 1
    BY FS_Interval
  <2> QED  BY <2>1, <2>2
<1>2. Healthy(j, res) \subseteq 1..j.ips
  BY DEF Healthy
<1>3. /\ IsFiniteSet(Healthy(j, res))
      /\ Cardinality(Healthy(j, res)) <= Cardinality(1..j.ips)
  BY <1>1, <1>2, FS_Subset
<1>4. Cardinality(Healthy(j, res)) \in Nat
  BY <1>3, FS_CardinalityType
<1> QED
  BY <1>0, <1>1, <1>3, <1>4, ProbeNumbers

(* Steps that leave the targets alone; the context can only end.           *)
LEMMA JobsKept ==
  ASSUME JobsSound, UNCHANGED <<job, hand, result, checks>>, probeCtx' => probeCtx
  PROVE  JobsSound'
<1> SUFFICES ASSUME NEW t \in Targets PROVE JobSound(job[t], hand[t], result[t])'
  BY DEF JobsSound
<1>1. Healthy(job[t], result[t])' = Healthy(job[t], result[t])
  BY DEF Healthy
<1>2. JobSound(job[t], hand[t], result[t])
  BY DEF JobsSound
<1> QED
  BY <1>1, <1>2 DEF JobSound

(* A step of one target, and what makes it right.                          *)
TargetMoves(t, j, h, res) ==
  /\ job' = [job EXCEPT ![t] = j] /\ hand' = [hand EXCEPT ![t] = h]
  /\ result' = [result EXCEPT ![t] = res]
  /\ UNCHANGED <<probeKind, checks, oneEndpoint, entry, probing, probeCtx, health>>
  /\ probing \notin {"parse", "refused", "idle"}
  /\ JobSound(j, h, res)
  /\ job[t].at = "merged" => j.at = "merged"
  /\ newHealth' \in [Targets -> {0} \union Targets]
  /\ \A k \in Targets : newHealth'[k] = newHealth[k] \/ (newHealth'[k] = t /\ j.at = "merged")

(* Such a step keeps the invariant.                                        *)
LEMMA TargetStep ==
  ASSUME ProbeInv, NEW t \in Targets, NEW j \in JobSet, NEW h \in HandSet, NEW res \in ResultSet,
         TargetMoves(t, j, h, res)
  PROVE  ProbeInv'
<1> USE DEF TargetMoves
<1>0. ProbeTypeOK /\ JobsSound /\ MapsAreMerged
  BY DEF ProbeInv
<1>1. /\ job' \in [Targets -> JobSet] /\ hand' \in [Targets -> HandSet]
      /\ result' \in [Targets -> ResultSet]
      /\ \A s \in Targets : /\ job'[s] = IF s = t THEN j ELSE job[s]
                            /\ hand'[s] = IF s = t THEN h ELSE hand[s]
                            /\ result'[s] = IF s = t THEN res ELSE result[s]
  BY <1>0, ProbeValues
<1>2. ProbeTypeOK'
  BY <1>0, <1>1 DEF ProbeTypeOK, JobSet, HandSet, ResultSet
<1>3. JobsSound'
  <2> SUFFICES ASSUME NEW s \in Targets
               PROVE  JobSound(job[s], hand[s], result[s])'
    BY DEF JobsSound
  <2>1. JobSound(job'[s], hand'[s], result'[s])
    BY <1>0, <1>1 DEF JobsSound
  <2>2. Healthy(job'[s], result'[s]) = Healthy(job[s], result[s])'
    BY DEF Healthy
  <2> QED  BY <2>1, <2>2 DEF JobSound
<1>4. MapsAreMerged'
  <2>1. \A s \in Targets : job[s].at = "merged" => job'[s].at = "merged"
    BY <1>1
  <2>2. \A k \in Targets : newHealth[k] \in {0} \union Targets /\ health[k] \in {0} \union Targets
    BY <1>0 DEF ProbeTypeOK
  <2>3. ASSUME NEW k \in Targets
        PROVE  /\ newHealth'[k] # 0 => job'[newHealth'[k]].at = "merged"
               /\ health'[k] # 0 => job'[health'[k]].at = "merged"
    BY <1>0, <1>1, <2>1, <2>2 DEF MapsAreMerged
  <2> QED  BY <2>3 DEF MapsAreMerged
<1> QED
  BY <1>2, <1>3, <1>4 DEF ProbeInv
(* Nothing is parsed yet.                                                  *)
LEMMA ProbeInitInv == ProbeInit => ProbeInv
<1> SUFFICES ASSUME ProbeInit PROVE ProbeInv
  OBVIOUS
<1>1. /\ NoJob \in JobSet
      /\ [w \in Workers |-> Returned] \in HandSet
      /\ [i \in 1..MaxIPs |-> "unread"] \in ResultSet
  BY ProbeNumbers DEF NoJob, JobSet, HandSet, ResultSet
<1>2. ProbeTypeOK
  <2>1. /\ job \in [Targets -> JobSet] /\ hand \in [Targets -> HandSet]
        /\ result \in [Targets -> ResultSet]
    BY <1>1 DEF ProbeInit
  <2>2. probeCtx \in BOOLEAN
    BY Zenon DEF ProbeInit
  <2>3. /\ newHealth \in [Targets -> {0} \union Targets] /\ health \in [Targets -> {0} \union Targets]
        /\ entry \in [Targets -> {"unread", "skipped", "named", "fixed"}]
        /\ probeKind \in {"domain", "registry"} /\ checks \subseteq Checks
        /\ oneEndpoint \in BOOLEAN /\ probing = "parse"
    BY DEF ProbeInit, Checks
  <2> QED  BY <2>1, <2>2, <2>3 DEF ProbeTypeOK, JobSet, HandSet, ResultSet
<1>3. JobsSound
  <2>1. \A t \in Targets : job[t] = NoJob /\ hand[t] = [w \in Workers |-> Returned]
    BY DEF ProbeInit
  <2> QED  BY <2>1 DEF JobsSound, JobSound, NoJob
<1>4. MapsAreMerged
  BY DEF ProbeInit, MapsAreMerged, NoJob
<1> QED
  BY <1>2, <1>3, <1>4 DEF ProbeInv

(* The configuration is parsed, the poll begins, is cancelled and ends.    *)
LEMMA PollSteps ==
  ASSUME ProbeInv,
         \/ \E t \in Targets, f \in Forms, p \in Endpoints, a \in AddressOf :
              ParseEntry(t, [form |-> f, endpoint |-> p, ips |-> a])
         \/ BeginPoll \/ CancelPoll \/ PublishHealth
  PROVE  ProbeInv'
<1>0. ProbeTypeOK /\ JobsSound /\ MapsAreMerged
  BY DEF ProbeInv
<1>1. ASSUME NEW t \in Targets, NEW e, ParseEntry(t, e)
      PROVE  ProbeInv'
  <2>1. /\ UNCHANGED <<probeKind, checks, oneEndpoint, probeCtx, job, hand, result, newHealth,
                       health>>
        /\ probing = "parse" /\ probing' \in {"parse", "refused", "idle"}
        /\ entry' \in [Targets -> {"unread", "skipped", "named", "fixed"}]
    BY <1>0, <1>1 DEF ParseEntry, Parsed, ProbeTypeOK
  <2>2. ProbeTypeOK'
    BY <1>0, <2>1 DEF ProbeTypeOK
  <2>3. JobsSound'
    BY <1>0, <2>1, JobsKept
  <2>4. MapsAreMerged'
    BY <1>0, <2>1 DEF MapsAreMerged
  <2> QED  BY <2>2, <2>3, <2>4 DEF ProbeInv
<1>2. CASE BeginPoll
  <2>1. /\ UNCHANGED <<probeKind, checks, oneEndpoint, entry, probeCtx, hand, result, newHealth,
                       health>>
        /\ probing = "idle" /\ probing' \in {"poll", "done"}
        /\ \/ UNCHANGED job
           \/ job' = [t \in Targets |-> IF t \in Monitored THEN [NoJob EXCEPT !.at = "resolve"]
                                                           ELSE NoJob]
    BY <1>2 DEF BeginPoll
  <2>2. CASE UNCHANGED job
    <3>1. ProbeTypeOK'
      BY <1>0, <2>1, <2>2 DEF ProbeTypeOK
    <3>2. JobsSound'
      BY <1>0, <2>1, <2>2, JobsKept
    <3>3. MapsAreMerged'
      BY <1>0, <2>1, <2>2 DEF MapsAreMerged
    <3> QED  BY <3>1, <3>2, <3>3 DEF ProbeInv
  <2>3. CASE job' = [t \in Targets |-> IF t \in Monitored THEN [NoJob EXCEPT !.at = "resolve"]
                                                          ELSE NoJob]
    <3>1. NoJob \in JobSet /\ [NoJob EXCEPT !.at = "resolve"] \in JobSet
      BY ProbeNumbers DEF NoJob, JobSet
    <3>2. job' \in [Targets -> JobSet]
          /\ \A t \in Targets : job'[t] \in {NoJob, [NoJob EXCEPT !.at = "resolve"]}
      BY <2>3, <3>1
    <3>3. ProbeTypeOK'
      BY <1>0, <2>1, <3>2 DEF ProbeTypeOK, JobSet
    <3>4. \A t \in Targets, w \in Workers : hand'[t][w] = Returned
      BY <1>0, <1>2, <2>1 DEF JobsSound, JobSound, MapsAreMerged
    <3>5. JobsSound'
      BY <3>2, <3>4 DEF JobsSound, JobSound, NoJob
    <3>6. MapsAreMerged'
      BY <1>0, <2>1 DEF MapsAreMerged
    <3> QED  BY <3>3, <3>5, <3>6 DEF ProbeInv
  <2> QED  BY <2>1, <2>2, <2>3
<1>3. CASE CancelPoll
  <2>1. /\ UNCHANGED <<probeKind, checks, oneEndpoint, entry, probing, job, hand, result, newHealth,
                       health>>
        /\ ~probeCtx'
    BY <1>3 DEF CancelPoll
  <2>b. probeCtx' \in BOOLEAN
    BY <1>3, Zenon DEF CancelPoll
  <2>2. ProbeTypeOK'
    BY <1>0, <2>1, <2>b DEF ProbeTypeOK
  <2>3. JobsSound'
    BY <1>0, <2>1, JobsKept
  <2>4. MapsAreMerged'
    BY <1>0, <2>1 DEF MapsAreMerged
  <2> QED  BY <2>2, <2>3, <2>4 DEF ProbeInv
<1>4. CASE PublishHealth
  <2>1. /\ UNCHANGED <<probeKind, checks, oneEndpoint, entry, probeCtx, job, hand, result,
                       newHealth>>
        /\ health' = newHealth /\ probing' = "done"
    BY <1>4 DEF PublishHealth
  <2>2. ProbeTypeOK'
    BY <1>0, <2>1 DEF ProbeTypeOK
  <2>3. JobsSound'
    BY <1>0, <2>1, JobsKept
  <2>4. MapsAreMerged'
    BY <1>0, <2>1 DEF MapsAreMerged
  <2> QED  BY <2>2, <2>3, <2>4 DEF ProbeInv
<1> QED
  BY <1>1, <1>2, <1>3, <1>4
(* The addresses of a target are found.                                    *)
LEMMA ResolveSteps ==
  ASSUME ProbeInv, NEW t \in Targets,
         ResolveFails(t) \/ \E n \in 0..MaxIPs : Resolve(t, n)
  PROVE  ProbeInv'
<1> USE ProbeNumbers
<1>0. /\ ProbeTypeOK /\ JobsSound /\ MapsAreMerged
      /\ job[t] \in JobSet /\ hand[t] \in HandSet /\ result[t] \in ResultSet
      /\ job \in [Targets -> JobSet] /\ hand \in [Targets -> HandSet]
      /\ result \in [Targets -> ResultSet]
      /\ job[t].at = "resolve" /\ probing \notin {"parse", "refused", "idle"}
  BY ProbeValues DEF ProbeInv, MapsAreMerged, ResolveFails, Resolve
<1>1. /\ job[t].ips = 0 /\ job[t].next = 1 /\ job[t].ok /\ job[t].healthy = 0
      /\ \A w \in Workers : hand[t][w] = Returned
  BY <1>0 DEF JobsSound, JobSound
<1>2. ASSUME job' = [job EXCEPT ![t] = [job[t] EXCEPT !.ok = FALSE, !.at = "counted"]],
             NEW h \in HandSet, hand' = [hand EXCEPT ![t] = h],
             \A w \in Workers : h[w] = Returned,
             UNCHANGED <<probeKind, checks, oneEndpoint, entry, probing, probeCtx, result,
                         newHealth, health>>
      PROVE  ProbeInv'
  <2>1. PICK j \in JobSet : /\ j = [job[t] EXCEPT !.ok = FALSE, !.at = "counted"]
                            /\ j.at = "counted" /\ j.ips = 0 /\ ~j.ok /\ j.healthy = 0
    <3>1. [job[t] EXCEPT !.ok = FALSE, !.at = "counted"] \in JobSet
      BY <1>0, <1>1 DEF JobSet
    <3>2. PICK x \in JobSet : x = [job[t] EXCEPT !.ok = FALSE, !.at = "counted"]
      BY <3>1
    <3>3. /\ x.at = "counted" /\ x.ips = 0 /\ ~x.ok /\ x.healthy = 0
      BY <3>2, <1>0, <1>1 DEF JobSet
    <3> QED  BY <3>2, <3>3
  <2>a. Cardinality(Healthy(j, result[t])) = 0
    BY <1>0, <2>1, HealthyCount
  <2>2. JobSound(j, h, result[t])
    BY <1>2, <2>1, <2>a DEF JobSound
  <2>3. job' = [job EXCEPT ![t] = j] /\ result' = [result EXCEPT ![t] = result[t]]
    BY <1>0, <1>2, <2>1
  <2>4. newHealth' \in [Targets -> {0} \union Targets]
    BY <1>0, <1>2 DEF ProbeTypeOK
  <2>q. TargetMoves(t, j, h, result[t])
    BY <1>0, <1>2, <2>1, <2>2, <2>3, <2>4 DEF TargetMoves
  <2> QED  BY <1>0, <2>q, TargetStep
<1>3. CASE ResolveFails(t)
  BY <1>0, <1>1, <1>2, <1>3 DEF ResolveFails
<1>4. ASSUME NEW n \in 0..MaxIPs, Resolve(t, n)
      PROVE  ProbeInv'
  <2>1. PICK h \in HandSet :
          /\ hand' = [hand EXCEPT ![t] = h]
          /\ \A w \in Workers : h[w] = IF n > 1 /\ w <= n THEN AtChannel ELSE Returned
    <3>1. [w \in Workers |-> IF n > 1 /\ w <= n THEN AtChannel ELSE Returned] \in HandSet
      BY DEF HandSet
    <3> QED  BY <1>4, <3>1 DEF Resolve
  <2>2. UNCHANGED <<probeKind, checks, oneEndpoint, entry, probing, probeCtx, result,
                    newHealth, health>>
    BY <1>4 DEF Resolve
  <2>3. CASE n = 0 /\ probeKind = "domain"
    <3>1. job' = [job EXCEPT ![t] = [job[t] EXCEPT !.ok = FALSE, !.at = "counted"]]
      BY <1>4, <2>3 DEF Resolve
    <3>2. \A w \in Workers : h[w] = Returned
      BY <2>1, <2>3
    <3> QED  BY <1>2, <2>1, <2>2, <3>1, <3>2
  <2>4. CASE ~(n = 0 /\ probeKind = "domain")
    <3>1. PICK at \in {"serial", "enqueue"} : at = IF n <= 1 THEN "serial" ELSE "enqueue"
      OBVIOUS
    <3>2. PICK j \in JobSet : /\ j = [job[t] EXCEPT !.ips = n, !.at = at]
                              /\ j.at = at /\ j.next = 1 /\ j.ok
      <4>1. [job[t] EXCEPT !.ips = n, !.at = at] \in JobSet
        BY <1>0, <1>1 DEF JobSet
      <4>2. PICK x \in JobSet : x = [job[t] EXCEPT !.ips = n, !.at = at]
        BY <4>1
      <4>3. /\ x.at = at /\ x.next = 1 /\ x.ok
        BY <4>2, <1>0, <1>1 DEF JobSet
      <4> QED  BY <4>2, <4>3
    <3>3. job' = [job EXCEPT ![t] = j]
      <4>1. job' = [job EXCEPT ![t] = [job[t] EXCEPT !.ips = n, !.at = at]]
        BY <1>4, <2>4, <3>1 DEF Resolve, Gets
      <4> QED  BY <3>2, <4>1
    <3>4. JobSound(j, h, result[t])
      BY <2>1, <3>1, <3>2 DEF JobSound
    <3>5. result' = [result EXCEPT ![t] = result[t]]
      BY <1>0, <2>2
    <3>6. newHealth' \in [Targets -> {0} \union Targets]
      BY <1>0, <2>2 DEF ProbeTypeOK
    <3>q. TargetMoves(t, j, h, result[t])
      BY <1>0, <2>1, <2>2, <3>2, <3>3, <3>4, <3>5, <3>6 DEF TargetMoves
    <3> QED  BY <1>0, <3>q, TargetStep
  <2> QED  BY <2>3, <2>4
<1> QED
  BY <1>3, <1>4

(* The addresses of a target are checked, by itself or by its pool.        *)
LEMMA CheckSteps ==
  ASSUME ProbeInv, NEW t \in Targets,
         \/ SerialCheck(t) \/ CloseIndex(t)
         \/ \E w \in Workers : Enqueue(t, w) \/ WorkerChecks(t, w) \/ WorkerReturns(t, w)
  PROVE  ProbeInv'
<1> USE ProbeNumbers
<1>0. /\ ProbeTypeOK /\ JobsSound /\ MapsAreMerged
      /\ job[t] \in JobSet /\ hand[t] \in HandSet /\ result[t] \in ResultSet
      /\ job \in [Targets -> JobSet] /\ hand \in [Targets -> HandSet]
      /\ result \in [Targets -> ResultSet]
      /\ newHealth \in [Targets -> {0} \union Targets]
  BY ProbeValues DEF ProbeInv, ProbeTypeOK
<1>s. JobSound(job[t], hand[t], result[t])
  BY <1>0 DEF JobsSound
<1>n. /\ job[t].ips \in Nat /\ job[t].ips <= MaxIPs /\ job[t].next \in Nat
      /\ job[t].next >= 1 /\ job[t].next <= MaxIPs + 1
  BY <1>0 DEF JobSet
<1>k. /\ job[t].at # "none" => probing \notin {"parse", "refused", "idle"}
      /\ UNCHANGED job => job' = [job EXCEPT ![t] = job[t]]
      /\ UNCHANGED hand => hand' = [hand EXCEPT ![t] = hand[t]]
      /\ UNCHANGED result => result' = [result EXCEPT ![t] = result[t]]
      /\ UNCHANGED newHealth => newHealth' \in [Targets -> {0} \union Targets]
  BY <1>0 DEF MapsAreMerged
<1>1. CASE SerialCheck(t)
  <2>1. /\ job[t].at = "serial" /\ job[t].next <= job[t].ips
        /\ job' = [job EXCEPT ![t] = [job[t] EXCEPT !.next = @ + 1]]
        /\ UNCHANGED <<probeKind, checks, oneEndpoint, entry, probing, probeCtx, hand, newHealth,
                       health>>
    BY <1>1 DEF SerialCheck
  <2>2. PICK r \in {"passed", "failed"} :
          result' = [result EXCEPT ![t] = [result[t] EXCEPT ![job[t].next] = r]]
    BY <1>1 DEF SerialCheck, runIPChecks
  <2>3. PICK j \in JobSet : /\ j = [job[t] EXCEPT !.next = @ + 1]
                            /\ j.next = job[t].next + 1 /\ j.at = "serial" /\ j.ips = job[t].ips
                            /\ j.ok = job[t].ok
    <3>1. [job[t] EXCEPT !.next = @ + 1] \in JobSet
      BY <1>0, <1>n, <2>1 DEF JobSet
    <3>2. PICK x \in JobSet : x = [job[t] EXCEPT !.next = @ + 1]
      BY <3>1
    <3>3. /\ x.next = job[t].next + 1 /\ x.at = "serial" /\ x.ips = job[t].ips
          /\ x.ok = job[t].ok
      BY <3>2, <1>0, <1>n, <2>1 DEF JobSet
    <3> QED  BY <3>2, <3>3
  <2>4. PICK res \in ResultSet : /\ res = [result[t] EXCEPT ![job[t].next] = r]
                                 /\ \A i \in 1..MaxIPs :
                                      res[i] = IF i = job[t].next THEN r ELSE result[t][i]
    <3>1. [result[t] EXCEPT ![job[t].next] = r] \in ResultSet
      BY <1>0, <1>n DEF ResultSet
    <3>2. PICK z \in ResultSet : z = [result[t] EXCEPT ![job[t].next] = r]
      BY <3>1
    <3>3. /\ \A i \in 1..MaxIPs :
               z[i] = IF i = job[t].next THEN r ELSE result[t][i]
      BY <3>2, <1>0, <1>n DEF ResultSet
    <3> QED  BY <3>2, <3>3
  <2>5. JobSound(j, hand[t], res)
    BY <1>s, <1>n, <2>1, <2>3, <2>4 DEF JobSound
  <2>e. /\ job' = [job EXCEPT ![t] = j] /\ hand' = [hand EXCEPT ![t] = hand[t]]
        /\ result' = [result EXCEPT ![t] = res]
        /\ newHealth' \in [Targets -> {0} \union Targets] /\ probing \notin {"parse", "refused", "idle"}
    BY <1>k, <2>1, <2>2, <2>3, <2>4
  <2>q. TargetMoves(t, j, hand[t], res)
    BY <1>0, <2>1, <2>3, <2>4, <2>5, <2>e DEF TargetMoves
  <2> QED  BY <1>0, <2>q, TargetStep
<1>2. CASE CloseIndex(t)
  <2>1. /\ job[t].next > job[t].ips \/ ~probeCtx
        /\ job' = [job EXCEPT ![t] = [job[t] EXCEPT !.at = "wait"]]
        /\ UNCHANGED <<probeKind, checks, oneEndpoint, entry, probing, probeCtx, hand, result,
                       newHealth, health>>
        /\ job[t].at = "enqueue"
    BY <1>2 DEF CloseIndex
  <2>2. PICK j \in JobSet : /\ j = [job[t] EXCEPT !.at = "wait"]
                            /\ j.next = job[t].next /\ j.at = "wait" /\ j.ips = job[t].ips
                            /\ j.ok = job[t].ok
    <3>1. [job[t] EXCEPT !.at = "wait"] \in JobSet
      BY <1>0 DEF JobSet
    <3>2. PICK x \in JobSet : x = [job[t] EXCEPT !.at = "wait"]
      BY <3>1
    <3>3. /\ x.next = job[t].next /\ x.at = "wait" /\ x.ips = job[t].ips
          /\ x.ok = job[t].ok
      BY <3>2, <1>0 DEF JobSet
    <3> QED  BY <3>2, <3>3
  <2>3. JobSound(j, hand[t], result[t])
    BY <1>s, <1>n, <2>1, <2>2 DEF JobSound
  <2>e. /\ job' = [job EXCEPT ![t] = j] /\ hand' = [hand EXCEPT ![t] = hand[t]]
        /\ result' = [result EXCEPT ![t] = result[t]]
        /\ newHealth' \in [Targets -> {0} \union Targets] /\ probing \notin {"parse", "refused", "idle"}
    BY <1>k, <2>1, <2>2
  <2>q. TargetMoves(t, j, hand[t], result[t])
    BY <1>0, <2>1, <2>2, <2>3, <2>e DEF TargetMoves
  <2> QED  BY <1>0, <2>q, TargetStep
<1>3. ASSUME NEW w \in Workers, Enqueue(t, w)
      PROVE  ProbeInv'
  <2>1. /\ job[t].at = "enqueue" /\ job[t].next <= job[t].ips /\ hand[t][w] = AtChannel
        /\ job' = [job EXCEPT ![t] = [job[t] EXCEPT !.next = @ + 1]]
        /\ hand' = [hand EXCEPT ![t] = [hand[t] EXCEPT ![w] = job[t].next]]
        /\ UNCHANGED <<probeKind, checks, oneEndpoint, entry, probing, probeCtx, result,
                       newHealth, health>>
    BY <1>3 DEF Enqueue
  <2>2. PICK j \in JobSet : /\ j = [job[t] EXCEPT !.next = @ + 1]
                            /\ j.next = job[t].next + 1 /\ j.at = "enqueue" /\ j.ips = job[t].ips
                            /\ j.ok = job[t].ok
    <3>1. [job[t] EXCEPT !.next = @ + 1] \in JobSet
      BY <1>0, <1>n, <2>1 DEF JobSet
    <3>2. PICK x \in JobSet : x = [job[t] EXCEPT !.next = @ + 1]
      BY <3>1
    <3>3. /\ x.next = job[t].next + 1 /\ x.at = "enqueue" /\ x.ips = job[t].ips
          /\ x.ok = job[t].ok
      BY <3>2, <1>0, <1>n, <2>1 DEF JobSet
    <3> QED  BY <3>2, <3>3
  <2>3. PICK h \in HandSet : /\ h = [hand[t] EXCEPT ![w] = job[t].next]
                             /\ \A x \in Workers :
                                  h[x] = IF x = w THEN job[t].next ELSE hand[t][x]
    <3>1. [hand[t] EXCEPT ![w] = job[t].next] \in HandSet
      BY <1>0, <1>n DEF HandSet
    <3>2. PICK y \in HandSet : y = [hand[t] EXCEPT ![w] = job[t].next]
      BY <3>1
    <3>3. /\ \A x \in Workers :
               y[x] = IF x = w THEN job[t].next ELSE hand[t][x]
      BY <3>2, <1>0, <1>n DEF HandSet
    <3> QED  BY <3>2, <3>3
  <2>4. ASSUME NEW i \in 1..MaxIPs, i < j.next
        PROVE  result[t][i] # "unread" \/ \E x \in Workers : h[x] = i
    <3>1. CASE i = job[t].next
      BY <2>3, <3>1
    <3>2. CASE i < job[t].next
      BY <1>s, <2>1, <2>3, <3>2 DEF JobSound
    <3> QED  BY <1>n, <2>2, <2>4, <3>1, <3>2
  <2>5. JobSound(j, h, result[t])
    BY <1>s, <2>1, <2>2, <2>4 DEF JobSound
  <2>e. /\ job' = [job EXCEPT ![t] = j] /\ hand' = [hand EXCEPT ![t] = h]
        /\ result' = [result EXCEPT ![t] = result[t]]
        /\ newHealth' \in [Targets -> {0} \union Targets] /\ probing \notin {"parse", "refused", "idle"}
    BY <1>k, <2>1, <2>2, <2>3
  <2>q. TargetMoves(t, j, h, result[t])
    BY <1>0, <2>1, <2>2, <2>3, <2>5, <2>e DEF TargetMoves
  <2> QED  BY <1>0, <2>q, TargetStep
<1>4. ASSUME NEW w \in Workers, WorkerChecks(t, w)
      PROVE  ProbeInv'
  <2>1. /\ hand[t][w] \in 1..MaxIPs
        /\ hand' = [hand EXCEPT ![t] = [hand[t] EXCEPT ![w] = AtChannel]]
        /\ UNCHANGED <<probeKind, checks, oneEndpoint, entry, probing, probeCtx, job,
                       newHealth, health>>
    BY <1>4 DEF WorkerChecks
  <2>2. PICK r \in {"passed", "failed"} :
          result' = [result EXCEPT ![t] = [result[t] EXCEPT ![hand[t][w]] = r]]
    BY <1>4 DEF WorkerChecks, runIPChecks
  <2>3. job[t].at \in {"enqueue", "wait"}
    BY <1>s, <2>1 DEF JobSound
  <2>4. PICK h \in HandSet : /\ h = [hand[t] EXCEPT ![w] = AtChannel]
                             /\ \A x \in Workers :
                                  h[x] = IF x = w THEN AtChannel ELSE hand[t][x]
    <3>1. [hand[t] EXCEPT ![w] = AtChannel] \in HandSet
      BY <1>0 DEF HandSet
    <3>2. PICK y \in HandSet : y = [hand[t] EXCEPT ![w] = AtChannel]
      BY <3>1
    <3>3. /\ \A x \in Workers :
               y[x] = IF x = w THEN AtChannel ELSE hand[t][x]
      BY <3>2, <1>0 DEF HandSet
    <3> QED  BY <3>2, <3>3
  <2>5. PICK res \in ResultSet : /\ res = [result[t] EXCEPT ![hand[t][w]] = r]
                                 /\ \A i \in 1..MaxIPs :
                                      res[i] = IF i = hand[t][w] THEN r ELSE result[t][i]
    <3>1. [result[t] EXCEPT ![hand[t][w]] = r] \in ResultSet
      BY <1>0, <2>1 DEF ResultSet
    <3>2. PICK z \in ResultSet : z = [result[t] EXCEPT ![hand[t][w]] = r]
      BY <3>1
    <3>3. /\ \A i \in 1..MaxIPs :
               z[i] = IF i = hand[t][w] THEN r ELSE result[t][i]
      BY <3>2, <1>0, <2>1 DEF ResultSet
    <3> QED  BY <3>2, <3>3
  <2>6. JobSound(job[t], h, res)
    BY <1>s, <2>3, <2>4, <2>5 DEF JobSound
  <2>e. /\ job' = [job EXCEPT ![t] = job[t]] /\ hand' = [hand EXCEPT ![t] = h]
        /\ result' = [result EXCEPT ![t] = res]
        /\ newHealth' \in [Targets -> {0} \union Targets] /\ probing \notin {"parse", "refused", "idle"}
    BY <1>k, <2>1, <2>2, <2>3, <2>4, <2>5
  <2>q. TargetMoves(t, job[t], h, res)
    BY <1>0, <2>1, <2>3, <2>4, <2>5, <2>6, <2>e DEF TargetMoves
  <2> QED  BY <1>0, <2>q, TargetStep
<1>5. ASSUME NEW w \in Workers, WorkerReturns(t, w)
      PROVE  ProbeInv'
  <2>1. /\ job[t].at = "wait" /\ hand[t][w] = AtChannel
        /\ hand' = [hand EXCEPT ![t] = [hand[t] EXCEPT ![w] = Returned]]
        /\ UNCHANGED <<probeKind, checks, oneEndpoint, entry, probing, probeCtx, job, result,
                       newHealth, health>>
    BY <1>5 DEF WorkerReturns
  <2>2. PICK h \in HandSet : /\ h = [hand[t] EXCEPT ![w] = Returned]
                             /\ \A x \in Workers :
                                  h[x] = IF x = w THEN Returned ELSE hand[t][x]
    <3>1. [hand[t] EXCEPT ![w] = Returned] \in HandSet
      BY <1>0 DEF HandSet
    <3>2. PICK y \in HandSet : y = [hand[t] EXCEPT ![w] = Returned]
      BY <3>1
    <3>3. /\ \A x \in Workers :
               y[x] = IF x = w THEN Returned ELSE hand[t][x]
      BY <3>2, <1>0 DEF HandSet
    <3> QED  BY <3>2, <3>3
  <2>3. ASSUME NEW i \in 1..MaxIPs, i < job[t].next
        PROVE  result[t][i] # "unread" \/ \E x \in Workers : h[x] = i
    BY <1>s, <2>1, <2>2, <2>3 DEF JobSound
  <2>4. JobSound(job[t], h, result[t])
    BY <1>s, <2>1, <2>3 DEF JobSound
  <2>e. /\ job' = [job EXCEPT ![t] = job[t]] /\ hand' = [hand EXCEPT ![t] = h]
        /\ result' = [result EXCEPT ![t] = result[t]]
        /\ newHealth' \in [Targets -> {0} \union Targets] /\ probing \notin {"parse", "refused", "idle"}
    BY <1>k, <2>1, <2>2
  <2>q. TargetMoves(t, job[t], h, result[t])
    BY <1>0, <2>1, <2>2, <2>4, <2>e DEF TargetMoves
  <2> QED  BY <1>0, <2>q, TargetStep
<1> QED
  BY <1>1, <1>2, <1>3, <1>4, <1>5

(* A target is counted when all its workers have returned, and merged.     *)
LEMMA CountSteps ==
  ASSUME ProbeInv, NEW t \in Targets, CountHealthy(t) \/ Merge(t)
  PROVE  ProbeInv'
<1> USE ProbeNumbers
<1>0. /\ ProbeTypeOK /\ JobsSound /\ MapsAreMerged
      /\ job[t] \in JobSet /\ hand[t] \in HandSet /\ result[t] \in ResultSet
      /\ job \in [Targets -> JobSet] /\ hand \in [Targets -> HandSet]
      /\ result \in [Targets -> ResultSet]
      /\ newHealth \in [Targets -> {0} \union Targets]
  BY ProbeValues DEF ProbeInv, ProbeTypeOK
<1>s. JobSound(job[t], hand[t], result[t])
  BY <1>0 DEF JobsSound
<1>n. job[t].ips \in Nat /\ job[t].ips <= MaxIPs /\ job[t].next \in Nat
  BY <1>0 DEF JobSet
<1>1. CASE CountHealthy(t)
  <2>1. /\ CheckedAll(t)
        /\ job' = [job EXCEPT ![t] = [job[t] EXCEPT !.healthy = Cardinality(HealthyIPs(t)),
                                                    !.at = "counted"]]
        /\ UNCHANGED <<probeKind, checks, oneEndpoint, entry, probing, probeCtx, hand, result,
                       newHealth, health>>
    BY <1>1 DEF CountHealthy
  <2>2. HealthyIPs(t) = Healthy(job[t], result[t])
    BY DEF HealthyIPs, Healthy
  <2>3. PICK c \in 0..MaxIPs : c = Cardinality(HealthyIPs(t))
    BY <1>0, <2>2, HealthyCount
  <2>4. PICK j \in JobSet : /\ j = [job[t] EXCEPT !.healthy = c, !.at = "counted"]
                            /\ j.at = "counted" /\ j.ips = job[t].ips /\ j.healthy = c
                            /\ j.ok = job[t].ok
    <3>1. [job[t] EXCEPT !.healthy = c, !.at = "counted"] \in JobSet
      BY <1>0 DEF JobSet
    <3>2. PICK x \in JobSet : x = [job[t] EXCEPT !.healthy = c, !.at = "counted"]
      BY <3>1
    <3>3. /\ x.at = "counted" /\ x.ips = job[t].ips /\ x.healthy = c
          /\ x.ok = job[t].ok
      BY <3>2, <1>0 DEF JobSet
    <3> QED  BY <3>2, <3>3
  <2>5. job[t].at \in {"serial", "wait"} /\ \A w \in Workers : hand[t][w] = Returned
    BY <1>s, <2>1 DEF CheckedAll, JobSound
  <2>6. probeCtx => \A i \in 1..j.ips : result[t][i] # "unread"
    <3>1. probeCtx => job[t].next > job[t].ips
      BY <1>s, <2>1 DEF CheckedAll, JobSound
    <3>2. \A i \in 1..MaxIPs : i < job[t].next => result[t][i] # "unread"
      BY <1>s, <2>5 DEF JobSound
    <3> QED  BY <1>n, <2>4, <3>1, <3>2
  <2>7. Healthy(j, result[t]) = HealthyIPs(t)
    BY <2>4 DEF Healthy, HealthyIPs
  <2>8. JobSound(j, hand[t], result[t])
    BY <1>s, <2>3, <2>4, <2>5, <2>6, <2>7 DEF JobSound
  <2>9. /\ hand' = [hand EXCEPT ![t] = hand[t]] /\ result' = [result EXCEPT ![t] = result[t]]
        /\ job' = [job EXCEPT ![t] = j] /\ probing \notin {"parse", "refused", "idle"}
    BY <1>0, <2>1, <2>3, <2>4, <2>5 DEF MapsAreMerged
  <2>q. TargetMoves(t, j, hand[t], result[t])
    BY <1>0, <2>1, <2>4, <2>5, <2>8, <2>9 DEF TargetMoves
  <2> QED  BY <1>0, <2>q, TargetStep
<1>2. CASE Merge(t)
  <2>1. /\ job[t].at = "counted"
        /\ newHealth' = [newHealth EXCEPT ![Key(t)] = t]
        /\ job' = [job EXCEPT ![t] = [job[t] EXCEPT !.at = "merged"]]
        /\ UNCHANGED <<probeKind, checks, oneEndpoint, entry, probing, probeCtx, hand, result,
                       health>>
    BY <1>2 DEF Merge
  <2>2. PICK j \in JobSet : /\ j = [job[t] EXCEPT !.at = "merged"]
                            /\ j.at = "merged" /\ j.ips = job[t].ips /\ j.ok = job[t].ok
                            /\ j.healthy = job[t].healthy
    <3>1. [job[t] EXCEPT !.at = "merged"] \in JobSet
      BY <1>0 DEF JobSet
    <3>2. PICK x \in JobSet : x = [job[t] EXCEPT !.at = "merged"]
      BY <3>1
    <3>3. /\ x.at = "merged" /\ x.ips = job[t].ips /\ x.ok = job[t].ok
          /\ x.healthy = job[t].healthy
      BY <3>2, <1>0 DEF JobSet
    <3> QED  BY <3>2, <3>3
  <2>3. Healthy(j, result[t]) = Healthy(job[t], result[t])
    BY <2>2 DEF Healthy
  <2>4. JobSound(j, hand[t], result[t])
    BY <1>s, <2>1, <2>2, <2>3 DEF JobSound
  <2>5. /\ newHealth' \in [Targets -> {0} \union Targets]
        /\ \A k \in Targets : newHealth'[k] = newHealth[k] \/ newHealth'[k] = t
    BY <1>0, <2>1 DEF Key, Targets
  <2>6. /\ hand' = [hand EXCEPT ![t] = hand[t]] /\ result' = [result EXCEPT ![t] = result[t]]
        /\ job' = [job EXCEPT ![t] = j] /\ probing \notin {"parse", "refused", "idle"}
    BY <1>0, <2>1, <2>2 DEF MapsAreMerged
  <2>q. TargetMoves(t, j, hand[t], result[t])
    BY <1>0, <2>1, <2>2, <2>4, <2>5, <2>6 DEF TargetMoves
  <2> QED  BY <1>0, <2>q, TargetStep
<1> QED
  BY <1>1, <1>2

(* Every step keeps the invariant.                                         *)
LEMMA ProbeNextInv == ProbeInv /\ [ProbeNext]_probeVars => ProbeInv'
<1> SUFFICES ASSUME ProbeInv, [ProbeNext]_probeVars PROVE ProbeInv'
  OBVIOUS
<1>1. CASE ProbeNext
  BY <1>1, PollSteps, ResolveSteps, CheckSteps, CountSteps DEF ProbeNext
<1>2. CASE UNCHANGED probeVars
  <2>1. UNCHANGED <<probeKind, checks, oneEndpoint, entry, probing, probeCtx, job, hand, result,
                    newHealth, health>>
    BY <1>2 DEF probeVars
  <2>2. JobsSound'
    BY <2>1, JobsKept DEF ProbeInv
  <2> QED  BY <2>1, <2>2 DEF ProbeInv, ProbeTypeOK, MapsAreMerged
<1> QED
  BY <1>1, <1>2

(* What the probing collectors keep is of its type.                        *)
THEOREM ProbeTypeCorrect == ProbeSpec => []ProbeTypeOK
<1>1. ProbeInv => ProbeTypeOK
  BY DEF ProbeInv
<1> QED
  BY <1>1, ProbeInitInv, ProbeNextInv, PTL DEF ProbeSpec

(* What is shown of a target is the count of a job that is merged.         *)
LEMMA ProbeInvCounts == ProbeInv => ProbeCountsAreChecked
<1> SUFFICES ASSUME ProbeInv, NEW k \in Targets, health[k] # 0
             PROVE  LET shown == probeCollect(k)
                    IN /\ shown.healthy = Cardinality(HealthyIPs(health[k]))
                       /\ probeCtx /\ checks # {} =>
                            Cardinality(emitStatusMetric(k)) = shown.healthy + shown.unhealthy
                       /\ ~shown.resolve => shown.ipCount = 0
  BY DEF ProbeCountsAreChecked
<1>1. PICK t \in Targets : t = health[k]
  BY DEF ProbeInv, ProbeTypeOK
<1>2. /\ job[t] \in JobSet /\ result[t] \in ResultSet /\ job[t].at = "merged"
      /\ JobSound(job[t], hand[t], result[t])
  BY <1>1, ProbeValues DEF ProbeInv, JobsSound, MapsAreMerged
<1>3. HealthyIPs(t) = Healthy(job[t], result[t])
  BY DEF HealthyIPs, Healthy
<1>4. /\ job[t].healthy = Cardinality(HealthyIPs(t))
      /\ probeCtx => \A i \in 1..job[t].ips : result[t][i] # "unread"
      /\ ~job[t].ok => job[t].ips = 0
  BY <1>2, <1>3 DEF JobSound
<1>5. job[t].ips \in Nat /\ job[t].healthy \in Nat
  BY <1>2, ProbeNumbers DEF JobSet
<1>6. probeCtx /\ checks # {} => emitStatusMetric(k) = 1..job[t].ips
  BY <1>1, <1>4 DEF emitStatusMetric
<1>7. Cardinality(1..job[t].ips) = job[t].ips
  BY <1>2, HealthyCount
<1>8. probeCollect(k) = [resolve |-> job[t].ok, ipCount |-> job[t].ips,
                         healthy |-> job[t].healthy,
                         unhealthy |-> job[t].ips - job[t].healthy]
  BY <1>1 DEF probeCollect
<1>9. job[t].healthy + (job[t].ips - job[t].healthy) = job[t].ips
  BY <1>5
<1> QED  BY <1>1, <1>4, <1>6, <1>7, <1>8, <1>9

(* For any number of addresses and of workers, and whenever the poll is    *)
(* cancelled: a scrape counts as healthy exactly the addresses that passed *)
(* the checks, and, unless the poll was cancelled, has the result of every *)
(* address it counts (domain.go and registryproxy.go, Poll and collect;    *)
(* checker.go, CheckIPs).                                                  *)
THEOREM CountsAreChecked == ProbeSpec => []ProbeCountsAreChecked
  BY ProbeInvCounts, ProbeInitInv, ProbeNextInv, PTL DEF ProbeSpec

(***************************************************************************)
(* BalancePoll                                                             *)
(***************************************************************************)

ConfiguredPolls == [at : {"configured"}, left : SUBSET Users, found : SUBSET Samples]
PositivePolls   == [at : {"positive"}, found : SUBSET Samples]
OwnerPolls      == [at : {"owners"}, found : SUBSET Samples, samples : SUBSET Samples]

(* The answers of the configured users: one for each.                      *)
FoundSound(fs) ==
  /\ \A s \in fs : s.source = "configured"
  /\ \A s, t \in fs : s.uid = t.uid => s = t

(* A discovered sample that may be published.                              *)
DiscoveredSound(s) ==
  /\ s.source = "discovered" /\ s.balance > 0 /\ balConfig.positive
  /\ balConfig.localDSN => s.owner \in ownersOf[s.uid] \ {""}
  /\ ~balConfig.localDSN => s.owner = ""

(* A poll has asked each configured user once at most; the samples whose   *)
(* owners it asks for had a balance.                                       *)
BalPollSound ==
  \/ balPoll = NoPoll
  \/ /\ balPoll \in ConfiguredPolls /\ FoundSound(balPoll.found)
     /\ \A s \in balPoll.found : s.uid \notin balPoll.left
  \/ balPoll \in PositivePolls /\ FoundSound(balPoll.found) /\ balConfig.positive
  \/ /\ balPoll \in OwnerPolls /\ FoundSound(balPoll.found)
     /\ balConfig.positive /\ balConfig.localDSN
     /\ \A s \in balPoll.samples : s.source = "discovered" /\ s.balance > 0

BalInv == BalTypeOK /\ BalPollSound /\ OneSourcePerUser

(* Where a poll is, by its record.                                         *)
LEMMA BalPollAt ==
  ASSUME BalPollSound
  PROVE  /\ balPoll.at \in {"idle", "configured", "positive", "owners"}
         /\ balPoll.at = "configured" =>
              /\ balPoll \in ConfiguredPolls /\ FoundSound(balPoll.found)
              /\ \A s \in balPoll.found : s.uid \notin balPoll.left
         /\ balPoll.at = "positive" =>
              balPoll \in PositivePolls /\ FoundSound(balPoll.found) /\ balConfig.positive
         /\ balPoll.at = "owners" =>
              /\ balPoll \in OwnerPolls /\ FoundSound(balPoll.found)
              /\ balConfig.positive /\ balConfig.localDSN
              /\ \A s \in balPoll.samples : s.source = "discovered" /\ s.balance > 0
  BY DEF BalPollSound, NoPoll, ConfiguredPolls, PositivePolls, OwnerPolls

(* What is published of answers and of discovered users without an answer  *)
(* has one source for each user.                                           *)
LEMMA PublishedSound ==
  ASSUME NEW fs \in SUBSET Samples, NEW new \in SUBSET Samples, FoundSound(fs),
         \A s \in new : DiscoveredSound(s) /\ \A t \in fs : t.uid # s.uid,
         balances' = new \union fs, answered' = {s.uid : s \in fs},
         UNCHANGED <<balConfig, ownersOf>>
  PROVE  OneSourcePerUser'
<1> SUFFICES ASSUME NEW u \in Users
             PROVE  LET shown == {s \in balances' : s.uid = u}
                    IN IF u \in answered'
                       THEN Cardinality(shown) = 1 /\ \A s \in shown : s.source = "configured"
                       ELSE \A s \in shown :
                              /\ s.source = "discovered" /\ s.balance > 0
                              /\ balConfig'.positive
                              /\ balConfig'.localDSN => s.owner \in ownersOf'[u] \ {""}
                              /\ ~balConfig'.localDSN => s.owner = ""
  BY DEF OneSourcePerUser
<1> DEFINE shown == {s \in balances' : s.uid = u}
<1>1. CASE u \in answered'
  <2>1. PICK a \in fs : a.uid = u
    BY <1>1
  <2>2. shown = {a}
    <3>1. a \in shown
      BY <2>1
    <3>2. \A s \in shown : s = a
      BY <2>1 DEF FoundSound
    <3> QED  BY <3>1, <3>2
  <2>3. Cardinality(shown) = 1
    BY <2>2, FS_Singleton
  <2>4. a.source = "configured"
    BY <2>1 DEF FoundSound
  <2> QED  BY <1>1, <2>2, <2>3, <2>4
<1>2. CASE u \notin answered'
  <2>1. ASSUME NEW s \in shown
        PROVE  /\ s.source = "discovered" /\ s.balance > 0
               /\ balConfig'.positive
               /\ balConfig'.localDSN => s.owner \in ownersOf'[u] \ {""}
               /\ ~balConfig'.localDSN => s.owner = ""
    <3>1. s \in new /\ s.uid = u
      BY <1>2
    <3> QED  BY <3>1 DEF DiscoveredSound
  <2> QED  BY <1>2, <2>1
<1> QED
  BY <1>1, <1>2

(* Merging drops the discovered users that share an identity with an       *)
(* answer, and no answer.                                                  *)
LEMMA MergedSplit ==
  ASSUME NEW samples \in SUBSET Samples, balPoll.found \subseteq Samples
  PROVE  \E new \in SUBSET samples :
           /\ Merged(samples) = new \union balPoll.found
           /\ \A s \in new, t \in balPoll.found : t.uid # s.uid
<1> DEFINE new == {s \in samples : ~userConfigured(s, balPoll.found)}
<1>1. ASSUME NEW s \in new, NEW t \in balPoll.found
      PROVE  t.uid # s.uid
  <2>1. <<"uid", s.uid>> \in userIdentityKeys(s) /\ <<"uid", t.uid>> \in userIdentityKeys(t)
    BY DEF userIdentityKeys
  <2>2. <<"uid", t.uid>> \in UNION {userIdentityKeys(x) : x \in balPoll.found}
    BY <2>1
  <2>3. userIdentityKeys(s) \intersect UNION {userIdentityKeys(x) : x \in balPoll.found} = {}
    BY DEF userConfigured
  <2> QED  BY <2>1, <2>2, <2>3
<1>2. \A s \in balPoll.found, t \in new : userKey(t) # userKey(s)
  BY <1>1 DEF userKey
<1>3. Merged(samples) = new \union balPoll.found
  BY <1>2 DEF Merged
<1>4. new \in SUBSET samples
  OBVIOUS
<1> HIDE DEF new
<1> QED
  BY <1>1, <1>3, <1>4
(* Nothing is published.                                                   *)
LEMMA BalInitInv == BalInit => BalInv
<1> SUFFICES ASSUME BalInit PROVE BalInv
  OBVIOUS
<1>1. balPanic \in BOOLEAN
  BY Zenon DEF BalInit
<1>2. BalTypeOK
  BY <1>1 DEF BalInit, BalTypeOK, NoPoll
<1>3. OneSourcePerUser
  BY DEF BalInit, OneSourcePerUser
<1> QED
  BY <1>2, <1>3 DEF BalInv, BalInit, BalPollSound

(* What was published stays right as long as nothing else is.              *)
LEMMA PublishedKept ==
  ASSUME OneSourcePerUser, UNCHANGED <<balances, answered, balConfig, ownersOf>>
  PROVE  OneSourcePerUser'
  BY DEF OneSourcePerUser

(* A poll ends with nothing, or by publishing.                             *)
LEMMA PollEnds ==
  ASSUME BalInv, BalUnchanged, balPoll' = NoPoll,
         \/ UNCHANGED <<balances, answered>>
         \/ \E fs \in SUBSET Samples, new \in SUBSET Samples :
              /\ FoundSound(fs)
              /\ \A s \in new : DiscoveredSound(s) /\ \A t \in fs : t.uid # s.uid
              /\ balances' = new \union fs /\ answered' = {s.uid : s \in fs},
         balPanic' \in BOOLEAN
  PROVE  BalInv'
<1>0. BalTypeOK /\ BalPollSound /\ OneSourcePerUser
      /\ UNCHANGED <<balanceOf, ownersOf, balConfig, pgClient, localPgClient>>
  BY DEF BalInv, BalUnchanged
<1>1. OneSourcePerUser' /\ balances' \subseteq Samples /\ answered' \subseteq Users
  <2>1. CASE UNCHANGED <<balances, answered>>
    <3>1. OneSourcePerUser'
      BY <1>0, <2>1, PublishedKept
    <3> QED  BY <1>0, <2>1, <3>1 DEF BalTypeOK
  <2>2. CASE \E fs \in SUBSET Samples, new \in SUBSET Samples :
               /\ FoundSound(fs)
               /\ \A s \in new : DiscoveredSound(s) /\ \A t \in fs : t.uid # s.uid
               /\ balances' = new \union fs /\ answered' = {s.uid : s \in fs}
    <3>1. PICK fs \in SUBSET Samples, new \in SUBSET Samples :
               /\ FoundSound(fs)
               /\ \A s \in new : DiscoveredSound(s) /\ \A t \in fs : t.uid # s.uid
               /\ balances' = new \union fs /\ answered' = {s.uid : s \in fs}
      BY <2>2
    <3>2. OneSourcePerUser'
      BY <1>0, <3>1, PublishedSound
    <3>3. \A s \in Samples : s.uid \in Users
      BY DEF Samples
    <3> QED  BY <3>1, <3>2, <3>3
  <2> QED  BY <2>1, <2>2
<1>2. BalTypeOK'
  BY <1>0, <1>1 DEF BalTypeOK, NoPoll
<1> QED
  BY <1>1, <1>2 DEF BalInv, BalPollSound

(* The configured users are asked one by one.                              *)
LEMMA ConfiguredSteps ==
  ASSUME BalInv,
         \/ BalPollStarts \/ BalPollCancelled \/ BalConfiguredDone
         \/ \E u \in Users : QueryBalance(u)
  PROVE  BalInv'
<1>0. BalTypeOK /\ BalPollSound /\ OneSourcePerUser /\ BalUnchanged
      /\ UNCHANGED <<balanceOf, ownersOf, balConfig, pgClient, localPgClient>>
  BY DEF BalInv, BalPollStarts, BalPollCancelled, BalConfiguredDone, QueryBalance, BalUnchanged
<1>b. balPanic' \in BOOLEAN
  <2>1. balPanic \in BOOLEAN /\ (UNCHANGED balPanic \/ balPanic' = TRUE)
    BY <1>0 DEF BalTypeOK, BalPollStarts, BalPollCancelled, BalConfiguredDone, QueryBalance,
                QueryPanic, PublishBalances
  <2> QED  BY <2>1, Zenon
<1>1. ASSUME UNCHANGED <<balances, answered, balPanic>>, BalPollSound'
      PROVE  BalInv'
  <2>1. OneSourcePerUser'
    BY <1>0, <1>1, PublishedKept
  <2>2. balPoll'.at \in {"idle", "configured", "positive", "owners"}
    BY <1>1 DEF BalPollSound, NoPoll, ConfiguredPolls, PositivePolls, OwnerPolls
  <2>3. BalTypeOK'
    BY <1>0, <1>1, <2>2 DEF BalTypeOK
  <2> QED  BY <1>1, <2>1, <2>3 DEF BalInv
<1>2. CASE BalPollStarts
  <2>1. balPoll' = [at |-> "configured", left |-> {u \in Users : configured(u)}, found |-> {}]
        /\ UNCHANGED <<balances, answered, balPanic>>
    BY <1>2 DEF BalPollStarts
  <2>2. balPoll' \in ConfiguredPolls /\ balPoll'.found = {}
    BY <2>1 DEF ConfiguredPolls
  <2>3. BalPollSound'
    BY <2>2 DEF BalPollSound, FoundSound
  <2> QED  BY <1>1, <2>1, <2>3
<1>3. CASE BalPollCancelled
  BY <1>0, <1>b, <1>3, PollEnds DEF BalPollCancelled
<1>4. CASE BalConfiguredDone
  <2>0. balPoll \in ConfiguredPolls /\ FoundSound(balPoll.found) /\ balPoll.found \in SUBSET Samples
    BY <1>0, <1>4, BalPollAt DEF BalConfiguredDone, ConfiguredPolls
  <2>1. CASE balConfig.positive
    <3>1. balPoll' = [at |-> "positive", found |-> balPoll.found]
          /\ UNCHANGED <<balances, answered, balPanic>>
      BY <1>4, <2>1 DEF BalConfiguredDone
    <3>2. balPoll' \in PositivePolls /\ balPoll'.found = balPoll.found
      BY <2>0, <3>1 DEF PositivePolls
    <3>3. BalPollSound'
      BY <1>0, <2>0, <2>1, <3>2 DEF BalPollSound, FoundSound
    <3> QED  BY <1>1, <3>1, <3>3
  <2>2. CASE ~balConfig.positive
    <3>1. balances' = {} \union balPoll.found /\ answered' = {s.uid : s \in balPoll.found}
          /\ balPoll' = NoPoll
      BY <1>4, <2>2 DEF BalConfiguredDone, PublishBalances
    <3>2. {} \in SUBSET Samples
      OBVIOUS
    <3> QED  BY <1>0, <1>b, <2>0, <3>1, <3>2, PollEnds
  <2> QED  BY <2>1, <2>2
<1>5. ASSUME NEW u \in Users, QueryBalance(u)
      PROVE  BalInv'
  <2>0. /\ balPoll \in ConfiguredPolls /\ FoundSound(balPoll.found) /\ u \in balPoll.left
        /\ \A s \in balPoll.found : s.uid \notin balPoll.left
    BY <1>0, <1>5, BalPollAt DEF QueryBalance
  <2>1. CASE balPoll' = [balPoll EXCEPT !.left = @ \ {u}]
             /\ UNCHANGED <<balances, answered, balPanic>>
    <3>1. /\ balPoll' \in ConfiguredPolls /\ balPoll'.found = balPoll.found
          /\ balPoll'.left = balPoll.left \ {u}
      BY <2>0, <2>1 DEF ConfiguredPolls
    <3>2. BalPollSound'
      BY <2>0, <3>1 DEF BalPollSound, FoundSound
    <3> QED  BY <1>1, <2>1, <3>2
  <2>2. CASE balPoll' = [balPoll EXCEPT !.left = @ \ {u}, !.found = @ \union {ConfiguredSample(u)}]
             /\ UNCHANGED <<balances, answered, balPanic>>
    <3>1. ConfiguredSample(u) \in Samples
      BY <1>0 DEF ConfiguredSample, Samples, BalTypeOK
    <3>2. ConfiguredSample(u).uid = u /\ ConfiguredSample(u).source = "configured"
      BY DEF ConfiguredSample
    <3>3. PICK a \in Samples : a = ConfiguredSample(u)
      BY <3>1
    <3>4. /\ balPoll' \in ConfiguredPolls /\ balPoll'.found = balPoll.found \union {a}
          /\ balPoll'.left = balPoll.left \ {u}
      BY <2>0, <2>2, <3>3 DEF ConfiguredPolls
    <3>5. FoundSound(balPoll.found \union {a})
      BY <2>0, <3>2, <3>3 DEF FoundSound
    <3>6. FoundSound(balPoll.found)' /\ \A s \in balPoll'.found : s.uid \notin balPoll'.left
      BY <2>0, <3>2, <3>3, <3>4, <3>5 DEF FoundSound
    <3>7. BalPollSound'
      BY <3>4, <3>6 DEF BalPollSound
    <3> QED  BY <1>1, <2>2, <3>7
  <2>3. CASE QueryPanic(pgClient)
    BY <1>0, <1>b, <2>3, PollEnds DEF QueryPanic
  <2> QED  BY <1>5, <2>1, <2>2, <2>3 DEF QueryBalance
<1> QED
  BY <1>2, <1>3, <1>4, <1>5
(* The users with a positive balance, and their owners, are asked for.     *)
LEMMA DiscoverySteps ==
  ASSUME BalInv, QueryPositiveBalances \/ QueryOwners
  PROVE  BalInv'
<1>0. BalTypeOK /\ BalPollSound /\ OneSourcePerUser /\ BalUnchanged
      /\ UNCHANGED <<balanceOf, ownersOf, balConfig, pgClient, localPgClient>>
  BY DEF BalInv, QueryPositiveBalances, QueryOwners, BalUnchanged
<1>b. balPanic' \in BOOLEAN
  <2>1. balPanic \in BOOLEAN /\ (UNCHANGED balPanic \/ balPanic' = TRUE)
    BY <1>0 DEF BalTypeOK, QueryPositiveBalances, QueryOwners, QueryPanic, PublishBalances
  <2> QED  BY <2>1, Zenon
<1>1. /\ FoundSound(balPoll.found) /\ balPoll.found \in SUBSET Samples
      /\ balPoll.at \in {"positive", "owners"} /\ balConfig.positive
  BY <1>0, BalPollAt DEF QueryPositiveBalances, QueryOwners, PositivePolls, OwnerPolls
<1>2. ASSUME PublishBalances(balPoll.found, balPoll.found)
      PROVE  BalInv'
  <2>1. /\ balances' = {} \union balPoll.found /\ answered' = {s.uid : s \in balPoll.found}
        /\ balPoll' = NoPoll
    BY <1>2 DEF PublishBalances
  <2>2. {} \in SUBSET Samples
    OBVIOUS
  <2> QED  BY <1>0, <1>1, <1>b, <2>1, <2>2, PollEnds
<1>3. ASSUME NEW samples \in SUBSET Samples, PublishBalances(Merged(samples), balPoll.found),
             \A s \in samples : DiscoveredSound(s)
      PROVE  BalInv'
  <2>1. PICK new \in SUBSET samples :
          /\ Merged(samples) = new \union balPoll.found
          /\ \A s \in new, t \in balPoll.found : t.uid # s.uid
    BY <1>1, MergedSplit
  <2>2. /\ balances' = new \union balPoll.found /\ answered' = {s.uid : s \in balPoll.found}
        /\ balPoll' = NoPoll
    BY <1>3, <2>1 DEF PublishBalances
  <2>3. \A s \in new : DiscoveredSound(s) /\ \A t \in balPoll.found : t.uid # s.uid
    BY <1>3, <2>1
  <2>4. new \in SUBSET Samples
    BY <1>3, <2>1
  <2> QED  BY <1>0, <1>1, <1>b, <2>2, <2>3, <2>4, PollEnds
<1>4. CASE QueryPositiveBalances
  <2>1. PICK positive \in SUBSET Users : positive = {u \in Users : balanceOf[u] > 0}
    OBVIOUS
  <2>2. PICK samples \in SUBSET Samples : samples = {Discovered(u, "") : u \in positive}
    <3>1. \A u \in positive : Discovered(u, "") \in Samples
      BY <1>0, <2>1 DEF Discovered, Samples, BalTypeOK
    <3> QED  BY <3>1
  <2>3. \A s \in samples : s.source = "discovered" /\ s.balance > 0 /\ s.owner = ""
    <3>1. \A u \in positive : /\ Discovered(u, "").source = "discovered"
                              /\ Discovered(u, "").balance > 0 /\ Discovered(u, "").owner = ""
      BY <2>1 DEF Discovered
    <3> QED  BY <2>2, <3>1
  <2>4. \/ balPoll' = NoPoll /\ UNCHANGED <<balances, answered>>
        \/ PublishBalances(balPoll.found, balPoll.found)
        \/ /\ balPoll' = [at |-> "owners", found |-> balPoll.found, samples |-> samples]
           /\ balConfig.localDSN
           /\ UNCHANGED <<balances, answered, balPanic>>
        \/ (samples = {} \/ ~balConfig.localDSN) /\ PublishBalances(Merged(samples), balPoll.found)
    BY <1>4, <2>1, <2>2 DEF QueryPositiveBalances, QueryPanic
  <2>5. CASE balPoll' = NoPoll /\ UNCHANGED <<balances, answered>>
    BY <1>0, <1>b, <2>5, PollEnds
  <2>6. CASE /\ balPoll' = [at |-> "owners", found |-> balPoll.found, samples |-> samples]
             /\ balConfig.localDSN
             /\ UNCHANGED <<balances, answered, balPanic>>
    <3>1. /\ balPoll' \in OwnerPolls /\ balPoll'.found = balPoll.found
          /\ balPoll'.samples = samples
      BY <1>1, <2>6 DEF OwnerPolls
    <3>2. BalPollSound'
      BY <1>0, <1>1, <2>3, <2>6, <3>1 DEF BalPollSound, FoundSound
    <3>3. OneSourcePerUser'
      BY <1>0, <2>6, PublishedKept
    <3>4. BalTypeOK'
      BY <1>0, <2>6, <3>1 DEF BalTypeOK, OwnerPolls
    <3> QED  BY <3>2, <3>3, <3>4 DEF BalInv
  <2>7. CASE (samples = {} \/ ~balConfig.localDSN)
             /\ PublishBalances(Merged(samples), balPoll.found)
    <3>1. \A s \in samples : DiscoveredSound(s)
      BY <1>1, <2>3, <2>7 DEF DiscoveredSound
    <3> QED  BY <1>3, <2>7, <3>1
  <2> QED  BY <1>2, <2>4, <2>5, <2>6, <2>7
<1>5. CASE QueryOwners
  <2>0. /\ balPoll \in OwnerPolls /\ balConfig.localDSN
        /\ \A s \in balPoll.samples : s \in Samples /\ s.source = "discovered" /\ s.balance > 0
    BY <1>0, <1>5, BalPollAt DEF QueryOwners, OwnerPolls
  <2>1. CASE PublishBalances(balPoll.found, balPoll.found)
    BY <1>2, <2>1
  <2>2. CASE QueryPanic(localPgClient)
    BY <1>0, <1>b, <2>2, PollEnds DEF QueryPanic
  <2>3. CASE PublishBalances(
               Merged(UNION {{[s EXCEPT !.owner = o] : o \in ownersOf[s.uid] \ {""}} :
                               s \in balPoll.samples}),
               balPoll.found)
    <3> DEFINE owned == UNION {{[s EXCEPT !.owner = o] : o \in ownersOf[s.uid] \ {""}} :
                                 s \in balPoll.samples}
    <3>1. ASSUME NEW s \in balPoll.samples, NEW o \in ownersOf[s.uid] \ {""}
          PROVE  [s EXCEPT !.owner = o] \in Samples /\ DiscoveredSound([s EXCEPT !.owner = o])
      <4>1. s \in Samples /\ s.uid \in Users /\ s.source = "discovered" /\ s.balance > 0
        BY <2>0 DEF Samples
      <4>2. o \in {"", "o", "p"}
        BY <1>0, <4>1 DEF BalTypeOK, OwnerSets
      <4>3. [s EXCEPT !.owner = o] \in Samples
        BY <4>1, <4>2 DEF Samples
      <4>4. /\ [s EXCEPT !.owner = o].owner = o /\ [s EXCEPT !.owner = o].uid = s.uid
            /\ [s EXCEPT !.owner = o].source = s.source
            /\ [s EXCEPT !.owner = o].balance = s.balance
        BY <4>1 DEF Samples
      <4> QED  BY <1>1, <2>0, <4>1, <4>3, <4>4 DEF DiscoveredSound
    <3>2. ASSUME NEW x \in owned PROVE x \in Samples /\ DiscoveredSound(x)
      <4>1. PICK s \in balPoll.samples : x \in {[s EXCEPT !.owner = o] : o \in ownersOf[s.uid] \ {""}}
        OBVIOUS
      <4>2. PICK o \in ownersOf[s.uid] \ {""} : x = [s EXCEPT !.owner = o]
        BY <4>1
      <4> QED  BY <3>1, <4>2
    <3>3. owned \in SUBSET Samples
      BY <3>2
    <3>4. PublishBalances(Merged(owned), balPoll.found)
      BY <2>3
    <3> HIDE DEF owned
    <3> QED  BY <1>3, <3>2, <3>3, <3>4
  <2> QED  BY <1>5, <2>1, <2>2, <2>3 DEF QueryOwners
<1> QED
  BY <1>4, <1>5

(* Every step keeps the invariant.                                         *)
LEMMA BalNextInv == BalInv /\ [BalNext]_balVars => BalInv'
<1> SUFFICES ASSUME BalInv, [BalNext]_balVars PROVE BalInv'
  OBVIOUS
<1>0. BalTypeOK /\ BalPollSound /\ OneSourcePerUser
  BY DEF BalInv
<1>1. ASSUME NEW u \in Users, BalanceChanges(u)
      PROVE  BalInv'
  <2>1. UNCHANGED <<ownersOf, balConfig, pgClient, localPgClient, balPoll, balances, answered,
                    balPanic>>
        /\ balanceOf' = [balanceOf EXCEPT ![u] = 1 - balanceOf[u]]
    BY <1>1 DEF BalanceChanges
  <2>2. balanceOf' \in [Users -> 0..1]
    BY <1>0, <2>1 DEF BalTypeOK
  <2>3. BalTypeOK'
    BY <1>0, <2>1, <2>2 DEF BalTypeOK
  <2>4. BalPollSound' /\ OneSourcePerUser'
    BY <1>0, <2>1, PublishedKept DEF BalPollSound, FoundSound
  <2> QED  BY <2>3, <2>4 DEF BalInv
<1>2. CASE BalStops
  <2>1. /\ UNCHANGED <<balanceOf, ownersOf, balConfig, balPoll, balances, answered, balPanic>>
        /\ pgClient' = "nil" /\ localPgClient' \in {"none", "open", "nil"}
    BY <1>0, <1>2 DEF BalStops, BalTypeOK
  <2>2. BalTypeOK'
    BY <1>0, <2>1 DEF BalTypeOK
  <2>3. BalPollSound' /\ OneSourcePerUser'
    BY <1>0, <2>1, PublishedKept DEF BalPollSound, FoundSound
  <2> QED  BY <2>2, <2>3 DEF BalInv
<1>3. CASE UNCHANGED balVars
  <2>1. UNCHANGED <<balanceOf, ownersOf, balConfig, pgClient, localPgClient, balPoll, balances,
                    answered, balPanic>>
    BY <1>3 DEF balVars
  <2>2. BalTypeOK'
    BY <1>0, <2>1 DEF BalTypeOK
  <2>3. BalPollSound' /\ OneSourcePerUser'
    BY <1>0, <2>1, PublishedKept DEF BalPollSound, FoundSound
  <2> QED  BY <2>2, <2>3 DEF BalInv
<1> QED
  BY <1>1, <1>2, <1>3, ConfiguredSteps, DiscoverySteps DEF BalNext

(* What the balance collectors keep is of its type.                        *)
THEOREM BalTypeCorrect == BalSpec => []BalTypeOK
<1>1. BalInv => BalTypeOK
  BY DEF BalInv
<1> QED
  BY <1>1, BalInitInv, BalNextInv, PTL DEF BalSpec

(* For any users, configured in any way, with balances that change while a *)
(* poll runs and queries that fail anywhere: the published map has each    *)
(* user from one source, its own answer before a discovery (userbalance.go *)
(* and cloudbalance.go, Poll).                                             *)
THEOREM UsersHaveOneSource == BalSpec => []OneSourcePerUser
<1>1. BalInv => OneSourcePerUser
  BY DEF BalInv
<1> QED
  BY <1>1, BalInitInv, BalNextInv, PTL DEF BalSpec

(***************************************************************************)
(* SecretCache and CertCache, their types; BillingLedger.                  *)
(***************************************************************************)

LoopSet == [at : {"none", "new", "start", "sync", "run", "idle", "done"}, live : BOOLEAN,
            cache : {0} \union Loops]

(* A loop is 0 or more than 0.                                             *)
LEMMA LoopFacts == 0 \notin Loops /\ MaxSecrets \in Nat /\ 1 \in 1..MaxSecrets /\ 0 \in 0..MaxSecrets
  BY SecretAssumption DEF Loops

(* No loop has run.                                                        *)
LEMMA SecretInitType == SecretInit => SecretTypeOK
<1> SUFFICES ASSUME SecretInit PROVE SecretTypeOK
  OBVIOUS
<1>1. mixed \in BOOLEAN /\ secretPanic \in BOOLEAN
  BY Zenon DEF SecretInit
<1>2. [at |-> "none", live |-> FALSE, cache |-> 0] \in LoopSet
  BY DEF LoopSet
<1>3. loop \in [Loops -> LoopSet]
  BY <1>2 DEF SecretInit
<1> QED
  BY <1>1, <1>3, LoopFacts DEF SecretInit, SecretTypeOK, LoopSet

(* The cluster and the cycles of the collector.                            *)
LEMMA ClusterTypes ==
  ASSUME SecretTypeOK,
         \/ SecretsChange \/ ApiFails \/ ApiRecovers
         \/ \E i \in Loops : InformerSees(i) \/ CycleStarts(i) \/ CycleStops(i)
  PROVE  SecretTypeOK'
<1> USE LoopFacts
<1>0. UNCHANGED <<allNamespaces, secretCache, stopCh, chan, informers, found, mixed, secretPanic>>
  BY DEF SecretsChange, ApiFails, ApiRecovers, InformerSees, CycleStarts, CycleStops, cacheVars
<1>1. secretsAt' \in 1..MaxSecrets /\ secretApi' \in {"up", "down", "back"}
  <2>1. CASE SecretsChange
    BY <2>1 DEF SecretTypeOK, SecretsChange
  <2>2. CASE ~SecretsChange
    <3>1. UNCHANGED secretsAt /\ (UNCHANGED secretApi \/ secretApi' \in {"down", "back"})
      BY <2>2 DEF ApiFails, ApiRecovers, InformerSees, CycleStarts, CycleStops
    <3> QED  BY <3>1 DEF SecretTypeOK
  <2> QED  BY <2>1, <2>2
<1>2. store' \in [Loops -> 0..MaxSecrets]
  <2>1. ASSUME NEW i \in Loops, InformerSees(i) PROVE store' \in [Loops -> 0..MaxSecrets]
    <3>1. secretsAt \in 0..MaxSecrets
      BY DEF SecretTypeOK
    <3> QED  BY <2>1, <3>1 DEF SecretTypeOK, InformerSees
  <2>2. CASE UNCHANGED store
    BY <2>2 DEF SecretTypeOK
  <2> QED  BY <2>1, <2>2 DEF SecretsChange, ApiFails, ApiRecovers, CycleStarts, CycleStops
<1>3. loop' \in [Loops -> LoopSet]
  <2>0. loop \in [Loops -> LoopSet]
    BY DEF SecretTypeOK, LoopSet
  <2>1. CASE UNCHANGED loop
    BY <2>0, <2>1
  <2>2. ASSUME NEW i \in Loops, CycleStarts(i) PROVE loop' \in [Loops -> LoopSet]
    <3>0. loop[i] \in LoopSet /\ TRUE \in BOOLEAN
      BY <2>0
    <3>1. [loop[i] EXCEPT !.at = "new", !.live = TRUE] \in LoopSet
      BY <3>0 DEF LoopSet
    <3>2. loop' = [loop EXCEPT ![i] = [loop[i] EXCEPT !.at = "new", !.live = TRUE]]
      BY <2>2 DEF CycleStarts
    <3> QED  BY <2>0, <3>1, <3>2
  <2>3. ASSUME NEW i \in Loops, CycleStops(i) PROVE loop' \in [Loops -> LoopSet]
    <3>0. loop[i] \in LoopSet /\ FALSE \in BOOLEAN
      BY <2>0
    <3>1. [loop[i] EXCEPT !.live = FALSE] \in LoopSet
      BY <3>0 DEF LoopSet
    <3>2. loop' = [loop EXCEPT ![i] = [loop[i] EXCEPT !.live = FALSE]]
      BY <2>3 DEF CycleStops
    <3> QED  BY <2>0, <3>1, <3>2
  <2> QED  BY <2>1, <2>2, <2>3 DEF SecretsChange, ApiFails, ApiRecovers, InformerSees
<1> QED
  BY <1>0, <1>1, <1>2, <1>3 DEF SecretTypeOK, LoopSet

(* The poll loops.                                                         *)
LEMMA LoopTypes ==
  ASSUME SecretTypeOK, NEW i \in Loops, LoopStep(i)
  PROVE  SecretTypeOK'
<1> USE LoopFacts
<1>0. /\ UNCHANGED <<allNamespaces, secretsAt, secretApi, store>>
      /\ loop \in [Loops -> LoopSet]
  BY DEF LoopStep, NewSecretCache, StartCache, CacheSynced, StartFailed, PollSecrets, StopCache,
         SecretTypeOK, LoopSet
<1>1. loop' \in [Loops -> LoopSet]
  <2>1. ASSUME NEW a \in {"start", "sync", "run", "idle", "done"},
               loop' = [loop EXCEPT ![i] = [loop[i] EXCEPT !.at = a]]
        PROVE  loop' \in [Loops -> LoopSet]
    <3>1. [loop[i] EXCEPT !.at = a] \in LoopSet
      BY <1>0 DEF LoopSet
    <3> QED  BY <1>0, <2>1, <3>1
  <2>2. CASE StartCache(i)
    <3>1. CASE secretCache = 0
      BY <1>0, <2>2, <3>1 DEF StartCache
    <3>2. CASE secretCache # 0
      <4>1. PICK a \in {"sync", "run"} : a = IF allNamespaces THEN "sync" ELSE "run"
        OBVIOUS
      <4>2. secretCache \in Loops
        BY <3>2 DEF SecretTypeOK
      <4>r. loop[i] \in LoopSet
        BY <1>0
      <4>3. [loop[i] EXCEPT !.at = a, !.cache = secretCache] \in LoopSet
        BY <4>2, <4>r DEF LoopSet
      <4>4. loop' = [loop EXCEPT ![i] = [loop[i] EXCEPT !.at = a, !.cache = secretCache]]
        BY <2>2, <3>2, <4>1 DEF StartCache
      <4> QED  BY <1>0, <4>3, <4>4
    <3> QED  BY <3>1, <3>2
  <2>3. CASE NewSecretCache(i)
    BY <2>1, <2>3 DEF NewSecretCache
  <2>4. CASE CacheSynced(i)
    BY <1>0, <2>1, <2>4 DEF CacheSynced
  <2>5. CASE StartFailed(i) \/ PollSecrets(i) \/ StopCache(i)
    BY <2>1, <2>5 DEF StartFailed, PollSecrets, StopCache
  <2> QED  BY <2>2, <2>3, <2>4, <2>5 DEF LoopStep
<1>2. secretCache' \in {0} \union Loops
  BY DEF LoopStep, NewSecretCache, StartCache, CacheSynced, StartFailed, PollSecrets, StopCache,
         SecretTypeOK, cacheVars
<1>3. stopCh' \in [Loops -> {0} \union Loops] /\ informers' \in [Loops -> SUBSET Loops]
  <2>1. CASE StartCache(i)
    <3>1. stopCh' = stopCh \/ stopCh' = [stopCh EXCEPT ![secretCache] = i]
      BY <2>1 DEF StartCache
    <3>2. informers' = informers
          \/ informers' = [informers EXCEPT ![secretCache] = @ \union {i}]
      BY <2>1 DEF StartCache
    <3> QED  BY <3>1, <3>2 DEF SecretTypeOK
  <2>2. CASE ~StartCache(i)
    BY <2>2 DEF LoopStep, NewSecretCache, CacheSynced, StartFailed, PollSecrets, StopCache,
                SecretTypeOK, cacheVars
  <2> QED  BY <2>1, <2>2
<1>4. chan' \in [Loops -> {"none", "open", "closed"}]
  BY DEF LoopStep, NewSecretCache, StartCache, CacheSynced, StartFailed, PollSecrets, StopCache,
         SecretTypeOK, cacheVars
<1>5. found' \in [Loops -> SUBSET (1..MaxSecrets)]
  <2>1. CASE UNCHANGED found
    BY <2>1 DEF SecretTypeOK
  <2>2. CASE PollSecrets(i)
    <3>1. collectDatabaseTasks(i) \in SUBSET (1..MaxSecrets)
      <4>1. ListSecrets(i) \in SUBSET (1..MaxSecrets)
        BY DEF ListSecrets, SecretTypeOK
      <4>2. secretCache # 0 => GetSecrets(secretCache) \in SUBSET (1..MaxSecrets)
        <5>1. secretCache # 0 => informers[secretCache] \subseteq Loops
          BY DEF SecretTypeOK
        <5>2. \A k \in Loops : store[k] \in 0..MaxSecrets
          BY DEF SecretTypeOK
        <5>3. \A v \in 0..MaxSecrets : v # 0 => v \in 1..MaxSecrets
          OBVIOUS
        <5> QED  BY <5>1, <5>2, <5>3 DEF GetSecrets
      <4> QED  BY <4>1, <4>2 DEF collectDatabaseTasks
    <3> QED  BY <2>2, <3>1 DEF PollSecrets, SecretTypeOK
  <2> QED
    BY <2>1, <2>2 DEF LoopStep, NewSecretCache, StartCache, CacheSynced, StartFailed, StopCache
<1>6. mixed' \in BOOLEAN /\ secretPanic' \in BOOLEAN
  <2>1. mixed \in BOOLEAN /\ secretPanic \in BOOLEAN
    BY DEF SecretTypeOK
  <2>2. CASE NewSecretCache(i)
    BY <2>1, <2>2, Zenon DEF NewSecretCache
  <2>3. CASE StartCache(i)
    BY <2>1, <2>3, Zenon DEF StartCache
  <2>4. CASE StopCache(i)
    BY <2>1, <2>4, Zenon DEF StopCache
  <2>5. CASE CacheSynced(i) \/ StartFailed(i) \/ PollSecrets(i)
    BY <2>1, <2>5, Zenon DEF CacheSynced, StartFailed, PollSecrets
  <2> QED  BY <2>2, <2>3, <2>4, <2>5 DEF LoopStep
<1> QED
  BY <1>0, <1>1, <1>2, <1>3, <1>4, <1>5, <1>6 DEF SecretTypeOK, LoopSet

(* Every step of the discovery keeps the types.                            *)
LEMMA SecretNextType == SecretTypeOK /\ [SecretNext]_secretVars => SecretTypeOK'
<1> SUFFICES ASSUME SecretTypeOK, [SecretNext]_secretVars PROVE SecretTypeOK'
  OBVIOUS
<1>1. CASE SecretNext
  BY <1>1, ClusterTypes, LoopTypes DEF SecretNext
<1>2. CASE UNCHANGED secretVars
  BY <1>2 DEF secretVars, SecretTypeOK
<1> QED
  BY <1>1, <1>2
(* A loader that has read a file has read a certificate.                   *)
CertInv ==
  CertTypeOK /\ \A l \in Loaders : loader[l].at \in {"key", "store"} => loader[l].read # 0

LoaderSet == [at : {"select", "cert", "key", "store", "ended"}, read : 0..MaxPairs]

(* The cache serves the first pair.                                        *)
LEMMA CertInitInv == CertInit => CertInv
<1> SUFFICES ASSUME CertInit PROVE CertInv
  OBVIOUS
<1>0. MaxPairs \in Nat /\ MaxPairs >= 2 /\ 0 \in 0..MaxPairs
  BY PairsAssumption
<1>1. fsEvent \in BOOLEAN /\ certStopped \in BOOLEAN
  BY Zenon DEF CertInit
<1>2. AtSelect \in LoaderSet /\ AtSelect.at = "select"
  BY <1>0 DEF AtSelect, LoaderSet
<1>3. loader \in [Loaders -> LoaderSet] /\ \A l \in Loaders : loader[l].at = "select"
  BY <1>2 DEF CertInit
<1> QED
  BY <1>0, <1>1, <1>3 DEF CertInit, CertInv, CertTypeOK, LoaderSet

(* A loader moves on.                                                      *)
LEMMA MovesType ==
  ASSUME CertInv, NEW l \in Loaders, NEW a \in {"select", "cert", "key", "store", "ended"},
         NEW v \in 0..MaxPairs, Moves(l, a, v), a \in {"key", "store"} => v # 0
  PROVE  /\ loader' \in [Loaders -> LoaderSet]
         /\ \A k \in Loaders : loader'[k].at \in {"key", "store"} => loader'[k].read # 0
<1>1. [at |-> a, read |-> v] \in LoaderSet
  BY DEF LoaderSet
<1>2. loader \in [Loaders -> LoaderSet]
  BY DEF CertInv, CertTypeOK, LoaderSet
<1> QED
  BY <1>1, <1>2 DEF Moves, CertInv

(* Every step of the certificate cache keeps the types.                    *)
LEMMA CertNextInv == CertInv /\ [CertNext]_certVars => CertInv'
<1> SUFFICES ASSUME CertInv, [CertNext]_certVars PROVE CertInv'
  OBVIOUS
<1>0. /\ CertTypeOK /\ MaxPairs \in Nat /\ MaxPairs >= 2
      /\ 0 \in 0..MaxPairs /\ MaxPairs \in 0..MaxPairs
      /\ loader \in [Loaders -> LoaderSet]
      /\ \A l \in Loaders : loader[l].at \in {"key", "store"} => loader[l].read # 0
  BY PairsAssumption DEF CertInv, CertTypeOK, LoaderSet
<1>1. ASSUME NEW f \in Files, Rewrite(f) \/ RemoveFile(f) \/ CreateFile(f)
      PROVE  CertInv'
  <2>1. UNCHANGED <<loader, served, certStopped>> /\ watched' \subseteq Files
    BY <1>0, <1>1 DEF Rewrite, RemoveFile, CreateFile, CertTypeOK
  <2>2. fsEvent' \in BOOLEAN
    <3>1. fsEvent \in BOOLEAN
      BY <1>0 DEF CertTypeOK
    <3> QED  BY <1>1, <3>1, Zenon DEF Rewrite, RemoveFile, CreateFile
  <2>3. PICK v \in 0..MaxPairs : pem' = [pem EXCEPT ![f] = v]
    <3>1. CASE Rewrite(f)
      <4>1. pem[f] + 1 \in 0..MaxPairs /\ pem' = [pem EXCEPT ![f] = pem[f] + 1]
        BY <1>0, <3>1 DEF Rewrite
      <4> QED  BY <4>1
    <3>2. CASE RemoveFile(f)
      BY <1>0, <3>2 DEF RemoveFile
    <3>3. CASE CreateFile(f)
      BY <1>0, <3>3 DEF CreateFile
    <3> QED  BY <1>1, <3>1, <3>2, <3>3
  <2>4. pem' \in [Files -> 0..MaxPairs]
    BY <1>0, <2>3 DEF CertTypeOK
  <2> QED  BY <1>0, <2>1, <2>2, <2>4 DEF CertInv, CertTypeOK
<1>2. CASE EventLost \/ StopCertCache
  <2>1. UNCHANGED <<pem, watched, loader, served>>
    BY <1>2 DEF EventLost, StopCertCache
  <2>2. fsEvent' \in BOOLEAN /\ certStopped' \in BOOLEAN
    <3>1. fsEvent \in BOOLEAN /\ certStopped \in BOOLEAN
      BY <1>0 DEF CertTypeOK
    <3> QED  BY <1>2, <3>1, Zenon DEF EventLost, StopCertCache
  <2> QED  BY <1>0, <2>1, <2>2 DEF CertInv, CertTypeOK
<1>3. CASE WatchEvent \/ PollTick
  <2>1. \E l \in Loaders : Moves(l, "cert", 0)
    BY <1>3 DEF WatchEvent, PollTick, Loaders
  <2>2. /\ loader' \in [Loaders -> LoaderSet]
        /\ \A k \in Loaders : loader'[k].at \in {"key", "store"} => loader'[k].read # 0
    BY <1>0, <2>1, MovesType
  <2>3. UNCHANGED <<pem, watched, served, certStopped>>
    BY <1>3 DEF WatchEvent, PollTick
  <2>4. fsEvent' \in BOOLEAN
    <3>1. fsEvent \in BOOLEAN
      BY <1>0 DEF CertTypeOK
    <3> QED  BY <1>3, <3>1, Zenon DEF WatchEvent, PollTick
  <2> QED  BY <1>0, <2>2, <2>3, <2>4 DEF CertInv, CertTypeOK, LoaderSet
<1>4. ASSUME NEW l \in Loaders, LoaderStep(l)
      PROVE  CertInv'
  <2>1. \E a \in {"select", "cert", "key", "store", "ended"}, v \in 0..MaxPairs :
          Moves(l, a, v) /\ (a \in {"key", "store"} => v # 0)
    <3>1. CASE ReadCert(l)
      <4>1. pem["cert"] \in 0..MaxPairs
        BY <1>0 DEF CertTypeOK, Files
      <4> QED  BY <1>0, <3>1, <4>1 DEF ReadCert, LoadFails
    <3>2. CASE ReadKey(l)
      <4>1. loader[l].read \in 0..MaxPairs /\ loader[l].read # 0
        BY <1>0, <3>2 DEF ReadKey, LoaderSet
      <4> QED  BY <1>0, <3>2, <4>1 DEF ReadKey, LoadFails
    <3>3. CASE StoreCert(l) \/ LoaderEnds(l)
      BY <1>0, <3>3 DEF StoreCert, LoaderEnds
    <3> QED  BY <1>4, <3>1, <3>2, <3>3 DEF LoaderStep
  <2>2. /\ loader' \in [Loaders -> LoaderSet]
        /\ \A k \in Loaders : loader'[k].at \in {"key", "store"} => loader'[k].read # 0
    BY <1>0, <2>1, MovesType
  <2>3. UNCHANGED <<pem, watched, fsEvent, certStopped>>
    BY <1>4 DEF LoaderStep, ReadCert, ReadKey, StoreCert, LoaderEnds
  <2>4. served' \in 1..MaxPairs
    <3>1. CASE StoreCert(l)
      <4>1. loader[l].read \in 0..MaxPairs /\ loader[l].read # 0
        BY <1>0, <3>1 DEF StoreCert, LoaderSet
      <4> QED  BY <1>0, <3>1, <4>1 DEF StoreCert
    <3>2. CASE UNCHANGED served
      BY <1>0, <3>2 DEF CertTypeOK
    <3> QED  BY <1>4, <3>1, <3>2 DEF LoaderStep, ReadCert, ReadKey, LoaderEnds
  <2> QED  BY <1>0, <2>2, <2>3, <2>4 DEF CertInv, CertTypeOK, LoaderSet
<1>5. CASE UNCHANGED certVars
  BY <1>0, <1>5 DEF certVars, CertInv, CertTypeOK
<1> QED
  BY <1>1, <1>2, <1>3, <1>4, <1>5 DEF CertNext

(* A poll that queries keeps its window.                                   *)
BillInv ==
  /\ BillTypeOK
  /\ billPoll.at = "query" => {"at", "window"} \subseteq DOMAIN billPoll

(* The clock and the windows.                                              *)
LEMMA BillNumbers ==
  /\ Hour \in Nat /\ Hour > 0 /\ MaxClock \in Nat /\ MaxClock >= 2 * Hour - 1 /\ MaxDocs \in Nat
  /\ \A c \in Nat : (c \div Hour) * Hour \in Int
  BY BillingAssumption

(* Nothing is billed.                                                      *)
LEMMA BillInitInv == BillInit => BillInv
<1> SUFFICES ASSUME BillInit PROVE BillInv
  OBVIOUS
<1>1. billPanic \in BOOLEAN
  BY Zenon DEF BillInit
<1>2. /\ billPoll.at = "idle" /\ billClock \in Hour..MaxClock
      /\ ledger \in Seq(Documents) /\ Len(ledger) <= MaxDocs
  BY BillNumbers DEF BillInit, Idle
<1> QED
  BY <1>1, <1>2 DEF BillInit, BillInv, BillTypeOK

(* Every step of the billing collector keeps the types.                    *)
LEMMA BillNextInv == BillInv /\ [BillNext]_billVars => BillInv'
<1> SUFFICES ASSUME BillInv, [BillNext]_billVars PROVE BillInv'
  OBVIOUS
<1>0. BillTypeOK
  BY DEF BillInv
<1>1. CASE BillTick
  <2>1. billClock' \in Hour..MaxClock
        /\ UNCHANGED <<ledger, billProps, ownerMetrics, mongoClient, billPoll, billSnapshot, billPanic>>
    BY <1>0, <1>1, BillNumbers DEF BillTick, BillTypeOK
  <2> QED  BY <2>1 DEF BillInv, BillTypeOK
<1>2. ASSUME NEW t \in Hour..MaxClock, NEW o \in Owners, NEW e \in Enums, NEW c \in BOOLEAN,
             BillWritten([time |-> t, consumption |-> c, owner |-> o, enum |-> e])
      PROVE  BillInv'
  <2>1. [time |-> t, consumption |-> c, owner |-> o, enum |-> e] \in Documents
    <3>1. t \in Nat
      BY BillNumbers
    <3> QED  BY <3>1 DEF Documents
  <2>2. PICK d \in Documents : ledger' = Append(ledger, d) /\ Len(ledger) < MaxDocs
    BY <1>2, <2>1 DEF BillWritten
  <2>3. ledger' \in Seq(Documents) /\ Len(ledger') <= MaxDocs
    BY <1>0, <2>2, BillNumbers DEF BillTypeOK
  <2>4. UNCHANGED <<billClock, billProps, ownerMetrics, mongoClient, billPoll, billSnapshot, billPanic>>
    BY <1>2 DEF BillWritten
  <2> QED  BY <2>3, <2>4 DEF BillInv, BillTypeOK
<1>3. CASE BillPollStarts \/ BillStops
  <2>1. /\ UNCHANGED <<billClock, ledger, billProps, ownerMetrics, billSnapshot, billPanic>>
        /\ mongoClient' \in {"open", "nil"}
        /\ UNCHANGED billPoll \/ billPoll' = [at |-> "properties"]
    BY <1>0, <1>3 DEF BillPollStarts, BillStops, PollUnchanged, BillTypeOK
  <2> QED  BY <2>1 DEF BillInv, BillTypeOK
<1>4. CASE LoadProperties
  <2>1. /\ UNCHANGED <<billClock, ledger, billProps, ownerMetrics, billSnapshot, mongoClient>>
        /\ UNCHANGED billPanic \/ billPanic' = TRUE
    BY <1>4 DEF LoadProperties, PollUnchanged, QueryPanics
  <2>b. billPanic' \in BOOLEAN
    <3>1. billPanic \in BOOLEAN
      BY <1>0 DEF BillTypeOK
    <3> QED  BY <2>1, <3>1, Zenon
  <2>2. CASE billPoll' = Idle
    BY <1>0, <2>1, <2>2, <2>b DEF BillInv, BillTypeOK, Idle
  <2>3. CASE billPoll' = [at |-> "query", properties |-> [e \in Enums |-> loadProperties(e)],
                          window |-> [start |-> (billClock \div Hour) * Hour - Hour,
                                      end |-> (billClock \div Hour) * Hour],
                          used |-> [is |-> "asked"], amount |-> [is |-> "asked"]]
    <3>1. (billClock \div Hour) * Hour \in Int /\ (billClock \div Hour) * Hour - Hour \in Int
      <4>1. billClock \in Nat
        BY <1>0, BillNumbers DEF BillTypeOK
      <4>2. PICK end \in Int : end = (billClock \div Hour) * Hour
        BY <4>1, BillNumbers
      <4> QED  BY <4>2, BillNumbers
    <3>2. [start |-> (billClock \div Hour) * Hour - Hour, end |-> (billClock \div Hour) * Hour]
            \in Windows
      BY <3>1 DEF Windows
    <3>3. billPoll'.window \in Windows /\ billPoll'.at = "query"
      BY <2>3, <3>2
    <3>4. {"at", "window"} \subseteq DOMAIN billPoll'
      BY <2>3
    <3> QED  BY <1>0, <2>1, <2>b, <3>3, <3>4 DEF BillInv, BillTypeOK
  <2> QED  BY <1>4, <2>2, <2>3 DEF LoadProperties, QueryPanics
<1>5. ASSUME NEW h \in {"used", "amount"}, QueryRows(h)
      PROVE  BillInv'
  <2>1. /\ UNCHANGED <<billClock, ledger, billProps, ownerMetrics, billSnapshot, mongoClient>>
        /\ UNCHANGED billPanic \/ billPanic' = TRUE
        /\ billPoll.at = "query"
        /\ billPoll' = Idle \/ \E x : billPoll' = [billPoll EXCEPT ![h] = x]
    BY <1>5 DEF QueryRows, PollUnchanged, QueryPanics
  <2>b. billPanic' \in BOOLEAN
    <3>1. billPanic \in BOOLEAN
      BY <1>0 DEF BillTypeOK
    <3> QED  BY <2>1, <3>1, Zenon
  <2>2. CASE billPoll' = Idle
    BY <1>0, <2>1, <2>2, <2>b DEF BillInv, BillTypeOK, Idle
  <2>3. CASE \E x : billPoll' = [billPoll EXCEPT ![h] = x]
    <3>1. PICK x : billPoll' = [billPoll EXCEPT ![h] = x]
      BY <2>3
    <3>2. {"at", "window"} \subseteq DOMAIN billPoll
      BY <2>1 DEF BillInv
    <3>3. /\ billPoll'.at = "query" /\ billPoll'.window = billPoll.window
          /\ {"at", "window"} \subseteq DOMAIN billPoll'
      BY <2>1, <3>1, <3>2
    <3> QED  BY <1>0, <2>1, <2>b, <3>3 DEF BillInv, BillTypeOK
  <2> QED  BY <2>1, <2>2, <2>3
<1>6. CASE queryBillingAggregates
  <2>1. /\ UNCHANGED <<billClock, ledger, billProps, ownerMetrics, mongoClient, billPanic>>
        /\ billPoll' = Idle /\ billPoll.window \in Windows
    BY <1>0, <1>6 DEF queryBillingAggregates, PollUnchanged, BillTypeOK
  <2>2. billSnapshot' = billSnapshot \/ billSnapshot'.window = billPoll.window
    BY <1>6 DEF queryBillingAggregates
  <2> QED  BY <1>0, <2>1, <2>2 DEF BillInv, BillTypeOK, Idle
<1>7. CASE UNCHANGED billVars
  BY <1>7 DEF billVars, BillInv, BillTypeOK
<1> QED
  BY <1>1, <1>2, <1>3, <1>4, <1>5, <1>6, <1>7 DEF BillNext

(* Sums over finite sets, as SumOver adds them up.  What holds of every    *)
(* subset is shown by a least subset of which it does not.                 *)

(* What an addition one by one is: f has the sum over each subset.         *)
Adds(f, S, v) ==
  f = [s \in SUBSET S |-> IF s = {} THEN 0
                          ELSE LET x == CHOOSE x \in s : TRUE IN v[x] + f[s \ {x}]]

(* SumOver is the last of these sums.                                      *)
LEMMA SumIsChosen ==
  ASSUME NEW S, NEW v
  PROVE  SumOver(S, v) = (CHOOSE f : Adds(f, S, v))[S]
  BY Zenon DEF SumOver, Adds, MapThenSumSet, MapThenFoldSet

(* Induction over the subsets of a finite set, as a least counterexample.  *)
LEMMA LeastSubset ==
  ASSUME NEW S, IsFiniteSet(S), NEW B, B \subseteq SUBSET S, B # {}
  PROVE  \E T \in B : \A U \in B : U \subseteq T => U = T
<1>1. IsWellFoundedOn(StrictSubsetOrdering(S), SUBSET S)
  BY FS_StrictSubsetOrderingWellFounded, FS_FiniteSubsetsOfFinite
<1>2. PICK T \in B : \A U \in B : <<U, T>> \notin StrictSubsetOrdering(S)
  BY <1>1, WFMin
<1>3. ASSUME NEW U \in B, U \subseteq T, U # T PROVE FALSE
  <2>1. <<U, T>> \in (SUBSET S) \X (SUBSET S)
    BY Zenon
  <2>2. <<U, T>>[1] = U /\ <<U, T>>[2] = T
    OBVIOUS
  <2> QED  BY <1>2, <1>3, <2>1, <2>2 DEF StrictSubsetOrdering
<1> QED
  BY <1>2, <1>3

(* Two ways of adding up agree.                                            *)
LEMMA AddsOnce ==
  ASSUME NEW S, IsFiniteSet(S), NEW v, NEW f, NEW g, Adds(f, S, v), Adds(g, S, v)
  PROVE  f = g
<1> DEFINE B == {s \in SUBSET S : f[s] # g[s]}
<1>1. CASE B = {}
  <2>1. f = [s \in SUBSET S |-> f[s]] /\ g = [s \in SUBSET S |-> g[s]]
    BY DEF Adds
  <2> QED  BY <1>1, <2>1
<1>2. CASE B # {}
  <2>1. PICK T \in B : \A U \in B : U \subseteq T => U = T
    <3>1. B \subseteq SUBSET S
      OBVIOUS
    <3> HIDE DEF B
    <3> QED  BY <1>2, <3>1, LeastSubset
  <2>2. T # {}
    BY DEF Adds
  <2>3. PICK x \in T : x = CHOOSE y \in T : TRUE
    BY <2>2
  <2>4. f[T] = v[x] + f[T \ {x}] /\ g[T] = v[x] + g[T \ {x}]
    BY <2>2, <2>3 DEF Adds
  <2>5. T \ {x} \in SUBSET S /\ T \ {x} \notin B
    BY <2>1
  <2> QED  BY <2>4, <2>5
<1> QED
  BY <1>1, <1>2

(* What adds up a set adds up its subsets.                                 *)
LEMMA AddsLess ==
  ASSUME NEW S, NEW v, NEW f, Adds(f, S, v), NEW T \in SUBSET S
  PROVE  Adds([s \in SUBSET T |-> f[s]], T, v)
<1> DEFINE g == [s \in SUBSET T |-> f[s]]
<1>1. ASSUME NEW s \in SUBSET T
      PROVE  g[s] = IF s = {} THEN 0 ELSE LET x == CHOOSE x \in s : TRUE IN v[x] + g[s \ {x}]
  <2>1. s \in SUBSET S
    OBVIOUS
  <2>2. CASE s = {}
    BY <2>1, <2>2 DEF Adds
  <2>3. CASE s # {}
    <3>1. PICK x \in s : x = CHOOSE y \in s : TRUE
      BY <2>3
    <3>2. f[s] = v[x] + f[s \ {x}]
      BY <2>1, <2>3, <3>1 DEF Adds
    <3>3. g[s \ {x}] = f[s \ {x}] /\ g[s] = f[s]
      OBVIOUS
    <3> QED  BY <2>3, <3>1, <3>2, <3>3
  <2> QED  BY <2>2, <2>3
<1> QED
  BY <1>1 DEF Adds

(* The sum of a finite set exists, and with it those of its subsets.       *)
LEMMA SumExists ==
  ASSUME NEW S, IsFiniteSet(S), NEW v
  PROVE  \E f : Adds(f, S, v)
<1> DEFINE B == {s \in SUBSET S : ~ \E f : Adds(f, s, v)}
<1> SUFFICES ASSUME B # {} PROVE FALSE
  OBVIOUS
<1>1. PICK T \in B : \A U \in B : U \subseteq T => U = T
  <2>1. B \subseteq SUBSET S /\ B # {}
    OBVIOUS
  <2> HIDE DEF B
  <2> QED  BY <2>1, LeastSubset
<1> DEFINE G(s) == (CHOOSE f : Adds(f, s, v))[s]
           F == [s \in SUBSET T |-> IF s = {} THEN 0
                                    ELSE LET x == CHOOSE x \in s : TRUE IN v[x] + G(s \ {x})]
<1>2. ASSUME NEW s \in SUBSET T, s # T PROVE F[s] = G(s)
  <2>1. PICK h : h = CHOOSE f : Adds(f, s, v)
    OBVIOUS
  <2>2. Adds(h, s, v)
    BY <1>1, <1>2, <2>1
  <2>3. CASE s = {}
    BY <2>1, <2>2, <2>3 DEF Adds
  <2>4. CASE s # {}
    <3>1. PICK x \in s : x = CHOOSE y \in s : TRUE
      BY <2>4
    <3>2. h[s] = v[x] + h[s \ {x}]
      BY <2>2, <2>4, <3>1 DEF Adds
    <3>3. PICK k : k = CHOOSE f : Adds(f, s \ {x}, v)
      OBVIOUS
    <3>4. Adds([r \in SUBSET (s \ {x}) |-> h[r]], s \ {x}, v)
      <4> HIDE DEF B, F, G
      <4>1. s \ {x} \in SUBSET s
        OBVIOUS
      <4> QED  BY <2>2, <4>1, AddsLess
    <3>5. Adds(k, s \ {x}, v)
      BY <3>3, <3>4
    <3>6. IsFiniteSet(s \ {x})
      BY FS_Subset
    <3>7. k = [r \in SUBSET (s \ {x}) |-> h[r]]
      BY <3>4, <3>5, <3>6, AddsOnce
    <3>8. G(s \ {x}) = h[s \ {x}]
      BY <3>3, <3>7
    <3>9. F[s] = v[x] + G(s \ {x})
      BY <2>4, <3>1
    <3>10. G(s) = h[s]
      BY <2>1
    <3> QED  BY <3>2, <3>8, <3>9, <3>10
  <2> QED  BY <2>3, <2>4
<1>3. Adds(F, T, v)
  <2>1. ASSUME NEW s \in SUBSET T
        PROVE  F[s] = IF s = {} THEN 0 ELSE LET x == CHOOSE x \in s : TRUE IN v[x] + F[s \ {x}]
    <3>1. CASE s = {}
      BY <3>1
    <3>2. CASE s # {}
      <4>1. PICK x \in s : x = CHOOSE y \in s : TRUE
        BY <3>2
      <4>2. F[s] = v[x] + G(s \ {x})
        BY <3>2, <4>1
      <4>3. F[s \ {x}] = G(s \ {x})
        BY <1>2, <4>1
      <4> HIDE DEF F, G
      <4> QED  BY <3>2, <4>1, <4>2, <4>3
    <3> QED  BY <3>1, <3>2
  <2>2. F = [s \in SUBSET T |-> F[s]]
    OBVIOUS
  <2> HIDE DEF F
  <2> QED  BY <2>1, <2>2 DEF Adds
<1> QED
  BY <1>1, <1>3

(* So the sum of a set is 0, or one of its values and the sum of the rest. *)
LEMMA SumStep ==
  ASSUME NEW S, IsFiniteSet(S), NEW v
  PROVE  SumOver(S, v) = IF S = {} THEN 0 ELSE LET x == CHOOSE x \in S : TRUE
                                               IN v[x] + SumOver(S \ {x}, v)
<1>1. PICK h : h = CHOOSE f : Adds(f, S, v)
  OBVIOUS
<1>2. Adds(h, S, v) /\ SumOver(S, v) = h[S]
  BY <1>1, SumExists, SumIsChosen
<1>3. CASE S = {}
  BY <1>2, <1>3 DEF Adds
<1>4. CASE S # {}
  <2>1. PICK x \in S : x = CHOOSE y \in S : TRUE
    BY <1>4
  <2>2. h[S] = v[x] + h[S \ {x}]
    BY <1>2, <1>4, <2>1 DEF Adds
  <2>3. PICK k : k = CHOOSE f : Adds(f, S \ {x}, v)
    OBVIOUS
  <2>4. IsFiniteSet(S \ {x})
    BY FS_Subset
  <2>5. Adds(k, S \ {x}, v) /\ SumOver(S \ {x}, v) = k[S \ {x}]
    BY <2>3, <2>4, SumExists, SumIsChosen
  <2>6. Adds([s \in SUBSET (S \ {x}) |-> h[s]], S \ {x}, v)
    BY <1>2, AddsLess
  <2>7. k = [s \in SUBSET (S \ {x}) |-> h[s]]
    BY <2>4, <2>5, <2>6, AddsOnce
  <2>8. SumOver(S \ {x}, v) = h[S \ {x}]
    BY <2>5, <2>7
  <2> QED  BY <1>2, <1>4, <2>1, <2>2, <2>8
<1> QED
  BY <1>3, <1>4

(* The sum of integers is an integer.                                      *)
LEMMA SumIsInt ==
  ASSUME NEW S, IsFiniteSet(S), NEW v, \A x \in S : v[x] \in Int
  PROVE  SumOver(S, v) \in Int
<1> DEFINE B == {s \in SUBSET S : SumOver(s, v) \notin Int}
<1> SUFFICES ASSUME B # {} PROVE FALSE
  BY FS_Subset
<1>1. PICK T \in B : \A U \in B : U \subseteq T => U = T
  <2>1. B \subseteq SUBSET S /\ B # {}
    OBVIOUS
  <2> HIDE DEF B
  <2> QED  BY <2>1, LeastSubset
<1>2. T \subseteq S /\ IsFiniteSet(T) /\ SumOver(T, v) \notin Int
  BY FS_Subset
<1>3. T # {}
  BY <1>2, SumStep
<1>4. PICK x \in T : x = CHOOSE y \in T : TRUE
  BY <1>3
<1>5. SumOver(T, v) = v[x] + SumOver(T \ {x}, v)
  BY <1>2, <1>3, <1>4, SumStep
<1>6. SumOver(T \ {x}, v) \in Int
  BY <1>1, <1>2
<1> QED
  BY <1>2, <1>5, <1>6

(* Any value may be added last.                                            *)
LEMMA SumWithout ==
  ASSUME NEW S, IsFiniteSet(S), NEW v, \A y \in S : v[y] \in Int, NEW x \in S
  PROVE  SumOver(S, v) = v[x] + SumOver(S \ {x}, v)
<1> DEFINE B == {s \in SUBSET S : \E y \in s : SumOver(s, v) # v[y] + SumOver(s \ {y}, v)}
<1> SUFFICES ASSUME B # {} PROVE FALSE
  OBVIOUS
<1>1. PICK T \in B : \A U \in B : U \subseteq T => U = T
  <2>1. B \subseteq SUBSET S /\ B # {}
    OBVIOUS
  <2> HIDE DEF B
  <2> QED  BY <2>1, LeastSubset
<1>2. PICK y \in T : SumOver(T, v) # v[y] + SumOver(T \ {y}, v)
  OBVIOUS
<1>3. PICK c \in T : c = CHOOSE z \in T : TRUE
  BY <1>2
<1>4. T \subseteq S /\ IsFiniteSet(T) /\ T # {}
  BY <1>2, FS_Subset
<1>5. SumOver(T, v) = v[c] + SumOver(T \ {c}, v)
  BY <1>3, <1>4, SumStep
<1>6. y # c
  BY <1>2, <1>5
<1>7. SumOver(T \ {c}, v) = v[y] + SumOver((T \ {c}) \ {y}, v)
  <2>1. T \ {c} \in SUBSET S /\ T \ {c} \notin B /\ y \in T \ {c}
    BY <1>1, <1>3, <1>4, <1>6
  <2> QED  BY <2>1
<1>8. SumOver(T \ {y}, v) = v[c] + SumOver((T \ {y}) \ {c}, v)
  <2>1. T \ {y} \in SUBSET S /\ T \ {y} \notin B /\ c \in T \ {y}
    BY <1>1, <1>3, <1>4, <1>6
  <2> QED  BY <2>1
<1>9. (T \ {c}) \ {y} = (T \ {y}) \ {c}
  OBVIOUS
<1>10. SumOver((T \ {y}) \ {c}, v) \in Int /\ v[c] \in Int /\ v[y] \in Int
  <2>1. (T \ {y}) \ {c} \subseteq S /\ IsFiniteSet((T \ {y}) \ {c})
    BY <1>4, FS_Subset
  <2>2. \A z \in (T \ {y}) \ {c} : v[z] \in Int
    BY <2>1
  <2> QED  BY <1>4, <2>1, <2>2, SumIsInt
<1> HIDE DEF B
<1>11. SumOver(T, v) = v[c] + (v[y] + SumOver((T \ {y}) \ {c}, v))
  BY <1>5, <1>7, <1>9
<1>12. v[y] + SumOver(T \ {y}, v) = v[y] + (v[c] + SumOver((T \ {y}) \ {c}, v))
  BY <1>8
<1>13. PICK a \in Int, b \in Int, d \in Int :
          a = v[c] /\ b = v[y] /\ d = SumOver((T \ {y}) \ {c}, v)
  BY <1>10
<1>14. a + (b + d) = b + (a + d)
  OBVIOUS
<1> QED
  BY <1>2, <1>11, <1>12, <1>13, <1>14

(* Sums over disjoint sets add up to the sum over both.                    *)
LEMMA SumOfBoth ==
  ASSUME NEW S, NEW T, IsFiniteSet(S), IsFiniteSet(T), S \cap T = {},
         NEW v, \A y \in S \cup T : v[y] \in Int
  PROVE  SumOver(S \cup T, v) = SumOver(S, v) + SumOver(T, v)
<1> DEFINE B == {t \in SUBSET T : SumOver(S \cup t, v) # SumOver(S, v) + SumOver(t, v)}
<1> SUFFICES ASSUME B # {} PROVE FALSE
  OBVIOUS
<1>1. PICK U \in B : \A W \in B : W \subseteq U => W = U
  <2>1. B \subseteq SUBSET T /\ B # {}
    OBVIOUS
  <2> HIDE DEF B
  <2> QED  BY <2>1, LeastSubset
<1>2. U \subseteq T /\ IsFiniteSet(U) /\ SumOver(S \cup U, v) # SumOver(S, v) + SumOver(U, v)
  BY FS_Subset
<1>3. SumOver(S, v) \in Int
  BY SumIsInt
<1>4. U # {}
  <2>1. SUFFICES ASSUME U = {} PROVE FALSE
    OBVIOUS
  <2>2. SumOver(U, v) = 0 /\ S \cup U = S
    BY <1>2, <2>1, SumStep
  <2>3. SumOver(S, v) + SumOver(U, v) = SumOver(S, v)
    BY <1>3, <2>2
  <2>4. SumOver(S \cup U, v) = SumOver(S, v)
    BY <2>2
  <2> HIDE DEF B
  <2> QED  BY <1>2, <2>3, <2>4
<1>5. PICK x \in U : TRUE
  BY <1>4
<1>6. SumOver(U, v) = v[x] + SumOver(U \ {x}, v)
  BY <1>2, SumWithout
<1>7. SumOver(S \cup U, v) = v[x] + SumOver((S \cup U) \ {x}, v)
  <2>1. IsFiniteSet(S \cup U) /\ x \in S \cup U /\ \A y \in S \cup U : v[y] \in Int
    BY <1>2, FS_Union
  <2> QED  BY <2>1, SumWithout
<1>8. (S \cup U) \ {x} = S \cup (U \ {x})
  BY <1>2
<1>9. SumOver(S \cup (U \ {x}), v) = SumOver(S, v) + SumOver(U \ {x}, v)
  BY <1>1, <1>2
<1>10. SumOver(U \ {x}, v) \in Int /\ v[x] \in Int
  <2>1. IsFiniteSet(U \ {x}) /\ \A y \in U \ {x} : v[y] \in Int
    BY <1>2, FS_Subset
  <2> QED  BY <1>2, <2>1, SumIsInt
<1>11. PICK a \in Int, b \in Int, d \in Int :
          a = v[x] /\ b = SumOver(S, v) /\ d = SumOver(U \ {x}, v)
  BY <1>3, <1>10
<1>12. a + (b + d) = b + (a + d)
  OBVIOUS
<1> HIDE DEF B
<1> QED
  BY <1>2, <1>6, <1>7, <1>8, <1>9, <1>11, <1>12

(* The elements of N fall into the parts P[r] of the rows r of R, no two   *)
(* parts share one, and a row has the sum w[r] over its part.              *)
InParts(R, P, N, w, v) ==
  /\ IsFiniteSet(R) /\ IsFiniteSet(N)
  /\ \A i : i \in N <=> \E r \in R : i \in P[r]
  /\ \A r, q \in R : r # q => P[r] \cap P[q] = {}
  /\ \A i \in N : v[i] \in Int
  /\ \A r \in R : w[r] = SumOver(P[r], v)

(* Adding up in two stages: the sum of the rows is the sum of the elements. *)
LEMMA SumOfSums ==
  ASSUME NEW R, NEW P, NEW N, NEW v, NEW w, InParts(R, P, N, w, v)
  PROVE  SumOver(R, w) = SumOver(N, v)
<1> USE DEF InParts
<1> DEFINE All(T) == UNION {P[r] : r \in T}
           B == {T \in SUBSET R : SumOver(T, w) # SumOver(All(T), v)}
<1>0. N = All(R)
  OBVIOUS
<1> SUFFICES ASSUME B # {} PROVE FALSE
  <2> SUFFICES ASSUME B = {} PROVE SumOver(R, w) = SumOver(All(R), v)
    BY <1>0
  <2> QED  OBVIOUS
<1>1. PICK T \in B : \A U \in B : U \subseteq T => U = T
  <2>1. B \subseteq SUBSET R /\ B # {}
    OBVIOUS
  <2> HIDE DEF B
  <2> QED  BY <2>1, LeastSubset
<1>2. T \subseteq R /\ IsFiniteSet(T) /\ SumOver(T, w) # SumOver(All(T), v)
  BY FS_Subset
<1>3. ASSUME NEW r \in R PROVE w[r] \in Int
  <2>1. P[r] \subseteq N
    OBVIOUS
  <2>2. IsFiniteSet(P[r])
    BY <2>1, FS_Subset
  <2> QED  BY <2>2, SumIsInt
<1>4. T # {}
  <2>1. SUFFICES ASSUME T = {} PROVE FALSE
    OBVIOUS
  <2>2. All(T) = {} /\ IsFiniteSet({})
    BY <2>1, FS_EmptySet
  <2>3. SumOver({}, w) = 0 /\ SumOver({}, v) = 0
    BY <2>2, SumStep
  <2> QED  BY <1>2, <2>1, <2>2, <2>3
<1>5. PICK r \in T : TRUE
  BY <1>4
<1>6. SumOver(T, w) = w[r] + SumOver(T \ {r}, w)
  BY <1>2, <1>3, SumWithout
<1>7. SumOver(T \ {r}, w) = SumOver(All(T \ {r}), v)
  BY <1>1, <1>2
<1>8. /\ IsFiniteSet(All(T \ {r})) /\ IsFiniteSet(P[r])
      /\ \A y \in All(T \ {r}) \cup P[r] : v[y] \in Int
  <2>1. All(T \ {r}) \subseteq N /\ P[r] \subseteq N
    BY <1>2
  <2>2. \A y \in All(T \ {r}) \cup P[r] : v[y] \in Int
    BY <1>2
  <2> HIDE DEF All
  <2> QED  BY <2>1, <2>2, FS_Subset
<1>9. All(T) = All(T \ {r}) \cup P[r] /\ All(T \ {r}) \cap P[r] = {}
  BY <1>2
<1>10. SumOver(All(T), v) = SumOver(All(T \ {r}), v) + SumOver(P[r], v)
  <2>1. PICK X, Y : X = All(T \ {r}) /\ Y = P[r]
    OBVIOUS
  <2>2. /\ IsFiniteSet(X) /\ IsFiniteSet(Y) /\ X \cap Y = {} /\ All(T) = X \cup Y
        /\ \A y \in X \cup Y : v[y] \in Int
    BY <1>8, <1>9, <2>1
  <2>3. SumOver(X \cup Y, v) = SumOver(X, v) + SumOver(Y, v)
    BY <2>2, SumOfBoth
  <2> HIDE DEF All
  <2> QED  BY <2>1, <2>2, <2>3
<1>11. SumOver(All(T \ {r}), v) \in Int /\ w[r] \in Int /\ w[r] = SumOver(P[r], v)
  <2>1. \A y \in All(T \ {r}) : v[y] \in Int
    BY <1>8
  <2> HIDE DEF All
  <2> QED  BY <1>2, <1>3, <1>8, <2>1, SumIsInt
<1> HIDE DEF B, All
<1> QED
  BY <1>2, <1>6, <1>7, <1>10, <1>11

(* The documents of the ledger l that are billed with the hour that ends   *)
(* at end, of the first n; and their sums by group, as Grouped makes them. *)
BilledOf(l, n, end) == {i \in 1..n : l[i].consumption /\ HourOf(l[i].time) * Hour = end}

GroupOf(l, i, owners) == [owner |-> IF owners THEN l[i].owner ELSE "none", enum |-> l[i].enum]

RowsOf(l, n, end, owners, value) ==
  {[id |-> g, sum |-> SumOver({i \in BilledOf(l, n, end) : GroupOf(l, i, owners) = g}, value)] :
     g \in {GroupOf(l, i, owners) : i \in BilledOf(l, n, end)}}

IsHour(w) == \E n \in Int : w = [start |-> n * Hour - Hour, end |-> n * Hour]

(* The answer a of one query: the sums of the documents it saw.            *)
AnswerSound(a, w, value) ==
  /\ a.is \in {"asked", "failed", "rows"}
  /\ a.is = "rows" => /\ a.wrote \in 0..Len(ledger)
                      /\ a.rows = RowsOf(ledger, a.wrote, w.end, ownerMetrics, value)

PollOfAnHour ==
  billPoll.at = "query" =>
    /\ {"at", "window", "properties", "used", "amount"} \subseteq DOMAIN billPoll
    /\ IsHour(billPoll.window) /\ billPoll.window.end <= billClock
    /\ AnswerSound(billPoll.used, billPoll.window, Used)
    /\ AnswerSound(billPoll.amount, billPoll.window, Amount)

(* A snapshot is of one hour that is over, and its totals are made of the  *)
(* sums by group over the documents of exactly that hour, of those the     *)
(* query saw; a document on the boundary is of one hour only.              *)
SnapshotOfItsHour ==
  billSnapshot # <<>> =>
    /\ IsHour(billSnapshot.window) /\ billSnapshot.window.end <= billClock
    /\ billSnapshot.usedOf \in 0..Len(ledger) /\ billSnapshot.amountOf \in 0..Len(ledger)
    /\ billSnapshot.totals = aggregateBillingRows(
         RowsOf(ledger, billSnapshot.usedOf, billSnapshot.window.end, ownerMetrics, Used),
         RowsOf(ledger, billSnapshot.amountOf, billSnapshot.window.end, ownerMetrics, Amount),
         billSnapshot.properties)

BillHourInv == BillInv /\ PollOfAnHour /\ SnapshotOfItsHour

(* The window (end - Hour, end] has the times of one hour: one on the hour *)
(* is of the hour it ends.                                                 *)
LEMMA WindowIsTheHour ==
  ASSUME NEW n \in Int, NEW t \in Nat
  PROVE  t > n * Hour - Hour /\ t <= n * Hour <=> HourOf(t) * Hour = n * Hour
<1>1. Hour \in Nat /\ Hour > 0
  BY BillNumbers
<1>2. PICK q \in Int : q = HourOf(t) /\ q * Hour <= t + Hour - 1 /\ t + Hour - 1 < q * Hour + Hour
  BY <1>1 DEF HourOf
<1>3. CASE q = n
  BY <1>1, <1>2, <1>3
<1>4. CASE q > n
  <2>1. q * Hour >= n * Hour + Hour
    BY <1>1, <1>4
  <2> QED  BY <1>1, <1>2, <2>1
<1>5. CASE q < n
  <2>1. n * Hour >= q * Hour + Hour
    BY <1>1, <1>5
  <2> QED  BY <1>1, <1>2, <2>1
<1> QED
  BY <1>2, <1>3, <1>4, <1>5

(* So the pipeline's $match takes the documents of the hour,...            *)
LEMMA PipelineRows ==
  ASSUME BillTypeOK, NEW w, IsHour(w), NEW value
  PROVE  Grouped(billingAggregatePipeline(w), value)
           = RowsOf(ledger, Len(ledger), w.end, ownerMetrics, value)
<1>1. PICK n \in Int : w = [start |-> n * Hour - Hour, end |-> n * Hour]
  BY DEF IsHour
<1>2. ASSUME NEW i \in DOMAIN ledger
      PROVE  ledger[i].time > w.start /\ ledger[i].time <= w.end
               <=> HourOf(ledger[i].time) * Hour = w.end
  <2>0. ledger[i] \in Documents
    BY <1>2 DEF BillTypeOK
  <2>1. ledger[i].time \in Nat
    BY <2>0 DEF Documents
  <2> QED  BY <1>1, <2>1, WindowIsTheHour
<1>3. DOMAIN ledger = 1..Len(ledger)
  BY DEF BillTypeOK
<1>4. billingAggregatePipeline(w) = BilledOf(ledger, Len(ledger), w.end)
  BY <1>2, <1>3 DEF billingAggregatePipeline, BilledOf
<1> QED
  BY <1>4 DEF Grouped, RowsOf, GroupID, GroupOf

(* ... and a document written later changes nothing of what a query saw.   *)
LEMMA RowsKept ==
  ASSUME NEW l \in Seq(Documents), NEW d \in Documents, NEW n \in 0..Len(l),
         NEW end, NEW owners, NEW value
  PROVE  RowsOf(Append(l, d), n, end, owners, value) = RowsOf(l, n, end, owners, value)
<1>1. \A i \in 1..n : Append(l, d)[i] = l[i]
  OBVIOUS
<1>2. BilledOf(Append(l, d), n, end) = BilledOf(l, n, end)
  BY <1>1 DEF BilledOf
<1>3. \A i \in BilledOf(l, n, end) : GroupOf(Append(l, d), i, owners) = GroupOf(l, i, owners)
  BY <1>1 DEF GroupOf, BilledOf
<1>4. {GroupOf(Append(l, d), i, owners) : i \in BilledOf(l, n, end)}
        = {GroupOf(l, i, owners) : i \in BilledOf(l, n, end)}
  BY <1>3
<1>5. ASSUME NEW g
      PROVE  [id |-> g, sum |-> SumOver({i \in BilledOf(l, n, end) :
                                           GroupOf(Append(l, d), i, owners) = g}, value)]
           = [id |-> g, sum |-> SumOver({i \in BilledOf(l, n, end) :
                                           GroupOf(l, i, owners) = g}, value)]
  <2>1. {i \in BilledOf(l, n, end) : GroupOf(Append(l, d), i, owners) = g}
          = {i \in BilledOf(l, n, end) : GroupOf(l, i, owners) = g}
    BY <1>3
  <2> QED  BY <2>1
<1> DEFINE A(g) == [id |-> g, sum |-> SumOver({i \in BilledOf(l, n, end) :
                                                 GroupOf(Append(l, d), i, owners) = g}, value)]
           B(g) == [id |-> g, sum |-> SumOver({i \in BilledOf(l, n, end) :
                                                 GroupOf(l, i, owners) = g}, value)]
           G == {GroupOf(l, i, owners) : i \in BilledOf(l, n, end)}
<1>6. \A g : A(g) = B(g)
  BY <1>5
<1>7. {A(g) : g \in G} = {B(g) : g \in G}
  <2> HIDE DEF A, B, G
  <2> QED  BY <1>6
<1>8. /\ RowsOf(Append(l, d), n, end, owners, value) = {A(g) : g \in G}
      /\ RowsOf(l, n, end, owners, value) = {B(g) : g \in G}
  BY <1>2, <1>4 DEF RowsOf
<1> QED
  BY <1>7, <1>8

(* What every step does to the clock and the ledger.                       *)
LedgerGrows ==
  /\ UNCHANGED ownerMetrics
  /\ billClock \in Int /\ billClock' \in Int /\ billClock <= billClock'
  /\ ledger \in Seq(Documents)
  /\ UNCHANGED ledger \/ \E d \in Documents : ledger' = Append(ledger, d)

(* An answer stays sound as the ledger grows.                              *)
LEMMA RowsStay ==
  ASSUME LedgerGrows, NEW n \in 0..Len(ledger), NEW end, NEW value
  PROVE  /\ n \in 0..Len(ledger')
         /\ RowsOf(ledger', n, end, ownerMetrics', value) = RowsOf(ledger, n, end, ownerMetrics, value)
<1>1. CASE UNCHANGED ledger
  BY <1>1 DEF LedgerGrows
<1>2. CASE \E d \in Documents : ledger' = Append(ledger, d)
  <2>1. PICK d \in Documents : ledger' = Append(ledger, d)
    BY <1>2
  <2>2. Len(ledger') = Len(ledger) + 1 /\ Len(ledger) \in Nat
    BY <2>1 DEF LedgerGrows
  <2>3. RowsOf(ledger', n, end, ownerMetrics, value) = RowsOf(ledger, n, end, ownerMetrics, value)
    BY <2>1, RowsKept DEF LedgerGrows
  <2> QED  BY <2>2, <2>3 DEF LedgerGrows
<1> QED
  BY <1>1, <1>2 DEF LedgerGrows

(* The poll and the snapshot stay sound as the ledger grows.               *)
LEMMA PollStays ==
  ASSUME PollOfAnHour, LedgerGrows, BillTypeOK, UNCHANGED billPoll
  PROVE  PollOfAnHour'
<1> SUFFICES ASSUME billPoll.at = "query"
             PROVE  /\ billPoll.window.end <= billClock'
                    /\ AnswerSound(billPoll.used, billPoll.window, Used)'
                    /\ AnswerSound(billPoll.amount, billPoll.window, Amount)'
  BY DEF PollOfAnHour
<1>1. billPoll.window.end <= billClock'
  BY DEF PollOfAnHour, LedgerGrows, BillTypeOK, Windows
<1>2. AnswerSound(billPoll.used, billPoll.window, Used)'
  BY RowsStay DEF PollOfAnHour, AnswerSound
<1>3. AnswerSound(billPoll.amount, billPoll.window, Amount)'
  BY RowsStay DEF PollOfAnHour, AnswerSound
<1> QED
  BY <1>1, <1>2, <1>3

(* The same of the snapshot.                                               *)
LEMMA SnapshotStays ==
  ASSUME SnapshotOfItsHour, LedgerGrows, BillTypeOK, UNCHANGED billSnapshot
  PROVE  SnapshotOfItsHour'
<1> SUFFICES ASSUME billSnapshot # <<>> PROVE SnapshotOfItsHour'
  BY DEF SnapshotOfItsHour
<1>1. billSnapshot.window.end <= billClock'
  BY DEF SnapshotOfItsHour, LedgerGrows, BillTypeOK, Windows
<1>2. /\ billSnapshot.usedOf \in 0..Len(ledger')
      /\ RowsOf(ledger', billSnapshot.usedOf, billSnapshot.window.end, ownerMetrics', Used)
           = RowsOf(ledger, billSnapshot.usedOf, billSnapshot.window.end, ownerMetrics, Used)
  BY RowsStay DEF SnapshotOfItsHour
<1>3. /\ billSnapshot.amountOf \in 0..Len(ledger')
      /\ RowsOf(ledger', billSnapshot.amountOf, billSnapshot.window.end, ownerMetrics', Amount)
           = RowsOf(ledger, billSnapshot.amountOf, billSnapshot.window.end, ownerMetrics, Amount)
  BY RowsStay DEF SnapshotOfItsHour
<1>4. UNCHANGED ownerMetrics
  BY DEF LedgerGrows
<1>5. ASSUME NEW r, NEW a, NEW p
      PROVE  aggregateBillingRows(r, a, p)' = aggregateBillingRows(r, a, p)
  BY <1>4 DEF aggregateBillingRows
<1>6. billSnapshot'.totals = aggregateBillingRows(
         RowsOf(ledger', billSnapshot.usedOf, billSnapshot.window.end, ownerMetrics', Used),
         RowsOf(ledger', billSnapshot.amountOf, billSnapshot.window.end, ownerMetrics', Amount),
         billSnapshot.properties)
  BY <1>2, <1>3 DEF SnapshotOfItsHour
<1> QED
  BY <1>1, <1>2, <1>3, <1>4, <1>6 DEF SnapshotOfItsHour, aggregateBillingRows

(* A poll begins with the last hour that is over.                          *)
LEMMA WindowOfNow ==
  ASSUME BillTypeOK, NEW end, end = (billClock \div Hour) * Hour
  PROVE  IsHour([start |-> end - Hour, end |-> end]) /\ end <= billClock
<1>1. Hour \in Nat /\ Hour > 0 /\ billClock \in Nat
  BY BillNumbers DEF BillTypeOK
<1>2. PICK n \in Int : n = billClock \div Hour /\ n * Hour <= billClock
  BY <1>1
<1> QED
  BY <1>2 DEF IsHour

(* Nothing is billed.                                                      *)
LEMMA BillHourInitInv == BillInit => BillHourInv
<1>1. BillInit => PollOfAnHour /\ SnapshotOfItsHour
  BY DEF BillInit, Idle, PollOfAnHour, SnapshotOfItsHour
<1> QED
  BY <1>1, BillInitInv DEF BillHourInv

(* Every step keeps what the poll and the snapshot say of their hours.     *)
LEMMA BillHourNextInv == BillHourInv /\ [BillNext]_billVars => BillHourInv'
<1> SUFFICES ASSUME BillHourInv, [BillNext]_billVars PROVE BillHourInv'
  OBVIOUS
<1>0. /\ BillInv /\ BillInv' /\ BillTypeOK /\ PollOfAnHour /\ SnapshotOfItsHour
      /\ ledger \in Seq(Documents) /\ billClock \in Int /\ billClock' \in Int
  BY BillNextInv, BillNumbers DEF BillHourInv, BillInv, BillTypeOK
<1>1. CASE BillTick
  <2>1. LedgerGrows /\ UNCHANGED <<billPoll, billSnapshot>>
    BY <1>0, <1>1 DEF BillTick, LedgerGrows
  <2> QED  BY <1>0, <2>1, PollStays, SnapshotStays DEF BillHourInv
<1>2. ASSUME NEW t \in Hour..MaxClock, NEW o \in Owners, NEW e \in Enums, NEW c \in BOOLEAN,
             BillWritten([time |-> t, consumption |-> c, owner |-> o, enum |-> e])
      PROVE  BillHourInv'
  <2>1. [time |-> t, consumption |-> c, owner |-> o, enum |-> e] \in Documents
    <3>1. t \in Nat
      BY BillNumbers
    <3> QED  BY <3>1 DEF Documents
  <2>2. PICK d \in Documents : ledger' = Append(ledger, d)
    BY <1>2, <2>1 DEF BillWritten
  <2>3. UNCHANGED <<billClock, ownerMetrics, billPoll, billSnapshot>>
    BY <1>2 DEF BillWritten
  <2>4. LedgerGrows
    BY <1>0, <2>2, <2>3 DEF LedgerGrows
  <2> QED  BY <1>0, <2>3, <2>4, PollStays, SnapshotStays DEF BillHourInv
<1>3. CASE BillPollStarts \/ BillStops
  <2>1. LedgerGrows /\ UNCHANGED billSnapshot
    BY <1>0, <1>3 DEF BillPollStarts, BillStops, PollUnchanged, LedgerGrows
  <2>2. UNCHANGED billPoll \/ billPoll' = [at |-> "properties"]
    BY <1>3 DEF BillPollStarts, BillStops
  <2>3. PollOfAnHour'
    BY <1>0, <2>1, <2>2, PollStays DEF PollOfAnHour
  <2> QED  BY <1>0, <2>1, <2>3, SnapshotStays DEF BillHourInv
<1>4. CASE LoadProperties
  <2>1. LedgerGrows /\ UNCHANGED billSnapshot
    BY <1>0, <1>4 DEF LoadProperties, PollUnchanged, LedgerGrows
  <2>2. CASE billPoll' = Idle
    BY <1>0, <2>1, <2>2, SnapshotStays DEF BillHourInv, PollOfAnHour, Idle
  <2>3. CASE billPoll' = [at |-> "query", properties |-> [e \in Enums |-> loadProperties(e)],
                          window |-> [start |-> (billClock \div Hour) * Hour - Hour,
                                      end |-> (billClock \div Hour) * Hour],
                          used |-> [is |-> "asked"], amount |-> [is |-> "asked"]]
    <3>1. IsHour(billPoll'.window) /\ billPoll'.window.end <= billClock
      BY <1>0, <2>3, WindowOfNow
    <3>2. billClock' = billClock
      BY <1>4 DEF LoadProperties, PollUnchanged
    <3>3. billPoll'.used.is = "asked" /\ billPoll'.amount.is = "asked"
      BY <2>3
    <3>4. {"at", "window", "properties", "used", "amount"} \subseteq DOMAIN billPoll'
      BY <2>3
    <3>5. PollOfAnHour'
      BY <3>1, <3>2, <3>3, <3>4 DEF PollOfAnHour, AnswerSound
    <3> QED  BY <1>0, <2>1, <3>5, SnapshotStays DEF BillHourInv
  <2> QED  BY <1>4, <2>2, <2>3 DEF LoadProperties, QueryPanics
<1>5. ASSUME NEW h \in {"used", "amount"}, QueryRows(h)
      PROVE  BillHourInv'
  <2>1. LedgerGrows /\ UNCHANGED <<billSnapshot, ledger, ownerMetrics, billClock>> /\ billPoll.at = "query"
    BY <1>0, <1>5 DEF QueryRows, PollUnchanged, LedgerGrows
  <2>2. CASE billPoll' = Idle
    BY <1>0, <2>1, <2>2, SnapshotStays DEF BillHourInv, PollOfAnHour, Idle
  <2>3. ASSUME NEW x, billPoll' = [billPoll EXCEPT ![h] = x],
               h = "used" => AnswerSound(x, billPoll.window, Used),
               h = "amount" => AnswerSound(x, billPoll.window, Amount)
        PROVE  BillHourInv'
    <3>1. /\ {"at", "window", "properties", "used", "amount"} \subseteq DOMAIN billPoll
          /\ IsHour(billPoll.window) /\ billPoll.window.end <= billClock
          /\ AnswerSound(billPoll.used, billPoll.window, Used)
          /\ AnswerSound(billPoll.amount, billPoll.window, Amount)
      BY <1>0, <2>1 DEF PollOfAnHour
    <3>2. /\ {"at", "window", "properties", "used", "amount"} \subseteq DOMAIN billPoll'
          /\ billPoll'.window = billPoll.window
          /\ billPoll'.used = IF h = "used" THEN x ELSE billPoll.used
          /\ billPoll'.amount = IF h = "amount" THEN x ELSE billPoll.amount
      BY <2>3, <3>1
    <3>3. /\ AnswerSound(billPoll'.used, billPoll'.window, Used)
          /\ AnswerSound(billPoll'.amount, billPoll'.window, Amount)
      BY <2>3, <3>1, <3>2
    <3>4. PollOfAnHour'
      BY <2>1, <3>1, <3>2, <3>3 DEF PollOfAnHour, AnswerSound
    <3> QED  BY <1>0, <2>1, <3>4, SnapshotStays DEF BillHourInv
  <2>4. CASE billPoll' = [billPoll EXCEPT ![h] = [is |-> "failed"]]
    <3>1. \A w, v : AnswerSound([is |-> "failed"], w, v)
      BY DEF AnswerSound
    <3> QED  BY <2>3, <2>4, <3>1
  <2>5. CASE billPoll' = [billPoll EXCEPT ![h] =
               [is |-> "rows", wrote |-> Len(ledger),
                rows |-> IF h = "used" THEN billingResourceUsageStages(billPoll.window)
                                       ELSE billingResourceAmountStages(billPoll.window)]]
    <3> DEFINE x == [is |-> "rows", wrote |-> Len(ledger),
                     rows |-> IF h = "used" THEN billingResourceUsageStages(billPoll.window)
                                            ELSE billingResourceAmountStages(billPoll.window)]
    <3>1. IsHour(billPoll.window) /\ Len(ledger) \in 0..Len(ledger)
      BY <1>0, <2>1 DEF PollOfAnHour
    <3>2. /\ billingResourceUsageStages(billPoll.window)
                = RowsOf(ledger, Len(ledger), billPoll.window.end, ownerMetrics, Used)
          /\ billingResourceAmountStages(billPoll.window)
                = RowsOf(ledger, Len(ledger), billPoll.window.end, ownerMetrics, Amount)
      BY <1>0, <3>1, PipelineRows DEF billingResourceUsageStages, billingResourceAmountStages
    <3>3. /\ h = "used" => AnswerSound(x, billPoll.window, Used)
          /\ h = "amount" => AnswerSound(x, billPoll.window, Amount)
      BY <3>1, <3>2 DEF AnswerSound
    <3> HIDE DEF x
    <3>4. billPoll' = [billPoll EXCEPT ![h] = x]
      BY <2>5 DEF x
    <3> QED  BY <2>3, <3>3, <3>4
  <2> QED  BY <1>5, <2>2, <2>4, <2>5 DEF QueryRows, QueryPanics
<1>6. CASE queryBillingAggregates
  <2>1. LedgerGrows /\ UNCHANGED <<ledger, ownerMetrics, billClock>> /\ billPoll' = Idle
    BY <1>0, <1>6 DEF queryBillingAggregates, PollUnchanged, LedgerGrows
  <2>2. PollOfAnHour'
    BY <2>1 DEF PollOfAnHour, Idle
  <2>3. CASE UNCHANGED billSnapshot
    BY <1>0, <2>1, <2>2, <2>3, SnapshotStays DEF BillHourInv
  <2>4. CASE /\ "failed" \notin {billPoll.used.is, billPoll.amount.is}
             /\ billSnapshot' =
                  [window |-> billPoll.window, properties |-> billPoll.properties,
                   usedOf |-> billPoll.used.wrote, amountOf |-> billPoll.amount.wrote,
                   totals |-> aggregateBillingRows(billPoll.used.rows, billPoll.amount.rows,
                                                   billPoll.properties)]
    <3>1. billPoll.used.is = "rows" /\ billPoll.amount.is = "rows" /\ billPoll.at = "query"
      BY <1>0, <1>6, <2>4 DEF queryBillingAggregates, PollOfAnHour, AnswerSound
    <3>2. /\ IsHour(billPoll.window) /\ billPoll.window.end <= billClock
          /\ billPoll.used.wrote \in 0..Len(ledger) /\ billPoll.amount.wrote \in 0..Len(ledger)
          /\ billPoll.used.rows = RowsOf(ledger, billPoll.used.wrote, billPoll.window.end,
                                         ownerMetrics, Used)
          /\ billPoll.amount.rows = RowsOf(ledger, billPoll.amount.wrote, billPoll.window.end,
                                           ownerMetrics, Amount)
      BY <1>0, <3>1 DEF PollOfAnHour, AnswerSound
    <3>3. /\ billSnapshot'.window = billPoll.window
          /\ billSnapshot'.usedOf = billPoll.used.wrote
          /\ billSnapshot'.amountOf = billPoll.amount.wrote
          /\ billSnapshot'.totals = aggregateBillingRows(
               RowsOf(ledger, billPoll.used.wrote, billPoll.window.end, ownerMetrics, Used),
               RowsOf(ledger, billPoll.amount.wrote, billPoll.window.end, ownerMetrics, Amount),
               billPoll.properties)
          /\ billSnapshot'.properties = billPoll.properties
      BY <2>4, <3>2
    <3>4. SnapshotOfItsHour'
      BY <2>1, <3>2, <3>3 DEF SnapshotOfItsHour, aggregateBillingRows
    <3> QED  BY <1>0, <2>2, <3>4 DEF BillHourInv
  <2> QED  BY <1>6, <2>3, <2>4 DEF queryBillingAggregates
<1>7. CASE UNCHANGED billVars
  <2>1. LedgerGrows /\ UNCHANGED <<billPoll, billSnapshot>>
    BY <1>0, <1>7 DEF billVars, LedgerGrows
  <2> QED  BY <1>0, <2>1, PollStays, SnapshotStays DEF BillHourInv
<1> QED
  BY <1>1, <1>2, <1>3, <1>4, <1>5, <1>6, <1>7 DEF BillNext

(* The rows that a $group makes of the documents M by their groups G.      *)
RowsOver(M, G, value) ==
  {[id |-> g, sum |-> SumOver({i \in M : G[i] = g}, value)] : g \in {G[i] : i \in M}}

(* There are finitely many rows: each document has one.                    *)
LEMMA RowsAreFinite ==
  ASSUME NEW M, IsFiniteSet(M), NEW G, NEW value
  PROVE  IsFiniteSet(RowsOver(M, G, value))
<1> DEFINE Row(g) == [id |-> g, sum |-> SumOver({i \in M : G[i] = g}, value)]
           f == [i \in M |-> Row(G[i])]
           R == {Row(g) : g \in {G[i] : i \in M}}
<1>1. RowsOver(M, G, value) = R
  BY DEF RowsOver
<1>2. f \in Surjection(M, R)
  <2> HIDE DEF Row
  <2> QED  BY DEF Surjection
<1> HIDE DEF f, R
<1> QED
  BY <1>1, <1>2, FS_Surjection

(* R are the rows, and N the documents, of a key k of the groups.          *)
OfKey(M, G, value, K, k, R, w, N) ==
  /\ \A r : r \in R <=> r \in RowsOver(M, G, value) /\ K[r.id] = k
  /\ \A r \in RowsOver(M, G, value) : w[r] = r.sum
  /\ \A i : i \in N <=> i \in M /\ K[G[i]] = k

(* Adding up these rows is adding up these documents.                      *)
LEMMA RowsOfKey ==
  ASSUME NEW M, IsFiniteSet(M), NEW G, NEW value, \A i \in M : value[i] \in Int, NEW K, NEW k,
         NEW R, NEW w, NEW N, OfKey(M, G, value, K, k, R, w, N)
  PROVE  SumOver(R, w) = SumOver(N, value)
<1> DEFINE Rows == RowsOver(M, G, value)
<1>1. /\ \A r : r \in R <=> r \in Rows /\ K[r.id] = k
      /\ \A r \in Rows : w[r] = r.sum
      /\ \A i : i \in N <=> i \in M /\ K[G[i]] = k
  BY DEF OfKey
<1>2. PICK P : P = [r \in R |-> {i \in M : G[i] = r.id}]
  OBVIOUS
<1>3. ASSUME NEW r \in Rows
      PROVE  /\ \E i \in M : r.id = G[i]
             /\ r = [id |-> r.id, sum |-> SumOver({i \in M : G[i] = r.id}, value)]
  <2>1. PICK i \in M : r = [id |-> G[i], sum |-> SumOver({j \in M : G[j] = G[i]}, value)]
    BY <1>3 DEF RowsOver
  <2>2. r.id = G[i]
    BY <2>1
  <2> QED  BY <2>1, <2>2
<1>4. ASSUME NEW i \in M PROVE \E r \in Rows : r.id = G[i]
  <2>1. [id |-> G[i], sum |-> SumOver({j \in M : G[j] = G[i]}, value)] \in Rows
    BY DEF RowsOver
  <2> QED  BY <2>1
<1>5. \A i : i \in N <=> \E r \in R : i \in P[r]
  <2>1. ASSUME NEW r \in R, NEW i \in P[r] PROVE i \in N
    BY <1>1, <1>2, <2>1
  <2>2. ASSUME NEW i \in N PROVE \E r \in R : i \in P[r]
    <3>1. i \in M /\ K[G[i]] = k
      BY <1>1, <2>2
    <3>2. PICK r \in Rows : r.id = G[i]
      BY <1>4, <3>1
    <3>3. r \in R
      BY <1>1, <3>1, <3>2
    <3>4. P[r] = {j \in M : G[j] = r.id}
      BY <1>2, <3>3
    <3> QED  BY <3>1, <3>2, <3>3, <3>4
  <2> QED  BY <2>1, <2>2
<1>6. IsFiniteSet(R) /\ IsFiniteSet(N)
  <2>1. R \subseteq Rows /\ N \subseteq M
    BY <1>1
  <2> QED  BY <2>1, RowsAreFinite, FS_Subset
<1>7. \A r \in R : w[r] = SumOver(P[r], value)
  <2>1. ASSUME NEW r \in R PROVE w[r] = SumOver(P[r], value)
    <3>1. r \in Rows /\ w[r] = r.sum /\ P[r] = {i \in M : G[i] = r.id}
      BY <1>1, <1>2
    <3>2. r.sum = SumOver({i \in M : G[i] = r.id}, value)
      BY <1>3, <3>1
    <3> QED  BY <3>1, <3>2
  <2> QED  BY <2>1
<1>8. \A i \in N : value[i] \in Int
  BY <1>1
<1>9. \A r, q \in R : r # q => P[r] \cap P[q] = {}
  <2>1. ASSUME NEW r \in R, NEW q \in R, NEW i \in P[r] \cap P[q] PROVE r = q
    <3>1. r \in Rows /\ q \in Rows /\ r.id = q.id
      BY <1>1, <1>2, <2>1
    <3> QED  BY <1>3, <3>1
  <2> QED  BY <2>1
<1>10. InParts(R, P, N, w, value)
  BY <1>5, <1>6, <1>7, <1>8, <1>9 DEF InParts
<1> QED
  BY <1>10, SumOfSums

(* Documents added up one by one, each under its key k[i] or under all its *)
(* keys.                                                                   *)
TotalsOver(M, k, value) ==
  {[key |-> x, value |-> SumOver({i \in M : k[i] = x}, value)] : x \in {k[i] : i \in M}}

AddedUp(M, keys, value) ==
  {[key |-> x, value |-> SumOver({i \in M : x \in keys[i]}, value)] :
     x \in UNION {keys[i] : i \in M}}

(* The rows have the keys key, and the documents the keys k, of their      *)
(* groups.                                                                 *)
KeysOfGroups(M, G, Rows, K, key, k) ==
  /\ key = [r \in Rows |-> K[r.id]]
  /\ k = [i \in M |-> K[G[i]]]

(* So the totals of the rows are the totals of the documents.              *)
LEMMA TotalsOfRows ==
  ASSUME NEW M, IsFiniteSet(M), NEW G, NEW value, \A i \in M : value[i] \in Int, NEW Rows,
         Rows = RowsOver(M, G, value), NEW K, NEW key, NEW k, KeysOfGroups(M, G, Rows, K, key, k)
  PROVE  Totals(Rows, key) = TotalsOver(M, k, value)
<1>1. PICK w : w = [r \in Rows |-> r.sum]
  OBVIOUS
<1>2. /\ \A r \in Rows : key[r] = K[r.id] /\ w[r] = r.sum
      /\ \A i \in M : k[i] = K[G[i]]
  BY <1>1 DEF KeysOfGroups
<1>3. {key[r] : r \in Rows} = {k[i] : i \in M}
  <2>1. ASSUME NEW r \in Rows PROVE \E i \in M : key[r] = k[i]
    <3>1. PICK i \in M : r = [id |-> G[i], sum |-> SumOver({j \in M : G[j] = G[i]}, value)]
      BY <2>1 DEF RowsOver
    <3>2. r.id = G[i]
      BY <3>1
    <3> QED  BY <1>2, <3>2
  <2>2. ASSUME NEW i \in M PROVE \E r \in Rows : key[r] = k[i]
    <3>1. PICK r \in Rows : r = [id |-> G[i], sum |-> SumOver({j \in M : G[j] = G[i]}, value)]
      BY DEF RowsOver
    <3> QED  BY <1>2, <3>1
  <2> QED  BY <2>1, <2>2
<1> DEFINE A(x) == [key |-> x, value |-> SumOver({r \in Rows : key[r] = x}, w)]
           B(x) == [key |-> x, value |-> SumOver({i \in M : k[i] = x}, value)]
           Ks == {k[i] : i \in M}
<1>4. ASSUME NEW x PROVE A(x) = B(x)
  <2>1. PICK R, N : R = {r \in Rows : key[r] = x} /\ N = {i \in M : k[i] = x}
    OBVIOUS
  <2>2. OfKey(M, G, value, K, x, R, w, N)
    BY <1>2, <2>1 DEF OfKey
  <2>3. SumOver(R, w) = SumOver(N, value)
    BY <2>2, RowsOfKey
  <2> QED  BY <2>1, <2>3
<1>5. {A(x) : x \in Ks} = {B(x) : x \in Ks}
  <2> HIDE DEF A, B, Ks
  <2> QED  BY <1>4
<1>6. Totals(Rows, key) = {A(x) : x \in Ks}
  BY <1>1, <1>3 DEF Totals
<1>7. TotalsOver(M, k, value) = {B(x) : x \in Ks}
  BY DEF TotalsOver
<1> QED
  BY <1>5, <1>6, <1>7

(* The keys of a document are the key k that all documents have and, with  *)
(* owners, the key o of its owner, which is another.                       *)
KeysOfBoth(M, k, o, keys, owners) ==
  /\ \A i \in M : keys[i] = {k[i]} \cup (IF owners THEN {o[i]} ELSE {})
  /\ \A i, j \in M : k[i] # o[j]

(* The totals by the keys k and, with owners, those by the keys o are the  *)
(* documents added up under all the keys they have.                        *)
LEMMA TotalsOfBoth ==
  ASSUME NEW M, NEW k, NEW o, NEW keys, NEW owners \in BOOLEAN, NEW value,
         KeysOfBoth(M, k, o, keys, owners)
  PROVE  TotalsOver(M, k, value) \cup (IF ~owners THEN {} ELSE TotalsOver(M, o, value))
           = AddedUp(M, keys, value)
<1> DEFINE A(x) == [key |-> x, value |-> SumOver({i \in M : k[i] = x}, value)]
           B(x) == [key |-> x, value |-> SumOver({i \in M : o[i] = x}, value)]
           C(x) == [key |-> x, value |-> SumOver({i \in M : x \in keys[i]}, value)]
           Ks == {k[i] : i \in M}
           Os == {o[i] : i \in M}
<1> USE DEF KeysOfBoth
<1>1. ASSUME NEW x \in Ks PROVE A(x) = C(x)
  <2>1. {i \in M : k[i] = x} = {i \in M : x \in keys[i]}
    OBVIOUS
  <2> QED  BY <2>1
<1>2. ASSUME owners, NEW x \in Os PROVE B(x) = C(x)
  <2>1. {i \in M : o[i] = x} = {i \in M : x \in keys[i]}
    BY <1>2
  <2> QED  BY <2>1
<1>3. UNION {keys[i] : i \in M} = Ks \cup (IF owners THEN Os ELSE {})
  OBVIOUS
<1>4. {A(x) : x \in Ks} \cup (IF ~owners THEN {} ELSE {B(x) : x \in Os})
        = {C(x) : x \in Ks \cup (IF owners THEN Os ELSE {})}
  <2> HIDE DEF A, B, C, Ks, Os
  <2> QED  BY <1>1, <1>2
<1> QED
  BY <1>3, <1>4 DEF TotalsOver, AddedUp

Groups == [owner : Owners \cup {"none"}, enum : Enums]

(* The rows of the billed documents, which are finitely many and each of a *)
(* group.                                                                  *)
LEMMA RowsOfBilled ==
  ASSUME NEW l \in Seq(Documents), Len(l) <= MaxDocs, NEW n \in 0..Len(l), NEW end,
         NEW owners \in BOOLEAN, NEW value, NEW M, M = BilledOf(l, n, end),
         NEW G, G = [i \in M |-> GroupOf(l, i, owners)]
  PROVE  /\ RowsOf(l, n, end, owners, value) = RowsOver(M, G, value)
         /\ IsFiniteSet(M) /\ M \subseteq 1..MaxDocs /\ M \subseteq 1..n
         /\ \A i \in M : G[i] \in Groups
<1>1. M \subseteq 1..n /\ n \in Nat /\ n <= MaxDocs /\ MaxDocs \in Nat
  BY BillingAssumption DEF BilledOf
<1>2. IsFiniteSet(M) /\ M \subseteq 1..MaxDocs
  <2>1. IsFiniteSet(1..n) /\ 1..n \subseteq 1..MaxDocs
    BY <1>1, FS_Interval
  <2> QED  BY <1>1, <2>1, FS_Subset
<1>3. ASSUME NEW i \in M PROVE G[i] \in Groups
  <2>1. l[i] \in Documents
    BY <1>1
  <2> QED  BY <2>1 DEF GroupOf, Groups, Documents
<1>4. /\ \A i \in M : G[i] = GroupOf(l, i, owners)
      /\ {GroupOf(l, i, owners) : i \in M} = {G[i] : i \in M}
  OBVIOUS
<1> DEFINE A(g) == [id |-> g, sum |-> SumOver({i \in M : GroupOf(l, i, owners) = g}, value)]
           B(g) == [id |-> g, sum |-> SumOver({i \in M : G[i] = g}, value)]
           Gs == {G[i] : i \in M}
<1>5. ASSUME NEW g PROVE A(g) = B(g)
  <2>1. {i \in M : GroupOf(l, i, owners) = g} = {i \in M : G[i] = g}
    BY <1>4
  <2> QED  BY <2>1
<1>6. {A(g) : g \in Gs} = {B(g) : g \in Gs}
  <2> HIDE DEF A, B, Gs
  <2> QED  BY <1>5
<1>7. RowsOf(l, n, end, owners, value) = {A(g) : g \in Gs}
  BY <1>4 DEF RowsOf
<1>8. RowsOver(M, G, value) = {B(g) : g \in Gs}
  BY DEF RowsOver
<1> QED
  BY <1>1, <1>2, <1>3, <1>6, <1>7, <1>8

(* The rows have the keys and the owners' keys of their groups, and a      *)
(* document of l that of its group and, with owners, that of its owner,    *)
(* which no group has.                                                     *)
KeysOf(l, n, owners, Rows, K, L, key, ownerKey, keys) ==
  /\ key = [r \in Rows |-> K[r.id]] /\ ownerKey = [r \in Rows |-> L[r.id]]
  /\ \A g, h \in Groups : K[g] # L[h]
  /\ \A i \in 1..n : keys[i] = {K[GroupOf(l, i, owners)]}
                                 \cup (IF owners THEN {L[GroupOf(l, i, owners)]} ELSE {})

(* Half of the bill, usage or amounts: what aggregateBillingRows adds up   *)
(* of the rows is what adding up the documents one by one gives.           *)
LEMMA HalfOfTheBill ==
  ASSUME NEW l \in Seq(Documents), Len(l) <= MaxDocs, NEW n \in 0..Len(l), NEW end,
         NEW owners \in BOOLEAN, NEW value, \A i \in 1..MaxDocs : value[i] \in Int,
         NEW Rows, Rows = RowsOf(l, n, end, owners, value), NEW K, NEW L,
         NEW key, NEW ownerKey, NEW keys, KeysOf(l, n, owners, Rows, K, L, key, ownerKey, keys)
  PROVE  Totals(Rows, key) \cup (IF ~owners THEN {} ELSE Totals(Rows, ownerKey))
         = AddedUp(BilledOf(l, n, end), keys, value)
<1>1. PICK M, G : M = BilledOf(l, n, end) /\ G = [i \in M |-> GroupOf(l, i, owners)]
  OBVIOUS
<1>2. /\ Rows = RowsOver(M, G, value) /\ IsFiniteSet(M)
      /\ \A i \in M : i \in 1..n /\ G[i] \in Groups /\ value[i] \in Int
  BY <1>1, RowsOfBilled
<1>3. PICK k, o : /\ KeysOfGroups(M, G, Rows, K, key, k)
                  /\ KeysOfGroups(M, G, Rows, L, ownerKey, o)
  BY Zenon DEF KeysOf, KeysOfGroups
<1>4. /\ Totals(Rows, key) = TotalsOver(M, k, value)
      /\ Totals(Rows, ownerKey) = TotalsOver(M, o, value)
  BY <1>2, <1>3, TotalsOfRows
<1>5. KeysOfBoth(M, k, o, keys, owners)
  BY <1>1, <1>2, <1>3 DEF KeysOf, KeysOfGroups, KeysOfBoth
<1>6. TotalsOver(M, k, value) \cup (IF ~owners THEN {} ELSE TotalsOver(M, o, value))
        = AddedUp(M, keys, value)
  BY <1>5, TotalsOfBoth
<1> QED
  BY <1>1, <1>4, <1>6

(* The usage and the amount of a document are numbers.                     *)
LEMMA ValuesAreInts == \A i \in 1..MaxDocs : Used[i] \in Int /\ Amount[i] \in Int
  BY BillingAssumption DEF Used, Amount

(* A label is not the missing one, so the two kinds of keys are apart.     *)
LEMMA LabelsApart ==
  ASSUME NEW p, NEW e, NEW f, NEW owner
  PROVE  /\ UsageKey(p, Unlabelled, e) # UsageKey(p, <<owner>>, f)
         /\ AmountKey(p, Unlabelled, e) # AmountKey(p, <<owner>>, f)
<1>1. Unlabelled # <<owner>>
  <2>1. Len(<<>>) = 0 /\ Len(<<owner>>) = 1
    OBVIOUS
  <2> QED  BY <2>1 DEF Unlabelled
<1>2. PICK u, w : u = Unlabelled /\ w = <<owner>>
  OBVIOUS
<1> HIDE DEF Unlabelled
<1> QED
  BY <1>1, <1>2 DEF UsageKey, AmountKey

(* What a scrape emits of a snapshot of its hour is what adding up the     *)
(* documents of that hour gives.                                           *)
LEMMA BillOfTheHour == BillHourInv => SnapshotIsTheBill
<1> SUFFICES ASSUME BillHourInv, billSnapshot # <<>> PROVE SnapshotIsTheBill
  BY DEF SnapshotIsTheBill
<1>1. PICK l, owners, p, used, amount, end :
        /\ l = ledger /\ owners = ownerMetrics /\ p = billSnapshot.properties
        /\ used = billSnapshot.usedOf /\ amount = billSnapshot.amountOf
        /\ end = billSnapshot.window.end
  OBVIOUS
<1>2. /\ l \in Seq(Documents) /\ Len(l) <= MaxDocs /\ owners \in BOOLEAN
      /\ used \in 0..Len(l) /\ amount \in 0..Len(l) /\ end <= billClock
  BY <1>1 DEF BillHourInv, BillInv, BillTypeOK, SnapshotOfItsHour
<1>3. PICK rows, amounts : /\ rows = RowsOf(l, used, end, owners, Used)
                           /\ amounts = RowsOf(l, amount, end, owners, Amount)
  OBVIOUS
<1>4. billSnapshot.totals = aggregateBillingRows(rows, amounts, p)
  BY <1>1, <1>3 DEF BillHourInv, SnapshotOfItsHour
<1> DEFINE o(i) == {Unlabelled} \union (IF owners THEN {<<l[i].owner>>} ELSE {})
           UsageKeys == [i \in DOMAIN l |-> {UsageKey(p, w, l[i].enum) : w \in o(i)}]
           AmountKeys == [i \in DOMAIN l |-> {AmountKey(p, w, l[i].enum) : w \in o(i)}]
           K == [g \in Groups |-> UsageKey(p, Unlabelled, g.enum)]
           L == [g \in Groups |-> UsageKey(p, <<g.owner>>, g.enum)]
           AK == [g \in Groups |-> AmountKey(p, Unlabelled, g.enum)]
           AL == [g \in Groups |-> AmountKey(p, <<g.owner>>, g.enum)]
<1>5. ASSUME NEW i \in 1..Len(l)
      PROVE  /\ GroupOf(l, i, owners) \in Groups /\ GroupOf(l, i, owners).enum = l[i].enum
             /\ owners => GroupOf(l, i, owners).owner = l[i].owner
  <2>1. l[i] \in Documents
    BY <1>2
  <2> QED  BY <2>1 DEF GroupOf, Groups, Documents
<1>6. ASSUME NEW n \in 0..Len(l), NEW value, NEW r \in RowsOf(l, n, end, owners, value)
      PROVE  r.id \in Groups
  <2>1. PICK i \in BilledOf(l, n, end) : r.id = GroupOf(l, i, owners)
    <3>1. PICK g \in {GroupOf(l, i, owners) : i \in BilledOf(l, n, end)} :
            r = [id |-> g, sum |-> SumOver({i \in BilledOf(l, n, end) :
                                              GroupOf(l, i, owners) = g}, value)]
      BY <1>6 DEF RowsOf
    <3> QED  BY <3>1
  <2>2. i \in 1..Len(l)
    BY <1>2 DEF BilledOf
  <2> QED  BY <1>5, <2>1, <2>2
<1>7. PICK key, ownerKey, amountKey, ownerAmountKey :
        /\ key = [r \in rows |-> UsageKey(p, Unlabelled, r.id.enum)]
        /\ ownerKey = [r \in rows |-> UsageKey(p, <<r.id.owner>>, r.id.enum)]
        /\ amountKey = [r \in amounts |-> AmountKey(p, Unlabelled, r.id.enum)]
        /\ ownerAmountKey = [r \in amounts |-> AmountKey(p, <<r.id.owner>>, r.id.enum)]
  OBVIOUS
<1>8. /\ key = [r \in rows |-> K[r.id]] /\ ownerKey = [r \in rows |-> L[r.id]]
      /\ amountKey = [r \in amounts |-> AK[r.id]] /\ ownerAmountKey = [r \in amounts |-> AL[r.id]]
  BY <1>2, <1>3, <1>6, <1>7
<1>9. KeysOf(l, used, owners, rows, K, L, key, ownerKey, UsageKeys)
  <2>1. \A g, h \in Groups : K[g] # L[h]
    BY LabelsApart
  <2>2. ASSUME NEW i \in 1..used
        PROVE  UsageKeys[i] = {K[GroupOf(l, i, owners)]}
                                \cup (IF owners THEN {L[GroupOf(l, i, owners)]} ELSE {})
    <3>1. i \in 1..Len(l) /\ i \in DOMAIN l
      BY <1>2
    <3>2. UsageKeys[i] = {UsageKey(p, w, l[i].enum) : w \in o(i)}
      BY <3>1
    <3>3. /\ K[GroupOf(l, i, owners)] = UsageKey(p, Unlabelled, l[i].enum)
          /\ owners => L[GroupOf(l, i, owners)] = UsageKey(p, <<l[i].owner>>, l[i].enum)
      BY <1>5, <3>1
    <3> HIDE DEF K, L, UsageKeys
    <3> QED  BY <3>2, <3>3
  <2> HIDE DEF K, L, UsageKeys
  <2> QED  BY <1>8, <2>1, <2>2 DEF KeysOf
<1>10. KeysOf(l, amount, owners, amounts, AK, AL, amountKey, ownerAmountKey, AmountKeys)
  <2>1. \A g, h \in Groups : AK[g] # AL[h]
    BY LabelsApart
  <2>2. ASSUME NEW i \in 1..amount
        PROVE  AmountKeys[i] = {AK[GroupOf(l, i, owners)]}
                                 \cup (IF owners THEN {AL[GroupOf(l, i, owners)]} ELSE {})
    <3>1. i \in 1..Len(l) /\ i \in DOMAIN l
      BY <1>2
    <3>2. AmountKeys[i] = {AmountKey(p, w, l[i].enum) : w \in o(i)}
      BY <3>1
    <3>3. /\ AK[GroupOf(l, i, owners)] = AmountKey(p, Unlabelled, l[i].enum)
          /\ owners => AL[GroupOf(l, i, owners)] = AmountKey(p, <<l[i].owner>>, l[i].enum)
      BY <1>5, <3>1
    <3> HIDE DEF AK, AL, AmountKeys
    <3> QED  BY <3>2, <3>3
  <2> HIDE DEF AK, AL, AmountKeys
  <2> QED  BY <1>8, <2>1, <2>2 DEF KeysOf
<1> HIDE DEF K, L, AK, AL, UsageKeys, AmountKeys
<1>11. Totals(rows, key) \cup (IF ~owners THEN {} ELSE Totals(rows, ownerKey))
         = AddedUp(BilledOf(l, used, end), UsageKeys, Used)
  BY <1>2, <1>3, <1>9, ValuesAreInts, HalfOfTheBill
<1>12. Totals(amounts, amountKey) \cup (IF ~owners THEN {} ELSE Totals(amounts, ownerAmountKey))
         = AddedUp(BilledOf(l, amount, end), AmountKeys, Amount)
  BY <1>2, <1>3, <1>10, ValuesAreInts, HalfOfTheBill
<1>13. aggregateBillingRows(rows, amounts, p)
         = [resources |-> Totals(rows, key),
            ownerResources |-> IF ~owners THEN {} ELSE Totals(rows, ownerKey),
            resourceAmounts |-> Totals(amounts, amountKey),
            ownerResourceAmounts |-> IF ~owners THEN {} ELSE Totals(amounts, ownerAmountKey)]
  BY <1>1, <1>7 DEF aggregateBillingRows
<1>14. emitSnapshotMetrics = AddedUp(BilledOf(l, used, end), UsageKeys, Used)
                               \cup AddedUp(BilledOf(l, amount, end), AmountKeys, Amount)
  BY <1>4, <1>11, <1>12, <1>13 DEF emitSnapshotMetrics
<1>15. ASSUME NEW n, NEW value, NEW keys
       PROVE  aggregateBillingDocuments(n, value, keys) = AddedUp(BilledOf(l, n, end), keys, value)
  BY <1>1 DEF aggregateBillingDocuments, AddedUp, BilledOf
<1>16. /\ UsageKeys = [i \in DOMAIN ledger |->
              {UsageKey(billSnapshot.properties, w, ledger[i].enum) :
                 w \in {Unlabelled} \union (IF ownerMetrics THEN {<<ledger[i].owner>>} ELSE {})}]
       /\ AmountKeys = [i \in DOMAIN ledger |->
              {AmountKey(billSnapshot.properties, w, ledger[i].enum) :
                 w \in {Unlabelled} \union (IF ownerMetrics THEN {<<ledger[i].owner>>} ELSE {})}]
  BY <1>1 DEF UsageKeys, AmountKeys
<1> QED
  BY <1>1, <1>2, <1>14, <1>15, <1>16 DEF SnapshotIsTheBill

(* For any hour, any clock and any documents, written at any moment of a   *)
(* poll: the snapshot is the bill of one hour that is over.  Each of its   *)
(* halves is what adding up one by one the documents of that hour the      *)
(* query saw gives, those on the boundary once, although MongoDB adds up   *)
(* groups and the collector adds up their rows (billing.go, Poll,          *)
(* queryBillingAggregates, billingAggregatePipeline and                    *)
(* aggregateBillingRows).                                                  *)
THEOREM SnapshotsAreTheBill == BillSpec => []SnapshotIsTheBill
<1> QED
  BY BillHourInitInv, BillHourNextInv, BillOfTheHour, PTL DEF BillSpec

(***************************************************************************)
(* The nine modules together, as the runs check them.                      *)
(***************************************************************************)

MCInv ==
  /\ focus \in Foci
  /\ PullInv /\ NInv /\ SecretTypeOK /\ RvInv /\ CertInv /\ ProbeInv
  /\ BillHourInv /\ BalInv /\ HInv

(* A module that is not in focus starts in one of its own initial states.  *)
LEMMA MCInitInv == MCInit => MCInv
<1> SUFFICES ASSUME MCInit PROVE MCInv
  OBVIOUS
<1>1. /\ focus \in Foci /\ PullInit /\ NodeInit /\ SecretInit /\ ReviewInit
      /\ CertInit /\ ProbeInit /\ BillInit /\ BalInit /\ HookInit
  BY DEF MCInit, SecretRests, ReviewRests, CertRests, ProbeRests, BillRests, BalRests, HookRests
<1> QED
  BY <1>1, PullInitInv, NodeInitInv, SecretInitType, ReviewInitInv, CertInitInv,
     ProbeInitInv, BillHourInitInv, BalInitInv, HookInitInv DEF MCInv

(* A step is a step or a stutter of each of the nine modules.              *)
LEMMA MCStepsOfEach ==
  ASSUME [MCNext]_vars
  PROVE  /\ UNCHANGED focus
         /\ [PullNext]_pullVars     /\ [NodeNext]_nodeVars   /\ [SecretNext]_secretVars
         /\ [ReviewNext]_reviewVars /\ [CertNext]_certVars   /\ [ProbeNext]_probeVars
         /\ [BillNext]_billVars     /\ [BalNext]_balVars     /\ [HookNext]_hookVars
<1>1. CASE MCNext
  BY <1>1 DEF MCNext
<1>2. CASE UNCHANGED vars
  BY <1>2 DEF vars
<1> QED
  BY <1>1, <1>2

(* So each module keeps its own invariant.                                 *)
LEMMA MCNextInv == MCInv /\ [MCNext]_vars => MCInv'
<1> SUFFICES ASSUME MCInv, [MCNext]_vars PROVE MCInv'
  OBVIOUS
<1>1. /\ UNCHANGED focus
      /\ [PullNext]_pullVars     /\ [NodeNext]_nodeVars   /\ [SecretNext]_secretVars
      /\ [ReviewNext]_reviewVars /\ [CertNext]_certVars   /\ [ProbeNext]_probeVars
      /\ [BillNext]_billVars     /\ [BalNext]_balVars     /\ [HookNext]_hookVars
  BY MCStepsOfEach
<1>2. PullInv' /\ NInv' /\ SecretTypeOK' /\ RvInv' /\ CertInv'
  BY <1>1, PullNextInv, NodeNextInv, SecretNextType, ReviewNextInv, CertNextInv DEF MCInv
<1>3. ProbeInv' /\ BillHourInv' /\ BalInv' /\ HInv'
  BY <1>1, ProbeNextInv, BillHourNextInv, BalNextInv, HookNextInv DEF MCInv
<1> QED
  BY <1>1, <1>2, <1>3 DEF MCInv

(* Of whichever collector is in focus, the variables keep their types.     *)
LEMMA MCInvType == MCInv => TypeOK
<1>1. MCInv => focus \in {"pull", "node", "secret", "review", "cert", "probe", "bill",
                         "balance", "hooks"}
  BY FociAssumption DEF MCInv
<1>2. MCInv => /\ PullTypeOK /\ NodeTypeOK /\ SecretTypeOK /\ ReviewTypeOK /\ CertTypeOK
               /\ ProbeTypeOK /\ BillTypeOK /\ BalTypeOK /\ HookTypeOK
  BY DEF MCInv, PullInv, NInv, RvInv, CertInv, ProbeInv, BillHourInv, BillInv, BalInv, HInv
<1> QED
  BY <1>1, <1>2 DEF TypeOK

(* For every value of the constants: in every behaviour of the collectors  *)
(* and caches that share nothing (pkg/collector/imagepull, node, zombie,   *)
(* crds, domain, registryproxy, billing, userbalance, cloudbalance and the *)
(* secret cache of database; pkg/auth; pkg/tlscache) the variables keep    *)
(* their types, a scrape shows what the pods, the nodes and the checked    *)
(* addresses say, a snapshot is the bill, an account has one source,       *)
(* grants are recent, and Stop leaves no informer behind.                  *)
THEOREM CollectorsCorrect ==
  MCSpec => [](/\ TypeOK /\ PullsMirrorPods /\ AnswersAreOfThisNode /\ GrantIsRecent
               /\ ProbeCountsAreChecked /\ SnapshotIsTheBill /\ OneSourcePerUser
               /\ StopEndsInformers)
<1>1. MCInv => PullsMirrorPods /\ AnswersAreOfThisNode /\ OneSourcePerUser /\ SnapshotIsTheBill
  BY NInvAnswers, BillOfTheHour DEF MCInv, PullInv, BalInv
<1>2. MCInv => GrantIsRecent
  BY DEF MCInv, RvInv, Sound, GrantIsRecent
<1>3. MCInv => ProbeCountsAreChecked
  BY ProbeInvCounts DEF MCInv
<1>4. MCInv => StopEndsInformers
  BY DEF MCInv, HInv, StopEndsInformers, RunsOnCurrent, StopUnderWay, HooksAtRest, InFlight
<1> QED
  BY <1>1, <1>2, <1>3, <1>4, MCInvType, MCInitInv, MCNextInv, PTL DEF MCSpec
=============================================================================
