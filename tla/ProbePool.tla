----------------------------- MODULE ProbePool -----------------------------
(***************************************************************************)
(* The domain and the registry proxy collectors (pkg/collector/domain,     *)
(* registryproxy), which are built alike: the configured targets are       *)
(* parsed once; a poll checks all of them concurrently, and the addresses  *)
(* of a target with a pool of workers; what a target's goroutine counted   *)
(* is merged into new maps, and these replace the old ones.  The results   *)
(* of the addresses are shared by reference up to the scrape.              *)
(***************************************************************************)
EXTENDS Naturals, FiniteSets

CONSTANTS
  MaxIPs,      \* bound: addresses of the first target; the other has one at most
  MaxWorkers   \* maxConcurrentIPChecks

ASSUME ProbeAssumption == MaxIPs \in Nat \ {0} /\ MaxWorkers \in Nat \ {0}

Targets == {1, 2}              \* the configured entries, in their order
Checks  == {"first", "second"} \* HTTP and certificate; API and manifest
Workers == 1..MaxWorkers

VARIABLES
  probeKind,   \* "domain" or "registry"
  checks,      \* the checks that the configuration enables
  oneEndpoint, \* both entries name the same endpoint
  entry,       \* what an entry was parsed to
  probing,     \* where the collector is
  probeCtx,    \* the poll's context is live
  job,         \* CheckIPs of each target
  hand,        \* the address that a worker of a target's pool works on
  result,      \* the IPHealth of a target's addresses: whether its enabled
               \* checks passed, or it was not checked
  newHealth,   \* the poll's new map: the job that wrote the entry
  health       \* c.domains, c.registries

probeVars == <<probeKind, checks, oneEndpoint, entry, probing, probeCtx, job,
               hand, result, newHealth, health>>

NoJob     == [at |-> "none", ips |-> 0, next |-> 1, ok |-> TRUE, healthy |-> 0]
AtChannel == 0            \* the worker waits for an index
Returned  == MaxIPs + 1   \* the worker has returned, or was never launched

ProbeTypeOK ==
  /\ probeKind \in {"domain", "registry"}
  /\ checks \subseteq Checks
  /\ oneEndpoint \in BOOLEAN
  /\ entry \in [Targets -> {"unread", "skipped", "named", "fixed"}]
  /\ probing \in {"parse", "refused", "idle", "poll", "done"}
  /\ probeCtx \in BOOLEAN
  /\ job \in [Targets -> [at : {"none", "resolve", "serial", "enqueue", "wait", "counted",
                                "merged"},
                          ips : 0..MaxIPs, next : 1..(MaxIPs + 1), ok : BOOLEAN,
                          healthy : 0..MaxIPs]]
  /\ hand \in [Targets -> [Workers -> 0..(MaxIPs + 1)]]
  /\ result \in [Targets -> [1..MaxIPs -> {"unread", "passed", "failed"}]]
  /\ newHealth \in [Targets -> {0} \union Targets]
  /\ health \in [Targets -> {0} \union Targets]

ProbeInit ==
  /\ \/ probeKind = "domain" /\ checks \in {{}, {"second"}, Checks}
     \/ probeKind = "registry" /\ checks = Checks
  /\ oneEndpoint \in BOOLEAN
  /\ entry = [t \in Targets |-> "unread"]
  /\ probing = "parse"
  /\ probeCtx = TRUE
  /\ job = [t \in Targets |-> NoJob]
  /\ hand = [t \in Targets |-> [w \in Workers |-> Returned]]
  /\ result = [t \in Targets |-> [i \in 1..MaxIPs |-> "unread"]]
  /\ newHealth = [t \in Targets |-> 0]
  /\ health = [t \in Targets |-> 0]

-----------------------------------------------------------------------------
(* newRuntimeConfig.  An entry is a string, a map, or something else; its endpoint
   is blank, bad (or lacks a repository or reference), or good; it lists addresses,
   none, or something that is no address (or no status).  A blank string is
   skipped; any other fault refuses the whole configuration. *)
Forms      == {"string", "map", "other"}
Endpoints  == {"blank", "bad", "good"}
AddressOf  == {"none", "bad", "some"}

FaultyRegistry(e) == e.endpoint # "good" \/ e.ips = "bad"
FaultyDomain(e)   == \/ e.endpoint = "bad" \/ e.form = "other"
                     \/ e.form = "map" /\ (e.endpoint = "blank" \/ e.ips = "bad")
Faulty(e)         == IF probeKind = "registry" THEN FaultyRegistry(e) ELSE FaultyDomain(e)

Parsed(e) == CASE e.endpoint = "blank" -> "skipped"
               [] e.form = "map" /\ e.ips = "some" -> "fixed"
               [] OTHER -> "named"

Unparsed(t) == entry[t] = "unread" /\ \A s \in Targets : s < t => entry[s] # "unread"

ParseEntry(t, e) ==
  /\ probing = "parse" /\ Unparsed(t)
  /\ probeKind = "registry" => e.form = "map"
  /\ IF Faulty(e)
     THEN probing' = "refused" /\ UNCHANGED entry
     ELSE /\ entry' = [entry EXCEPT ![t] = Parsed(e)]
          /\ probing' = IF \A s \in Targets \ {t} : entry[s] # "unread" THEN "idle" ELSE "parse"
  /\ UNCHANGED <<probeKind, checks, oneEndpoint, probeCtx, job, hand,
                 result, newHealth, health>>

-----------------------------------------------------------------------------
Monitored == {t \in Targets : entry[t] # "skipped"}

(* Poll: new maps, and a goroutine for each target. *)
BeginPoll ==
  /\ probing = "idle"
  /\ IF Monitored = {}
     THEN probing' = "done" /\ UNCHANGED job
     ELSE /\ probing' = "poll"
          /\ job' = [t \in Targets |-> IF t \in Monitored THEN [NoJob EXCEPT !.at = "resolve"]
                                                          ELSE NoJob]
  /\ UNCHANGED <<probeKind, checks, oneEndpoint, entry, probeCtx,
                 hand, result, newHealth, health>>

CancelPoll ==
  /\ probing = "poll" /\ probeCtx
  /\ probeCtx' = FALSE
  /\ UNCHANGED <<probeKind, checks, oneEndpoint, entry, probing, job,
                 hand, result, newHealth, health>>

Gets(t, n) == job' = [job EXCEPT ![t].ips = n, ![t].at = IF n <= 1 THEN "serial" ELSE "enqueue"]

(* The addresses of a target: the configured ones, or what the name resolves to
   (the domain collector's checkDNS is always set).  No address found is a failure
   to a domain, but not to a registry proxy. *)
Resolve(t, n) ==
  /\ job[t].at = "resolve"
  /\ t = 1 \/ n <= 1
  /\ entry[t] = "fixed" => n > 0
  /\ IF n = 0 /\ probeKind = "domain"
     THEN job' = [job EXCEPT ![t].ok = FALSE, ![t].at = "counted"]
     ELSE Gets(t, n)
  /\ hand' = [hand EXCEPT ![t] = [w \in Workers |->
                IF n > 1 /\ w <= n THEN AtChannel ELSE Returned]]
  /\ UNCHANGED <<probeKind, checks, oneEndpoint, entry, probing,
                 probeCtx, result, newHealth, health>>

ResolveFails(t) ==
  /\ job[t].at = "resolve" /\ entry[t] = "named"
  /\ job' = [job EXCEPT ![t].ok = FALSE, ![t].at = "counted"]
  /\ UNCHANGED <<probeKind, checks, oneEndpoint, entry, probing,
                 probeCtx, hand, result, newHealth, health>>

(* How a server may answer: not in time or not at all, with a certificate that
   is not valid now, or with a status.  An HTTP check wants the certificate to
   be good and, unless told otherwise, any status below 500; the API check a
   status of success or the demand to log in, the manifest check a success. *)
Answers == {"none", "expired", "2xx", "3xx", "401", "4xx", "5xx"}

isExpectedHTTPStatus(a) == a \in {"2xx", "3xx", "401", "4xx"}
isRegistryAPIStatus(a)  == a \in {"2xx", "401"}
checkHTTP(a)            == isExpectedHTTPStatus(a)
checkCert(a)            == a \notin {"none", "expired"}
checkRegistryEndpoint(manifest, a) ==
  IF manifest THEN a = "2xx" ELSE isRegistryAPIStatus(a)

Passes(c, a) ==
  CASE probeKind = "domain" /\ c = "first"    -> checkHTTP(a)
    [] probeKind = "domain" /\ c = "second"   -> checkCert(a)
    [] probeKind = "registry" /\ c = "first"  -> checkRegistryEndpoint(FALSE, a)
    [] OTHER -> checkRegistryEndpoint(TRUE, a)

(* With a context that is done there is no answer, but for the certificate
   check, which does not look at the context. *)
AnswersTo(c) ==
  IF probeCtx \/ (probeKind = "domain" /\ c = "second") THEN Answers ELSE {"none"}

(* The enabled checks of an address, each with an answer of its own. *)
runIPChecks(t, i) ==
  \E r \in {"passed", "failed"} :
    /\ IF r = "passed"
       THEN \A c \in checks : \E a \in AnswersTo(c) : Passes(c, a)
       ELSE \E c \in checks : \E a \in AnswersTo(c) : ~Passes(c, a)
    /\ result' = [result EXCEPT ![t][i] = r]

(* A single address is checked by the target's goroutine itself. *)
SerialCheck(t) ==
  /\ job[t].at = "serial" /\ job[t].next <= job[t].ips
  /\ runIPChecks(t, job[t].next)
  /\ job' = [job EXCEPT ![t].next = @ + 1]
  /\ UNCHANGED <<probeKind, checks, oneEndpoint, entry, probing,
                 probeCtx, hand, newHealth, health>>

(* An index goes from the target's goroutine to a waiting worker. *)
Enqueue(t, w) ==
  /\ job[t].at = "enqueue" /\ job[t].next <= job[t].ips
  /\ hand[t][w] = AtChannel
  /\ hand' = [hand EXCEPT ![t][w] = job[t].next]
  /\ job' = [job EXCEPT ![t].next = @ + 1]
  /\ UNCHANGED <<probeKind, checks, oneEndpoint, entry, probing,
                 probeCtx, result, newHealth, health>>

(* All indices are out, or the context is done: close(indexCh). *)
CloseIndex(t) ==
  /\ job[t].at = "enqueue"
  /\ job[t].next > job[t].ips \/ ~probeCtx
  /\ job' = [job EXCEPT ![t].at = "wait"]
  /\ UNCHANGED <<probeKind, checks, oneEndpoint, entry, probing,
                 probeCtx, hand, result, newHealth, health>>

WorkerChecks(t, w) ==
  /\ hand[t][w] \in 1..MaxIPs
  /\ runIPChecks(t, hand[t][w])
  /\ hand' = [hand EXCEPT ![t][w] = AtChannel]
  /\ UNCHANGED <<probeKind, checks, oneEndpoint, entry, probing,
                 probeCtx, job, newHealth, health>>

WorkerReturns(t, w) ==
  /\ job[t].at = "wait" /\ hand[t][w] = AtChannel
  /\ hand' = [hand EXCEPT ![t][w] = Returned]
  /\ UNCHANGED <<probeKind, checks, oneEndpoint, entry, probing,
                 probeCtx, job, result, newHealth, health>>

(* The addresses whose enabled checks all passed: with no check enabled, also
   the ones that no worker came to. *)
HealthyIPs(t) == {i \in 1..job[t].ips : result[t][i] = "passed" \/ checks = {}}

SlipCheckedAll(t) ==
  \/ job[t].at = "serial" /\ job[t].next > job[t].ips
  \/ job[t].at = "wait"

(* wg.Wait. *)
CheckedAll(t) ==
  \/ job[t].at = "serial" /\ job[t].next > job[t].ips
  \/ job[t].at = "wait" /\ \A w \in Workers : hand[t][w] = Returned

CountHealthy(t) ==
  /\ CheckedAll(t)
  /\ job' = [job EXCEPT ![t].healthy = Cardinality(HealthyIPs(t)), ![t].at = "counted"]
  /\ UNCHANGED <<probeKind, checks, oneEndpoint, entry, probing,
                 probeCtx, hand, result, newHealth, health>>

(* The maps' key: entries with the same endpoint write one entry. *)
Key(t) == IF oneEndpoint THEN 1 ELSE t

Merge(t) ==
  /\ job[t].at = "counted"
  /\ newHealth' = [newHealth EXCEPT ![Key(t)] = t]
  /\ job' = [job EXCEPT ![t].at = "merged"]
  /\ UNCHANGED <<probeKind, checks, oneEndpoint, entry, probing,
                 probeCtx, hand, result, health>>

PublishHealth ==
  /\ probing = "poll" /\ \A t \in Monitored : job[t].at = "merged"
  /\ health' = newHealth
  /\ probing' = "done"
  /\ UNCHANGED <<probeKind, checks, oneEndpoint, entry, probeCtx, job,
                 hand, result, newHealth>>

ProbeNext ==
  \/ \E t \in Targets, f \in Forms, p \in Endpoints, a \in AddressOf :
       ParseEntry(t, [form |-> f, endpoint |-> p, ips |-> a])
  \/ BeginPoll \/ CancelPoll \/ PublishHealth
  \/ \E t \in Targets :
       \/ \E n \in 0..MaxIPs : Resolve(t, n)
       \/ ResolveFails(t) \/ SerialCheck(t) \/ CloseIndex(t) \/ CountHealthy(t) \/ Merge(t)
       \/ \E w \in Workers : Enqueue(t, w) \/ WorkerChecks(t, w) \/ WorkerReturns(t, w)

ProbeSpec == ProbeInit /\ [][ProbeNext]_probeVars

-----------------------------------------------------------------------------
(* What a scrape shows: the counts of a target, and its addresses that have been
   checked. *)
probeCollect(k) ==
  LET t == health[k]
  IN [resolve |-> job[t].ok, ipCount |-> job[t].ips, healthy |-> job[t].healthy,
      unhealthy |-> job[t].ips - job[t].healthy]

emitStatusMetric(k) ==
  LET t == health[k]
  IN {i \in 1..job[t].ips : checks # {} /\ result[t][i] # "unread"}

(* The counts that a scrape shows of a target are those of the addresses it
   shows: as many healthy ones as passed all enabled checks, and, unless the
   poll was cancelled, every address that is counted has been checked.  A target
   that did not resolve has no address.  (Entries with the same
   endpoint show the counts of the one that was merged last, so this is about a
   target that has its endpoint to itself.) *)
ProbeCountsAreChecked ==
  \A k \in Targets :
    (health[k] # 0 /\ (oneEndpoint => Cardinality(Monitored) = 1)) =>
      LET shown == probeCollect(k)
      IN /\ shown.healthy = Cardinality(HealthyIPs(health[k]))
         /\ probeCtx /\ checks # {} =>
              Cardinality(emitStatusMetric(k)) = shown.healthy + shown.unhealthy
         /\ ~shown.resolve => shown.ipCount = 0
=============================================================================
