---------------------------- MODULE MCCollectors ----------------------------
(* Nine modules that share no variable.  A behaviour runs one of them, the one
   that focus names; the others keep their initial state. *)
EXTENDS ImagePull, NodeWatch, SecretCache, ReviewCache, CertCache, ProbePool,
        BillingLedger, BalancePoll, InformerHooks

CONSTANT Foci   \* the modules to run: a subset of the names in MCNext

ASSUME FociAssumption ==
  Foci \subseteq {"pull", "node", "secret", "review", "cert", "probe", "bill", "balance", "hooks"}

VARIABLE focus

vars == <<focus, pullVars, nodeVars, secretVars, reviewVars, certVars, probeVars,
          billVars, balVars, hookVars>>

TypeOK ==   \* the modules that are not in focus rest in initial states
  CASE focus = "pull" -> PullTypeOK      [] focus = "node" -> NodeTypeOK
    [] focus = "secret" -> SecretTypeOK  [] focus = "review" -> ReviewTypeOK
    [] focus = "cert" -> CertTypeOK      [] focus = "probe" -> ProbeTypeOK
    [] focus = "bill" -> BillTypeOK      [] focus = "balance" -> BalTypeOK
    [] focus = "hooks" -> HookTypeOK

(* Initial values of the modules that are not in focus: one each. *)
SecretRests == SecretInit /\ allNamespaces
ReviewRests == ReviewInit /\ \A v \in Reviews : verdict[v].ok
CertRests   == CertInit /\ \A f \in Files : pem[f] = 1
ProbeRests  == ProbeInit /\ probeKind = "registry" /\ oneEndpoint
BillRests   == BillInit /\ ownerMetrics /\ \E p \in billProps : p.unit = ""
BalRests    == BalInit /\ balConfig.cloud /\ NoneConfigured
HookRests   == HookInit /\ hookStyle = "crd"

MCInit ==
  /\ focus \in Foci
  /\ PullInit /\ NodeInit
  /\ IF focus = "secret" THEN SecretInit ELSE SecretRests
  /\ IF focus = "review" THEN ReviewInit ELSE ReviewRests
  /\ IF focus = "cert" THEN CertInit ELSE CertRests
  /\ IF focus = "probe" THEN ProbeInit ELSE ProbeRests
  /\ IF focus = "bill" THEN BillInit ELSE BillRests
  /\ IF focus = "balance" THEN BalInit ELSE BalRests
  /\ IF focus = "hooks" THEN HookInit ELSE HookRests

MCNext ==
  /\ UNCHANGED focus
  /\ \/ focus = "pull" /\ PullNext /\ UNCHANGED <<nodeVars, secretVars, reviewVars,
          certVars, probeVars, billVars, balVars, hookVars>>
     \/ focus = "node" /\ NodeNext /\ UNCHANGED <<pullVars, secretVars, reviewVars,
          certVars, probeVars, billVars, balVars, hookVars>>
     \/ focus = "secret" /\ SecretNext /\ UNCHANGED <<pullVars, nodeVars, reviewVars,
          certVars, probeVars, billVars, balVars, hookVars>>
     \/ focus = "review" /\ ReviewNext /\ UNCHANGED <<pullVars, nodeVars, secretVars,
          certVars, probeVars, billVars, balVars, hookVars>>
     \/ focus = "cert" /\ CertNext /\ UNCHANGED <<pullVars, nodeVars, secretVars,
          reviewVars, probeVars, billVars, balVars, hookVars>>
     \/ focus = "probe" /\ ProbeNext /\ UNCHANGED <<pullVars, nodeVars, secretVars,
          reviewVars, certVars, billVars, balVars, hookVars>>
     \/ focus = "bill" /\ BillNext /\ UNCHANGED <<pullVars, nodeVars, secretVars,
          reviewVars, certVars, probeVars, balVars, hookVars>>
     \/ focus = "balance" /\ BalNext /\ UNCHANGED <<pullVars, nodeVars, secretVars,
          reviewVars, certVars, probeVars, billVars, hookVars>>
     \/ focus = "hooks" /\ HookNext /\ UNCHANGED <<pullVars, nodeVars, secretVars,
          reviewVars, certVars, probeVars, billVars, balVars>>

(* The fairness of SecretSpec and CertSpec, for the one in focus. *)
MCSpec ==
  /\ MCInit /\ [][MCNext]_vars
  /\ WF_secretVars(focus = "secret" /\ ApiRecovers /\ ~secretPanic)
  /\ \A i \in Loops :
       /\ WF_secretVars(focus = "secret" /\ InformerSees(i) /\ ~secretPanic)
       /\ WF_secretVars(focus = "secret" /\ LoopStep(i))
       /\ WF_secretVars(focus = "secret" /\ StopCache(i) /\ ~secretPanic)
  /\ WF_certVars(focus = "cert" /\ PollTick)
  /\ \A l \in Loaders : /\ WF_certVars(focus = "cert" /\ LoaderStep(l))
                        /\ WF_certVars(focus = "cert" /\ LoaderEnds(l))
=============================================================================
