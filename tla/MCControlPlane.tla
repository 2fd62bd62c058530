--------------------------- MODULE MCControlPlane ---------------------------
(* Three modules that share no variable.  A behaviour runs one of them, the
   one that focus names; the others keep their initial state. *)
EXTENDS ConfigReload, ServerLocks, CollectFanIn

CONSTANT Foci   \* the modules to run: a subset of {"reload", "locks", "fanin"}

VARIABLE focus

vars == <<focus, reloadVars, lockVars, fanVars>>

TypeOK == ReloadTypeOK /\ LockTypeOK /\ FanTypeOK

(* Initial values of the modules that are not in focus: one each. *)
ReloadRests == ReloadInit /\ disk.body = Disabled
LockRests   == LockInit /\ election /\ synced /\ hookWaits = "ctx"
                 /\ http["debug"] = "up"
FanRests    == FanInit /\ wrapping /\ \A c \in Sources : source[c].left = 0

MCInit ==
  /\ focus \in Foci
  /\ IF focus = "reload" THEN ReloadInit ELSE ReloadRests
  /\ IF focus = "locks" THEN LockInit ELSE LockRests
  /\ IF focus = "fanin" THEN FanInit ELSE FanRests

MCNext ==
  \/ focus = "reload" /\ ReloadNext /\ UNCHANGED <<focus, lockVars, fanVars>>
  \/ focus = "locks" /\ LockNext /\ UNCHANGED <<focus, reloadVars, fanVars>>
  \/ focus = "fanin" /\ FanNext /\ UNCHANGED <<focus, reloadVars, lockVars>>

(* The fairness of ReloadSpec, LockSpec and FanSpec, for the one in focus. *)
MCSpec ==
  /\ MCInit /\ [][MCNext]_vars
  /\ WF_reloadVars(focus = "reload" /\ ReceiveChange)
  /\ WF_reloadVars(focus = "reload" /\ DebounceEnds)
  /\ \A g \in Reloads : WF_reloadVars(focus = "reload" /\ ReloadStep(g))
  /\ \A s \in Scrapes : WF_lockVars(focus = "locks" /\ ScrapeStep(s))
  /\ \A g \in Gens : WF_lockVars(focus = "locks" /\ ElectorProceeds(g))
  /\ WF_lockVars(focus = "locks" /\ ReloadProceeds)
  /\ WF_lockVars(focus = "locks" /\ DownProceeds)
  /\ WF_lockVars(focus = "locks" /\ HealthAsked)
  /\ WF_lockVars(focus = "locks" /\ HealthAnswered)
  /\ WF_lockVars(focus = "locks" /\ ProbeRestarts)
  /\ WF_lockVars(focus = "locks" /\ SyncIsOwed /\ CacheSyncs)
  /\ WF_fanVars(focus = "fanin" /\ FanNext)
=============================================================================
