---------------------------- MODULE BalancePoll ----------------------------
(***************************************************************************)
(* The polls of the user balance collector (pkg/collector/userbalance) and *)
(* of the cloud balance collector (pkg/collector/cloudbalance).  A poll    *)
(* asks for the configured accounts one by one, then for every user whose  *)
(* balance is positive and for the owners of these users in this region,   *)
(* and publishes one map.  Balances change in between, any query may fail, *)
(* and Stop closes the connections under a poll that runs.                 *)
(***************************************************************************)
EXTENDS Integers, FiniteSets

CONSTANTS Users   \* the users (a user's uid and uuid are one value here)

VARIABLES
  balanceOf,     \* the balance of each user in the database: 0 or 1
  ownersOf,      \* the owners of each user in the local database
  balConfig,     \* the configuration
  pgClient,      \* "open" or "nil"
  localPgClient, \* the same; "none" if it is configured but cannot be reached
  balPoll,       \* the poll that runs
  balances,      \* c.balances: a set of samples
  answered,      \* history: the configured users that poll got an answer for
  balPanic       \* whether a query used a nil client

balVars == <<balanceOf, ownersOf, balConfig, pgClient, localPgClient, balPoll,
             balances, answered, balPanic>>

(* How a user is configured: not at all, by its uid alone, or with its uuid and
   owner as labels too. *)
Entries == {"out", "bare", "full"}

(* The owners a user can have in this region, by names that no other user has;
   "" is a row without a name. *)
OwnerSets == {{}, {"", "o", "p"}}

Configs == [cloud : BOOLEAN, entry : [Users -> Entries], positive : BOOLEAN,
            localDSN : BOOLEAN]
configured(u) == balConfig.entry[u] # "out"
NoneConfigured == \A u \in Users : ~configured(u)

(* A sample: labels, balance, source.  Region, type, level and quota follow
   from the source (normalizeUserLabels gives them a value). *)
Samples == [uid : Users, uuid : Users \union {""}, owner : {"", "o", "p"},
            balance : 0..1, source : {"configured", "discovered"}]

NoPoll == [at |-> "idle"]

BalTypeOK ==
  /\ balanceOf \in [Users -> 0..1]
  /\ ownersOf \in [Users -> OwnerSets]
  /\ balConfig \in Configs
  /\ pgClient \in {"open", "nil"}
  /\ localPgClient \in {"none", "open", "nil"}
  /\ balPoll.at \in {"idle", "configured", "positive", "owners"}
  /\ balances \subseteq Samples
  /\ answered \subseteq Users
  /\ balPanic \in BOOLEAN

(* The local client is there if it is configured and its connection succeeded. *)
BalInit ==
  /\ balanceOf = [u \in Users |-> 1]
  /\ ownersOf \in [Users -> OwnerSets]
  /\ balConfig \in Configs
  /\ balConfig.cloud =>
       ~balConfig.positive /\ ~balConfig.localDSN /\ ownersOf = [u \in Users |-> {}]
  /\ balConfig.cloud => \A u \in Users : balConfig.entry[u] # "bare"
  /\ balConfig.localDSN => balConfig.positive
  /\ ~balConfig.localDSN => ownersOf = [u \in Users |-> {}]
  /\ pgClient = "open"
  /\ localPgClient \in IF balConfig.localDSN THEN {"none", "open"} ELSE {"none"}
  /\ balPoll = NoPoll
  /\ balances = {}
  /\ answered = {}
  /\ balPanic = FALSE

-----------------------------------------------------------------------------
(* Nobody reads the balances between polls, or after Stop. *)
BalanceChanges(u) ==
  /\ balPoll # NoPoll /\ pgClient = "open"
  /\ balanceOf' = [balanceOf EXCEPT ![u] = 1 - @]
  /\ UNCHANGED <<ownersOf, balConfig, pgClient, localPgClient, balPoll, balances,
                 answered, balPanic>>

(* Labels: userIdentityKeys, userConfigured, normalizeUserLabels. *)
ConfiguredSample(u) ==
  [uid |-> u, uuid |-> IF balConfig.entry[u] = "full" THEN u ELSE "",
   owner |-> IF balConfig.entry[u] = "full" THEN "o" ELSE "",
   balance |-> balanceOf[u], source |-> "configured"]

SlipIdentityKeys(s) == IF s.uuid = "" THEN {} ELSE {<<"uuid", s.uuid>>}

userIdentityKeys(s) ==
  {<<"uid", s.uid>>}
    \union (IF s.uuid = "" THEN {} ELSE {<<"uuid", s.uuid>>})
    \union (IF s.owner = "" THEN {} ELSE {<<"owner", s.uid, s.owner>>})

userConfigured(s, found) ==
  userIdentityKeys(s) \intersect UNION {userIdentityKeys(t) : t \in found} # {}

-----------------------------------------------------------------------------
(* Poll.  With nothing to do it publishes nothing, and after Stop neither. *)
BalUnchanged == UNCHANGED <<balanceOf, ownersOf, balConfig, pgClient, localPgClient>>

BalPollStarts ==
  /\ ~balPanic /\ balPoll = NoPoll /\ pgClient = "open"
  /\ ~NoneConfigured \/ balConfig.positive
  /\ balPoll' = [at |-> "configured", left |-> {u \in Users : configured(u)},
                 found |-> {}]
  /\ BalUnchanged /\ UNCHANGED <<balances, answered, balPanic>>

(* Any query may fail.  One that Stop interrupts fails; the client may also be
   forgotten between the nil check and the use of the field. *)
QueryPanic(client) ==
  /\ client = "nil"
  /\ balPanic' = TRUE /\ balPoll' = NoPoll /\ UNCHANGED <<balances, answered>>

(* The cloud providers' interfaces need no client, and no context. *)
Reaches == balConfig.cloud \/ pgClient = "open"

QueryBalance(u) ==
  /\ ~balPanic /\ balPoll.at = "configured" /\ u \in balPoll.left
  /\ \/ /\ \/ balPoll' = [balPoll EXCEPT !.left = @ \ {u}]
           \/ /\ Reaches
              /\ balPoll' = [balPoll EXCEPT !.left = @ \ {u},
                                            !.found = @ \union {ConfiguredSample(u)}]
        /\ UNCHANGED <<balances, answered, balPanic>>
     \/ ~balConfig.cloud /\ QueryPanic(pgClient)
  /\ BalUnchanged

(* Stop is seen between two configured users. *)
BalPollCancelled ==
  /\ ~balPanic /\ balPoll.at = "configured" /\ balPoll.left # {} /\ pgClient # "open"
  /\ balPoll' = NoPoll
  /\ BalUnchanged /\ UNCHANGED <<balances, answered, balPanic>>

PublishBalances(samples, found) ==
  /\ balances' = samples
  /\ answered' = {s.uid : s \in found}
  /\ balPoll' = NoPoll
  /\ UNCHANGED balPanic

BalConfiguredDone ==
  /\ ~balPanic /\ balPoll.at = "configured" /\ balPoll.left = {}
  /\ IF balConfig.positive
     THEN /\ balPoll' = [at |-> "positive", found |-> balPoll.found]
          /\ UNCHANGED <<balances, answered, balPanic>>
     ELSE PublishBalances(balPoll.found, balPoll.found)
  /\ BalUnchanged

(* The discovered users that are not among the configured ones are added to the
   map, whose key does not tell the sources apart. *)
userKey(s) == <<s.uid, s.uuid, s.owner>>

Merged(samples) ==
  LET new == {s \in samples : ~userConfigured(s, balPoll.found)}
  IN new \union {s \in balPoll.found : \A t \in new : userKey(t) # userKey(s)}

Discovered(u, owner) ==
  [uid |-> u, uuid |-> u, owner |-> owner, balance |-> balanceOf[u],
   source |-> "discovered"]

(* A failed discovery leaves the configured users alone; with none configured
   the old map stays.  Without a local database the users are those of all
   regions; with one that is not reachable there are none. *)
QueryPositiveBalances ==
  /\ ~balPanic /\ balPoll.at = "positive"
  /\ \/ IF NoneConfigured
        THEN balPoll' = NoPoll /\ UNCHANGED <<balances, answered, balPanic>>
        ELSE PublishBalances(balPoll.found, balPoll.found)
     \/ /\ pgClient = "open"
        /\ LET positive == {u \in Users : balanceOf[u] > 0}
               samples == {Discovered(u, "") : u \in positive}
           IN IF samples # {} /\ balConfig.localDSN
              THEN IF localPgClient \in {"none", "nil"}
                   THEN PublishBalances(balPoll.found, balPoll.found)
                   ELSE /\ balPoll' = [at |-> "owners", found |-> balPoll.found,
                                       samples |-> samples]
                        /\ UNCHANGED <<balances, answered, balPanic>>
              ELSE PublishBalances(Merged(samples), balPoll.found)
     \/ QueryPanic(pgClient)
  /\ BalUnchanged

(* Each discovered user is shown once per owner it has in this region. *)
QueryOwners ==
  /\ ~balPanic /\ balPoll.at = "owners"
  /\ \/ PublishBalances(balPoll.found, balPoll.found)
     \/ /\ localPgClient = "open"
        /\ PublishBalances(
             Merged(UNION {{[s EXCEPT !.owner = o] : o \in ownersOf[s.uid] \ {""}} :
                             s \in balPoll.samples}),
             balPoll.found)
     \/ QueryPanic(localPgClient)
  /\ BalUnchanged

(* Stop: the context is cancelled, the pools are closed and forgotten. *)
BalStops ==
  /\ ~balPanic /\ pgClient = "open"
  /\ pgClient' = "nil"
  /\ localPgClient' = IF localPgClient = "open" THEN "nil" ELSE localPgClient
  /\ UNCHANGED <<balanceOf, ownersOf, balConfig, balPoll, balances, answered,
                 balPanic>>

BalNext ==
  \/ \E u \in Users : BalanceChanges(u) \/ QueryBalance(u)
  \/ BalPollStarts \/ BalPollCancelled \/ BalConfiguredDone
  \/ QueryPositiveBalances \/ QueryOwners \/ BalStops

BalSpec == BalInit /\ [][BalNext]_balVars

-----------------------------------------------------------------------------
(* Each account appears in the published map from one source only, although the
   two sources are read at different times and name it by different labels: a
   configured user whose own query was answered has that answer, under its own
   labels, and is not discovered too; one whose query failed is shown only if
   it was discovered.  A discovered user had a positive balance, and belongs to
   this region, once for each owner, when there is a local database. *)
OneSourcePerUser ==
  \A u \in Users :
    LET shown == {s \in balances : s.uid = u}
    IN IF u \in answered
       THEN Cardinality(shown) = 1 /\ \A s \in shown : s.source = "configured"
       ELSE \A s \in shown :
              /\ s.source = "discovered" /\ s.balance > 0
              /\ balConfig.positive
              /\ balConfig.localDSN => s.owner \in ownersOf[u] \ {""}
              /\ ~balConfig.localDSN => s.owner = ""
=============================================================================
