--------------------------- MODULE BillingLedger ---------------------------
(***************************************************************************)
(* The billing collector (pkg/collector/billing): a poll reads the names   *)
(* of the resources, then asks MongoDB twice at the same time for sums     *)
(* over the last complete hour, and publishes both sums as one snapshot.   *)
(* Billing documents are written while it does.  Stop takes the client     *)
(* away from a poll that runs; a collector is started once.                *)
(***************************************************************************)
EXTENDS Integers, Sequences, FiniteSets, FiniteSetsExt

CONSTANTS
  Hour,       \* ticks of the clock in a billing window
  MaxClock,   \* bound: the last tick
  MaxDocs,    \* bound: billing documents written
  Owners      \* the owners (and namespaces) of documents

ASSUME BillingAssumption ==
  /\ Hour \in Nat \ {0} /\ MaxDocs \in Nat
  /\ MaxClock \in Nat /\ MaxClock >= 2 * Hour - 1   \* the clock begins there

VARIABLES
  billClock,    \* the time
  ledger,       \* the billing collection: the documents in writing order
  billProps,    \* the properties collection
  ownerMetrics, \* cfg.EnableOwnerMetrics
  mongoClient,  \* c.mongoClient: "open" or "nil"
  billPoll,     \* the poll that runs
  billSnapshot, \* c.snapshot
  billPanic     \* whether a query used a nil client

billVars == <<billClock, ledger, billProps, ownerMetrics, mongoClient,
              billPoll, billSnapshot, billPanic>>

(* Enum 0 has a default name, enum 1 has none.  Each document has one cost, of
   one resource; the document's place in the ledger gives its usage and amount,
   so that a sum tells which documents it counted. *)
Enums     == {0, 1}
Documents == [time : Nat, consumption : BOOLEAN, owner : Owners, enum : Enums]
SomeOwner == CHOOSE o \in Owners : TRUE
Used      == [i \in 1..MaxDocs |-> i]
Amount    == [i \in 1..MaxDocs |-> 10 * i]

(* What the properties collection can hold: documents that give enum 1 the name
   and unit of enum 0, the name only, or no name; or one that has no number as
   its enum, and counts as one of enum 0. *)
Property(enum, name, unit) == [enum |-> enum, name |-> name, unit |-> unit]
PropertyDbs == {{Property("1", "cpu", "1m"), Property("1", "", "1m")},
                {Property("1", "cpu", "")},
                {Property("odd", "gpu", "1m")}}

Idle    == [at |-> "idle"]
Windows == [start : Int, end : Int]

BillTypeOK ==
  /\ billClock \in Hour..MaxClock
  /\ ledger \in Seq(Documents) /\ Len(ledger) <= MaxDocs
  /\ billProps \in PropertyDbs
  /\ ownerMetrics \in BOOLEAN /\ billPanic \in BOOLEAN
  /\ mongoClient \in {"open", "nil"}
  /\ billPoll.at \in {"idle", "properties", "query"}
  /\ billPoll.at = "query" => billPoll.window \in Windows
  /\ billSnapshot # <<>> => billSnapshot.window \in Windows

BillInit ==
  /\ billClock = 2 * Hour - 1
  /\ ledger = <<>>
  /\ billProps \in PropertyDbs
  /\ ownerMetrics \in BOOLEAN
  /\ mongoClient = "open"
  /\ billPoll = Idle
  /\ billSnapshot = <<>>
  /\ billPanic = FALSE

-----------------------------------------------------------------------------
(* Nothing reads the clock or the ledger any more once Stop has cancelled. *)
BillTick ==
  /\ mongoClient = "open" /\ billClock < MaxClock
  /\ billClock' = billClock + 1
  /\ UNCHANGED <<ledger, billProps, ownerMetrics, mongoClient,
                 billPoll, billSnapshot, billPanic>>

(* The billing service writes a document, of the current or an earlier time. *)
BillWritten(d) ==
  /\ mongoClient = "open" /\ Len(ledger) < MaxDocs
  /\ d.time <= billClock
  /\ ledger' = Append(ledger, d)
  /\ UNCHANGED <<billClock, billProps, ownerMetrics, mongoClient,
                 billPoll, billSnapshot, billPanic>>

-----------------------------------------------------------------------------
(* Names: loadProperties and propertyInfo. *)
int64Value(enum) == IF enum = "1" THEN 1 ELSE 0

defaultProperties == [name |-> "cpu", unit |-> "1m"]

loadProperties(enum) ==
  LET named == {d \in billProps : int64Value(d.enum) = enum /\ d.name # ""}
  IN IF named = {} THEN IF enum = 0 THEN <<defaultProperties>> ELSE <<>>
     ELSE LET d == CHOOSE d \in named : TRUE
          IN <<[name |-> d.name, unit |-> IF d.unit = "" THEN "1" ELSE d.unit]>>

propertyInfo(properties, enum) ==
  IF properties[enum] # <<>> THEN properties[enum][1]
                             ELSE [name |-> "resource_unknown", unit |-> "1"]

(* The documents that a pipeline's $match lets through. *)
SlipMatch(w) ==
  {i \in DOMAIN ledger : /\ ledger[i].consumption
                         /\ ledger[i].time >= w.start /\ ledger[i].time <= w.end}

billingAggregatePipeline(w) ==
  {i \in DOMAIN ledger : /\ ledger[i].consumption
                         /\ ledger[i].time > w.start /\ ledger[i].time <= w.end}

(* $group: a row per owner and resource, or per resource. *)
GroupID(i) == [owner |-> IF ownerMetrics THEN ledger[i].owner ELSE "none",
               enum |-> ledger[i].enum]

SumOver(S, value) == MapThenSumSet(LAMBDA i : value[i], S)

Grouped(matched, value) ==
  {[id |-> g, sum |-> SumOver({i \in matched : GroupID(i) = g}, value)] :
     g \in {GroupID(i) : i \in matched}}

billingResourceUsageStages(w) == Grouped(billingAggregatePipeline(w), Used)
billingResourceAmountStages(w) == Grouped(billingAggregatePipeline(w), Amount)

(* aggregateBillingRows adds up the rows that get the same key: usage by name
   and unit, amounts by name.  The metrics of owners have an owner label, the
   others have none. *)
Totals(rows, key) ==
  {[key |-> k, value |-> SumOver({r \in rows : key[r] = k}, [r \in rows |-> r.sum])] :
     k \in {key[r] : r \in rows}}

Unlabelled == <<>>

UsageKey(properties, whose, enum) ==
  <<propertyInfo(properties, enum).name, propertyInfo(properties, enum).unit, whose>>
AmountKey(properties, whose, enum) ==
  <<propertyInfo(properties, enum).name, whose>>

aggregateBillingRows(rows, amounts, properties) ==
  [resources |-> Totals(rows, [r \in rows |-> UsageKey(properties, Unlabelled, r.id.enum)]),
   ownerResources |-> IF ~ownerMetrics THEN {} ELSE
      Totals(rows, [r \in rows |-> UsageKey(properties, <<r.id.owner>>, r.id.enum)]),
   resourceAmounts |->
      Totals(amounts, [r \in amounts |-> AmountKey(properties, Unlabelled, r.id.enum)]),
   ownerResourceAmounts |-> IF ~ownerMetrics THEN {} ELSE
      Totals(amounts, [r \in amounts |-> AmountKey(properties, <<r.id.owner>>, r.id.enum)])]

-----------------------------------------------------------------------------
(* Poll. *)
PollUnchanged == UNCHANGED <<billClock, ledger, billProps, ownerMetrics>>

BillPollStarts ==
  /\ ~billPanic /\ billPoll = Idle /\ mongoClient # "nil"
  /\ billPoll' = [at |-> "properties"]
  /\ PollUnchanged /\ UNCHANGED <<mongoClient, billSnapshot, billPanic>>

(* A query that Stop interrupts fails, one that it overtakes finds a nil client,
   and any other may fail: the poll ends and the old snapshot stays. *)
QueryPanics ==
  /\ mongoClient = "nil"
  /\ billPanic' = TRUE
  /\ billPoll' = Idle

LoadProperties ==
  /\ ~billPanic /\ billPoll.at = "properties"
  /\ \/ QueryPanics
     \/ billPoll' = Idle /\ UNCHANGED billPanic
     \/ /\ mongoClient = "open" /\ UNCHANGED billPanic
        /\ LET end == (billClock \div Hour) * Hour
           IN billPoll' = [at |-> "query",
                           properties |-> [e \in Enums |-> loadProperties(e)],
                           window |-> [start |-> end - Hour, end |-> end],
                           used |-> [is |-> "asked"], amount |-> [is |-> "asked"]]
  /\ PollUnchanged /\ UNCHANGED <<mongoClient, billSnapshot>>

(* The two goroutines of queryBillingAggregates; wrote is a history field, how
   much of the ledger there was. *)
QueryRows(h) ==
  /\ ~billPanic /\ billPoll.at = "query" /\ billPoll[h].is = "asked"
  /\ \/ QueryPanics
     \/ /\ UNCHANGED billPanic
        /\ billPoll' = [billPoll EXCEPT ![h] = [is |-> "failed"]]
     \/ /\ mongoClient = "open" /\ UNCHANGED billPanic
        /\ billPoll' = [billPoll EXCEPT ![h] =
             [is |-> "rows", wrote |-> Len(ledger),
              rows |-> IF h = "used"
                       THEN billingResourceUsageStages(billPoll.window)
                       ELSE billingResourceAmountStages(billPoll.window)]]
  /\ PollUnchanged /\ UNCHANGED <<mongoClient, billSnapshot>>

queryBillingAggregates ==
  /\ ~billPanic /\ billPoll.at = "query"
  /\ billPoll.used.is # "asked" /\ billPoll.amount.is # "asked"
  /\ billPoll' = Idle
  /\ billSnapshot' =
       IF "failed" \in {billPoll.used.is, billPoll.amount.is} THEN billSnapshot
       ELSE [window |-> billPoll.window, properties |-> billPoll.properties,
             usedOf |-> billPoll.used.wrote, amountOf |-> billPoll.amount.wrote,
             totals |-> aggregateBillingRows(billPoll.used.rows, billPoll.amount.rows,
                                             billPoll.properties)]
  /\ PollUnchanged /\ UNCHANGED <<mongoClient, billPanic>>

(* Stop cancels the context; its hook disconnects the client and forgets it. *)
BillStops ==
  /\ ~billPanic /\ mongoClient = "open"
  /\ mongoClient' = "nil"
  /\ PollUnchanged /\ UNCHANGED <<billPoll, billSnapshot, billPanic>>

BillNext ==
  \/ BillTick
  \/ \E t \in Hour..MaxClock, o \in Owners, e \in Enums, c \in BOOLEAN :
       /\ ~c => ledger = <<>> /\ e = 0
       /\ ~ownerMetrics \/ ledger = <<>> => o = SomeOwner
       /\ BillWritten([time |-> t, consumption |-> c, owner |-> o, enum |-> e])
  \/ BillPollStarts \/ LoadProperties
  \/ QueryRows("used") \/ QueryRows("amount") \/ queryBillingAggregates
  \/ BillStops

BillSpec == BillInit /\ [][BillNext]_billVars

-----------------------------------------------------------------------------
(* What a scrape emits of the snapshot, and the same metrics added up document
   by document (aggregateBillingDocuments) from the part of the ledger that the
   query saw. *)
emitSnapshotMetrics ==
  LET t == billSnapshot.totals
  IN t.resources \union t.ownerResources \union t.resourceAmounts
       \union t.ownerResourceAmounts

HourOf(time) == (time + Hour - 1) \div Hour

aggregateBillingDocuments(upTo, value, keys) ==
  LET billed == {i \in 1..upTo : /\ ledger[i].consumption
                                 /\ HourOf(ledger[i].time) * Hour = billSnapshot.window.end}
  IN {[key |-> k, value |-> SumOver({i \in billed : k \in keys[i]}, value)] :
        k \in UNION {keys[i] : i \in billed}}

(* The snapshot is the bill of one hour: each of its halves is what adding up
   the documents one by one gives, over the documents of that hour the query
   could see, although the sums are made in two stages and by two queries that
   a writer runs between.  Every document belongs to one hour, one on the hour
   to the hour it ends, so none is billed twice. *)
SnapshotIsTheBill ==
  billSnapshot # <<>> =>
    LET p == billSnapshot.properties
        o(i) == {Unlabelled} \union (IF ownerMetrics THEN {<<ledger[i].owner>>} ELSE {})
    IN /\ billSnapshot.window.end <= billClock
       /\ emitSnapshotMetrics =
            aggregateBillingDocuments(billSnapshot.usedOf, Used,
              [i \in DOMAIN ledger |-> {UsageKey(p, w, ledger[i].enum) : w \in o(i)}])
            \union aggregateBillingDocuments(billSnapshot.amountOf, Amount,
              [i \in DOMAIN ledger |-> {AmountKey(p, w, ledger[i].enum) : w \in o(i)}])
=============================================================================
