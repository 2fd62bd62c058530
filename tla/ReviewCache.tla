---------------------------- MODULE ReviewCache ----------------------------
(***************************************************************************)
(* The authenticator of the metrics endpoint (pkg/auth): requests with one *)
(* token for one path, each a TokenReview and a SubjectAccessReview that a *)
(* cache may answer.  A review is looked up, asked for and stored without  *)
(* a common lock, so requests that all miss store their answers in any     *)
(* order.  Time passes in ticks; a value's age is counted, not its date.   *)
(***************************************************************************)
EXTENDS Naturals

CONSTANTS
  Requests,     \* requests that may be in the middleware at a time
  TokenTTL, AllowTTL, DenyTTL,   \* what the entries live: 1 min, 5 min, 30 s
  Latency,      \* what a review with its retries may take, in ticks
  Steps,        \* calls of a review that may fail before it is given up
  MaxFlips      \* bound: how often the cluster changes its mind

(* The lives are constants of the code; a refusal lives no longer than a grant. *)
ASSUME ReviewAssumption ==
  /\ TokenTTL \in Nat \ {0} /\ AllowTTL \in Nat \ {0} /\ DenyTTL \in 1..AllowTTL
  /\ Latency \in Nat \ {0} /\ Steps \in Nat /\ MaxFlips \in Nat

Reviews == {"token", "access"}
TTL(v, ok) == CASE v = "token" -> TokenTTL
                [] v = "access" /\ ok -> AllowTTL
                [] OTHER -> DenyTTL

VARIABLES
  verdict,      \* what the API server says of the token and of the access, and
                \* for how many ticks it has said so
  flips,        \* counts the changes of the verdicts
  review,       \* the entry of authCache and that of authzCache
  request       \* the requests in the middleware

reviewVars == <<verdict, flips, review, request>>

Longest == AllowTTL + TokenTTL + Latency       \* ages are counted up to here
NoEntry == [on |-> FALSE, ok |-> FALSE, left |-> 0]
RequestAt(where, step) ==
  [at |-> where, step |-> step, ok |-> FALSE, calls |-> 0, age |-> 0]
NoRequest == RequestAt("none", "done")

ReviewTypeOK ==
  /\ verdict \in [Reviews -> [ok : BOOLEAN, age : 0..Longest]]
  /\ flips \in 0..MaxFlips
  /\ review \in [Reviews -> [on : BOOLEAN, ok : BOOLEAN, left : 0..Longest]]
  /\ request \in [Requests ->
       [at : Reviews \union {"none", "served", "unauthorized", "forbidden", "error"},
        step : {"look", "call", "told", "done"}, ok : BOOLEAN,
        calls : 0..Steps, age : 0..Latency]]

ReviewInit ==
  /\ verdict \in [Reviews -> [ok : BOOLEAN, age : {Longest}]]
  /\ flips = 0
  /\ review = [v \in Reviews |-> NoEntry]
  /\ request = [r \in Requests |-> NoRequest]

Ends(r, how) == request' = [request EXCEPT ![r] = RequestAt(how, "done")]
Begins(r, v) == request' = [request EXCEPT ![r] = RequestAt(v, "look")]

-----------------------------------------------------------------------------
(* A token is revoked, a role binding changes. *)
Flip(v) ==
  /\ flips < MaxFlips
  /\ flips' = flips + 1
  /\ verdict' = [verdict EXCEPT ![v] = [ok |-> ~@.ok, age |-> 0]]
  /\ UNCHANGED <<review, request>>

(* A tick.  Replies are sent at once, and no review takes longer than Latency. *)
Tick ==
  /\ \A r \in Requests : /\ request[r].at \in Reviews \union {"none"}
                         /\ request[r].age < Latency
                         /\ request[r].step # "look"
  /\ verdict' = [v \in Reviews |->
       [verdict[v] EXCEPT !.age = IF @ = Longest THEN @ ELSE @ + 1]]
  /\ review' = [v \in Reviews |->
       [review[v] EXCEPT !.left = IF @ = 0 THEN 0 ELSE @ - 1]]
  /\ request' = [r \in Requests |->
       IF request[r].at = "none" THEN request[r] ELSE [request[r] EXCEPT !.age = @ + 1]]
  /\ UNCHANGED flips

cleanupExpiredEntries ==
  /\ \E v \in Reviews : review[v].on /\ review[v].left = 0
  /\ review' = [v \in Reviews |-> IF review[v].left = 0 THEN NoEntry ELSE review[v]]
  /\ UNCHANGED <<verdict, flips, request>>

(* Middleware.  A request without a bearer token is turned away. *)
Arrive(r, bearer) ==
  /\ request[r].at = "none"
  /\ IF bearer THEN Begins(r, "token") ELSE Ends(r, "unauthorized")
  /\ UNCHANGED <<verdict, flips, review>>

Leave(r) ==
  /\ request[r].at \notin Reviews \union {"none"}
  /\ Ends(r, "none")
  /\ UNCHANGED <<verdict, flips, review>>

(* The middleware after a review of a kind said ok, or not. *)
Judge(r, v, ok) ==
  CASE v = "token" /\ ok  -> Begins(r, "access")
    [] v = "token" /\ ~ok -> Ends(r, "unauthorized")
    [] v = "access" /\ ok -> Ends(r, "served")
    [] OTHER -> Ends(r, "forbidden")

(* The entry may be used: time.Now().Before(entry.expiresAt). *)
SlipFresh(v) == review[v].on
Fresh(v)     == review[v].on /\ review[v].left > 0

(* authenticateTokenCached and authorizeRequestCached: a hit, or a miss. *)
LookUp(r) ==
  /\ request[r].step = "look"
  /\ LET v == request[r].at
     IN IF Fresh(v) THEN Judge(r, v, review[v].ok)
                    ELSE request' = [request EXCEPT ![r].step = "call"]
  /\ UNCHANGED <<verdict, flips, review>>

(* authenticateToken and authorizeRequest: the API server decides; the call
   fails and is repeated; or the last one failed, or the client has gone. *)
Decided(r) ==
  /\ request[r].step = "call"
  /\ request' = [request EXCEPT ![r].step = "told", ![r].ok = verdict[request[r].at].ok]
  /\ UNCHANGED <<verdict, flips, review>>

SlipCallFails(r) ==
  /\ request[r].step = "call" /\ request[r].calls <= Steps
  /\ request' = [request EXCEPT ![r].calls = @ + 1]
  /\ UNCHANGED <<verdict, flips, review>>

CallFails(r) ==
  /\ request[r].step = "call" /\ request[r].calls < Steps
  /\ request' = [request EXCEPT ![r].calls = @ + 1]
  /\ UNCHANGED <<verdict, flips, review>>

GiveUp(r) ==
  /\ request[r].step \in {"call", "told"}
  /\ Ends(r, IF request[r].at = "token" THEN "unauthorized" ELSE "error")
  /\ UNCHANGED <<verdict, flips, review>>

(* The answer is stored, unless it is that the token is no good. *)
Store(r) ==
  /\ request[r].step = "told"
  /\ LET v  == request[r].at
         ok == request[r].ok
     IN /\ review' = IF v = "token" /\ ~ok THEN review
                     ELSE [review EXCEPT ![v] = [on |-> TRUE, ok |-> ok, left |-> TTL(v, ok)]]
        /\ Judge(r, v, ok)
  /\ UNCHANGED <<verdict, flips>>

ReviewNext ==
  \/ \E v \in Reviews : Flip(v)
  \/ Tick \/ cleanupExpiredEntries
  \/ \E r \in Requests :
       \/ \E bearer \in BOOLEAN : Arrive(r, bearer)
       \/ Leave(r) \/ LookUp(r) \/ Decided(r) \/ CallFails(r) \/ GiveUp(r) \/ Store(r)

ReviewSpec == ReviewInit /\ [][ReviewNext]_reviewVars

-----------------------------------------------------------------------------
(* A grant is recent: a request is served only if the cluster accepted the token
   less than the entry's life and two reviews ago, and granted the access less
   than the entry's life and one review ago, however many requests missed the
   cache together and whichever of their answers was stored last.  A request is
   forbidden only if the access was refused less than the life of a refusal and
   one review ago. *)
GrantIsRecent ==
  \A r \in Requests :
    /\ request[r].at = "served" =>
         /\ verdict["token"].ok \/ verdict["token"].age < TokenTTL + 2 * Latency
         /\ verdict["access"].ok \/ verdict["access"].age < AllowTTL + Latency
    /\ request[r].at = "forbidden" =>
         ~verdict["access"].ok \/ verdict["access"].age < DenyTTL + Latency
=============================================================================
