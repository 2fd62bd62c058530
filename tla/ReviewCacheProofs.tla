------------------------- MODULE ReviewCacheProofs -------------------------
(***************************************************************************)
(* ReviewSpec => []GrantIsRecent, for any number of requests, of changes   *)
(* of the cluster's mind and of failing calls, and for any lives of the    *)
(* entries.  GrantIsRecent speaks of replies; what makes them right is     *)
(* older: what the API server told a request is still true or changed less *)
(* than the request's age ago, and what a cache entry says is still true   *)
(* or changed so recently that the rest of the entry's life and one review *)
(* cover it.  Each of them is kept by a tick, by a change of a verdict,    *)
(* and by answers that are stored in any order.                            *)
(***************************************************************************)
EXTENDS ReviewCache, TLAPS

Replies    == {"none", "served", "unauthorized", "forbidden", "error"}
RequestSet == [at : Reviews \union Replies, step : {"look", "call", "told", "done"},
               ok : BOOLEAN, calls : 0..Steps, age : 0..Latency]

(* The API server says ok of v, or it did no longer than n ticks ago.      *)
SaidWithin(v, ok, n) == verdict[v].ok = ok \/ verdict[v].age <= n

(* What a request was told, and what it went by, is recent.                *)
Sound(q) ==
  /\ q.at \in Reviews <=> q.step # "done"
  /\ q.step = "told" => SaidWithin(q.at, q.ok, q.age)
  /\ q.at = "access" => verdict["token"].ok \/ verdict["token"].age < TokenTTL + Latency + q.age
  /\ q.at = "served" =>
       /\ verdict["token"].ok \/ verdict["token"].age < TokenTTL + 2 * Latency
       /\ verdict["access"].ok \/ verdict["access"].age < AllowTTL + Latency
  /\ q.at = "forbidden" => ~verdict["access"].ok \/ verdict["access"].age < DenyTTL + Latency

(* What a live entry says is recent, the older the less it has to live.    *)
EntrySound(v) ==
  review[v].on /\ review[v].left > 0 =>
    /\ review[v].left <= TTL(v, review[v].ok)
    /\ \/ verdict[v].ok = review[v].ok
       \/ verdict[v].age + review[v].left <= TTL(v, review[v].ok) + Latency

RvInv ==
  /\ ReviewTypeOK
  /\ \A r \in Requests : Sound(request[r])
  /\ \A v \in Reviews : EntrySound(v)

-----------------------------------------------------------------------------
(* The lives of the entries, and the sums they enter.                      *)
LEMMA LifeFacts ==
  /\ TokenTTL \in Nat /\ AllowTTL \in Nat /\ DenyTTL \in Nat /\ Latency \in Nat
  /\ TokenTTL > 0 /\ AllowTTL > 0 /\ DenyTTL > 0 /\ Latency > 0 /\ DenyTTL <= AllowTTL
  /\ Longest \in Nat /\ Steps \in Nat /\ MaxFlips \in Nat
  /\ \A v \in Reviews, ok \in BOOLEAN :
       TTL(v, ok) \in Nat /\ TTL(v, ok) > 0 /\ TTL(v, ok) <= Longest
  /\ \A ok \in BOOLEAN : TTL("token", ok) = TokenTTL
  /\ TTL("access", TRUE) = AllowTTL /\ TTL("access", FALSE) = DenyTTL
  BY ReviewAssumption DEF Longest, TTL, Reviews

(* The parts of a typed state.                                             *)
LEMMA ReviewValues ==
  ASSUME ReviewTypeOK
  PROVE  /\ \A v \in Reviews : /\ verdict[v].ok \in BOOLEAN /\ verdict[v].age \in 0..Longest
                               /\ review[v].ok \in BOOLEAN /\ review[v].on \in BOOLEAN
                               /\ review[v].left \in 0..Longest
         /\ \A r \in Requests : request[r] \in RequestSet
  BY DEF ReviewTypeOK, RequestSet, Replies

(* The records a request starts and ends with.                             *)
LEMMA RequestRecords ==
  ASSUME NEW where \in Reviews \union Replies, NEW step \in {"look", "done"}
  PROVE  RequestAt(where, step) \in RequestSet
<1>1. 0 \in 0..Steps /\ 0 \in 0..Latency /\ FALSE \in BOOLEAN
  BY LifeFacts
<1> QED
  BY <1>1 DEF RequestSet, RequestAt

(* A request that starts or ends changes only itself.                      *)
LEMMA OneRequest ==
  ASSUME RvInv, NEW r \in Requests, NEW q \in RequestSet, Sound(q),
         request' = [request EXCEPT ![r] = q], UNCHANGED <<verdict, flips>>,
         review' \in [Reviews -> [on : BOOLEAN, ok : BOOLEAN, left : 0..Longest]],
         \A v \in Reviews : EntrySound(v)'
  PROVE  RvInv'
<1>1. ReviewTypeOK'
  BY DEF RvInv, ReviewTypeOK, RequestSet, Replies
<1>2. ASSUME NEW s \in Requests PROVE Sound(request[s])'
  <2>1. request'[s] = IF s = r THEN q ELSE request[s]
    BY DEF RvInv, ReviewTypeOK
  <2>2. Sound(request'[s])
    BY <2>1 DEF RvInv
  <2> QED  BY <2>2 DEF Sound, SaidWithin
<1> QED
  BY <1>1, <1>2 DEF RvInv

(* The middleware goes by what it was told when that is recent.            *)
LEMMA JudgeEffect ==
  ASSUME RvInv, NEW r \in Requests, NEW v \in Reviews, NEW ok \in BOOLEAN,
         request[r].at = v, Judge(r, v, ok),
         verdict[v].ok = ok \/ verdict[v].age < TTL(v, ok) + Latency
  PROVE  \E q \in RequestSet : Sound(q) /\ request' = [request EXCEPT ![r] = q]
<1> USE LifeFacts
<1>0. request[r] \in RequestSet /\ Sound(request[r]) /\ request[r].age \in 0..Latency
      /\ \A w \in Reviews : verdict[w].ok \in BOOLEAN /\ verdict[w].age \in 0..Longest
  BY ReviewValues DEF RvInv, RequestSet
<1>1. CASE v = "token" /\ ok
  <2>1. request' = [request EXCEPT ![r] = RequestAt("access", "look")]
    BY <1>1 DEF Judge, Begins
  <2>2. verdict["token"].ok \/ verdict["token"].age < TokenTTL + Latency
    BY <1>0, <1>1 DEF Reviews
  <2>4. Sound(RequestAt("access", "look"))
    BY <1>0, <2>2 DEF Sound, Reviews, RequestAt
  <2> QED  BY <2>1, <2>4, RequestRecords DEF Reviews, Replies
<1>2. CASE v = "token" /\ ~ok
  <2>1. request' = [request EXCEPT ![r] = RequestAt("unauthorized", "done")]
    BY <1>2 DEF Judge, Ends
  <2>2. Sound(RequestAt("unauthorized", "done"))
    BY DEF Sound, Reviews, RequestAt
  <2> QED  BY <2>1, <2>2, RequestRecords DEF Reviews, Replies
<1>3. CASE v = "access" /\ ok
  <2>1. request' = [request EXCEPT ![r] = RequestAt("served", "done")]
    BY <1>3 DEF Judge, Ends
  <2>2. verdict["token"].ok \/ verdict["token"].age < TokenTTL + Latency + request[r].age
    BY <1>0, <1>3 DEF Sound
  <2>3. verdict["token"].ok \/ verdict["token"].age < TokenTTL + 2 * Latency
    BY <1>0, <2>2 DEF Reviews
  <2>4. verdict["access"].ok \/ verdict["access"].age < AllowTTL + Latency
    BY <1>0, <1>3 DEF Reviews
  <2>5. Sound(RequestAt("served", "done"))
    BY <2>3, <2>4 DEF Sound, Reviews, RequestAt
  <2> QED  BY <2>1, <2>5, RequestRecords DEF Reviews, Replies
<1>4. CASE v = "access" /\ ~ok
  <2>1. request' = [request EXCEPT ![r] = RequestAt("forbidden", "done")]
    BY <1>4 DEF Judge, Ends
  <2>2. ~verdict["access"].ok \/ verdict["access"].age < DenyTTL + Latency
    BY <1>0, <1>4 DEF Reviews
  <2>3. Sound(RequestAt("forbidden", "done"))
    BY <2>2 DEF Sound, Reviews, RequestAt
  <2> QED  BY <2>1, <2>3, RequestRecords DEF Reviews, Replies
<1> QED
  BY <1>1, <1>2, <1>3, <1>4 DEF Reviews
-----------------------------------------------------------------------------
(* No request is under way, and the caches are empty.                      *)
LEMMA ReviewInitInv == ReviewInit => RvInv
<1> SUFFICES ASSUME ReviewInit PROVE RvInv
  OBVIOUS
<1>1. /\ NoEntry \in [on : BOOLEAN, ok : BOOLEAN, left : 0..Longest]
      /\ NoEntry.left = 0 /\ Longest \in 0..Longest /\ 0 \in 0..MaxFlips
      /\ NoRequest \in RequestSet
  <2>1. 0 \in 0..Longest /\ Longest \in 0..Longest /\ 0 \in 0..MaxFlips
    BY LifeFacts
  <2>2. NoRequest \in RequestSet
    BY RequestRecords DEF NoRequest, Replies
  <2> QED  BY <2>1, <2>2 DEF NoEntry
<1>2. ReviewTypeOK
  BY <1>1 DEF ReviewInit, ReviewTypeOK, RequestSet, Replies
<1>3. \A r \in Requests : Sound(request[r])
  BY DEF ReviewInit, Sound, NoRequest, RequestAt, Reviews
<1>4. \A v \in Reviews : EntrySound(v)
  BY <1>1 DEF ReviewInit, EntrySound
<1> QED
  BY <1>2, <1>3, <1>4 DEF RvInv

(* A verdict that changes is as recent as can be.                          *)
LEMMA FlipInv ==
  ASSUME RvInv, NEW v \in Reviews, Flip(v)
  PROVE  RvInv'
<1> USE LifeFacts
<1>0. /\ ReviewTypeOK
      /\ \A r \in Requests : Sound(request[r])
      /\ \A w \in Reviews : EntrySound(w)
  BY DEF RvInv
<1>v. /\ \A w \in Reviews : /\ verdict[w].ok \in BOOLEAN /\ verdict[w].age \in 0..Longest
                            /\ review[w].ok \in BOOLEAN /\ review[w].on \in BOOLEAN
                            /\ review[w].left \in 0..Longest
      /\ \A r \in Requests : request[r] \in RequestSet
  BY <1>0, ReviewValues
<1>1. /\ flips < MaxFlips /\ flips' = flips + 1 /\ UNCHANGED <<review, request>>
      /\ verdict' = [verdict EXCEPT ![v] = [ok |-> ~verdict[v].ok, age |-> 0]]
  BY DEF Flip
<1>2. [ok |-> ~verdict[v].ok, age |-> 0] \in [ok : BOOLEAN, age : 0..Longest]
  <2>1. 0 \in 0..Longest
    OBVIOUS
  <2>2. (~verdict[v].ok) \in BOOLEAN
    BY Zenon
  <2> QED  BY <2>1, <2>2
<1>3. verdict' \in [Reviews -> [ok : BOOLEAN, age : 0..Longest]]
  BY <1>0, <1>1, <1>2 DEF ReviewTypeOK
<1>4. ReviewTypeOK'
  BY <1>0, <1>1, <1>3 DEF ReviewTypeOK
<1>5. \A w \in Reviews : verdict'[w] = verdict[w] \/ verdict'[w].age = 0
  BY <1>0, <1>1 DEF ReviewTypeOK
<1>6. ASSUME NEW r \in Requests PROVE Sound(request[r])'
  <2>1. Sound(request[r]) /\ request[r].age \in 0..Latency /\ request'[r] = request[r]
    BY <1>0, <1>1, <1>v DEF RequestSet
  <2>2. request[r].step = "told" => request[r].at \in Reviews
    BY <2>1 DEF Sound
  <2> QED  BY <1>5, <1>v, <2>1, <2>2 DEF Sound, SaidWithin, Reviews
<1>7. ASSUME NEW w \in Reviews PROVE EntrySound(w)'
  <2>1. EntrySound(w) /\ review'[w] = review[w] /\ TTL(w, review[w].ok) \in Nat
    BY <1>0, <1>1, <1>v
  <2> QED  BY <1>5, <1>v, <2>1 DEF EntrySound
<1> QED
  BY <1>4, <1>6, <1>7 DEF RvInv

(* A tick makes everything older, and the entries' lives shorter.          *)
LEMMA TickInv ==
  ASSUME RvInv, Tick
  PROVE  RvInv'
<1> USE LifeFacts
<1>0. /\ ReviewTypeOK
      /\ \A r \in Requests : Sound(request[r])
      /\ \A w \in Reviews : EntrySound(w)
  BY DEF RvInv
<1>v. /\ \A w \in Reviews : /\ verdict[w] \in [ok : BOOLEAN, age : 0..Longest]
                            /\ review[w] \in [on : BOOLEAN, ok : BOOLEAN, left : 0..Longest]
      /\ \A r \in Requests : request[r] \in RequestSet
  BY <1>0 DEF ReviewTypeOK, RequestSet, Replies
<1>1. ASSUME NEW w \in Reviews
      PROVE  /\ verdict'[w] \in [ok : BOOLEAN, age : 0..Longest]
             /\ verdict'[w].ok = verdict[w].ok /\ verdict'[w].age <= verdict[w].age + 1
             /\ review'[w] \in [on : BOOLEAN, ok : BOOLEAN, left : 0..Longest]
             /\ review'[w].on = review[w].on /\ review'[w].ok = review[w].ok
             /\ review[w].left > 0 => review'[w].left = review[w].left - 1
             /\ review[w].left = 0 => review'[w].left = 0
  <2>1. verdict'[w] = [verdict[w] EXCEPT !.age = IF @ = Longest THEN @ ELSE @ + 1]
    BY DEF Tick
  <2>2. review'[w] = [review[w] EXCEPT !.left = IF @ = 0 THEN 0 ELSE @ - 1]
    BY DEF Tick
  <2> QED  BY <1>v, <2>1, <2>2
<1>2. verdict' \in [Reviews -> [ok : BOOLEAN, age : 0..Longest]]
      /\ review' \in [Reviews -> [on : BOOLEAN, ok : BOOLEAN, left : 0..Longest]]
  BY <1>1 DEF Tick
<1>3. ASSUME NEW r \in Requests
      PROVE  /\ request'[r] \in RequestSet /\ request[r].at \in Reviews \union {"none"}
             /\ request'[r].at = request[r].at /\ request'[r].step = request[r].step
             /\ request'[r].ok = request[r].ok
             /\ request[r].at # "none" => request'[r].age = request[r].age + 1
  <2>1. request'[r] = IF request[r].at = "none" THEN request[r]
                      ELSE [request[r] EXCEPT !.age = @ + 1]
    BY DEF Tick
  <2>2. request[r].age < Latency /\ request[r].at \in Reviews \union {"none"}
    BY DEF Tick
  <2> QED  BY <1>v, <2>1, <2>2 DEF RequestSet
<1>4. request' \in [Requests -> RequestSet]
  BY <1>3 DEF Tick
<1>5. ReviewTypeOK'
  BY <1>0, <1>2, <1>4 DEF ReviewTypeOK, RequestSet, Replies, Tick
<1>6. ASSUME NEW r \in Requests PROVE Sound(request[r])'
  <2>1. Sound(request[r]) /\ request[r].age \in 0..Latency
    BY <1>0, <1>v DEF RequestSet
  <2>2. request[r].step = "told" => request[r].at \in Reviews
    BY <2>1 DEF Sound
  <2>3. request'[r].at \in Reviews <=> request'[r].step # "done"
    BY <1>3, <2>1 DEF Sound
  <2>4. request'[r].step = "told" =>
          SaidWithin(request[r].at, request[r].ok, request[r].age)'
    BY <1>1, <1>3, <1>v, <2>1, <2>2 DEF Sound, SaidWithin, Reviews
  <2>5. request'[r].at = "access" =>
          verdict'["token"].ok
          \/ verdict'["token"].age < TokenTTL + Latency + request'[r].age
    BY <1>1, <1>3, <1>v, <2>1 DEF Sound, Reviews
  <2>6. request'[r].at \notin {"served", "forbidden"}
    BY <1>3 DEF Reviews
  <2> QED  BY <2>3, <2>4, <2>5, <2>6 DEF Sound
<1>7. ASSUME NEW w \in Reviews PROVE EntrySound(w)'
  <2>1. EntrySound(w) /\ TTL(w, review[w].ok) \in Nat
    BY <1>0, <1>v
  <2> QED  BY <1>1, <1>v, <2>1 DEF EntrySound
<1> QED
  BY <1>5, <1>6, <1>7 DEF RvInv

(* What the cleanup removes says nothing any more.                         *)
LEMMA CleanupInv ==
  ASSUME RvInv, cleanupExpiredEntries
  PROVE  RvInv'
<1>0. /\ UNCHANGED <<verdict, flips, request>>
      /\ review' = [v \in Reviews |-> IF review[v].left = 0 THEN NoEntry ELSE review[v]]
  BY DEF cleanupExpiredEntries
<1>1. NoEntry \in [on : BOOLEAN, ok : BOOLEAN, left : 0..Longest] /\ NoEntry.left = 0
  <2>1. 0 \in 0..Longest
    BY LifeFacts
  <2> QED  BY <2>1 DEF NoEntry
<1>2. ReviewTypeOK'
  BY <1>0, <1>1 DEF RvInv, ReviewTypeOK
<1>3. \A r \in Requests : Sound(request[r])'
  BY <1>0 DEF RvInv, Sound, SaidWithin
<1>4. \A v \in Reviews : EntrySound(v)'
  BY <1>0, <1>1 DEF RvInv, EntrySound
<1> QED
  BY <1>2, <1>3, <1>4 DEF RvInv
(* A request arrives, is answered, or gives up.                            *)
LEMMA EndsInv ==
  ASSUME RvInv, NEW r \in Requests, UNCHANGED <<verdict, flips, review>>,
         Begins(r, "token") \/ \E how \in Replies \ {"served", "forbidden"} : Ends(r, how)
  PROVE  RvInv'
<1>1. PICK q \in RequestSet : Sound(q) /\ request' = [request EXCEPT ![r] = q]
  <2>1. CASE Begins(r, "token")
    <3>1. Sound(RequestAt("token", "look"))
      BY DEF Sound, RequestAt, Reviews
    <3>2. RequestAt("token", "look") \in RequestSet
      BY RequestRecords DEF Reviews
    <3> QED  BY <2>1, <3>1, <3>2 DEF Begins
  <2>2. CASE \E how \in Replies \ {"served", "forbidden"} : Ends(r, how)
    <3>1. PICK how \in Replies \ {"served", "forbidden"} : Ends(r, how)
      BY <2>2
    <3>2. Sound(RequestAt(how, "done"))
      BY DEF Sound, RequestAt, Reviews, Replies
    <3>3. RequestAt(how, "done") \in RequestSet
      BY RequestRecords
    <3> QED  BY <3>1, <3>2, <3>3 DEF Ends
  <2> QED  BY <2>1, <2>2
<1>2. review' \in [Reviews -> [on : BOOLEAN, ok : BOOLEAN, left : 0..Longest]]
  BY DEF RvInv, ReviewTypeOK
<1>3. \A v \in Reviews : EntrySound(v)'
  BY DEF RvInv, EntrySound
<1> QED
  BY <1>1, <1>2, <1>3, OneRequest

(* A hit is as good as its entry; a miss asks.                             *)
LEMMA LookUpInv ==
  ASSUME RvInv, NEW r \in Requests, LookUp(r)
  PROVE  RvInv'
<1> USE LifeFacts
<1>0. /\ request[r] \in RequestSet /\ Sound(request[r]) /\ request[r].at \in Reviews
      /\ request[r].step = "look" /\ UNCHANGED <<verdict, flips, review>>
      /\ \A v \in Reviews : EntrySound(v)
  BY ReviewValues DEF RvInv, LookUp, Sound
<1>1. PICK q \in RequestSet : Sound(q) /\ request' = [request EXCEPT ![r] = q]
  <2>1. CASE Fresh(request[r].at)
    <3>1. PICK v \in Reviews : v = request[r].at
      BY <1>0
    <3>2. Judge(r, v, review[v].ok)
      BY <2>1, <3>1 DEF LookUp
    <3>3. PICK ok \in BOOLEAN : ok = review[v].ok
      BY ReviewValues DEF RvInv
    <3>4. verdict[v].age \in Nat /\ review[v].left \in Nat
      BY ReviewValues DEF RvInv
    <3>5. verdict[v].ok = ok \/ verdict[v].age < TTL(v, ok) + Latency
      BY <1>0, <2>1, <3>1, <3>3, <3>4 DEF Fresh, EntrySound
    <3> QED  BY <3>1, <3>2, <3>3, <3>5, JudgeEffect
  <2>2. CASE ~Fresh(request[r].at)
    <3>1. request' = [request EXCEPT ![r] = [request[r] EXCEPT !.step = "call"]]
      BY <2>2 DEF LookUp
    <3>2. [request[r] EXCEPT !.step = "call"] \in RequestSet
      BY <1>0 DEF RequestSet
    <3>3. Sound([request[r] EXCEPT !.step = "call"])
      BY <1>0 DEF Sound, RequestSet
    <3> QED  BY <3>1, <3>2, <3>3
  <2> QED  BY <2>1, <2>2
<1>2. review' \in [Reviews -> [on : BOOLEAN, ok : BOOLEAN, left : 0..Longest]]
  BY <1>0 DEF RvInv, ReviewTypeOK
<1>3. \A v \in Reviews : EntrySound(v)'
  BY <1>0 DEF RvInv, EntrySound
<1> QED
  BY <1>0, <1>1, <1>2, <1>3, OneRequest

(* What the API server says now is recent.                                 *)
LEMMA CallInv ==
  ASSUME RvInv, NEW r \in Requests, Decided(r) \/ CallFails(r)
  PROVE  RvInv'
<1> USE LifeFacts
<1>0. /\ request[r] \in RequestSet /\ Sound(request[r]) /\ request[r].at \in Reviews
      /\ request[r].step = "call" /\ UNCHANGED <<verdict, flips, review>>
      /\ request \in [Requests -> RequestSet]
  BY ReviewValues DEF RvInv, Decided, CallFails, Sound, ReviewTypeOK, RequestSet, Replies
<1>1. PICK q \in RequestSet : Sound(q) /\ request' = [request EXCEPT ![r] = q]
  <2>1. CASE Decided(r)
    <3>1. PICK ok \in BOOLEAN : ok = verdict[request[r].at].ok
      BY <1>0, ReviewValues DEF RvInv
    <3>2. request' = [request EXCEPT ![r] = [request[r] EXCEPT !.step = "told", !.ok = ok]]
      BY <1>0, <2>1, <3>1 DEF Decided
    <3>3. [request[r] EXCEPT !.step = "told", !.ok = ok] \in RequestSet
      BY <1>0 DEF RequestSet
    <3>4. Sound([request[r] EXCEPT !.step = "told", !.ok = ok])
      BY <1>0, <3>1 DEF Sound, SaidWithin, RequestSet
    <3> QED  BY <3>2, <3>3, <3>4
  <2>2. CASE CallFails(r)
    <3>1. /\ request' = [request EXCEPT ![r] = [request[r] EXCEPT !.calls = @ + 1]]
          /\ request[r].calls < Steps
      BY <2>2 DEF CallFails
    <3>2. [request[r] EXCEPT !.calls = @ + 1] \in RequestSet
      BY <1>0, <3>1 DEF RequestSet
    <3>3. Sound([request[r] EXCEPT !.calls = @ + 1])
      BY <1>0 DEF Sound, RequestSet
    <3> QED  BY <3>1, <3>2, <3>3
  <2> QED  BY <2>1, <2>2
<1>2. review' \in [Reviews -> [on : BOOLEAN, ok : BOOLEAN, left : 0..Longest]]
  BY <1>0 DEF RvInv, ReviewTypeOK
<1>3. \A v \in Reviews : EntrySound(v)'
  BY <1>0 DEF RvInv, EntrySound
<1> QED
  BY <1>0, <1>1, <1>2, <1>3, OneRequest

(* An answer that is stored is at most a review old.                       *)
LEMMA StoreInv ==
  ASSUME RvInv, NEW r \in Requests, Store(r)
  PROVE  RvInv'
<1> USE LifeFacts
<1>0. /\ request[r] \in RequestSet /\ Sound(request[r]) /\ request[r].at \in Reviews
      /\ request[r].step = "told" /\ UNCHANGED <<verdict, flips>>
      /\ review \in [Reviews -> [on : BOOLEAN, ok : BOOLEAN, left : 0..Longest]]
      /\ \A v \in Reviews : EntrySound(v)
  BY ReviewValues DEF RvInv, Store, Sound, ReviewTypeOK
<1>1. PICK v \in Reviews, ok \in BOOLEAN : v = request[r].at /\ ok = request[r].ok
  BY <1>0 DEF RequestSet
<1>2. /\ Judge(r, v, ok)
      /\ review' = IF v = "token" /\ ~ok THEN review
                   ELSE [review EXCEPT ![v] = [on |-> TRUE, ok |-> ok, left |-> TTL(v, ok)]]
  BY <1>1 DEF Store
<1>3. TTL(v, ok) \in 1..Longest /\ verdict[v].age \in Nat
  BY ReviewValues DEF RvInv
<1>4. verdict[v].ok = ok \/ verdict[v].age <= Latency
  BY <1>0, <1>1, <1>3 DEF Sound, SaidWithin, RequestSet
<1>5. PICK q \in RequestSet : Sound(q) /\ request' = [request EXCEPT ![r] = q]
  <2>1. verdict[v].ok = ok \/ verdict[v].age < TTL(v, ok) + Latency
    BY <1>3, <1>4
  <2> QED  BY <1>1, <1>2, <2>1, JudgeEffect
<1>6. [on |-> TRUE, ok |-> ok, left |-> TTL(v, ok)]
        \in [on : BOOLEAN, ok : BOOLEAN, left : 0..Longest]
  <2>1. TTL(v, ok) \in 0..Longest
    BY <1>3
  <2> QED  BY <2>1
<1>7. review' \in [Reviews -> [on : BOOLEAN, ok : BOOLEAN, left : 0..Longest]]
  BY <1>0, <1>2, <1>6
<1>8. ASSUME NEW w \in Reviews PROVE EntrySound(w)'
  <2>1. CASE review'[w] = review[w]
    BY <1>0, <2>1 DEF EntrySound
  <2>2. CASE w = v /\ review'[w] = [on |-> TRUE, ok |-> ok, left |-> TTL(v, ok)]
    BY <1>0, <1>3, <1>4, <2>2 DEF EntrySound
  <2> QED  BY <1>0, <1>2, <2>1, <2>2
<1> QED
  BY <1>0, <1>5, <1>7, <1>8, OneRequest

(* Every step keeps the invariant.                                         *)
LEMMA ReviewNextInv == RvInv /\ [ReviewNext]_reviewVars => RvInv'
<1> SUFFICES ASSUME RvInv, [ReviewNext]_reviewVars PROVE RvInv'
  OBVIOUS
<1>1. ASSUME NEW r \in Requests, NEW bearer \in BOOLEAN, Arrive(r, bearer)
      PROVE  RvInv'
  BY <1>1, EndsInv DEF Arrive, Replies
<1>2. ASSUME NEW r \in Requests, Leave(r) \/ GiveUp(r)
      PROVE  RvInv'
  BY <1>2, EndsInv DEF Leave, GiveUp, Replies
<1>3. CASE UNCHANGED reviewVars
  BY <1>3 DEF reviewVars, RvInv, ReviewTypeOK, Sound, SaidWithin, EntrySound
<1> QED
  BY <1>1, <1>2, <1>3, FlipInv, TickInv, CleanupInv, LookUpInv, CallInv, StoreInv
     DEF ReviewNext

(* What the authenticator keeps is of its type.                            *)
THEOREM ReviewTypeCorrect == ReviewSpec => []ReviewTypeOK
<1>1. RvInv => ReviewTypeOK
  BY DEF RvInv
<1> QED
  BY <1>1, ReviewInitInv, ReviewNextInv, PTL DEF ReviewSpec

(* However many requests miss the caches together, whichever answer is     *)
(* stored last and however often the cluster changes its mind: a request   *)
(* is served, or forbidden, only on a verdict that holds or held until     *)
(* less than an entry's life and the reviews' latency ago (pkg/auth,       *)
(* authenticateTokenCached and authorizeRequestCached).                    *)
THEOREM GrantsAreRecent == ReviewSpec => []GrantIsRecent
<1>1. RvInv => GrantIsRecent
  BY DEF RvInv, Sound, GrantIsRecent
<1> QED
  BY <1>1, ReviewInitInv, ReviewNextInv, PTL DEF ReviewSpec
=============================================================================
