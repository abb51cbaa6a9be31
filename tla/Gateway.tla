------------------------------ MODULE Gateway ------------------------------
(***************************************************************************)
(* The rate limits of the gateway's request pipeline: every request asks   *)
(* the token bucket of its address, and on a protected route, once its     *)
(* token is verified, the bucket of its user too.  Buckets live in Redis   *)
(* and are shared by the replicas.  A request reads its replica's clock,   *)
(* and the script runs in Redis some time later: another request may run   *)
(* in between.  When Redis does not answer, the request passes.            *)
(***************************************************************************)
EXTENDS Integers, Sequences

CONSTANTS
  Users, Addresses,
  Requests,     \* requests that may be under way at the same time
  Capacity,     \* tokens of each class of route: "general", "auth"
  Window,       \* ticks in which a bucket fills; the rates are whole tokens per tick
  Skews,        \* how far the clock of a replica is ahead of Redis's
  MaxNow, MaxRuns,       \* bounds on time and on the scripts
  None

VARIABLES
  bucket,     \* the Redis hash of each key, None when absent
  flight,     \* each request: its class, the keys it has still to ask, the clock it read
  admitted,   \* history: the tokens that the script gave, by key
  drift,      \* history: by how much the clocks that scripts were given were off, by key
  ran,        \* scripts run
  now         \* the time of Redis

vars == <<bucket, flight, admitted, drift, ran, now>>

Keys == {<<"user", u>> : u \in Users} \cup {<<"ip", a>> : a \in Addresses}
ratePerSecond(class) == Capacity[class] \div Window

Idle == [class |-> None, keys |-> <<>>, clock |-> None]

Init ==
  /\ bucket = [k \in Keys |-> None]
  /\ flight = [r \in Requests |-> Idle]
  /\ admitted = [k \in Keys |-> <<>>]
  /\ drift = [k \in Keys |-> 0]
  /\ ran = 0
  /\ now = 0

(* Bounds *)
Room == ran < MaxRuns

-----------------------------------------------------------------------------
(* The Lua script, for a cost of one token and the clock t of the request.  The
   key expires a little after a full refill. *)

TTL == Window + 1

Stored(k) == IF bucket[k] # None /\ now < bucket[k].expires THEN bucket[k] ELSE None

(* Mutant: the refill is not capped. *)
RefilledUncapped(k, class, t) ==
  LET b == Stored(k)
      delta == IF b = None \/ t < b.ts THEN 0 ELSE t - b.ts IN
  (IF b = None THEN Capacity[class] ELSE b.tokens) + delta * ratePerSecond(class)

Refilled(k, class, t) ==
  LET b == Stored(k)
      delta == IF b = None \/ t < b.ts THEN 0 ELSE t - b.ts
      tokens == (IF b = None THEN Capacity[class] ELSE b.tokens) + delta * ratePerSecond(class) IN
  IF tokens > Capacity[class] THEN Capacity[class] ELSE tokens

(* ts becomes t, be it older than the ts before. *)
tokenBucket(k, class, t) ==
  LET tokens == Refilled(k, class, t) IN
  [allowed |-> tokens >= 1,
   hash |-> [tokens |-> IF tokens >= 1 THEN tokens - 1 ELSE tokens, ts |-> t, expires |-> now + TTL]]

-----------------------------------------------------------------------------
(* The pipeline.  The bucket is that of the route's class, the key that of the
   caller: the address before the token is verified, the user after. *)

classify(a, u) == IF u # None THEN <<"user", u>> ELSE <<"ip", a>>

(* A public route has no user, and a request without a valid token gets no
   further than the verifier. *)
proxyPipeline(r, a, token, class, public) ==
  /\ flight[r] = Idle /\ Room
  /\ flight' = [flight EXCEPT ![r] =
       [class |-> class, clock |-> None,
        keys |-> IF public \/ token = None THEN <<classify(a, None)>>
                 ELSE <<classify(a, None), classify(a, token)>>]]
  /\ UNCHANGED <<bucket, admitted, drift, ran, now>>

(* allow begins: time.Now() of the replica. *)
ReadClock(r, skew) ==
  /\ flight[r] # Idle /\ flight[r].clock = None /\ Room
  /\ flight' = [flight EXCEPT ![r].clock = now + skew]
  /\ UNCHANGED <<bucket, admitted, drift, ran, now>>

(* The request goes on to the next limiter, or upstream. *)
Passed(f) ==
  IF Len(f.keys) = 1 THEN Idle ELSE [class |-> f.class, keys |-> Tail(f.keys), clock |-> None]

Error(t) == IF t < now THEN now - t ELSE t - now

(* The script runs in Redis, and its answer arrives, is lost (the request
   passes), or is lost and the client runs the script again. *)
allow(r, answer) ==
  LET f == flight[r]
      k == Head(f.keys)
      run == tokenBucket(k, f.class, f.clock) IN
  /\ f.clock # None
  /\ Room
  /\ bucket' = [bucket EXCEPT ![k] = run.hash]
  /\ admitted' = [admitted EXCEPT ![k] =
       IF run.allowed
       THEN Append(@, [at |-> now, drift |-> drift[k], error |-> Error(f.clock), class |-> f.class]) ELSE @]
  /\ drift' = [drift EXCEPT ![k] = @ + Error(f.clock)]
  /\ flight' = [flight EXCEPT ![r] =
       CASE answer = "repeat" -> f
         [] answer = "lost" \/ run.allowed -> Passed(f)
         [] OTHER -> Idle]
  /\ ran' = ran + 1
  /\ UNCHANGED now

(* Redis is down: fail open. *)
Unavailable(r) ==
  /\ flight[r].clock # None
  /\ flight' = [flight EXCEPT ![r] = Passed(flight[r])]
  /\ UNCHANGED <<bucket, admitted, drift, ran, now>>

Tick == now < MaxNow /\ Room /\ now' = now + 1 /\ UNCHANGED <<bucket, flight, admitted, drift, ran>>

Next ==
  \/ \E r \in Requests :
       \/ \E a \in Addresses, token \in Users \cup {None}, class \in {"general", "auth"}, public \in BOOLEAN :
            proxyPipeline(r, a, token, class, public)
       \/ \E skew \in Skews : ReadClock(r, skew)
       \/ \E answer \in {"arrives", "lost", "repeat"} : allow(r, answer)
       \/ Unavailable(r)
  \/ Tick

Spec == Init /\ [][Next]_vars

-----------------------------------------------------------------------------
(* The time of an admission, with the errors of the clocks up to its script
   and with that of its script too. *)
From(x) == x.at + x.drift
To(x) == x.at + x.drift + x.error

Within(log, capacity, rate) ==
  \A i, j \in DOMAIN log : i <= j => j - i + 1 <= capacity + rate * (To(log[j]) - From(log[i]))

(* In every window of time the limiter gives a caller at most the general
   burst and the refill of the window, lengthened by the errors of the clocks
   that its scripts were given: a script that ran d ticks after its clock was
   read, or with a clock d ticks off, is worth at most d ticks of refill, once.
   For any order of requests of both classes, idle times, expired buckets,
   lost answers and repeated scripts. *)
AdmittedWithinLimits ==
  \A k \in Keys : Within(admitted[k], Capacity["general"], ratePerSecond("general"))

(* The replicas share one accurate limit: the burst and the refill of the
   window.  Refuted on a single clock: a request whose script runs late sets ts
   back, and the next one is refilled for an interval that was used before. *)
AccurateLimit ==
  \A k \in Keys : \A i, j \in DOMAIN admitted[k] :
    i <= j => j - i + 1 <= Capacity["general"] + ratePerSecond("general") * (admitted[k][j].at - admitted[k][i].at)

(* Requests to the auth routes stay within the auth bucket.  Refuted: both
   policies read and write one key per caller. *)
AuthWithinLimits ==
  \A k \in Keys :
    Within(SelectSeq(admitted[k], LAMBDA x : x.class = "auth"), Capacity["auth"], ratePerSecond("auth"))
=============================================================================
