----------------------------- MODULE RateLimiter -----------------------------
(***************************************************************************)
(* The rate limiter of the API: a token bucket per client, kept in a store *)
(* that drops the least recently used bucket when it is full and idle ones *)
(* now and then.  A request gets its bucket under the lock of the store    *)
(* and takes a token afterwards, so it may use a bucket that was dropped   *)
(* in between (api/middleware/ratelimit).                                  *)
(*                                                                         *)
(* A tick is the time in which a bucket gains one token.                   *)
(***************************************************************************)
EXTENDS Naturals, Sequences, FiniteSets, SequencesExt

CONSTANTS Clients, Requests,
          MaxEntries,    \* buckets in the store
          Burst,         \* tokens of a full bucket
          IdleLimit      \* ticks after which an idle bucket may be dropped

ASSUME RateAssumption ==
  /\ MaxEntries \in Nat \ {0} /\ Burst \in Nat \ {0}
  /\ IdleLimit \in Nat /\ IdleLimit >= Burst

VARIABLES bucketOf,      \* the store: the bucket of each client that has one
          lru,           \* the clients of the store, the last used first
          bucket,        \* tokens and idle ticks of every bucket, stored or dropped
          request,       \* the bucket a request holds, 0 if none, and its client
          fair,          \* tokens a client would have if nothing were ever dropped
          late,          \* tokens it took from dropped buckets since it would have had all
          evicted        \* the clients whose bucket fell out of a full store

rateVars == <<bucketOf, lru, bucket, request, fair, late, evicted>>

(* Enough buckets for the store and all requests.                          *)
Buckets == 1 .. (MaxEntries + Cardinality(Requests))

FullBucket == [tokens |-> Burst, idle |-> 0]
NoRequest == [bucket |-> 0, client |-> CHOOSE c \in Clients : TRUE]

RateInit ==
  /\ bucketOf = <<>>
  /\ lru = <<>>
  /\ bucket = [b \in Buckets |-> FullBucket]
  /\ request = [r \in Requests |-> NoRequest]
  /\ fair = [c \in Clients |-> Burst]
  /\ late = [c \in Clients |-> 0]
  /\ evicted = {}

Stored == DOMAIN bucketOf
InUse == {bucketOf[c] : c \in Stored} \cup {request[r].bucket : r \in Requests}

Without(f, S) == [x \in DOMAIN f \ S |-> f[x]]
ToFront(c) == <<c>> \o SelectSeq(lru, LAMBDA x : x # c)
Least(a, b) == IF a <= b THEN a ELSE b

(* GetBucketWithRate: the bucket of the client, or a new one.              *)
GetBucket(r, c) ==
  /\ request[r].bucket = 0 /\ c \in Stored
  /\ request' = [request EXCEPT ![r] = [bucket |-> bucketOf[c], client |-> c]]
  /\ lru' = ToFront(c)
  /\ UNCHANGED <<bucketOf, bucket, fair, late, evicted>>

(* evictOldest.                                                            *)
Oldest == IF Cardinality(Stored) >= MaxEntries /\ lru # <<>> THEN {Last(lru)} ELSE {}

(* A bucket that nobody holds any more is garbage, and stands for the new  *)
(* one; there are enough.                                                  *)
NewBucket(r, c) == \E b \in Buckets \ InUse :
  /\ request[r].bucket = 0 /\ c \notin Stored
  /\ request' = [request EXCEPT ![r] = [bucket |-> b, client |-> c]]
  /\ bucket' = [bucket EXCEPT ![b] = FullBucket]
  /\ bucketOf' = [x \in (Stored \ Oldest) \cup {c} |-> IF x = c THEN b ELSE bucketOf[x]]
  /\ lru' = <<c>> \o (IF Oldest = {} THEN lru ELSE Front(lru))
  /\ evicted' = evicted \cup Oldest
  /\ UNCHANGED <<fair, late>>

FromDropped(r) == ~(request[r].client \in Stored /\ bucketOf[request[r].client] = request[r].bucket)

(* Bucket.Allow: the access counts also when there is no token.  More late *)
(* tokens than a bucket has make no difference.                            *)
Allow(r) ==
  LET b == request[r].bucket
      c == request[r].client
      granted == bucket[b].tokens > 0 IN
  /\ b # 0
  /\ bucket' = [bucket EXCEPT ![b] = [tokens |-> IF granted THEN @.tokens - 1 ELSE @.tokens, idle |-> 0]]
  /\ fair' = [fair EXCEPT ![c] = IF granted /\ @ > 0 THEN @ - 1 ELSE @]
  /\ late' = [late EXCEPT ![c] = IF granted /\ FromDropped(r) THEN Least(@ + 1, Burst) ELSE @]
  /\ request' = [request EXCEPT ![r] = NoRequest]
  /\ UNCHANGED <<bucketOf, lru, evicted>>

(* Time passes: every bucket gains a token (golang.org/x/time/rate).       *)
Tick ==
  /\ bucket' = [b \in Buckets |-> IF b \in InUse
                  THEN [tokens |-> Least(bucket[b].tokens + 1, Burst),
                        idle |-> Least(bucket[b].idle + 1, IdleLimit + 1)]
                  ELSE FullBucket]
  /\ fair' = [c \in Clients |-> Least(fair[c] + 1, Burst)]
  /\ late' = [c \in Clients |-> IF fair[c] + 1 < Burst THEN late[c] ELSE 0]
  /\ UNCHANGED <<bucketOf, lru, request, evicted>>

(* Mutated: any bucket that was not used since the last tick is expired.   *)
ExpiredSoon(b) == bucket[b].idle > 0

Expired(b) == bucket[b].idle > IdleLimit

CleanupStore ==
  LET idle == {c \in Stored : Expired(bucketOf[c])} IN
  /\ idle # {}
  /\ bucketOf' = Without(bucketOf, idle)
  /\ lru' = SelectSeq(lru, LAMBDA c : c \notin idle)
  /\ UNCHANGED <<bucket, request, fair, late, evicted>>

RateNext ==
  \/ \E r \in Requests : Allow(r) \/ \E c \in Clients : GetBucket(r, c) \/ NewBucket(r, c)
  \/ Tick \/ CleanupStore

RateSpec == RateInit /\ [][RateNext]_rateVars

-----------------------------------------------------------------------------
(* Dropping an idle bucket gives no tokens away but to requests that are   *)
(* under way: the bucket of a client that was never pushed out of a full   *)
(* store holds no more than one that was kept all the time, but for one    *)
(* token for each request that took its token from a bucket after Cleanup  *)
(* had dropped it.  That token is given twice, as the next bucket of the   *)
(* client starts full; it counts until the client would have all its       *)
(* tokens anyway.                                                          *)
NoFreeTokens ==
  \A c \in Stored \ evicted : bucket[bucketOf[c]].tokens <= fair[c] + late[c]
=============================================================================
