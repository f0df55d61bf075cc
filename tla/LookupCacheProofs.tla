------------------------- MODULE LookupCacheProofs -------------------------
(***************************************************************************)
(* The stampede guard, the ages and the invalidations of LookupCache for   *)
(* any number of replicas, callers, keys, calls, faults and ticks.         *)
(***************************************************************************)
EXTENDS LookupCache, TLAPS

Paths == {"none", "start", "locked", "wait", "raise", "cached", "local", "fallback", "unlocked", "put", "drop"}
Pcs == {"none", "get", "acquire", "sleep", "want", "load", "set", "release", "del", "done"}
Outs == {"none", "ok", "redis error", "loader error", "cancelled"}
Coroutines == [pc : Pcs, path : Paths, key : Keys, val : Entries, reply : Entries, rounds : Nat, out : Outs]

(* Where a coroutine can be on which path.                                 *)
OnPath(r) ==
    /\ r.pc = "get" => r.path \in {"start", "locked", "wait", "raise", "cached"}
    /\ r.pc = "acquire" => r.path = "start"
    /\ r.pc = "sleep" => r.path = "wait"
    /\ r.pc \in {"want", "load"} => r.path \in {"locked", "unlocked", "fallback", "local"}
    /\ r.pc = "set" => r.path \in {"locked", "unlocked", "put"} /\ r.val.age = 0 /\ RedisTtl(r.val.value) > 0
    /\ r.pc = "release" => r.path = "locked"
    /\ r.pc = "del" => r.path = "drop"
    /\ r.pc \in {"none", "sleep", "done"} => r.reply = NoReply
    /\ r.pc = "none" => r.path = "none"
    /\ r.path # "none" => (r.path = "local" <=> ~redis_enabled)
    /\ r.pc = "load" /\ r.reply.is = "value" => r.reply.age = 0

LocalEntries == [key : Keys, value : Nat, age : Nat, left : Nat]
OneEach(entries) == \A i, j \in DOMAIN entries : entries[i].key = entries[j].key => i = j

SpentFields == {"calls", "errors", "cancels", "changes", "ticks", "lapsed", "waitedOut", "put", "late", "overlap"}

CacheType ==
    /\ conf \in Configs
    /\ local \in [Replicas -> Seq(LocalEntries)] /\ \A r \in Replicas : OneEach(local[r])
    /\ inflight \in [Replicas -> [Keys -> Callers \cup {NoCaller}]]
    /\ awaits \in [Callers -> Callers \cup {NoCaller}]
    /\ co \in [Callers -> Coroutines] /\ \A c \in Callers : OnPath(co[c])
    /\ redis \in [Keys -> Entries]
    /\ lock \in [Keys -> [owner : Callers \cup {NoCaller}, left : Nat]]
    /\ truth \in [Keys -> Nat]
    /\ floor \in [Replicas -> [Keys -> Nat]]
    /\ DOMAIN spent = SpentFields /\ \A f \in {"calls", "errors", "cancels", "changes", "ticks"} : spent[f] \in Nat

(* Redis' entries are values that will expire, or nothing; none is used    *)
(* without Redis, and the undecodable ones come with an error.             *)
EntryOk(e) ==
    /\ e.is \in {"missing", "value", "corrupt"}
    /\ e.is = "missing" => e = Missing
    /\ e.is = "value" => e.left >= 1 /\ e.age + e.left <= RedisTtl(e.value)
    /\ e.is # "missing" => redis_enabled
    /\ spent.errors = 0 => e.is # "corrupt"
RedisOk == \A k \in Keys : EntryOk(redis[k])

ReplyOk(r) ==
    /\ spent.errors = 0 => r.reply.is \notin {"error", "corrupt"} /\ r.path \notin {"raise", "fallback"}
    /\ ~spent.waitedOut => r.path # "unlocked"
    /\ ~spent.put => r.path # "put"
    /\ r.pc = "get" /\ r.reply.is = "missing" => r.reply = Missing
    /\ r.pc = "get" /\ r.reply.is = "value" => r.reply.left >= 1 /\ r.reply.age + r.reply.left <= RedisTtl(r.reply.value)
RepliesOk == \A c \in Callers : ReplyOk(co[c])

BaseInv == CacheType /\ RedisOk /\ RepliesOk

(* A coroutine has the lock.                                               *)
Has(r) == \/ r.path = "locked" /\ r.pc \in {"get", "want", "load", "set"}
          \/ r.path = "locked" /\ r.pc = "release" /\ r.reply = NoReply
          \/ r.pc = "acquire" /\ r.reply = Yes
HoldersOwn == \A c \in Callers : Has(co[c]) => lock[co[c].key].owner = c /\ lock[co[c].key].left >= 1
NothingToRepeat ==
    ~spent.put => \A c \in Callers :
        /\ co[c].path = "locked"
        /\ co[c].pc \in {"want", "load"} \/ (co[c].pc = "get" /\ co[c].reply.is = "missing")
        => redis[co[c].key] = Missing
LockInv == LockKept => HoldersOwn /\ NothingToRepeat

(* No value in sight is older than an invalidation.                        *)
Undisturbed == ~spent.overlap /\ spent.errors = 0 /\ spent.cancels = 0
Recent(v, k) == \A r \in Replicas : floor[r][k] <= v
AtWork(r, k) == r.pc \notin {"none", "done"} /\ r.key = k
DelPending(r, k) == r.pc = "del" /\ r.key = k /\ r.reply = NoReply
StoredRecent == \A k \in Keys : redis[k].is = "value" => Recent(redis[k].value, k) \/ \E c \in Callers : DelPending(co[c], k)
HandRecent(r) == /\ r.reply.is = "value" => Recent(r.reply.value, r.key)
                 /\ r.pc = "set" => Recent(r.val.value, r.key)
DropsAlone == \A c, d \in Callers : co[c].pc = "del" /\ AtWork(co[d], co[c].key) => c = d
LocalRecent == \A r \in Replicas : \A i \in DOMAIN local[r] : local[r][i].value >= floor[r][local[r][i].key]
DropInv ==
    Undisturbed => StoredRecent /\ (\A c \in Callers : HandRecent(co[c])) /\ DropsAlone /\ LocalRecent
FloorInv == \A k \in Keys : Recent(truth[k], k)

Bounded(e) ==
    e.left > 0 => e.age + e.left <= LocalTtl(e.value) + (IF RedisTtl(e.value) > 0 THEN RedisTtl(e.value) - 1 ELSE 0)
AgeInv == \A r \in Replicas : \A i \in DOMAIN local[r] : Bounded(local[r][i])

-----------------------------------------------------------------------------
(* The local layer.                                                        *)

LEMMA WithoutOk ==
  ASSUME NEW s \in Seq(LocalEntries), OneEach(s), NEW k
  PROVE  /\ Without(s, k) \in Seq(LocalEntries) /\ OneEach(Without(s, k))
         /\ \A i \in DOMAIN Without(s, k) : /\ Without(s, k)[i].key # k
                                            /\ \E j \in DOMAIN s : Without(s, k)[i] = s[j]
<1>1. CASE \E i \in DOMAIN s : s[i].key = k
  <2>1. PICK at \in DOMAIN s : at = (CHOOSE i \in DOMAIN s : s[i].key = k) /\ s[at].key = k
    BY <1>1, Zenon
  <2>. DEFINE w == [i \in 1 .. Len(s) - 1 |-> IF i < at THEN s[i] ELSE s[i + 1]]
  <2>2. Without(s, k) = w
    BY <1>1, <2>1, Zenon DEF Without
  <2>3. DOMAIN s = 1 .. Len(s) /\ Len(s) \in Nat /\ Len(s) - 1 \in Nat
    BY <2>1
  <2>4. \A i \in 1 .. Len(s) - 1 : i \in DOMAIN s /\ i + 1 \in DOMAIN s
    BY <2>3
  <2>5. \A i \in 1 .. Len(s) - 1 : w[i] \in LocalEntries
    BY <2>4
  <2>6. w \in Seq(LocalEntries)
    BY <2>3, <2>5
  <2>7. \A i \in 1 .. Len(s) - 1 : w[i].key # k
    BY <2>1, <2>3, <2>4 DEF OneEach
  <2>8. \A i, j \in 1 .. Len(s) - 1 : w[i].key = w[j].key => i = j
    <3>. SUFFICES ASSUME NEW i \in 1 .. Len(s) - 1, NEW j \in 1 .. Len(s) - 1, w[i].key = w[j].key PROVE i = j
      BY Zenon
    <3>. DEFINE m(h) == IF h < at THEN h ELSE h + 1
    <3>1. m(i) \in DOMAIN s /\ m(j) \in DOMAIN s /\ w[i] = s[m(i)] /\ w[j] = s[m(j)]
      BY <2>4, Zenon
    <3>2. m(i) = m(j)
      BY <3>1, Zenon DEF OneEach
    <3>. QED  BY <2>3, <3>2
  <2>9. DOMAIN w = 1 .. Len(s) - 1
    BY Zenon
  <2>10. \A i \in 1 .. Len(s) - 1 : \E j \in DOMAIN s : w[i] = s[j]
    BY <2>4, Zenon
  <2>. HIDE DEF w
  <2>. QED  BY <2>2, <2>6, <2>7, <2>8, <2>9, <2>10, Zenon DEF OneEach
<1>2. CASE ~\E i \in DOMAIN s : s[i].key = k
  BY <1>2, Zenon DEF Without
<1>. QED  BY <1>1, <1>2, Zenon

LEMMA TrimOk ==
  ASSUME NEW s \in Seq(LocalEntries), OneEach(s)
  PROVE  /\ Trim(s) \in Seq(LocalEntries) /\ OneEach(Trim(s))
         /\ \A i \in DOMAIN Trim(s) : \E j \in DOMAIN s : Trim(s)[i] = s[j]
<1>1. CASE Len(s) > MaxEntries
  <2>. DEFINE m == 1 + Len(s) - MaxEntries
              t == SubSeq(s, m, Len(s))
  <2>1. m \in 1 .. Len(s) /\ Len(s) \in Nat /\ DOMAIN s = 1 .. Len(s) /\ MaxEntries \in Nat \ {0}
    BY <1>1, MaxEntriesPositive
  <2>2. Trim(s) = t
    BY <1>1, Zenon DEF Trim
  <2>. HIDE DEF m
  <2>3. t \in Seq(LocalEntries) /\ Len(t) = Len(s) - m + 1 /\ DOMAIN t = 1 .. Len(t)
    <3>1. m \in Nat /\ Len(s) - m + 1 \in Nat
      BY <2>1
    <3>2. t = [i \in 1 .. Len(s) - m + 1 |-> s[i + m - 1]]
      BY <2>1, <3>1 DEF SubSeq
    <3>3. \A i \in 1 .. Len(s) - m + 1 : s[i + m - 1] \in LocalEntries
      BY <2>1, <3>1
    <3>. QED  BY <3>1, <3>2, <3>3
  <2>4. \A i \in 1 .. Len(t) : t[i] = s[m + i - 1] /\ m + i - 1 \in DOMAIN s
    BY <2>1, <2>3
  <2>. HIDE DEF t
  <2>5. OneEach(t)
    <3>. SUFFICES ASSUME NEW i \in 1 .. Len(t), NEW j \in 1 .. Len(t), t[i].key = t[j].key PROVE i = j
      BY <2>3, Zenon DEF OneEach
    <3>1. m + i - 1 = m + j - 1
      BY <2>4 DEF OneEach
    <3>. QED  BY <2>1, <2>3, <3>1
  <2>. QED  BY <2>2, <2>3, <2>4, <2>5, Zenon
<1>2. CASE ~(Len(s) > MaxEntries)
  BY <1>2, Zenon DEF Trim
<1>. QED  BY <1>1, <1>2, Zenon

(* An entry of the local layer stays, or is the one that was stored.       *)
Stored(k, v) == [key |-> k, value |-> v.value, age |-> v.age, left |-> LocalTtl(v.value)]
Kept(e, s) == \E j \in DOMAIN s : e = s[j]

LEMMA TtlsAreNats ==
  ASSUME conf \in Configs, NEW v
  PROVE  LocalTtl(v) \in Nat /\ RedisTtl(v) \in Nat
  BY ConfigsAreLegal, Zenon DEF LocalTtl, RedisTtl

LEMMA DropsLocal ==
  ASSUME local \in [Replicas -> Seq(LocalEntries)], \A d \in Replicas : OneEach(local[d]),
         NEW r \in Replicas, NEW k, NEW s,
         s \in {local[r], Without(local[r], k), << >>}, local' = [local EXCEPT ![r] = s]
  PROVE  /\ local' \in [Replicas -> Seq(LocalEntries)] /\ \A d \in Replicas : OneEach(local'[d])
         /\ \A d \in Replicas : \A i \in DOMAIN local'[d] : Kept(local'[d][i], local[d])
<1>1. s \in Seq(LocalEntries) /\ OneEach(s) /\ \A i \in DOMAIN s : Kept(s[i], local[r])
  <2>1. CASE s = local[r]
    BY <2>1, Zenon DEF Kept
  <2>2. CASE s = Without(local[r], k)
    BY <2>2, WithoutOk DEF Kept
  <2>3. CASE s = << >>
    BY <2>3 DEF OneEach
  <2>. QED  BY <2>1, <2>2, <2>3, Zenon
<1>2. \A d \in Replicas : local'[d] = IF d = r THEN s ELSE local[d]
  BY Zenon
<1>. QED  BY <1>1, <1>2 DEF Kept

LEMMA StoresLocal ==
  ASSUME local \in [Replicas -> Seq(LocalEntries)], \A d \in Replicas : OneEach(local[d]), conf \in Configs,
         NEW r \in Replicas, NEW k \in Keys, NEW v \in Entries, StoreLocal(r, k, v)
  PROVE  /\ local' \in [Replicas -> Seq(LocalEntries)] /\ \A d \in Replicas : OneEach(local'[d])
         /\ \A d \in Replicas : \A i \in DOMAIN local'[d] :
               Kept(local'[d][i], local[d]) \/ (d = r /\ local'[d][i] = Stored(k, v))
<1>1. CASE UNCHANGED local
  BY <1>1, Zenon DEF Kept
<1>2. CASE local_enabled /\ LocalTtl(v.value) > 0
  <2>. DEFINE w == Without(local[r], k)
              e == Stored(k, v)
              t == Append(w, e)
  <2>1. w \in Seq(LocalEntries) /\ OneEach(w) /\ \A i \in DOMAIN w : w[i].key # k /\ Kept(w[i], local[r])
    BY WithoutOk DEF Kept
  <2>2. e \in LocalEntries /\ e.key = k
    BY TtlsAreNats, Zenon DEF Stored, LocalEntries, Entries
  <2>3. local' = [local EXCEPT ![r] = Trim(t)]
    BY <1>2, Zenon DEF StoreLocal, Stored
  <2>. HIDE DEF w, e
  <2>4. /\ t \in Seq(LocalEntries) /\ Len(t) = Len(w) + 1 /\ DOMAIN t = 1 .. Len(w) + 1 /\ Len(w) \in Nat
        /\ DOMAIN w = 1 .. Len(w) /\ t[Len(w) + 1] = e /\ \A i \in 1 .. Len(w) : t[i] = w[i]
    BY <2>1, <2>2
  <2>. HIDE DEF t
  <2>5. OneEach(t)
    <3>. SUFFICES ASSUME NEW i \in DOMAIN t, NEW j \in DOMAIN t, t[i].key = t[j].key PROVE i = j
      BY Zenon DEF OneEach
    <3>1. CASE i \in 1 .. Len(w) /\ j \in 1 .. Len(w)
      BY <2>1, <2>4, <3>1, Zenon DEF OneEach
    <3>2. CASE i = Len(w) + 1 \/ j = Len(w) + 1
      BY <2>1, <2>2, <2>4, <3>2
    <3>. QED  BY <2>4, <3>1, <3>2
  <2>6. \A i \in DOMAIN t : Kept(t[i], local[r]) \/ t[i] = e
    BY <2>1, <2>4
  <2>7. Trim(t) \in Seq(LocalEntries) /\ OneEach(Trim(t)) /\ \A i \in DOMAIN Trim(t) : \E j \in DOMAIN t : Trim(t)[i] = t[j]
    BY <2>4, <2>5, TrimOk, Zenon
  <2>8. \A i \in DOMAIN Trim(t) : Kept(Trim(t)[i], local[r]) \/ Trim(t)[i] = e
    BY <2>6, <2>7, Zenon
  <2>9. \A d \in Replicas : local'[d] = IF d = r THEN Trim(t) ELSE local[d]
    BY <2>3, Zenon
  <2>. QED  BY <2>3, <2>7, <2>8, <2>9 DEF Kept, e
<1>. QED  BY <1>1, <1>2, Zenon DEF StoreLocal

-----------------------------------------------------------------------------
(* The coroutines: one moves at a time.                                    *)

LEMMA RepliesAreEntries ==
  /\ \A e \in {Missing, Corrupt, Error, NoReply, Yes, No} : e \in Entries
  /\ Missing.is = "missing" /\ Corrupt.is = "corrupt" /\ Error.is = "error" /\ NoReply.is = "pending"
  /\ Yes.is = "yes" /\ No.is = "no"
  BY DEF Missing, Corrupt, Error, NoReply, Yes, No, Entries

LEMMA PresentIsEntry ==
  ASSUME NEW v \in Nat, NEW age \in Nat, NEW left \in Nat
  PROVE  /\ Present(v, age, left) \in Entries /\ Present(v, age, left).is = "value"
         /\ Present(v, age, left).value = v /\ Present(v, age, left).age = age /\ Present(v, age, left).left = left
  BY Zenon DEF Present, Entries

LEMMA CoFields ==
  \A r \in Coroutines : /\ r.pc \in Pcs /\ r.path \in Paths /\ r.key \in Keys /\ r.val \in Entries
                        /\ r.reply \in Entries /\ r.rounds \in Nat /\ r.out \in Outs
  BY Zenon DEF Coroutines

(* How a coroutine ends: through the release of the lock it has.           *)
LEMMA Finishes ==
  ASSUME CacheType, NEW c \in Callers, NEW out \in Outs, Finish(c, out)
  PROVE  \E n \in Coroutines :
            /\ co' = [co EXCEPT ![c] = n] /\ n.key = co[c].key /\ n.path = co[c].path /\ n.reply = NoReply
            /\ n.pc = IF co[c].pc # "release" /\ co[c].path = "locked" THEN "release" ELSE "done"
            /\ OnPath(n)
<1>1. PICK r \in Coroutines : r = co[c] /\ OnPath(r)
  BY Zenon DEF CacheType
<1>2. PICK pc \in Pcs : pc = IF r.pc # "release" /\ r.path = "locked" THEN "release" ELSE "done"
  BY Zenon DEF Pcs
<1>. DEFINE n == [r EXCEPT !.pc = pc, !.reply = NoReply, !.val = NoReply, !.rounds = 0, !.out = out]
<1>3. n \in Coroutines /\ n.pc = pc /\ n.path = r.path /\ n.reply = NoReply /\ n.key = r.key
  BY RepliesAreEntries, Zenon DEF Coroutines
<1>4. co' = [co EXCEPT ![c] = n]
  <2>1. n = [co[c] EXCEPT !.pc = IF co[c].pc # "release" /\ co[c].path = "locked" THEN "release" ELSE "done",
                          !.reply = NoReply, !.val = NoReply, !.rounds = 0, !.out = out]
    BY <1>1, <1>2, Zenon
  <2>. HIDE DEF n
  <2>. QED  BY <2>1, Zenon DEF Finish
<1>. HIDE DEF n
<1>5. OnPath(n)
  BY <1>1, <1>2, <1>3, Zenon DEF OnPath
<1>. QED  BY <1>1, <1>2, <1>3, <1>4, <1>5, Zenon

LEMMA Goes ==
  ASSUME CacheType, NEW c \in Callers, NEW pc \in Pcs, NEW path \in Paths, To(c, pc, path)
  PROVE  \E n \in Coroutines :
            /\ co' = [co EXCEPT ![c] = n] /\ n.key = co[c].key /\ n.path = path /\ n.reply = NoReply /\ n.pc = pc
            /\ n.val = co[c].val
<1>1. PICK r \in Coroutines : r = co[c]
  BY Zenon DEF CacheType
<1>. DEFINE n == [r EXCEPT !.pc = pc, !.path = path, !.reply = NoReply]
<1>2. n \in Coroutines /\ n.pc = pc /\ n.path = path /\ n.reply = NoReply /\ n.key = r.key /\ n.val = r.val
  BY RepliesAreEntries, Zenon DEF Coroutines
<1>3. co' = [co EXCEPT ![c] = n]
  BY <1>1, Zenon DEF To
<1>. QED  BY <1>1, <1>2, <1>3, Zenon

(* What a resumed coroutine makes of an answer.                            *)
Step(c, n) ==
    LET r == co[c] IN
    /\ co' = [co EXCEPT ![c] = n] /\ n.key = r.key /\ OnPath(n)
    /\ r.pc \notin {"none", "done"} /\ n.pc \notin {"none", "del"}
    /\ \/ n.reply = NoReply
       \/ n.pc = "load" /\ r.pc = "load" /\ n.path = r.path /\ n.reply = Present(truth[r.key], 0, 0)
    /\ \/ n.path \in {r.path, "wait"}
       \/ n.path \in {"raise", "fallback"} /\ r.reply = Error
       \/ n.path = "unlocked" /\ spent'.waitedOut
       \/ n.path = "locked" /\ n.pc = "get"
    /\ Has(n) => Has(r)
    /\ n.path = "locked" /\ n.pc \in {"want", "load"} =>
          r.path = "locked" /\ (r.pc \in {"want", "load"} \/ (r.pc = "get" /\ r.reply.is \in {"missing", "error", "corrupt"}))
    /\ n.pc = "set" => r.pc = "load" /\ r.reply.is = "value" /\ n.val = r.reply

LEMMA FinishIsStep ==
  ASSUME CacheType, NEW c \in Callers, NEW out \in Outs, Finish(c, out), co[c].pc \notin {"none", "done"}
  PROVE  \E n \in Coroutines : Step(c, n)
<1>1. PICK r \in Coroutines : r = co[c] /\ OnPath(r) /\ r.pc \in Pcs
  BY CoFields, Zenon DEF CacheType
<1>2. PICK n \in Coroutines :
            /\ co' = [co EXCEPT ![c] = n] /\ n.key = r.key /\ n.path = r.path /\ n.reply = NoReply
            /\ n.pc = IF r.pc # "release" /\ r.path = "locked" THEN "release" ELSE "done"
            /\ OnPath(n)
  BY <1>1, Finishes, Zenon
<1>3. Has(n) => Has(r)
  BY <1>1, <1>2, Zenon DEF Has, OnPath, Pcs
<1>. QED  BY <1>1, <1>2, <1>3, Zenon DEF Step

LEMMA GoIsStep ==
  ASSUME CacheType, NEW c \in Callers, NEW pc \in {"get", "acquire", "sleep", "want", "load"}, NEW path \in Paths, To(c, pc, path),
         co[c].pc \notin {"none", "done"},
         \/ path \in {co[c].path, "wait"}
         \/ path \in {"raise", "fallback"} /\ co[c].reply = Error
         \/ path = "locked" /\ pc = "get" /\ co[c].pc = "acquire" /\ co[c].reply = Yes,
         pc = "get" => path \in {"locked", "wait", "raise"},
         pc = "acquire" => path = "start",
         pc = "sleep" => path = "wait",
         pc \in {"want", "load"} => path \in {"locked", "unlocked", "fallback", "local"},
         path = "local" <=> ~redis_enabled,
         path = "locked" =>
            \/ pc = "get" /\ co[c].pc = "acquire" /\ co[c].reply = Yes
            \/ /\ co[c].path = "locked"
               /\ co[c].pc \in {"want", "load"} \/ (co[c].pc = "get" /\ co[c].reply.is \in {"missing", "error", "corrupt"})
  PROVE  \E n \in Coroutines : Step(c, n)
<1>1. PICK r \in Coroutines : r = co[c] /\ OnPath(r)
  BY Zenon DEF CacheType
<1>2. pc \in Pcs
  BY Zenon DEF Pcs
<1>3. PICK n \in Coroutines :
            /\ co' = [co EXCEPT ![c] = n] /\ n.key = r.key /\ n.path = path /\ n.reply = NoReply /\ n.pc = pc
  BY <1>1, <1>2, Goes
<1>4. NoReply # Yes /\ NoReply.is # "value"
  BY Zenon DEF NoReply, Yes
<1>5. OnPath(n)
  BY <1>3, <1>4, Zenon DEF OnPath
<1>6. Has(n) => Has(r)
  BY <1>1, <1>3, <1>4, Zenon DEF Has
<1>. QED  BY <1>1, <1>3, <1>5, <1>6, Zenon DEF Step

(* The local layer after a step of a coroutine.                            *)
LocalStep(c) == UNCHANGED local \/ (/\ StoreLocal(Home[c], co[c].key, co[c].reply) /\ co[c].pc \in {"get", "load"}
                                    /\ co[c].reply.is = "value")

LEMMA Resumes ==
  ASSUME CacheType, NEW c \in Callers, Resume(c) \/ WaitEnds(c) \/ RunLoader(c)
  PROVE  /\ \E n \in Coroutines : Step(c, n)
         /\ UNCHANGED others /\ LocalStep(c)
         /\ UNCHANGED spent \/ spent' = [spent EXCEPT !.waitedOut = TRUE]
<1>. USE DEF LocalStep
<1>1. PICK r \in Coroutines : r = co[c] /\ OnPath(r) /\ r.pc \in Pcs /\ r.path \in Paths /\ r.reply \in Entries /\ r.key \in Keys
  BY CoFields, Zenon DEF CacheType
<1>2. /\ {"ok", "redis error", "loader error", "none"} \subseteq Outs
  BY Zenon DEF Outs
<1>3. CASE GetRedisHit(c)
  <2>1. \E n \in Coroutines : Step(c, n)
    BY <1>2, <1>3, FinishIsStep, Zenon DEF GetRedisHit
  <2>. QED  BY <1>3, <2>1, Zenon DEF GetRedisHit, Hit
<1>4. CASE GetRedisRaises(c)
  <2>1. \E n \in Coroutines : Step(c, n)
    BY <1>2, <1>4, FinishIsStep, Zenon DEF GetRedisRaises
  <2>. QED  BY <1>4, <2>1, Zenon DEF GetRedisRaises
<1>5. CASE GetRedisMiss(c)
  <2>0. r.pc = "get" /\ r.reply.is \in {"missing", "error", "corrupt"} /\ r.path # "local"
    BY <1>1, <1>5, Zenon DEF GetRedisMiss, Miss, OnPath
  <2>1. CASE co[c].path = "start" /\ To(c, "acquire", "start")
    <3>1. redis_enabled
      BY <1>1, <2>0, Zenon DEF OnPath
    <3>. QED  BY <1>1, <2>0, <2>1, <3>1, <1>5, GoIsStep, Zenon DEF GetRedisMiss, Paths
  <2>2. CASE co[c].path = "locked" /\ To(c, "want", "locked")
    <3>1. redis_enabled
      BY <1>1, <2>0, Zenon DEF OnPath
    <3>. QED  BY <1>1, <2>0, <2>2, <3>1, <1>5, GoIsStep, Zenon DEF GetRedisMiss, Paths
  <2>3. CASE co[c].path = "wait" /\ To(c, "sleep", "wait")
    <3>1. redis_enabled
      BY <1>1, <2>0, Zenon DEF OnPath
    <3>. QED  BY <1>1, <2>0, <2>3, <3>1, <1>5, GoIsStep, Zenon DEF GetRedisMiss, Paths
  <2>4. CASE Finish(c, "redis error") \/ Finish(c, "none")
    <3>1. \E n \in Coroutines : Step(c, n)
      BY <1>1, <1>2, <2>0, <2>4, FinishIsStep, Zenon
    <3>. QED  BY <3>1, <1>5, Zenon DEF GetRedisMiss
  <2>. QED  BY <1>5, <2>1, <2>2, <2>3, <2>4, Zenon DEF GetRedisMiss
<1>6. CASE LockAcquired(c) \/ LockRefused(c) \/ LockRaises(c)
  <2>0. r.pc = "acquire" /\ r.path = "start" /\ redis_enabled
    BY <1>1, <1>6, Zenon DEF LockAcquired, LockRefused, LockRaises, OnPath
  <2>1. CASE LockAcquired(c)
    BY <1>1, <2>0, <2>1, GoIsStep, Zenon DEF LockAcquired, Paths
  <2>2. CASE LockRefused(c)
    BY <1>1, <2>0, <2>2, GoIsStep, Zenon DEF LockRefused, Paths
  <2>3. CASE LockRaises(c)
    <3>1. CASE To(c, "get", "raise")
      BY <1>1, <2>0, <2>3, <3>1, GoIsStep, Zenon DEF LockRaises, Paths
    <3>2. CASE To(c, "want", "fallback")
      BY <1>1, <2>0, <2>3, <3>2, GoIsStep, Zenon DEF LockRaises, Paths
    <3>. QED  BY <2>3, <3>1, <3>2, Zenon DEF LockRaises
  <2>. QED  BY <1>6, <2>1, <2>2, <2>3, Zenon
<1>7. CASE RunLoader(c)
  <2>1. r.pc = "want" /\ r.path \in {"locked", "unlocked", "fallback", "local"} /\ (r.path = "local" <=> ~redis_enabled)
    BY <1>1, <1>7, Zenon DEF RunLoader, OnPath
  <2>. QED  BY <1>1, <1>7, <2>1, GoIsStep, Zenon DEF RunLoader
<1>8. CASE WaitAgain(c) \/ WaitEnds(c)
  <2>1. r.pc = "sleep" /\ r.path = "wait" /\ r.reply = NoReply /\ redis_enabled /\ NoReply.is # "value"
    BY <1>1, <1>8, Zenon DEF WaitAgain, WaitEnds, OnPath, NoReply
  <2>2. CASE WaitAgain(c)
    <3>. DEFINE n == [r EXCEPT !.pc = "get", !.rounds = r.rounds + 1]
    <3>0. PICK m \in Nat : m = r.rounds + 1
      BY CoFields
    <3>1. n \in Coroutines /\ n.pc = "get" /\ n.path = r.path /\ n.key = r.key /\ n.reply = r.reply
      BY <3>0, Zenon DEF Coroutines, Pcs
    <3>2. co' = [co EXCEPT ![c] = n]
      BY <1>1, <2>2, Zenon DEF WaitAgain
    <3>. HIDE DEF n
    <3>3. OnPath(n)
      BY <1>1, <2>1, <3>1, Zenon DEF OnPath
    <3>4. Step(c, n)
      BY <1>1, <2>1, <3>1, <3>2, <3>3, Zenon DEF Step, Has
    <3>. QED  BY <2>2, <3>1, <3>4, Zenon DEF WaitAgain
  <2>3. CASE WaitEnds(c)
    <3>. DEFINE n == [r EXCEPT !.pc = "want", !.path = "unlocked", !.rounds = 0]
    <3>1. n \in Coroutines /\ n.pc = "want" /\ n.path = "unlocked" /\ n.key = r.key /\ n.reply = r.reply
      BY Zenon DEF Coroutines, Pcs, Paths
    <3>2. co' = [co EXCEPT ![c] = n] /\ spent'.waitedOut
      BY <1>1, <2>3, Zenon DEF WaitEnds, CacheType, SpentFields
    <3>. HIDE DEF n
    <3>3. OnPath(n)
      BY <1>1, <2>1, <3>1, Zenon DEF OnPath
    <3>4. Step(c, n)
      BY <1>1, <2>1, <3>1, <3>2, <3>3, Zenon DEF Step, Has
    <3>. QED  BY <2>3, <3>1, <3>4, Zenon DEF WaitEnds
  <2>. QED  BY <1>8, <2>2, <2>3, Zenon
<1>9. CASE LoaderReads(c)
  <2>0. r.pc = "load" /\ truth[r.key] \in Nat
    BY <1>1, <1>9, Zenon DEF LoaderReads, CacheType
  <2>1. PICK p \in Entries : p = Present(truth[r.key], 0, 0) /\ p.age = 0 /\ p.is = "value"
    BY <2>0, PresentIsEntry
  <2>. DEFINE n == [r EXCEPT !.reply = p]
  <2>2. n \in Coroutines /\ n.pc = r.pc /\ n.path = r.path /\ n.key = r.key /\ n.reply = p
    BY Zenon DEF Coroutines
  <2>3. co' = [co EXCEPT ![c] = n]
    BY <1>1, <1>9, <2>1, Zenon DEF LoaderReads
  <2>. HIDE DEF n
  <2>4. OnPath(n)
    BY <1>1, <2>0, <2>1, <2>2, Zenon DEF OnPath
  <2>5. Step(c, n)
    BY <1>1, <2>0, <2>1, <2>2, <2>3, <2>4, Zenon DEF Step, Has
  <2>. QED  BY <1>9, <2>2, <2>5, Zenon DEF LoaderReads
<1>10. CASE LoaderReturns(c)
  <2>0. r.pc = "load" /\ r.reply.is = "value" /\ r.reply.age = 0
    BY <1>1, <1>10, Zenon DEF LoaderReturns, Hit, OnPath
  <2>1. CASE Finish(c, "ok")
    <3>1. \E n \in Coroutines : Step(c, n)
      BY <1>1, <1>2, <2>0, <2>1, FinishIsStep, Zenon
    <3>. QED  BY <1>1, <1>10, <2>0, <3>1, Zenon DEF LoaderReturns
  <2>2. CASE ~Finish(c, "ok")
    <3>0. /\ r.path \in {"locked", "unlocked"} /\ RedisTtl(r.reply.value) > 0
          /\ co' = [co EXCEPT ![c] = [r EXCEPT !.pc = "set", !.val = r.reply, !.reply = NoReply]]
      BY <1>1, <1>10, <2>2, Zenon DEF LoaderReturns
    <3>. DEFINE n == [r EXCEPT !.pc = "set", !.val = r.reply, !.reply = NoReply]
    <3>1. n \in Coroutines /\ n.pc = "set" /\ n.path = r.path /\ n.key = r.key /\ n.reply = NoReply /\ n.val = r.reply
      BY <1>1, RepliesAreEntries, Zenon DEF Coroutines, Pcs
    <3>2. co' = [co EXCEPT ![c] = n]
      BY <3>0, Zenon
    <3>. HIDE DEF n
    <3>3. OnPath(n)
      BY <1>1, <2>0, <3>0, <3>1, Zenon DEF OnPath
    <3>4. Step(c, n)
      BY <1>1, <2>0, <3>0, <3>1, <3>2, <3>3, Zenon DEF Step, Has
    <3>. QED  BY <1>1, <1>10, <2>0, <3>1, <3>4, Zenon DEF LoaderReturns
  <2>. QED  BY <2>1, <2>2, Zenon
<1>11. CASE LoaderRaises(c)
  <2>1. \E n \in Coroutines : Step(c, n)
    BY <1>2, <1>11, FinishIsStep, Zenon DEF LoaderRaises
  <2>. QED  BY <1>11, <2>1, Zenon DEF LoaderRaises
<1>12. CASE SetRedisReturns(c) \/ ReleaseReturns(c) \/ DeleteReturns(c)
  <2>1. r.pc \notin {"none", "done"}
    BY <1>1, <1>12, Zenon DEF SetRedisReturns, ReleaseReturns, DeleteReturns
  <2>2. \E out \in Outs : Finish(c, out)
    <3>1. r.out \in Outs
      BY CoFields, Zenon
    <3>. QED  BY <1>1, <1>2, <1>12, <3>1, Zenon DEF SetRedisReturns, ReleaseReturns, DeleteReturns
  <2>3. \E n \in Coroutines : Step(c, n)
    BY <1>1, <2>1, <2>2, FinishIsStep, Zenon
  <2>. QED  BY <1>12, <2>3, Zenon DEF SetRedisReturns, ReleaseReturns, DeleteReturns
<1>. QED  BY <1>3, <1>4, <1>5, <1>6, <1>7, <1>8, <1>9, <1>10, <1>11, <1>12, Zenon DEF Resume

-----------------------------------------------------------------------------
(* What every step keeps.                                                  *)

LEMMA Starts ==
  ASSUME NEW pc \in Pcs, NEW path \in Paths, NEW k \in Keys
  PROVE  /\ NoCo \in Coroutines /\ NoCo.pc = "none" /\ NoCo.path = "none" /\ NoCo.reply = NoReply
         /\ Start(pc, path, k) \in Coroutines
         /\ Start(pc, path, k).pc = pc /\ Start(pc, path, k).path = path /\ Start(pc, path, k).key = k
         /\ Start(pc, path, k).reply = NoReply
<1>1. PICK key \in Keys : key = CHOOSE j \in Keys : TRUE
  BY KeysExist, Zenon
<1>2. NoCo \in Coroutines /\ NoCo.pc = "none" /\ NoCo.path = "none" /\ NoCo.reply = NoReply
  BY <1>1, RepliesAreEntries, Zenon DEF NoCo, Coroutines, Pcs, Paths, Outs
<1>. HIDE DEF NoCo
<1>. QED  BY <1>2, Zenon DEF Start, Coroutines

LEMMA CoMoves ==
  ASSUME CacheType, NEW c \in Callers, NEW n \in Coroutines, co' = [co EXCEPT ![c] = n], OnPath(n), conf' = conf
  PROVE  /\ co' \in [Callers -> Coroutines] /\ \A d \in Callers : OnPath(co[d])'
         /\ co'[c] = n /\ \A d \in Callers \ {c} : co'[d] = co[d]
<1>1. /\ co' \in [Callers -> Coroutines] /\ co'[c] = n /\ \A d \in Callers \ {c} : co'[d] = co[d]
  BY Zenon DEF CacheType
<1>2. \A d \in Callers : OnPath(co'[d])
  BY <1>1, Zenon DEF CacheType
<1>3. \A d \in Callers : OnPath(co[d])'
  BY <1>1, <1>2, Zenon DEF OnPath, redis_enabled, RedisTtl
<1>. QED  BY <1>1, <1>3, Zenon

LEMMA CoStays ==
  ASSUME CacheType, co' = co, conf' = conf
  PROVE  co' \in [Callers -> Coroutines] /\ \A d \in Callers : OnPath(co[d])'
  BY Zenon DEF CacheType, OnPath, redis_enabled, RedisTtl

LEMMA KeysOfBounds ==
  ASSUME CacheType
  PROVE  conf.bound.keys \subseteq Keys
  BY ConfigsAreLegal, Zenon DEF CacheType, Bounds

(* What has happened is not forgotten.                                     *)
SpentGrows ==
    /\ spent'.errors = 0 => spent.errors = 0
    /\ spent'.cancels = 0 => spent.cancels = 0
    /\ spent.waitedOut => spent'.waitedOut
    /\ spent.put => spent'.put
    /\ spent.lapsed => spent'.lapsed
    /\ spent.overlap => spent'.overlap
SpentType == DOMAIN spent = SpentFields /\ \A f \in {"calls", "errors", "cancels", "changes", "ticks"} : spent[f] \in Nat

LEMMA SpentKept ==
  ASSUME SpentType, [Next]_vars
  PROVE  SpentType' /\ SpentGrows
<1>. USE DEF SpentType, SpentFields, SpentGrows
<1>1. CASE UNCHANGED spent
  BY <1>1, Zenon
<1>2. ASSUME NEW p, spent' = [spent EXCEPT !.calls = @ + 1, !.overlap = @ \/ p] PROVE SpentType' /\ SpentGrows
  <2>1. PICK o : o = (spent.overlap \/ p)
    BY Zenon
  <2>2. spent' = [spent EXCEPT !.calls = @ + 1, !.overlap = o]
    BY <1>2, <2>1, Zenon
  <2>3. /\ SpentType' /\ spent'.overlap = o /\ spent'.errors = spent.errors /\ spent'.cancels = spent.cancels
        /\ spent'.waitedOut = spent.waitedOut /\ spent'.put = spent.put /\ spent'.lapsed = spent.lapsed
    BY <2>2
  <2>. QED  BY <2>1, <2>3, Zenon
<1>3. ASSUME NEW p, spent' = [[spent EXCEPT !.calls = @ + 1, !.overlap = @ \/ p] EXCEPT !.put = TRUE]
      PROVE SpentType' /\ SpentGrows
  <2>1. PICK o : o = (spent.overlap \/ p)
    BY Zenon
  <2>2. spent' = [[spent EXCEPT !.calls = @ + 1, !.overlap = o] EXCEPT !.put = TRUE]
    BY <1>3, <2>1, Zenon
  <2>3. /\ SpentType' /\ spent'.overlap = o /\ spent'.errors = spent.errors /\ spent'.cancels = spent.cancels
        /\ spent'.waitedOut = spent.waitedOut /\ spent'.put = TRUE /\ spent'.lapsed = spent.lapsed
    BY <2>2
  <2>. QED  BY <2>1, <2>3, Zenon
<1>5. ASSUME spent' = [spent EXCEPT !.errors = @ + 1] \/ spent' = [spent EXCEPT !.cancels = @ + 1]
             \/ spent' = [spent EXCEPT !.changes = @ + 1] \/ spent' = [spent EXCEPT !.waitedOut = TRUE]
      PROVE SpentType' /\ SpentGrows
  BY <1>5
<1>6. CASE Tick
  <2>1. PICK o : o = (spent.lapsed \/ \E c \in Callers : Holds(c) /\ lock[co[c].key].left = 1)
    BY Zenon
  <2>2. PICK l : l = (spent.late \/ \E c \in Callers : InTransit(c))
    BY Zenon
  <2>3. spent' = [spent EXCEPT !.ticks = @ + 1, !.lapsed = o, !.late = l]
    BY <1>6, <2>1, <2>2, Zenon DEF Tick
  <2>4. /\ SpentType' /\ spent'.overlap = spent.overlap /\ spent'.errors = spent.errors /\ spent'.cancels = spent.cancels
        /\ spent'.waitedOut = spent.waitedOut /\ spent'.put = spent.put /\ spent'.lapsed = o
    BY <2>3
  <2>. QED  BY <2>1, <2>4, Zenon
<1>7. ASSUME NEW c \in Callers, Resume(c) \/ WaitEnds(c) \/ RunLoader(c) PROVE SpentType' /\ SpentGrows
  BY <1>1, <1>5, <1>7, Zenon DEF Resume, GetRedisHit, GetRedisRaises, GetRedisMiss, LockAcquired, LockRefused, LockRaises,
        WaitAgain, LoaderReads, LoaderReturns, LoaderRaises, SetRedisReturns, ReleaseReturns, DeleteReturns, WaitEnds, RunLoader
<1>8. ASSUME NEW c \in Callers, NEW k, GetCreate(c, k) \/ GetJoin(c, k) \/ GetCached(c, k) \/ Set(c, k) \/ Invalidate(c, k)
      PROVE SpentType' /\ SpentGrows
  BY <1>2, <1>3, <1>8, Zenon DEF GetCreate, GetJoin, GetCached, Set, Invalidate, Called
<1>9. ASSUME NEW c \in Callers, Execute(c) \/ Fail(c) \/ Return(c) \/ Cancel(c) PROVE SpentType' /\ SpentGrows
  BY <1>1, <1>5, <1>9, Zenon DEF Execute, Fail, Return, Cancel
<1>10. ASSUME NEW k, ForeignWrite(k) \/ Change(k) PROVE SpentType' /\ SpentGrows
  BY <1>5, <1>10, Zenon DEF ForeignWrite, Change
<1>11. ASSUME NEW r, ClearLocal(r) PROVE SpentType' /\ SpentGrows
  BY <1>1, <1>11, Zenon DEF ClearLocal
<1>. HIDE DEF SpentType, SpentGrows
<1>. QED  BY <1>1, <1>6, <1>7, <1>8, <1>9, <1>10, <1>11, Zenon DEF Next, vars

(* Where an entry of the local layer comes from.                           *)
LocalType == local \in [Replicas -> Seq(LocalEntries)] /\ \A r \in Replicas : OneEach(local[r])
Answered(e, d) ==
    \E c \in Callers : /\ Home[c] = d /\ co[c].pc \in {"get", "load"} /\ co[c].reply.is = "value"
                       /\ e = Stored(co[c].key, co[c].reply)
Given(e) == \E k \in Keys : e = Stored(k, Present(truth[k], 0, 0))
FromBefore == \A d \in Replicas : \A i \in DOMAIN local'[d] :
                  Kept(local'[d][i], local[d]) \/ Answered(local'[d][i], d) \/ Given(local'[d][i])
Aged(e) == [e EXCEPT !.left = IF @ > 0 THEN @ - 1 ELSE 0, !.age = Older(@)]

LEMMA AgedOk ==
  ASSUME NEW e \in LocalEntries
  PROVE  /\ Aged(e) \in LocalEntries /\ Aged(e).key = e.key /\ Aged(e).value = e.value
         /\ Aged(e).left = (IF e.left > 0 THEN e.left - 1 ELSE 0) /\ Aged(e).age \in {e.age, e.age + 1}
<1>1. e.left \in Nat /\ e.age \in Nat
  BY Zenon DEF LocalEntries
<1>2. PICK l \in Nat : l = IF e.left > 0 THEN e.left - 1 ELSE 0
  BY <1>1
<1>3. PICK a \in Nat : a = Older(e.age) /\ a \in {e.age, e.age + 1}
  BY <1>1 DEF Older
<1>4. Aged(e) = [e EXCEPT !.left = l, !.age = a]
  BY <1>2, <1>3, Zenon DEF Aged
<1>. QED  BY <1>2, <1>3, <1>4, Zenon DEF LocalEntries

LEMMA ConfKept ==
  ASSUME [Next]_vars
  PROVE  conf' = conf
<1>1. ASSUME NEW c, Resume(c) \/ WaitEnds(c) \/ RunLoader(c) PROVE conf' = conf
  BY <1>1, Zenon DEF Resume, GetRedisHit, GetRedisRaises, GetRedisMiss, LockAcquired, LockRefused, LockRaises,
        WaitAgain, LoaderReads, LoaderReturns, LoaderRaises, SetRedisReturns, ReleaseReturns, DeleteReturns, WaitEnds,
        RunLoader, others
<1>2. ASSUME NEW c, NEW k, GetCreate(c, k) \/ GetJoin(c, k) \/ GetCached(c, k) \/ Set(c, k) \/ Invalidate(c, k)
      PROVE conf' = conf
  BY <1>2, Zenon DEF GetCreate, GetJoin, GetCached, Set, Invalidate
<1>3. ASSUME NEW c, Execute(c) \/ Fail(c) \/ Return(c) \/ Cancel(c) PROVE conf' = conf
  BY <1>3, Zenon DEF Execute, Fail, Return, Cancel
<1>4. ASSUME NEW k, ForeignWrite(k) \/ Change(k) \/ ClearLocal(k) PROVE conf' = conf
  BY <1>4, Zenon DEF ForeignWrite, Change, ClearLocal
<1>. QED  BY <1>1, <1>2, <1>3, <1>4, Zenon DEF Next, vars, Tick

LEMMA LocalAges ==
  ASSUME LocalType, Tick
  PROVE  /\ LocalType'
         /\ \A d \in Replicas : DOMAIN local'[d] = DOMAIN local[d] /\ \A i \in DOMAIN local[d] : local'[d][i] = Aged(local[d][i])
<1>1. local' = [r \in Replicas |-> [i \in DOMAIN local[r] |-> Aged(local[r][i])]]
  BY Zenon DEF Tick, Aged
<1>2. \A r \in Replicas : DOMAIN local[r] = 1 .. Len(local[r]) /\ Len(local[r]) \in Nat
  BY DEF LocalType
<1>3. \A r \in Replicas : \A i \in DOMAIN local[r] : Aged(local[r][i]) \in LocalEntries /\ Aged(local[r][i]).key = local[r][i].key
  BY AgedOk DEF LocalType
<1>4. \A r \in Replicas : [i \in DOMAIN local[r] |-> Aged(local[r][i])] \in Seq(LocalEntries)
  BY <1>2, <1>3
<1>5. \A r \in Replicas : OneEach([i \in DOMAIN local[r] |-> Aged(local[r][i])])
  BY <1>3 DEF OneEach, LocalType
<1>. QED  BY <1>1, <1>4, <1>5, Zenon DEF LocalType

LEMMA LocalComes ==
  ASSUME CacheType, [Next]_vars, ~Tick
  PROVE  LocalType' /\ FromBefore
<1>0. LocalType
  BY Zenon DEF CacheType, LocalType
<1>1. CASE UNCHANGED local
  BY <1>0, <1>1, Zenon DEF LocalType, FromBefore, Kept
<1>2. ASSUME NEW r \in Replicas, NEW k, NEW s, s \in {local[r], Without(local[r], k), << >>},
             local' = [local EXCEPT ![r] = s]
      PROVE  LocalType' /\ FromBefore
  BY <1>0, <1>2, DropsLocal, Zenon DEF LocalType, FromBefore
<1>3. ASSUME NEW c \in Callers, Resume(c) \/ WaitEnds(c) \/ RunLoader(c)
      PROVE  LocalType' /\ FromBefore
  <2>1. LocalStep(c)
    BY <1>3, Resumes, Zenon
  <2>2. CASE /\ StoreLocal(Home[c], co[c].key, co[c].reply) /\ co[c].pc \in {"get", "load"}
             /\ co[c].reply.is = "value"
    <3>1. Home[c] \in Replicas /\ co[c].key \in Keys /\ co[c].reply \in Entries /\ conf \in Configs
      BY HomeIsReplica, CoFields, Zenon DEF CacheType
    <3>. QED  BY <1>0, <2>2, <3>1, StoresLocal DEF LocalType, FromBefore, Answered
  <2>. QED  BY <1>1, <2>1, <2>2, Zenon DEF LocalStep
<1>4. ASSUME NEW c \in Callers, NEW k \in Keys, GetCreate(c, k) \/ GetJoin(c, k) \/ GetCached(c, k) \/ Invalidate(c, k)
      PROVE  LocalType' /\ FromBefore
  <2>1. Home[c] \in Replicas
    BY HomeIsReplica, Zenon
  <2>2. \/ UNCHANGED local \/ local' = [local EXCEPT ![Home[c]] = local[Home[c]]]
        \/ local' = [local EXCEPT ![Home[c]] = Without(local[Home[c]], k)]
    BY <1>4, Zenon DEF GetCreate, GetJoin, GetCached, Invalidate
  <2>. QED  BY <1>1, <1>2, <2>1, <2>2, Zenon
<1>5. ASSUME NEW c \in Callers, NEW k \in Keys, Set(c, k) PROVE LocalType' /\ FromBefore
  <2>1. /\ Home[c] \in Replicas /\ Present(truth[k], 0, 0) \in Entries /\ conf \in Configs
        /\ StoreLocal(Home[c], k, Present(truth[k], 0, 0))
    BY <1>5, HomeIsReplica, PresentIsEntry, Zenon DEF CacheType, Set
  <2>. QED  BY <1>0, <2>1, StoresLocal DEF LocalType, FromBefore, Given
<1>6. ASSUME NEW r \in Replicas, ClearLocal(r) PROVE LocalType' /\ FromBefore
  BY <1>2, <1>6, Zenon DEF ClearLocal
<1>7. ASSUME NEW c \in Callers, Execute(c) \/ Fail(c) \/ Return(c) \/ Cancel(c) PROVE UNCHANGED local
  BY <1>7, Zenon DEF Execute, Fail, Return, Cancel
<1>8. ASSUME NEW k, ForeignWrite(k) \/ Change(k) PROVE UNCHANGED local
  BY <1>8, Zenon DEF ForeignWrite, Change
<1>9. conf.bound.keys \subseteq Keys
  BY KeysOfBounds, Zenon
<1>. QED  BY <1>1, <1>3, <1>4, <1>5, <1>6, <1>7, <1>8, <1>9, Zenon DEF Next, vars

-----------------------------------------------------------------------------
(* Redis.                                                                  *)

(* What a command that is executed does.                                   *)
LEMMA Effects ==
  ASSUME BaseInv, NEW c \in Callers, Effect(c)
  PROVE  /\ redis' \in [Keys -> Entries] /\ lock' \in [Keys -> [owner : Callers \cup {NoCaller}, left : Nat]]
         /\ \A j \in Keys : EntryOk(redis'[j])
         /\ \A j \in Keys : \/ redis'[j] = redis[j]
                            \/ j = co[c].key /\ co[c].pc = "del" /\ redis'[j] = Missing
                            \/ /\ j = co[c].key /\ co[c].pc = "set"
                               /\ redis'[j] = Present(co[c].val.value, co[c].val.age, RedisTtl(co[c].val.value))
         /\ co[c].pc = "del" => redis'[co[c].key] = Missing
<1>1. PICK r \in Coroutines : r = co[c] /\ OnPath(r) /\ r.key \in Keys /\ r.val \in Entries
  BY CoFields, Zenon DEF BaseInv, CacheType
<1>2. redis \in [Keys -> Entries] /\ lock \in [Keys -> [owner : Callers \cup {NoCaller}, left : Nat]] /\ conf \in Configs
  BY Zenon DEF BaseInv, CacheType
<1>3. \A j \in Keys : EntryOk(redis[j])
  BY Zenon DEF BaseInv, RedisOk
<1>4. CASE r.pc = "get" /\ UNCHANGED <<redis, lock>>
  BY <1>1, <1>2, <1>3, <1>4, Zenon
<1>5. CASE /\ r.pc = "acquire" /\ UNCHANGED redis
           /\ lock' = IF lock[r.key] = Free THEN [lock EXCEPT ![r.key] = [owner |-> c, left |-> LockTtl]] ELSE lock
  <2>1. [owner |-> c, left |-> LockTtl] \in [owner : Callers \cup {NoCaller}, left : Nat]
    BY LockTtlPositive, Zenon
  <2>. QED  BY <1>1, <1>2, <1>3, <1>5, <2>1, Zenon
<1>6. CASE /\ r.pc = "release" /\ UNCHANGED redis
           /\ lock' = IF lock[r.key].owner = c THEN [lock EXCEPT ![r.key] = Free] ELSE lock
  <2>1. Free \in [owner : Callers \cup {NoCaller}, left : Nat]
    BY Zenon DEF Free
  <2>. QED  BY <1>1, <1>2, <1>3, <1>6, <2>1, Zenon
<1>7. CASE /\ r.pc = "set" /\ UNCHANGED lock
           /\ redis' = [redis EXCEPT ![r.key] = Present(r.val.value, r.val.age, RedisTtl(r.val.value))]
  <2>1. r.val.age = 0 /\ r.val.value \in Nat /\ RedisTtl(r.val.value) \in Nat /\ RedisTtl(r.val.value) > 0 /\ redis_enabled
    BY <1>1, <1>2, <1>7, TtlsAreNats, Zenon DEF OnPath, Entries
  <2>2. PICK p \in Entries : /\ p = Present(r.val.value, r.val.age, RedisTtl(r.val.value))
                             /\ p.is = "value" /\ p.value = r.val.value /\ p.age = 0 /\ p.left = RedisTtl(r.val.value)
    BY <2>1, PresentIsEntry
  <2>3. EntryOk(p)
    BY <2>1, <2>2 DEF EntryOk
  <2>. QED  BY <1>1, <1>2, <1>3, <1>7, <2>2, <2>3, Zenon
<1>8. CASE r.pc = "del" /\ UNCHANGED lock /\ redis' = [redis EXCEPT ![r.key] = Missing]
  <2>1. Missing \in Entries /\ EntryOk(Missing)
    BY RepliesAreEntries, Zenon DEF EntryOk
  <2>. QED  BY <1>1, <1>2, <1>3, <1>8, <2>1, Zenon
<1>. QED  BY <1>1, <1>4, <1>5, <1>6, <1>7, <1>8, Zenon DEF Effect

LEMMA LockEffects ==
  ASSUME CacheType, NEW c \in Callers, Effect(c)
  PROVE  /\ \A j \in Keys : \/ lock'[j] = lock[j]
                            \/ j = co[c].key /\ co[c].pc = "release" /\ lock[j].owner = c
                            \/ j = co[c].key /\ co[c].pc = "acquire" /\ lock[j] = Free
         /\ co[c].pc = "acquire" /\ lock[co[c].key] = Free => lock'[co[c].key] = [owner |-> c, left |-> LockTtl]
<1>1. PICK r \in Coroutines : r = co[c] /\ r.key \in Keys
  BY CoFields, Zenon DEF CacheType
<1>2. DOMAIN lock = Keys
  BY Zenon DEF CacheType
<1>3. CASE lock' = lock /\ r.pc # "acquire"
  BY <1>1, <1>3, Zenon
<1>4. CASE r.pc = "acquire" /\ lock' = IF lock[r.key] = Free THEN [lock EXCEPT ![r.key] = [owner |-> c, left |-> LockTtl]] ELSE lock
  BY <1>1, <1>2, <1>4, Zenon
<1>5. CASE r.pc = "release" /\ lock' = IF lock[r.key].owner = c THEN [lock EXCEPT ![r.key] = Free] ELSE lock
  BY <1>1, <1>2, <1>5, Zenon
<1>. QED  BY <1>1, <1>3, <1>4, <1>5, Zenon DEF Effect

LEMMA Answers ==
  ASSUME BaseInv, NEW c \in Callers, Pending(c)
  PROVE  \E a \in Entries : /\ a = Answer(c)
                            /\ co[c].pc = "get" => a = redis[co[c].key] /\ EntryOk(a)
                            /\ co[c].pc = "acquire" => a = IF lock[co[c].key] = Free THEN Yes ELSE No
                            /\ co[c].pc \notin {"get", "acquire"} => a = Yes
<1>1. co[c].key \in Keys
  BY CoFields, Zenon DEF BaseInv, CacheType
<1>2. redis[co[c].key] \in Entries /\ EntryOk(redis[co[c].key]) /\ Yes \in Entries /\ No \in Entries
  BY <1>1, RepliesAreEntries, Zenon DEF BaseInv, CacheType, RedisOk
<1>. QED  BY <1>2, Zenon DEF Answer

LEMMA IsAnswered ==
  ASSUME CacheType, NEW c \in Callers, Pending(c), NEW a \in Entries,
         co' = [co EXCEPT ![c] = [@ EXCEPT !.reply = a]]
  PROVE  \E n \in Coroutines :
            /\ co' = [co EXCEPT ![c] = n] /\ OnPath(n)
            /\ n.pc = co[c].pc /\ n.path = co[c].path /\ n.key = co[c].key /\ n.val = co[c].val /\ n.reply = a
<1>1. PICK r \in Coroutines : r = co[c] /\ OnPath(r) /\ r.pc \in {"get", "acquire", "set", "release", "del"}
  BY Zenon DEF CacheType, Pending
<1>. DEFINE n == [r EXCEPT !.reply = a]
<1>2. n \in Coroutines /\ n.pc = r.pc /\ n.path = r.path /\ n.key = r.key /\ n.val = r.val /\ n.reply = a
  BY Zenon DEF Coroutines
<1>3. co' = [co EXCEPT ![c] = n]
  BY <1>1, Zenon
<1>. HIDE DEF n
<1>4. OnPath(n)
  BY <1>1, <1>2, Zenon DEF OnPath
<1>. QED  BY <1>1, <1>2, <1>3, <1>4, Zenon

(* What is true of the entries and the replies stays true as time goes by. *)
LEMMA StaysOk ==
  ASSUME conf' = conf, SpentGrows
  PROVE  /\ \A e : EntryOk(e) => EntryOk(e)'
         /\ \A r : ReplyOk(r) => ReplyOk(r)'
  BY Zenon DEF EntryOk, ReplyOk, SpentGrows, RedisTtl, redis_enabled

LEMMA RedisStays ==
  ASSUME RedisOk, conf' = conf, SpentGrows, \A j \in Keys : redis'[j] = redis[j] \/ EntryOk(redis'[j])
  PROVE  RedisOk'
  BY Zenon DEF RedisOk, EntryOk, SpentGrows, RedisTtl, redis_enabled

LEMMA RepliesMove ==
  ASSUME RepliesOk, conf' = conf, SpentGrows, NEW c \in Callers, NEW n,
         co'[c] = n, \A d \in Callers \ {c} : co'[d] = co[d],
         /\ spent'.errors = 0 => n.reply.is \notin {"error", "corrupt"} /\ n.path \notin {"raise", "fallback"}
         /\ ~spent'.waitedOut => n.path # "unlocked"
         /\ ~spent'.put => n.path # "put"
         /\ n.pc = "get" /\ n.reply.is = "missing" => n.reply = Missing
         /\ n.pc = "get" /\ n.reply.is = "value" =>
               n.reply.left >= 1 /\ n.reply.age + n.reply.left <= RedisTtl(n.reply.value)
  PROVE  RepliesOk'
<1>1. \A d \in Callers \ {c} : ReplyOk(co[d])'
  BY Zenon DEF RepliesOk, ReplyOk, SpentGrows, RedisTtl
<1>2. ReplyOk(co[c])'
  BY Zenon DEF ReplyOk, RedisTtl
<1>. QED  BY <1>1, <1>2, Zenon DEF RepliesOk

(* How a call begins.                                                      *)
LEMMA CallMoves ==
  ASSUME CacheType, SpentType', NEW c \in Callers, NEW k \in Keys,
         GetCreate(c, k) \/ GetJoin(c, k) \/ GetCached(c, k) \/ Set(c, k)
  PROVE  /\ co[c].pc = "none"
         /\ \/ co' = co
            \/ \E n \in Coroutines :
                 /\ co' = [co EXCEPT ![c] = n] /\ OnPath(n) /\ n.reply = NoReply /\ n.key = k
                 /\ \/ n.pc \in {"get", "want"} /\ n.path \in {"start", "local", "cached"}
                    \/ n.pc = "set" /\ n.path = "put" /\ n.val = Present(truth[k], 0, 0) /\ spent'.put
<1>0. co[c].pc = "none"
  BY Zenon DEF GetCreate, GetJoin, GetCached, Set, Calls
<1>1. CASE Set(c, k) /\ co' # co
  <2>. DEFINE v == Present(truth[k], 0, 0)
              s == Start("set", "put", k)
              n == [s EXCEPT !.val = v]
  <2>1. co' = [co EXCEPT ![c] = n] /\ redis_enabled /\ RedisTtl(v.value) > 0 /\ spent' = [Called(k) EXCEPT !.put = TRUE]
    BY <1>1, Zenon DEF Set
  <2>2. s \in Coroutines /\ s.pc = "set" /\ s.path = "put" /\ s.reply = NoReply /\ s.key = k
    BY Starts DEF Pcs, Paths
  <2>3. v \in Entries /\ v.age = 0 /\ v.value = truth[k]
    <3>1. truth[k] \in Nat
      BY Zenon DEF CacheType
    <3>. QED  BY <3>1, PresentIsEntry
  <2>. HIDE DEF v, s
  <2>4. n \in Coroutines /\ n.pc = "set" /\ n.path = "put" /\ n.reply = NoReply /\ n.val = v /\ n.key = k
    BY <2>2, <2>3, Zenon DEF Coroutines
  <2>5. spent'.put
    <3>1. "put" \in DOMAIN Called(k)
      BY Zenon DEF Called, CacheType, SpentFields
    <3>. QED  BY <2>1, <3>1, Zenon
  <2>. HIDE DEF n
  <2>6. OnPath(n)
    BY <2>1, <2>3, <2>4, RepliesAreEntries, Zenon DEF OnPath
  <2>. QED  BY <1>0, <2>1, <2>4, <2>5, <2>6, Zenon DEF v
<1>2. CASE GetCreate(c, k)
  <2>1. \/ redis_enabled /\ co' = [co EXCEPT ![c] = Start("get", "start", k)]
        \/ ~redis_enabled /\ co' = [co EXCEPT ![c] = Start("want", "local", k)]
    BY <1>2, Zenon DEF GetCreate
  <2>2. PICK g \in Coroutines : g = Start("get", "start", k) /\ g.pc = "get" /\ g.path = "start" /\ g.reply = NoReply /\ g.key = k
    BY Starts DEF Pcs, Paths
  <2>3. PICK w \in Coroutines : w = Start("want", "local", k) /\ w.pc = "want" /\ w.path = "local" /\ w.reply = NoReply /\ w.key = k
    BY Starts DEF Pcs, Paths
  <2>4. (redis_enabled => OnPath(g)) /\ (~redis_enabled => OnPath(w))
    BY <2>2, <2>3, RepliesAreEntries, Zenon DEF OnPath
  <2>. QED  BY <1>0, <2>1, <2>2, <2>3, <2>4, Zenon
<1>3. CASE GetCached(c, k)
  <2>1. redis_enabled /\ co' = [co EXCEPT ![c] = Start("get", "cached", k)]
    BY <1>3, Zenon DEF GetCached
  <2>2. \E n \in Coroutines : /\ co' = [co EXCEPT ![c] = n] /\ OnPath(n) /\ n.reply = NoReply /\ n.key = k
                              /\ n.pc = "get" /\ n.path = "cached"
    <3>1. PICK n \in Coroutines : n = Start("get", "cached", k) /\ n.pc = "get" /\ n.path = "cached" /\ n.reply = NoReply /\ n.key = k
      BY Starts DEF Pcs, Paths
    <3>2. OnPath(n)
      BY <2>1, <3>1, Zenon DEF OnPath
    <3>. QED  BY <2>1, <3>1, <3>2, Zenon
  <2>. QED  BY <1>0, <2>2, Zenon
<1>. QED  BY <1>0, <1>1, <1>2, <1>3, Zenon DEF GetJoin

LEMMA InvalidateMoves ==
  ASSUME NEW c \in Callers, NEW k \in Keys, Invalidate(c, k)
  PROVE  /\ co[c].pc = "none"
         /\ \/ co' = co /\ ~redis_enabled
            \/ \E n \in Coroutines :
                 /\ co' = [co EXCEPT ![c] = n] /\ OnPath(n) /\ n.reply = NoReply /\ n.key = k
                 /\ n.pc = "del" /\ n.path = "drop"
<1>1. co[c].pc = "none"
  BY Zenon DEF Invalidate, Calls
<1>2. CASE redis_enabled
  <2>1. co' = [co EXCEPT ![c] = Start("del", "drop", k)]
    BY <1>2, Zenon DEF Invalidate
  <2>2. \E n \in Coroutines : /\ co' = [co EXCEPT ![c] = n] /\ OnPath(n) /\ n.reply = NoReply /\ n.key = k
                              /\ n.pc = "del" /\ n.path = "drop"
    <3>1. PICK n \in Coroutines : n = Start("del", "drop", k) /\ n.pc = "del" /\ n.path = "drop" /\ n.reply = NoReply /\ n.key = k
      BY Starts DEF Pcs, Paths
    <3>2. OnPath(n)
      BY <1>2, <3>1, Zenon DEF OnPath
    <3>. QED  BY <2>1, <3>1, <3>2, Zenon
  <2>. QED  BY <1>1, <2>2, Zenon
<1>. QED  BY <1>1, <1>2, Zenon DEF Invalidate

(* Calls begin.                                                            *)
LEMMA BaseOfCalls ==
  ASSUME BaseInv, NEW c \in Callers, NEW k \in Keys, conf' = conf, SpentGrows, SpentType', LocalType',
         GetCreate(c, k) \/ GetJoin(c, k) \/ GetCached(c, k) \/ Set(c, k) \/ Invalidate(c, k)
  PROVE  BaseInv'
<1>0. CacheType /\ RedisOk /\ RepliesOk
  BY Zenon DEF BaseInv
<1>1. redis' = redis /\ lock' = lock /\ truth' = truth
  BY Zenon DEF GetCreate, GetJoin, GetCached, Set, Invalidate
<1>2. RedisOk'
  BY <1>0, <1>1, RedisStays, Zenon
<1>3. Home[c] \in Replicas /\ truth[k] \in Nat /\ k \in Keys
  BY <1>0, HomeIsReplica, Zenon DEF CacheType
<1>4. floor' \in [Replicas -> [Keys -> Nat]]
  <2>1. floor' = floor \/ floor' = [floor EXCEPT ![Home[c]][k] = truth[k]]
    BY Zenon DEF GetCreate, GetJoin, GetCached, Set, Invalidate
  <2>2. floor \in [Replicas -> [Keys -> Nat]] /\ floor[Home[c]] \in [Keys -> Nat]
    BY <1>0, <1>3, Zenon DEF CacheType
  <2>3. [floor[Home[c]] EXCEPT ![k] = truth[k]] \in [Keys -> Nat]
    BY <1>3, <2>2, Zenon
  <2>. QED  BY <1>3, <2>1, <2>2, <2>3, Zenon
<1>5. inflight' \in [Replicas -> [Keys -> Callers \cup {NoCaller}]]
  <2>1. inflight' = inflight \/ inflight' = [inflight EXCEPT ![Home[c]][k] = c]
    BY Zenon DEF GetCreate, GetJoin, GetCached, Set, Invalidate
  <2>2. /\ inflight \in [Replicas -> [Keys -> Callers \cup {NoCaller}]]
        /\ inflight[Home[c]] \in [Keys -> Callers \cup {NoCaller}]
    BY <1>0, <1>3, Zenon DEF CacheType
  <2>3. [inflight[Home[c]] EXCEPT ![k] = c] \in [Keys -> Callers \cup {NoCaller}]
    BY <1>3, <2>2, Zenon
  <2>. QED  BY <1>3, <2>1, <2>2, <2>3, Zenon
<1>6. awaits' \in [Callers -> Callers \cup {NoCaller}]
  <2>1. PICK a \in Callers \cup {NoCaller} : awaits' = awaits \/ awaits' = [awaits EXCEPT ![c] = a]
    <3>1. inflight[Home[c]][k] \in Callers \cup {NoCaller}
      BY <1>0, <1>3 DEF CacheType
    <3>. QED  BY <3>1, Zenon DEF GetCreate, GetJoin, GetCached, Set, Invalidate
  <2>. QED  BY <1>0, <2>1, Zenon DEF CacheType
<1>7. /\ co' \in [Callers -> Coroutines] /\ \A d \in Callers : OnPath(co[d])'
      /\ RepliesOk'
  <2>1. CASE co' = co
    <3>1. RepliesOk'
      BY <1>0, <2>1, Zenon DEF RepliesOk, ReplyOk, SpentGrows, RedisTtl
    <3>. QED  BY <1>0, <2>1, <3>1, CoStays, Zenon
  <2>2. ASSUME NEW n \in Coroutines, co' = [co EXCEPT ![c] = n], OnPath(n), n.reply = NoReply,
               n.path \in {"start", "local", "cached", "drop"} \/ (n.path = "put" /\ spent'.put)
        PROVE  /\ co' \in [Callers -> Coroutines] /\ \A d \in Callers : OnPath(co[d])'
               /\ RepliesOk'
    BY <1>0, <2>2, CoMoves, RepliesMove, RepliesAreEntries, Zenon
  <2>. QED  BY <1>0, <2>1, <2>2, CallMoves, InvalidateMoves
<1>. QED  BY <1>0, <1>1, <1>2, <1>4, <1>5, <1>6, <1>7, Zenon DEF BaseInv, CacheType, LocalType, SpentType

(* Redis executes commands, calls fail and coroutines are cancelled.       *)
LEMMA BaseOfCommands ==
  ASSUME BaseInv, NEW c \in Callers, conf' = conf, SpentGrows, SpentType', LocalType',
         Execute(c) \/ Fail(c) \/ Cancel(c)
  PROVE  BaseInv'
<1>0. CacheType /\ RedisOk /\ RepliesOk
  BY Zenon DEF BaseInv
<1>1. inflight' = inflight /\ awaits' = awaits /\ truth' = truth /\ floor' = floor
  BY Zenon DEF Execute, Fail, Cancel
<1>2. /\ redis' \in [Keys -> Entries] /\ lock' \in [Keys -> [owner : Callers \cup {NoCaller}, left : Nat]]
      /\ RedisOk'
  <2>1. CASE UNCHANGED <<redis, lock>>
    BY <1>0, <2>1, RedisStays, Zenon DEF CacheType
  <2>2. ASSUME NEW t \in Callers, Effect(t)
        PROVE  /\ redis' \in [Keys -> Entries] /\ lock' \in [Keys -> [owner : Callers \cup {NoCaller}, left : Nat]]
               /\ RedisOk'
    BY <1>0, <2>2, Effects, RedisStays, Zenon
  <2>3. Cancel(c) => awaits[c] \in Callers
    BY <1>0, Zenon DEF Cancel, CacheType
  <2>. QED  BY <2>1, <2>2, <2>3, Zenon DEF Execute, Fail, Cancel
<1>3. /\ co' \in [Callers -> Coroutines] /\ \A d \in Callers : OnPath(co[d])'
      /\ RepliesOk'
  <2>1. CASE Execute(c)
    <3>1. PICK a \in Entries : /\ a = Answer(c)
                               /\ co[c].pc = "get" => a = redis[co[c].key] /\ EntryOk(a)
                               /\ co[c].pc = "acquire" => a = IF lock[co[c].key] = Free THEN Yes ELSE No
                               /\ co[c].pc \notin {"get", "acquire"} => a = Yes
      BY <2>1, Answers, Zenon DEF Execute
    <3>2. PICK n \in Coroutines :
            /\ co' = [co EXCEPT ![c] = n] /\ OnPath(n)
            /\ n.pc = co[c].pc /\ n.path = co[c].path /\ n.key = co[c].key /\ n.val = co[c].val /\ n.reply = a
      BY <1>0, <2>1, <3>1, IsAnswered, Zenon DEF Execute
    <3>3. co'[c] = n /\ \A d \in Callers \ {c} : co'[d] = co[d]
      BY <1>0, <3>2, CoMoves, Zenon
    <3>4. ReplyOk(co[c]) /\ spent' = spent
      BY <1>0, <2>1, Zenon DEF RepliesOk, Execute
    <3>5. RepliesOk'
      BY <1>0, <3>1, <3>2, <3>3, <3>4, RepliesMove, RepliesAreEntries DEF ReplyOk, EntryOk
    <3>. QED  BY <1>0, <3>2, <3>5, CoMoves, Zenon
  <2>2. CASE Fail(c)
    <3>1. Error \in Entries /\ Error.is = "error"
      BY RepliesAreEntries, Zenon
    <3>2. PICK n \in Coroutines :
            /\ co' = [co EXCEPT ![c] = n] /\ OnPath(n)
            /\ n.pc = co[c].pc /\ n.path = co[c].path /\ n.key = co[c].key /\ n.val = co[c].val /\ n.reply = Error
      BY <1>0, <2>2, <3>1, IsAnswered, Zenon DEF Fail
    <3>3. co'[c] = n /\ \A d \in Callers \ {c} : co'[d] = co[d]
      BY <1>0, <3>2, CoMoves, Zenon
    <3>4. ReplyOk(co[c]) /\ spent'.errors # 0 /\ spent'.put = spent.put /\ spent'.waitedOut = spent.waitedOut
      BY <1>0, <2>2 DEF RepliesOk, Fail, CacheType, SpentFields
    <3>5. RepliesOk'
      BY <1>0, <3>1, <3>2, <3>3, <3>4, RepliesMove, Zenon DEF ReplyOk
    <3>. QED  BY <1>0, <3>2, <3>5, CoMoves, Zenon
  <2>3. CASE Cancel(c)
    <3>1. PICK t \in Callers : t = awaits[c]
      BY <1>0, <2>3, Zenon DEF CacheType, Cancel
    <3>2. PICK n \in Coroutines : /\ co' = [co EXCEPT ![t] = n] /\ n.path = co[t].path /\ n.reply = NoReply
                                  /\ OnPath(n)
      BY <1>0, <2>3, <3>1, Finishes, Zenon DEF Cancel, Outs
    <3>3. co'[t] = n /\ \A d \in Callers \ {t} : co'[d] = co[d]
      BY <1>0, <3>2, CoMoves, Zenon
    <3>4. ReplyOk(co[t])
      BY <1>0, Zenon DEF RepliesOk
    <3>5. RepliesOk'
      BY <1>0, <3>2, <3>3, <3>4, RepliesMove, RepliesAreEntries, Zenon DEF ReplyOk, SpentGrows
    <3>. QED  BY <1>0, <3>2, <3>5, CoMoves, Zenon
  <2>. QED  BY <2>1, <2>2, <2>3, Zenon
<1>. QED  BY <1>0, <1>1, <1>2, <1>3, Zenon DEF BaseInv, CacheType, LocalType, SpentType

LEMMA BaseOfResumes ==
  ASSUME BaseInv, NEW c \in Callers, conf' = conf, SpentGrows, SpentType', LocalType',
         Resume(c) \/ WaitEnds(c) \/ RunLoader(c)
  PROVE  BaseInv'
<1>0. CacheType /\ RedisOk /\ RepliesOk /\ ReplyOk(co[c]) /\ co[c] \in Coroutines
  BY Zenon DEF BaseInv, RepliesOk, CacheType
<1>1. PICK n \in Coroutines : Step(c, n)
  BY <1>0, Resumes, Zenon
<1>2. UNCHANGED others
  BY <1>0, Resumes, Zenon
<1>3. OnPath(n) /\ co' = [co EXCEPT ![c] = n]
  BY <1>1, Zenon DEF Step
<1>4. co'[c] = n /\ \A d \in Callers \ {c} : co'[d] = co[d]
  BY <1>0, <1>3, CoMoves, Zenon
<1>5. /\ spent'.errors = 0 => n.reply.is \notin {"error", "corrupt"} /\ n.path \notin {"raise", "fallback"}
      /\ n.pc = "get" => n.reply.is = "pending"
  <2>1. n.reply.is \in {"pending", "value"} /\ (n.pc = "get" => n.reply.is = "pending")
    BY <1>1, RepliesAreEntries DEF Step, Present
  <2>2. spent'.errors = 0 => n.path \notin {"raise", "fallback"}
    BY <1>0, <1>1, RepliesAreEntries, Zenon DEF Step, ReplyOk, SpentGrows
  <2>. QED  BY <2>1, <2>2, Zenon
<1>6. ~spent'.waitedOut => n.path # "unlocked"
  BY <1>0, <1>1, Zenon DEF Step, ReplyOk, SpentGrows
<1>7. ~spent'.put => n.path # "put"
  BY <1>0, <1>1, Zenon DEF Step, ReplyOk, SpentGrows
<1>8. RepliesOk'
  BY <1>0, <1>4, <1>5, <1>6, <1>7, RepliesMove, Zenon
<1>9. RedisOk'
  BY <1>0, <1>2, RedisStays, Zenon DEF others
<1>10. co' \in [Callers -> Coroutines] /\ \A d \in Callers : OnPath(co[d])'
  BY <1>0, <1>3, CoMoves, Zenon
<1>. QED  BY <1>0, <1>2, <1>8, <1>9, <1>10, Zenon DEF BaseInv, CacheType, LocalType, SpentType, others

(* Callers return.                                                         *)
LEMMA BaseOfReturn ==
  ASSUME BaseInv, NEW c \in Callers, conf' = conf, SpentGrows, SpentType', LocalType', Return(c)
  PROVE  BaseInv'
<1>0. CacheType /\ RedisOk /\ RepliesOk
  BY Zenon DEF BaseInv
<1>1. UNCHANGED <<redis, lock, truth, floor, spent>>
  BY Zenon DEF Return
<1>2. PICK t \in Callers : t = awaits[c]
  BY <1>0, Zenon DEF CacheType, Return
<1>3. PICK k \in Keys : k = co[t].key
  BY <1>0, CoFields, Zenon DEF CacheType
<1>4. inflight' \in [Replicas -> [Keys -> Callers \cup {NoCaller}]]
  <2>1. PICK r \in Replicas : r = Home[c]
    BY HomeIsReplica, Zenon
  <2>2. inflight' = inflight \/ inflight' = [inflight EXCEPT ![r][k] = NoCaller]
    BY <1>2, <1>3, <2>1, Zenon DEF Return
  <2>3. /\ inflight \in [Replicas -> [Keys -> Callers \cup {NoCaller}]]
        /\ inflight[r] \in [Keys -> Callers \cup {NoCaller}]
    BY <1>0, Zenon DEF CacheType
  <2>4. [inflight[r] EXCEPT ![k] = NoCaller] \in [Keys -> Callers \cup {NoCaller}]
    BY <2>3, Zenon
  <2>. QED  BY <2>2, <2>3, <2>4, Zenon
<1>5. awaits' \in [Callers -> Callers \cup {NoCaller}]
  BY <1>0, Zenon DEF Return, CacheType
<1>6. co' \in [Callers -> Coroutines] /\ (\A d \in Callers : OnPath(co[d])') /\ RepliesOk'
  <2>1. CASE co' = co
    <3>1. RepliesOk'
      BY <1>0, <2>1, Zenon DEF RepliesOk, ReplyOk, SpentGrows, RedisTtl
    <3>. QED  BY <1>0, <2>1, <3>1, CoStays, Zenon
  <2>2. CASE co' = [co EXCEPT ![t] = NoCo]
    <3>1. "none" \in Pcs /\ "none" \in Paths
      BY Zenon DEF Pcs, Paths
    <3>2. PICK n \in Coroutines : n = NoCo /\ n.pc = "none" /\ n.path = "none" /\ n.reply = NoReply
      BY <1>3, <3>1, Starts, Zenon
    <3>3. OnPath(n) /\ co' = [co EXCEPT ![t] = n]
      BY <2>2, <3>2, RepliesAreEntries, Zenon DEF OnPath
    <3>4. RepliesOk'
      BY <1>0, <3>2, <3>3, CoMoves, RepliesMove, RepliesAreEntries, Zenon
    <3>. QED  BY <1>0, <3>3, <3>4, CoMoves, Zenon
  <2>. QED  BY <1>2, <2>1, <2>2, Zenon DEF Return
<1>7. RedisOk'
  BY <1>0, <1>1, RedisStays, Zenon
<1>. QED  BY <1>0, <1>1, <1>4, <1>5, <1>6, <1>7, Zenon DEF BaseInv, CacheType, LocalType, SpentType

(* Time passes, the truth changes, and others write to Redis.              *)
LEMMA BaseOfWorld ==
  ASSUME BaseInv, conf' = conf, SpentGrows, SpentType', LocalType',
         \/ Tick \/ UNCHANGED vars \/ \E k \in Keys : ForeignWrite(k) \/ Change(k)
         \/ \E r \in Replicas : ClearLocal(r)
  PROVE  BaseInv'
<1>0. CacheType /\ RedisOk /\ RepliesOk
  BY Zenon DEF BaseInv
<1>1. UNCHANGED <<inflight, awaits, co, floor>>
  BY Zenon DEF Tick, vars, ForeignWrite, Change, ClearLocal
<1>2. truth' \in [Keys -> Nat]
  <2>1. truth' = truth \/ \E k \in Keys : truth' = [truth EXCEPT ![k] = truth[k] + 1]
    BY Zenon DEF Tick, vars, ForeignWrite, Change, ClearLocal
  <2>2. truth \in [Keys -> Nat] /\ \A k \in Keys : truth[k] + 1 \in Nat
    BY <1>0 DEF CacheType
  <2>. QED  BY <2>1, <2>2, Zenon
<1>3. lock' \in [Keys -> [owner : Callers \cup {NoCaller}, left : Nat]]
  <2>1. CASE Tick
    <3>1. \A k \in Keys : (IF lock[k].left <= 1 THEN Free ELSE [lock[k] EXCEPT !.left = @ - 1])
                             \in [owner : Callers \cup {NoCaller}, left : Nat]
      <4>. DEFINE Locks == [owner : Callers \cup {NoCaller}, left : Nat]
      <4>. SUFFICES ASSUME NEW k \in Keys
                    PROVE (IF lock[k].left <= 1 THEN Free ELSE [lock[k] EXCEPT !.left = @ - 1]) \in Locks
        BY Zenon
      <4>1. PICK l \in Locks : l = lock[k]
        BY <1>0, Zenon DEF CacheType
      <4>2. Free \in Locks /\ l.left \in Nat
        BY Zenon DEF Free
      <4>3. l.left > 1 => [l EXCEPT !.left = l.left - 1] \in Locks
        BY <4>2
      <4>. HIDE DEF Locks
      <4>. QED  BY <4>1, <4>2, <4>3
    <3>. QED  BY <2>1, <3>1, Zenon DEF Tick
  <2>. QED  BY <1>0, <2>1, Zenon DEF CacheType, vars, ForeignWrite, Change, ClearLocal
<1>4. redis' \in [Keys -> Entries] /\ RedisOk'
  <2>1. CASE Tick
    <3>1. ASSUME NEW k \in Keys, redis[k].left > 1
          PROVE  /\ [redis[k] EXCEPT !.left = @ - 1, !.age = Older(@)] \in Entries
                 /\ EntryOk([redis[k] EXCEPT !.left = @ - 1, !.age = Older(@)])
      <4>1. PICK e \in Entries : e = redis[k] /\ EntryOk(e) /\ e.left \in Nat /\ e.left > 1 /\ e.age \in Nat
        BY <1>0, <3>1, Zenon DEF CacheType, RedisOk, Entries
      <4>2. PICK l \in Nat : l = e.left - 1 /\ l >= 1
        BY <4>1
      <4>3. PICK a \in Nat : a = Older(e.age) /\ a \in {e.age, e.age + 1}
        BY <4>1 DEF Older
      <4>. DEFINE n == [e EXCEPT !.left = l, !.age = a]
      <4>4. n = [redis[k] EXCEPT !.left = @ - 1, !.age = Older(@)]
        BY <4>1, <4>2, <4>3, Zenon
      <4>5. n \in Entries /\ n.is = e.is /\ n.value = e.value /\ n.left = l /\ n.age = a
        BY Zenon DEF Entries
      <4>. HIDE DEF n
      <4>6. RedisTtl(e.value) \in Nat
        BY <1>0, TtlsAreNats, Zenon DEF CacheType
      <4>7. e.is # "missing"
        BY <4>1 DEF EntryOk, Missing
      <4>8. EntryOk(n)
        BY <4>1, <4>2, <4>3, <4>5, <4>6, <4>7 DEF EntryOk
      <4>. QED  BY <4>4, <4>5, <4>8, Zenon
    <3>2. Missing \in Entries /\ EntryOk(Missing)
      BY RepliesAreEntries, Zenon DEF EntryOk
    <3>3. \A k \in Keys : redis'[k] = IF redis[k].left <= 1 THEN Missing
                                      ELSE [redis[k] EXCEPT !.left = @ - 1, !.age = Older(@)]
      BY <2>1, Zenon DEF Tick
    <3>4. \A k \in Keys : redis[k].left \in Nat
      BY <1>0, Zenon DEF CacheType, Entries
    <3>5. \A k \in Keys : redis'[k] \in Entries /\ EntryOk(redis'[k])
      <4>. SUFFICES ASSUME NEW k \in Keys PROVE redis'[k] \in Entries /\ EntryOk(redis'[k])
        BY Zenon
      <4>1. CASE redis[k].left <= 1
        BY <3>2, <3>3, <4>1, Zenon
      <4>2. CASE redis[k].left > 1
        <5>1. redis'[k] = [redis[k] EXCEPT !.left = @ - 1, !.age = Older(@)]
          <6>1. ~(redis[k].left <= 1)
            BY <3>4, <4>2
          <6>. QED  BY <3>3, <6>1, Zenon
        <5>. QED  BY <3>1, <4>2, <5>1, Zenon
      <4>. QED  BY <3>4, <4>1, <4>2
    <3>6. redis' = [k \in Keys |-> redis'[k]]
      BY <2>1, Zenon DEF Tick
    <3>. QED  BY <1>0, <3>5, <3>6, RedisStays, Zenon
  <2>2. ASSUME NEW k \in Keys, ForeignWrite(k) PROVE redis' \in [Keys -> Entries] /\ RedisOk'
    <3>1. conf.redisTtl \in Nat
      BY <1>0, ConfigsAreLegal, Zenon DEF CacheType
    <3>2. PICK e \in Entries : e = [Corrupt EXCEPT !.left = conf.redisTtl] /\ e.is = "corrupt"
      <4>1. Corrupt \in Entries /\ Corrupt.is = "corrupt"
        BY RepliesAreEntries, Zenon
      <4>2. PICK x \in Entries : x = Corrupt /\ x.is = "corrupt"
        BY <4>1, Zenon
      <4>3. [x EXCEPT !.left = conf.redisTtl] \in Entries /\ [x EXCEPT !.left = conf.redisTtl].is = "corrupt"
        BY <3>1, <4>2, Zenon DEF Entries
      <4>. QED  BY <4>2, <4>3, Zenon
    <3>3. redis' = [redis EXCEPT ![k] = e] /\ redis_enabled /\ spent'.errors # 0
      BY <1>0, <2>2, <3>2 DEF ForeignWrite, CacheType, SpentFields
    <3>4. redis' \in [Keys -> Entries] /\ redis'[k] = e /\ \A j \in Keys \ {k} : redis'[j] = redis[j]
      BY <1>0, <3>3, Zenon DEF CacheType
    <3>5. RedisOk'
      BY <1>0, <3>2, <3>3, <3>4, Zenon DEF RedisOk, EntryOk, SpentGrows, RedisTtl, redis_enabled
    <3>. QED  BY <3>4, <3>5, Zenon
  <2>3. CASE UNCHANGED redis
    BY <1>0, <2>3, RedisStays, Zenon DEF CacheType
  <2>. QED  BY <2>1, <2>2, <2>3, Zenon DEF vars, Change, ClearLocal
<1>5. RepliesOk'
  BY <1>0, <1>1, Zenon DEF RepliesOk, ReplyOk, SpentGrows, RedisTtl
<1>6. co' \in [Callers -> Coroutines] /\ \A d \in Callers : OnPath(co[d])'
  BY <1>0, <1>1, CoStays, Zenon
<1>. QED  BY <1>0, <1>1, <1>2, <1>3, <1>4, <1>5, <1>6, Zenon DEF BaseInv, CacheType, LocalType, SpentType

LEMMA BaseStep ==
  ASSUME BaseInv, [Next]_vars
  PROVE  BaseInv' /\ conf' = conf /\ SpentGrows /\ SpentType
<1>1. CacheType /\ SpentType /\ LocalType
  BY Zenon DEF BaseInv, CacheType, SpentType, LocalType
<1>2. conf' = conf /\ SpentGrows /\ SpentType'
  BY <1>1, ConfKept, SpentKept, Zenon
<1>3. LocalType'
  BY <1>1, LocalAges, LocalComes, Zenon
<1>4. conf.bound.keys \subseteq Keys
  BY <1>1, KeysOfBounds, Zenon
<1>5. CASE \E c \in Callers : \E k \in conf.bound.keys :
             GetCreate(c, k) \/ GetJoin(c, k) \/ GetCached(c, k) \/ Set(c, k) \/ Invalidate(c, k)
  BY <1>1, <1>2, <1>3, <1>4, <1>5, BaseOfCalls, Zenon
<1>6. CASE \E c \in Callers : Execute(c) \/ Fail(c) \/ Cancel(c)
  BY <1>1, <1>2, <1>3, <1>6, BaseOfCommands, Zenon
<1>7. CASE \E c \in Callers : Resume(c) \/ WaitEnds(c) \/ RunLoader(c)
  BY <1>1, <1>2, <1>3, <1>7, BaseOfResumes, Zenon
<1>8. CASE \E c \in Callers : Return(c)
  BY <1>1, <1>2, <1>3, <1>8, BaseOfReturn, Zenon
<1>9. CASE \/ Tick \/ UNCHANGED vars \/ \E k \in conf.bound.keys : ForeignWrite(k) \/ Change(k)
           \/ \E r \in Replicas : ClearLocal(r)
  BY <1>1, <1>2, <1>3, <1>4, <1>9, BaseOfWorld, Zenon
<1>. QED  BY <1>1, <1>2, <1>5, <1>6, <1>7, <1>8, <1>9, Zenon DEF Next

LEMMA BaseInit ==
  ASSUME Init
  PROVE  BaseInv
<1>1. "none" \in Pcs /\ "none" \in Paths
  BY Zenon DEF Pcs, Paths
<1>2. PICK k \in Keys : TRUE
  BY KeysExist, Zenon
<1>3. PICK n \in Coroutines : n = NoCo /\ n.pc = "none" /\ n.path = "none" /\ n.reply = NoReply
  BY <1>1, <1>2, Starts, Zenon
<1>4. OnPath(n) /\ ReplyOk(n)
  BY <1>3, RepliesAreEntries, Zenon DEF OnPath, ReplyOk
<1>5. Missing \in Entries /\ EntryOk(Missing) /\ Free \in [owner : Callers \cup {NoCaller}, left : Nat]
  BY RepliesAreEntries, Zenon DEF EntryOk, Free
<1>6. local \in [Replicas -> Seq(LocalEntries)] /\ \A r \in Replicas : OneEach(local[r])
  BY DEF Init, OneEach
<1>7. co \in [Callers -> Coroutines] /\ \A c \in Callers : OnPath(co[c]) /\ ReplyOk(co[c])
  BY <1>3, <1>4, Zenon DEF Init
<1>8. /\ conf \in Configs /\ inflight \in [Replicas -> [Keys -> Callers \cup {NoCaller}]]
      /\ awaits \in [Callers -> Callers \cup {NoCaller}] /\ truth \in [Keys -> Nat] /\ floor \in [Replicas -> [Keys -> Nat]]
  BY Zenon DEF Init
<1>9. /\ redis \in [Keys -> Entries] /\ \A j \in Keys : EntryOk(redis[j])
      /\ lock \in [Keys -> [owner : Callers \cup {NoCaller}, left : Nat]]
  BY <1>5, Zenon DEF Init
<1>10. DOMAIN spent = SpentFields /\ \A f \in {"calls", "errors", "cancels", "changes", "ticks"} : spent[f] \in Nat
  BY DEF Init, SpentFields
<1>. QED  BY <1>6, <1>7, <1>8, <1>9, <1>10, Zenon DEF BaseInv, CacheType, RedisOk, RepliesOk

-----------------------------------------------------------------------------
(* How old a value gets.                                                   *)

LEMMA AgeStep ==
  ASSUME BaseInv, AgeInv, [Next]_vars
  PROVE  AgeInv'
<1>0. CacheType /\ LocalType /\ conf' = conf
  BY ConfKept, Zenon DEF BaseInv, CacheType, LocalType
<1>1. ASSUME NEW d \in Replicas, NEW i \in DOMAIN local'[d] PROVE Bounded(local'[d][i])
  <2>1. CASE Tick
    <3>1. local'[d][i] = Aged(local[d][i]) /\ i \in DOMAIN local[d]
      BY <1>0, <1>1, <2>1, LocalAges, Zenon
    <3>2. PICK e \in LocalEntries : e = local[d][i] /\ Bounded(e) /\ e.left \in Nat /\ e.age \in Nat
      <4>1. local[d] \in Seq(LocalEntries) /\ i \in DOMAIN local[d]
        BY <1>0, <3>1, Zenon DEF LocalType
      <4>2. PICK e \in LocalEntries : e = local[d][i]
        BY <4>1
      <4>. QED  BY <3>1, <4>2, Zenon DEF AgeInv, LocalEntries
    <3>3. LocalTtl(e.value) \in Nat /\ RedisTtl(e.value) \in Nat
      BY <1>0, TtlsAreNats, Zenon DEF CacheType
    <3>4. Bounded(Aged(e))
      BY <3>2, <3>3, AgedOk DEF Bounded
    <3>. QED  BY <3>1, <3>2, <3>4, Zenon
  <2>2. CASE ~Tick
    <3>1. Kept(local'[d][i], local[d]) \/ Answered(local'[d][i], d) \/ Given(local'[d][i])
      BY <1>0, <1>1, <2>2, LocalComes, Zenon DEF FromBefore
    <3>2. CASE Kept(local'[d][i], local[d])
      BY <3>2, Zenon DEF Kept, AgeInv
    <3>3. ASSUME NEW k \in Keys, NEW v \in Entries, v.age = 0 \/ (v.left >= 1 /\ v.age + v.left <= RedisTtl(v.value))
          PROVE  Bounded(Stored(k, v))
      <4>1. /\ v.value \in Nat /\ v.age \in Nat /\ v.left \in Nat
            /\ LocalTtl(v.value) \in Nat /\ RedisTtl(v.value) \in Nat
        BY <1>0, TtlsAreNats, Zenon DEF CacheType, Entries
      <4>2. Stored(k, v).value = v.value /\ Stored(k, v).age = v.age /\ Stored(k, v).left = LocalTtl(v.value)
        BY Zenon DEF Stored
      <4>. QED  BY <3>3, <4>1, <4>2 DEF Bounded
    <3>4. CASE Answered(local'[d][i], d)
      <4>1. PICK c \in Callers : /\ co[c].pc \in {"get", "load"} /\ co[c].reply.is = "value"
                                 /\ local'[d][i] = Stored(co[c].key, co[c].reply)
        BY <3>4, Zenon DEF Answered
      <4>2. co[c].key \in Keys /\ co[c].reply \in Entries
        BY <1>0, CoFields, Zenon DEF CacheType
      <4>3. OnPath(co[c]) /\ ReplyOk(co[c])
        BY Zenon DEF BaseInv, CacheType, RepliesOk
      <4>4. co[c].reply.age = 0 \/ (co[c].reply.left >= 1 /\ co[c].reply.age + co[c].reply.left <= RedisTtl(co[c].reply.value))
        BY <4>1, <4>3, Zenon DEF OnPath, ReplyOk
      <4>. QED  BY <3>3, <4>1, <4>2, <4>4, Zenon
    <3>5. CASE Given(local'[d][i])
      <4>1. PICK k \in Keys : local'[d][i] = Stored(k, Present(truth[k], 0, 0))
        BY <3>5, Zenon DEF Given
      <4>2. truth[k] \in Nat
        BY <1>0, Zenon DEF CacheType
      <4>. QED  BY <3>3, <4>1, <4>2, PresentIsEntry
    <3>. QED  BY <3>1, <3>2, <3>4, <3>5, Zenon
  <2>. QED  BY <2>1, <2>2, Zenon
<1>. QED  BY <1>0, <1>1, Zenon DEF AgeInv, Bounded, LocalTtl, RedisTtl

LEMMA AgeInvBounds ==
  AgeInv => AgeBounded
  BY Zenon DEF AgeInv, AgeBounded, Bounded, LocalTtl, RedisTtl

-----------------------------------------------------------------------------
(* The stampede guard.                                                     *)

LEMMA LockKeptBefore ==
  ASSUME SpentGrows, LockKept'
  PROVE  LockKept /\ spent'.errors = 0 /\ spent.errors = 0 /\ ~spent.waitedOut
  BY Zenon DEF SpentGrows, LockKept

(* A coroutine moves and holds no lock that it did not hold before.        *)
LEMMA LockMoves ==
  ASSUME CacheType, HoldersOwn, NothingToRepeat, SpentGrows, NEW c \in Callers, NEW n,
         co'[c] = n, \A d \in Callers \ {c} : co'[d] = co[d], lock' = lock, redis' = redis,
         Has(n) => Has(co[c]) /\ n.key = co[c].key,
         ~spent'.put /\ n.path = "locked" /\ (n.pc \in {"want", "load"} \/ (n.pc = "get" /\ n.reply.is = "missing"))
            => redis[n.key] = Missing
  PROVE  HoldersOwn' /\ NothingToRepeat'
<1>1. HoldersOwn'
  BY DEF HoldersOwn, Has
<1>2. NothingToRepeat'
  BY DEF NothingToRepeat, SpentGrows
<1>. QED  BY <1>1, <1>2, Zenon

(* A command changes no lock that another coroutine holds, and no entry    *)
(* that the holder of the lock has found missing.                          *)
LEMMA HeldLocksStay ==
  ASSUME BaseInv, LockKept, HoldersOwn, NEW c \in Callers, Effect(c), NEW d \in Callers, Has(co[d]), d # c \/ co[c].pc \in {"get", "set"}
  PROVE  /\ lock'[co[d].key] = lock[co[d].key]
         /\ d # c /\ ~spent.put => redis'[co[d].key] = redis[co[d].key] \/ redis'[co[d].key] = Missing
<1>1. co[d].key \in Keys /\ co[c].key \in Keys /\ OnPath(co[c]) /\ ReplyOk(co[c])
  BY CoFields, Zenon DEF BaseInv, CacheType, RepliesOk
<1>2. lock[co[d].key].owner = d /\ NoCaller \notin Callers
  BY HomeIsReplica, Zenon DEF HoldersOwn
<1>3. lock'[co[d].key] = lock[co[d].key]
  <2>1. Free.owner = NoCaller
    BY Zenon DEF Free
  <2>2. \A j \in Keys : \/ lock'[j] = lock[j]
                        \/ j = co[c].key /\ co[c].pc = "release" /\ lock[j].owner = c
                        \/ j = co[c].key /\ co[c].pc = "acquire" /\ lock[j] = Free
    BY LockEffects, Zenon DEF BaseInv
  <2>. QED  BY <1>1, <1>2, <2>1, <2>2, Zenon
<1>4. ASSUME d # c, ~spent.put, co[c].pc = "set", co[c].key = co[d].key PROVE FALSE
  <2>1. Has(co[c])
    BY <1>1, <1>4, Zenon DEF OnPath, ReplyOk, LockKept, Has
  <2>. QED  BY <1>2, <1>4, <2>1, Zenon DEF HoldersOwn
<1>. QED  BY <1>1, <1>3, <1>4, Effects, Zenon

LEMMA LockOfExecute ==
  ASSUME BaseInv, LockKept, HoldersOwn, NothingToRepeat, SpentGrows, NEW c \in Callers, Execute(c)
  PROVE  HoldersOwn' /\ NothingToRepeat'
<1>0. CacheType /\ Effect(c) /\ Pending(c) /\ spent' = spent
  BY Zenon DEF BaseInv, Execute
<1>1. PICK a \in Entries : /\ a = Answer(c)
                           /\ co[c].pc = "get" => a = redis[co[c].key] /\ EntryOk(a)
                           /\ co[c].pc = "acquire" => a = IF lock[co[c].key] = Free THEN Yes ELSE No
                           /\ co[c].pc \notin {"get", "acquire"} => a = Yes
  BY <1>0, Answers, Zenon
<1>2. PICK n \in Coroutines :
        /\ co' = [co EXCEPT ![c] = n] /\ OnPath(n)
        /\ n.pc = co[c].pc /\ n.path = co[c].path /\ n.key = co[c].key /\ n.val = co[c].val /\ n.reply = a
  BY <1>0, <1>1, IsAnswered, Zenon DEF Execute
<1>3. co'[c] = n /\ \A d \in Callers \ {c} : co'[d] = co[d]
  BY <1>0, <1>2, Zenon DEF CacheType
<1>4. Yes # NoReply /\ No # Yes /\ Yes.is # "missing" /\ co[c].pc \in {"get", "acquire", "set", "release", "del"}
  BY <1>0, Zenon DEF Yes, No, NoReply, Pending
<1>5. ASSUME NEW d \in Callers, Has(co'[d]) PROVE lock'[co'[d].key].owner = d /\ lock'[co'[d].key].left >= 1
  <2>1. CASE d # c
    <3>1. co'[d] = co[d] /\ Has(co[d])
      BY <1>3, <1>5, <2>1, Zenon
    <3>. QED  BY <1>0, <2>1, <3>1, HeldLocksStay DEF HoldersOwn
  <2>2. CASE d = c /\ n.pc = "acquire"
    <3>1. lock[co[c].key] = Free
      BY <1>1, <1>2, <1>3, <1>4, <1>5, <2>2 DEF Has
    <3>2. lock'[co[c].key] = [owner |-> c, left |-> LockTtl]
      BY <1>0, <1>2, <2>2, <3>1, LockEffects, Zenon
    <3>. QED  BY <1>2, <1>3, <2>2, <3>2, LockTtlPositive
  <2>3. CASE d = c /\ n.pc # "acquire"
    <3>1. Has(co[c]) /\ co[c].pc \in {"get", "set"}
      BY <1>1, <1>2, <1>3, <1>4, <1>5, <2>3, Zenon DEF Has
    <3>. QED  BY <1>0, <1>2, <1>3, <2>3, <3>1, HeldLocksStay DEF HoldersOwn
  <2>. QED  BY <2>1, <2>2, <2>3, Zenon
<1>6. HoldersOwn'
  BY <1>5, Zenon DEF HoldersOwn, Has
<1>7. ASSUME ~spent.put, NEW d \in Callers, co'[d].path = "locked",
             co'[d].pc \in {"want", "load"} \/ (co'[d].pc = "get" /\ co'[d].reply.is = "missing")
      PROVE  redis'[co'[d].key] = Missing
  <2>1. CASE d # c
    <3>1. co'[d] = co[d] /\ Has(co[d])
      BY <1>3, <1>7, <2>1, Zenon DEF Has
    <3>2. redis[co[d].key] = Missing
      BY <1>7, <3>1, Zenon DEF NothingToRepeat
    <3>. QED  BY <1>0, <1>7, <2>1, <3>1, <3>2, HeldLocksStay, Zenon
  <2>2. CASE d = c
    <3>1. co[c].pc = "get" /\ a.is = "missing" /\ a = redis[co[c].key] /\ EntryOk(a)
      BY <1>1, <1>2, <1>3, <1>4, <1>7, <2>2, Zenon
    <3>2. redis' = redis
      BY <1>0, <3>1, Zenon DEF Effect
    <3>. QED  BY <1>2, <1>3, <2>2, <3>1, <3>2, Zenon DEF EntryOk
  <2>. QED  BY <2>1, <2>2, Zenon
<1>8. NothingToRepeat'
  BY <1>0, <1>7, Zenon DEF NothingToRepeat
<1>. QED  BY <1>6, <1>8, Zenon

LEMMA LockOfCancel ==
  ASSUME BaseInv, LockKept, HoldersOwn, NothingToRepeat, SpentGrows, NEW c \in Callers, Cancel(c)
  PROVE  HoldersOwn' /\ NothingToRepeat'
<1>0. CacheType
  BY Zenon DEF BaseInv
<1>1. PICK t \in Callers : t = awaits[c] /\ Finish(t, "cancelled") /\ (Effect(t) \/ (redis' = redis /\ lock' = lock))
                           /\ co[t].pc # "done"
  BY <1>0, Zenon DEF CacheType, Cancel
<1>2. PICK n \in Coroutines :
            /\ co' = [co EXCEPT ![t] = n] /\ n.key = co[t].key /\ n.path = co[t].path /\ n.reply = NoReply
            /\ n.pc = IF co[t].pc # "release" /\ co[t].path = "locked" THEN "release" ELSE "done"
            /\ OnPath(n)
  BY <1>0, <1>1, Finishes, Zenon DEF Outs
<1>3. co'[t] = n /\ \A d \in Callers \ {t} : co'[d] = co[d]
  BY <1>0, <1>2, Zenon DEF CacheType
<1>4. OnPath(co[t]) /\ co[t].pc \in Pcs
  BY <1>0, CoFields, Zenon DEF CacheType
<1>5. Has(n) => Has(co[t]) /\ co[t].pc \in {"get", "want", "load", "set"}
  BY <1>1, <1>2, <1>4, Zenon DEF Has, OnPath, Pcs
<1>6. CASE redis' = redis /\ lock' = lock
  BY <1>0, <1>2, <1>3, <1>5, <1>6, LockMoves, Zenon
<1>7. CASE Effect(t)
  <2>1. ASSUME NEW d \in Callers, Has(co'[d]) PROVE lock'[co'[d].key].owner = d /\ lock'[co'[d].key].left >= 1
    <3>1. Has(co[d]) /\ co'[d].key = co[d].key /\ (d # t \/ co[t].pc \in {"get", "want", "load", "set"})
      BY <1>2, <1>3, <1>5, <2>1, Zenon
    <3>2. co[t].pc \in {"get", "acquire", "set", "release", "del"}
      BY <1>7, Zenon DEF Effect
    <3>. QED  BY <1>7, <3>1, <3>2, HeldLocksStay DEF HoldersOwn
  <2>2. HoldersOwn'
    BY <2>1, Zenon DEF HoldersOwn, Has
  <2>3. ASSUME ~spent.put, NEW d \in Callers, co'[d].path = "locked",
               co'[d].pc \in {"want", "load"} \/ (co'[d].pc = "get" /\ co'[d].reply.is = "missing")
        PROVE  redis'[co'[d].key] = Missing
    <3>1. d # t /\ co'[d] = co[d] /\ Has(co[d])
      BY <1>2, <1>3, <2>3, Zenon DEF Has
    <3>2. redis[co[d].key] = Missing
      BY <2>3, <3>1, Zenon DEF NothingToRepeat
    <3>. QED  BY <1>7, <2>3, <3>1, <3>2, HeldLocksStay, Zenon
  <2>4. NothingToRepeat'
    BY <2>3, Zenon DEF NothingToRepeat, SpentGrows
  <2>. QED  BY <2>2, <2>4, Zenon
<1>. QED  BY <1>1, <1>6, <1>7, Zenon

LEMMA LockOfTick ==
  ASSUME BaseInv, LockKept, HoldersOwn, NothingToRepeat, SpentGrows, Tick, LockKept'
  PROVE  HoldersOwn' /\ NothingToRepeat'
<1>0. CacheType /\ co' = co
  BY Zenon DEF BaseInv, Tick
<1>1. ~\E c \in Callers : Holds(c) /\ lock[co[c].key].left = 1
  <2>1. PICK o : o = (spent.lapsed \/ \E c \in Callers : Holds(c) /\ lock[co[c].key].left = 1)
    BY Zenon
  <2>2. PICK l : l = (spent.late \/ \E c \in Callers : InTransit(c))
    BY Zenon
  <2>3. spent' = [spent EXCEPT !.ticks = @ + 1, !.lapsed = o, !.late = l]
    BY <2>1, <2>2, Zenon DEF Tick
  <2>4. spent'.lapsed = o
    BY <1>0, <2>3, Zenon DEF CacheType, SpentFields
  <2>. QED  BY <2>1, <2>4, Zenon DEF LockKept
<1>2. ASSUME NEW c \in Callers, Has(co[c]) PROVE lock'[co[c].key].owner = c /\ lock'[co[c].key].left >= 1
  <2>1. PICK k \in Keys : k = co[c].key
    BY <1>0, CoFields, Zenon DEF CacheType
  <2>2. Holds(c)
    BY <1>2, Zenon DEF Has, Holds
  <2>3. PICK l \in [owner : Callers \cup {NoCaller}, left : Nat] : l = lock[k] /\ l.owner = c /\ l.left >= 1 /\ l.left # 1 /\ l.left \in Nat
    <3>1. lock[k] \in [owner : Callers \cup {NoCaller}, left : Nat]
      BY <1>0, Zenon DEF CacheType
    <3>. QED  BY <1>1, <1>2, <2>1, <2>2, <3>1, Zenon DEF HoldersOwn
  <2>4. lock'[k] = [l EXCEPT !.left = l.left - 1]
    <3>1. ~(lock[k].left <= 1)
      BY <2>3
    <3>2. lock'[k] = IF lock[k].left <= 1 THEN Free ELSE [lock[k] EXCEPT !.left = lock[k].left - 1]
      BY Zenon DEF Tick
    <3>. QED  BY <2>3, <3>1, <3>2, Zenon
  <2>. QED  BY <2>1, <2>3, <2>4
<1>3. HoldersOwn'
  BY <1>0, <1>2, Zenon DEF HoldersOwn, Has
<1>4. \A k \in Keys : redis[k] = Missing => redis'[k] = Missing
  <2>. SUFFICES ASSUME NEW k \in Keys, redis[k] = Missing PROVE redis'[k] = Missing
    BY Zenon
  <2>1. redis[k].left <= 1
    BY DEF Missing
  <2>. QED  BY <2>1, Zenon DEF Tick
<1>5. \A c \in Callers : co[c].key \in Keys
  BY <1>0, CoFields, Zenon DEF CacheType
<1>6. NothingToRepeat'
  BY <1>0, <1>4, <1>5, Zenon DEF NothingToRepeat, SpentGrows
<1>. QED  BY <1>3, <1>6, Zenon

LEMMA LockStep ==
  ASSUME BaseInv, LockInv, [Next]_vars
  PROVE  LockInv'
<1>. SUFFICES ASSUME LockKept' PROVE HoldersOwn' /\ NothingToRepeat'
  BY Zenon DEF LockInv
<1>1. CacheType /\ SpentGrows /\ SpentType' /\ conf' = conf
  BY BaseStep, SpentKept, Zenon DEF BaseInv, SpentType, CacheType
<1>2. LockKept /\ spent'.errors = 0 /\ spent.errors = 0 /\ ~spent.waitedOut /\ HoldersOwn /\ NothingToRepeat
  BY <1>1, LockKeptBefore, Zenon DEF LockInv
<1>3. CASE UNCHANGED <<co, redis, lock>>
  BY <1>1, <1>2, <1>3, Zenon DEF HoldersOwn, NothingToRepeat, Has, SpentGrows
<1>4. ASSUME NEW c \in Callers, NEW n \in Coroutines, co' = [co EXCEPT ![c] = n], redis' = redis, lock' = lock,
             Has(n) => Has(co[c]) /\ n.key = co[c].key,
             ~spent'.put /\ n.path = "locked" /\ (n.pc \in {"want", "load"} \/ (n.pc = "get" /\ n.reply.is = "missing"))
                => redis[n.key] = Missing
      PROVE  HoldersOwn' /\ NothingToRepeat'
  <2>1. co'[c] = n /\ \A d \in Callers \ {c} : co'[d] = co[d]
    BY <1>1, <1>4, Zenon DEF CacheType
  <2>. QED  BY <1>1, <1>2, <1>4, <2>1, LockMoves, Zenon
<1>5. ASSUME NEW c \in Callers, NEW k \in Keys, GetCreate(c, k) \/ GetJoin(c, k) \/ GetCached(c, k) \/ Set(c, k)
      PROVE  HoldersOwn' /\ NothingToRepeat'
  <2>1. redis' = redis /\ lock' = lock
    BY <1>5, Zenon DEF GetCreate, GetJoin, GetCached, Set
  <2>2. CASE co' # co
    <3>1. PICK n \in Coroutines :
                 /\ co' = [co EXCEPT ![c] = n] /\ n.pc \in {"get", "want", "set"} /\ n.path \in {"start", "local", "cached", "put"}
      BY <1>1, <1>5, <2>2, CallMoves
    <3>. QED  BY <1>4, <2>1, <3>1, Zenon DEF Has
  <2>. QED  BY <1>3, <2>1, <2>2, Zenon
<1>6. ASSUME NEW c \in Callers, NEW k \in Keys, Invalidate(c, k) PROVE HoldersOwn' /\ NothingToRepeat'
  <2>1. redis' = redis /\ lock' = lock
    BY <1>6, Zenon DEF Invalidate
  <2>2. CASE co' # co
    <3>1. PICK n \in Coroutines : co' = [co EXCEPT ![c] = n] /\ n.pc = "del" /\ n.path = "drop"
      BY <1>6, <2>2, InvalidateMoves
    <3>. QED  BY <1>4, <2>1, <3>1, Zenon DEF Has
  <2>. QED  BY <1>3, <2>1, <2>2, Zenon
<1>7. ASSUME NEW c \in Callers, Resume(c) \/ WaitEnds(c) \/ RunLoader(c) PROVE HoldersOwn' /\ NothingToRepeat'
  <2>1. PICK n \in Coroutines : Step(c, n)
    BY <1>1, <1>7, Resumes, Zenon
  <2>2. redis' = redis /\ lock' = lock
    BY <1>1, <1>7, Resumes, Zenon DEF others
  <2>3. ReplyOk(co[c])
    BY Zenon DEF BaseInv, RepliesOk
  <2>4. n.pc = "get" => n.reply.is # "missing"
    BY <2>1, RepliesAreEntries, Zenon DEF Step
  <2>5. ~spent.put /\ n.path = "locked" /\ n.pc \in {"want", "load"} => redis[n.key] = Missing
    BY <1>2, <2>1, <2>3, Zenon DEF Step, NothingToRepeat, ReplyOk
  <2>6. ~spent'.put => ~spent.put
    BY <1>1, Zenon DEF SpentGrows
  <2>7. co' = [co EXCEPT ![c] = n] /\ (Has(n) => Has(co[c]) /\ n.key = co[c].key)
    BY <2>1, Zenon DEF Step
  <2>. QED  BY <1>4, <2>2, <2>4, <2>5, <2>6, <2>7, Zenon
<1>8. ASSUME NEW c \in Callers, Return(c) PROVE HoldersOwn' /\ NothingToRepeat'
  <2>1. redis' = redis /\ lock' = lock
    BY <1>8, Zenon DEF Return
  <2>2. CASE co' # co
    <3>1. PICK t \in Callers : co' = [co EXCEPT ![t] = NoCo]
      BY <1>1, <1>8, <2>2, Zenon DEF Return, CacheType
    <3>2. co[t].key \in Keys /\ "none" \in Pcs /\ "none" \in Paths
      BY <1>1, CoFields, Zenon DEF CacheType, Pcs, Paths
    <3>3. PICK n \in Coroutines : n = NoCo /\ n.pc = "none"
      BY <3>2, Starts, Zenon
    <3>. QED  BY <1>4, <2>1, <3>1, <3>3, Zenon DEF Has
  <2>. QED  BY <1>3, <2>1, <2>2, Zenon
<1>9. ASSUME NEW c \in Callers, Fail(c) PROVE FALSE
  BY <1>1, <1>2, <1>9 DEF Fail, CacheType, SpentFields
<1>10. ASSUME NEW k, ForeignWrite(k) PROVE FALSE
  BY <1>1, <1>2, <1>10 DEF ForeignWrite, CacheType, SpentFields
<1>11. ASSUME NEW k, Change(k) \/ ClearLocal(k) PROVE UNCHANGED <<co, redis, lock>>
  BY <1>11, Zenon DEF Change, ClearLocal
<1>12. ASSUME NEW c \in Callers, Execute(c) \/ Cancel(c) PROVE HoldersOwn' /\ NothingToRepeat'
  BY <1>1, <1>2, <1>12, LockOfExecute, LockOfCancel, Zenon
<1>13. Tick => HoldersOwn' /\ NothingToRepeat'
  BY <1>1, <1>2, LockOfTick, Zenon
<1>14. UNCHANGED vars => UNCHANGED <<co, redis, lock>>
  BY Zenon DEF vars
<1>15. conf.bound.keys \subseteq Keys
  BY <1>1, KeysOfBounds, Zenon
<1>. QED  BY <1>3, <1>5, <1>6, <1>7, <1>8, <1>9, <1>10, <1>11, <1>12, <1>13, <1>14, <1>15, Zenon DEF Next

LEMMA LockInvGuards ==
  BaseInv /\ LockInv => OneLoader
<1>. SUFFICES ASSUME BaseInv, LockInv, redis_enabled, LockKept
              PROVE  /\ \A c, d \in Callers :
                          /\ co[c].pc \in {"want", "load"} /\ co[d].pc \in {"want", "load"}
                          /\ co[c].key = co[d].key
                          => c = d
                     /\ ~spent.put => \A c \in Callers :
                          co[c].path = "locked" /\ co[c].pc \in {"want", "load"} => redis[co[c].key] = Missing
  BY Zenon DEF OneLoader
<1>1. HoldersOwn /\ NothingToRepeat
  BY Zenon DEF LockInv
<1>2. \A c \in Callers : OnPath(co[c]) /\ ReplyOk(co[c])
  BY Zenon DEF BaseInv, CacheType, RepliesOk
<1>3. \A c \in Callers : co[c].pc \in {"want", "load"} => Has(co[c])
  BY <1>2, Zenon DEF OnPath, ReplyOk, LockKept, Has
<1>. QED  BY <1>1, <1>3, Zenon DEF HoldersOwn, NothingToRepeat

LEMMA LockInit ==
  ASSUME Init
  PROVE  LockInv /\ AgeInv
<1>1. "none" \in Pcs /\ "none" \in Paths
  BY Zenon DEF Pcs, Paths
<1>2. PICK k \in Keys : TRUE
  BY KeysExist, Zenon
<1>3. NoCo.pc = "none" /\ NoCo.path = "none"
  BY <1>1, <1>2, Starts, Zenon
<1>4. \A c \in Callers : co[c] = NoCo
  BY Zenon DEF Init
<1>. QED  BY <1>3, <1>4 DEF LockInv, HoldersOwn, NothingToRepeat, Has, AgeInv, Init

-----------------------------------------------------------------------------
(* Invalidations.                                                          *)

LEMMA FloorStep ==
  ASSUME CacheType, FloorInv, [Next]_vars
  PROVE  FloorInv'
<1>1. truth \in [Keys -> Nat] /\ floor \in [Replicas -> [Keys -> Nat]] /\ \A r \in Replicas : floor[r] \in [Keys -> Nat]
  BY Zenon DEF CacheType
<1>2. CASE UNCHANGED <<truth, floor>>
  BY <1>2, Zenon DEF FloorInv, Recent
<1>3. ASSUME NEW k \in Keys, Change(k) PROVE FloorInv'
  <2>1. floor' = floor /\ \A j \in Keys : truth'[j] = IF j = k THEN truth[j] + 1 ELSE truth[j]
    BY <1>1, <1>3, Zenon DEF Change
  <2>2. \A r \in Replicas, j \in Keys : floor[r][j] \in Nat /\ truth[j] \in Nat
    BY <1>1, Zenon
  <2>. QED  BY <2>1, <2>2 DEF FloorInv, Recent
<1>4. ASSUME NEW c \in Callers, NEW k \in Keys, Invalidate(c, k) PROVE FloorInv'
  <2>1. truth' = truth /\ \A r \in Replicas, j \in Keys : floor'[r][j] = IF r = Home[c] /\ j = k THEN truth[k] ELSE floor[r][j]
    BY <1>1, <1>4, HomeIsReplica, Zenon DEF Invalidate
  <2>2. \A j \in Keys : truth[j] \in Nat
    BY <1>1, Zenon
  <2>. QED  BY <2>1, <2>2 DEF FloorInv, Recent
<1>5. ASSUME NEW c \in Callers, NEW k, GetCreate(c, k) \/ GetJoin(c, k) \/ GetCached(c, k) \/ Set(c, k)
      PROVE  UNCHANGED <<truth, floor>>
  BY <1>5, Zenon DEF GetCreate, GetJoin, GetCached, Set
<1>6. ASSUME NEW c \in Callers, Resume(c) \/ WaitEnds(c) \/ RunLoader(c) PROVE UNCHANGED <<truth, floor>>
  BY <1>6, Resumes, Zenon DEF others
<1>7. ASSUME NEW c \in Callers, Execute(c) \/ Fail(c) \/ Return(c) \/ Cancel(c) PROVE UNCHANGED <<truth, floor>>
  BY <1>7, Zenon DEF Execute, Fail, Return, Cancel
<1>8. ASSUME NEW k, ForeignWrite(k) \/ ClearLocal(k) PROVE UNCHANGED <<truth, floor>>
  BY <1>8, Zenon DEF ForeignWrite, ClearLocal
<1>9. Tick \/ UNCHANGED vars => UNCHANGED <<truth, floor>>
  BY Zenon DEF Tick, vars
<1>10. conf.bound.keys \subseteq Keys
  BY KeysOfBounds, Zenon
<1>. QED  BY <1>2, <1>3, <1>4, <1>5, <1>6, <1>7, <1>8, <1>9, <1>10, Zenon DEF Next

(* The local layer takes only what is in sight.                            *)
LEMMA LocalRecentKept ==
  ASSUME CacheType, FloorInv, [Next]_vars, LocalRecent, \A c \in Callers : HandRecent(co[c]), floor' = floor
  PROVE  LocalRecent'
<1>0. LocalType /\ floor \in [Replicas -> [Keys -> Nat]]
  BY Zenon DEF CacheType, LocalType
<1>. SUFFICES ASSUME NEW d \in Replicas, NEW i \in DOMAIN local'[d]
              PROVE  local'[d][i].value >= floor[d][local'[d][i].key]
  BY Zenon DEF LocalRecent
<1>1. CASE Tick
  <2>1. i \in DOMAIN local[d] /\ local'[d][i] = Aged(local[d][i])
    BY <1>0, <1>1, LocalAges, Zenon
  <2>2. local[d][i] \in LocalEntries
    BY <1>0, <2>1 DEF LocalType
  <2>. QED  BY <2>1, <2>2, AgedOk DEF LocalRecent
<1>2. CASE ~Tick
  <2>1. Kept(local'[d][i], local[d]) \/ Answered(local'[d][i], d) \/ Given(local'[d][i])
    BY <1>2, LocalComes, Zenon DEF FromBefore
  <2>2. CASE Kept(local'[d][i], local[d])
    BY <2>2, Zenon DEF Kept, LocalRecent
  <2>3. ASSUME NEW k \in Keys, NEW v \in Entries, Recent(v.value, k), local'[d][i] = Stored(k, v)
        PROVE  local'[d][i].value >= floor[d][local'[d][i].key]
    <3>1. local'[d][i].value = v.value /\ local'[d][i].key = k /\ v.value \in Nat /\ floor[d][k] \in Nat
      BY <1>0, <2>3 DEF Stored, Entries
    <3>. QED  BY <2>3, <3>1, Zenon DEF Recent
  <2>4. CASE Answered(local'[d][i], d)
    <3>1. PICK c \in Callers : co[c].reply.is = "value" /\ local'[d][i] = Stored(co[c].key, co[c].reply)
      BY <2>4, Zenon DEF Answered
    <3>2. co[c].key \in Keys /\ co[c].reply \in Entries
      BY CoFields, Zenon DEF CacheType
    <3>. QED  BY <2>3, <3>1, <3>2, Zenon DEF HandRecent
  <2>5. CASE Given(local'[d][i])
    <3>1. PICK k \in Keys : local'[d][i] = Stored(k, Present(truth[k], 0, 0))
      BY <2>5, Zenon DEF Given
    <3>2. truth[k] \in Nat
      BY Zenon DEF CacheType
    <3>3. PICK v \in Entries : v = Present(truth[k], 0, 0) /\ v.value = truth[k]
      BY <3>2, PresentIsEntry
    <3>4. Recent(v.value, k)
      BY <3>3, Zenon DEF FloorInv
    <3>. QED  BY <2>3, <3>1, <3>3, <3>4, Zenon
  <2>. QED  BY <2>1, <2>2, <2>4, <2>5, Zenon
<1>. QED  BY <1>1, <1>2, Zenon

(* A coroutine moves on, and nothing else does.                            *)
LEMMA DropMoves ==
  ASSUME StoredRecent, \A d \in Callers : HandRecent(co[d]), DropsAlone, floor' = floor, redis' = redis,
         NEW c \in Callers, NEW n, co'[c] = n, \A d \in Callers \ {c} : co'[d] = co[d],
         \A k : ~DelPending(co[c], k), n.pc # "del", HandRecent(n),
         AtWork(n, n.key) => \A d \in Callers \ {c} : ~(co[d].pc = "del" /\ co[d].key = n.key)
  PROVE  StoredRecent' /\ (\A d \in Callers : HandRecent(co[d])') /\ DropsAlone'
<1>1. StoredRecent'
  BY DEF StoredRecent, Recent, DelPending
<1>2. \A d \in Callers : HandRecent(co[d])'
  BY Zenon DEF HandRecent, Recent
<1>3. DropsAlone'
  BY DEF DropsAlone, AtWork
<1>. QED  BY <1>1, <1>2, <1>3, Zenon

LEMMA DelIsAnswered ==
  ASSUME NEW c \in Callers, Resume(c) \/ WaitEnds(c) \/ RunLoader(c)
  PROVE  \A k : ~DelPending(co[c], k)
<1>1. CASE DeleteReturns(c)
  BY <1>1, Zenon DEF DeleteReturns, DelPending
<1>2. CASE ~DeleteReturns(c)
  BY <1>2, Zenon DEF DelPending, Resume, GetRedisHit, GetRedisRaises, GetRedisMiss, LockAcquired, LockRefused, LockRaises,
        WaitAgain, LoaderReads, LoaderReturns, LoaderRaises, SetRedisReturns, ReleaseReturns, WaitEnds, RunLoader
<1>. QED  BY <1>1, <1>2, Zenon

(* An invalidation finds nobody at work on its key.                        *)
LEMMA DropOfInvalidate ==
  ASSUME BaseInv, FloorInv, StoredRecent, \A d \in Callers : HandRecent(co[d]), DropsAlone, LocalRecent,
         NEW c \in Callers, NEW k \in Keys, Invalidate(c, k), ~Busy(k)
  PROVE  StoredRecent' /\ (\A d \in Callers : HandRecent(co[d])') /\ DropsAlone' /\ LocalRecent'
<1>0. CacheType /\ redis' = redis /\ Home[c] \in Replicas
  BY HomeIsReplica, Zenon DEF BaseInv, Invalidate
<1>1. /\ floor \in [Replicas -> [Keys -> Nat]] /\ \A r \in Replicas : floor[r] \in [Keys -> Nat]
      /\ \A d \in Callers : co[d] \in Coroutines /\ OnPath(co[d]) /\ co[d].key \in Keys
  BY <1>0, CoFields, Zenon DEF CacheType
<1>2. \A r \in Replicas, j \in Keys : floor'[r][j] = IF r = Home[c] /\ j = k THEN truth[k] ELSE floor[r][j]
  BY <1>0, <1>1, Zenon DEF Invalidate
<1>3. \A j \in Keys \ {k} : \A v : Recent(v, j) => \A r \in Replicas : floor'[r][j] <= v
  BY <1>2, Zenon DEF Recent
<1>4. co[c].pc = "none"
  BY InvalidateMoves, Zenon
<1>5. \A d \in Callers : co[d].key = k => co[d].pc \in {"none", "done"} /\ co[d].reply.is # "value"
  BY <1>1, RepliesAreEntries, Zenon DEF Busy, OnPath
<1>6. \A d \in Callers : co'[d] = co[d] \/ (d = c /\ redis_enabled /\ DelPending(co'[d], k) /\ co'[d].pc = "del" /\ co'[d].key = k /\ co'[d].reply.is # "value")
  <2>1. CASE co' = co
    BY <2>1, Zenon
  <2>2. CASE co' # co
    <3>1. redis_enabled
      BY <2>2, Zenon DEF Invalidate
    <3>2. PICK n \in Coroutines : co' = [co EXCEPT ![c] = n] /\ n.reply = NoReply /\ n.key = k /\ n.pc = "del"
      BY <2>2, InvalidateMoves
    <3>. QED  BY <1>0, <3>1, <3>2, RepliesAreEntries, Zenon DEF CacheType, DelPending
  <2>. QED  BY <2>1, <2>2, Zenon
<1>7. StoredRecent'
  <2>. SUFFICES ASSUME NEW j \in Keys, redis[j].is = "value"
                PROVE  (\A r \in Replicas : floor'[r][j] <= redis[j].value) \/ \E d \in Callers : DelPending(co'[d], j)
    BY <1>0, Zenon DEF StoredRecent, Recent, DelPending
  <2>1. CASE j = k
    <3>1. redis_enabled
      BY Zenon DEF BaseInv, RedisOk, EntryOk
    <3>2. PICK n \in Coroutines : co' = [co EXCEPT ![c] = n] /\ n.reply = NoReply /\ n.key = k /\ n.pc = "del"
      BY <3>1, InvalidateMoves
    <3>3. co'[c] = n
      BY <1>0, <3>2, Zenon DEF CacheType
    <3>. QED  BY <2>1, <3>2, <3>3, Zenon DEF DelPending
  <2>2. CASE j # k
    <3>1. CASE Recent(redis[j].value, j)
      BY <1>3, <2>2, <3>1, Zenon
    <3>2. CASE \E d \in Callers : DelPending(co[d], j)
      <4>1. PICK d \in Callers : DelPending(co[d], j)
        BY <3>2, Zenon
      <4>2. co'[d] = co[d]
        BY <1>4, <1>6, <4>1, Zenon DEF DelPending
      <4>. QED  BY <4>1, <4>2, Zenon
    <3>. QED  BY <3>1, <3>2, Zenon DEF StoredRecent
  <2>. QED  BY <2>1, <2>2, Zenon
<1>8. ASSUME NEW d \in Callers PROVE HandRecent(co[d])'
  <2>1. CASE co'[d] = co[d] /\ co[d].key # k
    <3>1. HandRecent(co[d]) /\ co[d].key \in Keys \ {k}
      BY <1>1, <2>1, Zenon
    <3>. QED  BY <1>3, <2>1, <3>1, Zenon DEF HandRecent, Recent
  <2>2. CASE co'[d] = co[d] /\ co[d].key = k
    BY <1>5, <2>2, Zenon DEF HandRecent
  <2>3. CASE co'[d] # co[d]
    BY <1>6, <2>3, Zenon DEF HandRecent
  <2>. QED  BY <2>1, <2>2, <2>3, Zenon
<1>9. DropsAlone'
  BY <1>5, <1>6 DEF DropsAlone, AtWork
<1>10. LocalRecent'
  <2>. SUFFICES ASSUME NEW r \in Replicas, NEW i \in DOMAIN local'[r]
                PROVE  local'[r][i].value >= floor'[r][local'[r][i].key]
    BY Zenon DEF LocalRecent
  <2>1. LocalType /\ local' = [local EXCEPT ![Home[c]] = Without(local[Home[c]], k)]
    BY <1>0, Zenon DEF CacheType, LocalType, Invalidate
  <2>2. CASE r # Home[c]
    <3>1. local'[r] = local[r] /\ local[r] \in Seq(LocalEntries)
      BY <2>1, <2>2, Zenon DEF LocalType
    <3>2. local[r][i] \in LocalEntries /\ i \in DOMAIN local[r]
      BY <3>1
    <3>3. local[r][i].key \in Keys
      BY <3>2, Zenon DEF LocalEntries
    <3>. QED  BY <1>2, <2>2, <3>1, <3>2, <3>3 DEF LocalRecent
  <2>3. CASE r = Home[c]
    <3>1. local'[r] = Without(local[r], k) /\ local[r] \in Seq(LocalEntries) /\ OneEach(local[r])
      BY <2>1, <2>3, Zenon DEF LocalType
    <3>2. local'[r][i].key # k /\ \E j \in DOMAIN local[r] : local'[r][i] = local[r][j]
      BY <3>1, WithoutOk
    <3>3. PICK j \in DOMAIN local[r] : local'[r][i] = local[r][j]
      BY <3>2, Zenon
    <3>4. local[r][j] \in LocalEntries
      BY <3>1
    <3>5. local[r][j].key \in Keys /\ local[r][j].key # k
      BY <3>2, <3>3, <3>4, Zenon DEF LocalEntries
    <3>. QED  BY <1>2, <3>3, <3>5 DEF LocalRecent
  <2>. QED  BY <2>2, <2>3, Zenon
<1>. QED  BY <1>7, <1>8, <1>9, <1>10, Zenon

LEMMA DropOfExecute ==
  ASSUME BaseInv, StoredRecent, \A d \in Callers : HandRecent(co[d]), DropsAlone, NEW c \in Callers, Execute(c)
  PROVE  StoredRecent' /\ (\A d \in Callers : HandRecent(co[d])') /\ DropsAlone'
<1>0. CacheType /\ Effect(c) /\ Pending(c) /\ floor' = floor
  BY Zenon DEF BaseInv, Execute
<1>1. PICK a \in Entries : /\ a = Answer(c)
                           /\ co[c].pc = "get" => a = redis[co[c].key] /\ EntryOk(a)
                           /\ co[c].pc = "acquire" => a = IF lock[co[c].key] = Free THEN Yes ELSE No
                           /\ co[c].pc \notin {"get", "acquire"} => a = Yes
  BY <1>0, Answers, Zenon
<1>2. PICK n \in Coroutines :
        /\ co' = [co EXCEPT ![c] = n] /\ OnPath(n)
        /\ n.pc = co[c].pc /\ n.path = co[c].path /\ n.key = co[c].key /\ n.val = co[c].val /\ n.reply = a
  BY <1>0, <1>1, IsAnswered, Zenon DEF Execute
<1>3. co'[c] = n /\ \A d \in Callers \ {c} : co'[d] = co[d]
  BY <1>0, <1>2, Zenon DEF CacheType
<1>4. co[c].key \in Keys /\ co[c].val \in Entries /\ co[c].pc \in {"get", "acquire", "set", "release", "del"}
  BY <1>0, CoFields, Zenon DEF CacheType, Pending
<1>5. DropsAlone'
  BY <1>2, <1>3 DEF DropsAlone, AtWork
<1>6. StoredRecent'
  <2>. SUFFICES ASSUME NEW j \in Keys, redis'[j].is = "value"
                PROVE  Recent(redis'[j].value, j) \/ \E d \in Callers : DelPending(co'[d], j)
    BY <1>0, Zenon DEF StoredRecent, Recent, DelPending
  <2>1. \/ redis'[j] = redis[j] /\ ~(j = co[c].key /\ co[c].pc = "del")
        \/ /\ j = co[c].key /\ co[c].pc = "set"
           /\ redis'[j] = Present(co[c].val.value, co[c].val.age, RedisTtl(co[c].val.value))
    <3>1. Missing.is # "value"
      BY RepliesAreEntries, Zenon
    <3>. QED  BY <1>0, <3>1, Effects, Zenon
  <2>2. CASE redis'[j] = redis[j] /\ ~(j = co[c].key /\ co[c].pc = "del")
    <3>1. CASE Recent(redis[j].value, j)
      BY <2>2, <3>1, Zenon
    <3>2. CASE \E d \in Callers : DelPending(co[d], j)
      BY <1>3, <2>2, <3>2, Zenon DEF DelPending
    <3>. QED  BY <2>2, <3>1, <3>2, Zenon DEF StoredRecent
  <2>3. CASE /\ j = co[c].key /\ co[c].pc = "set"
             /\ redis'[j] = Present(co[c].val.value, co[c].val.age, RedisTtl(co[c].val.value))
    <3>1. redis'[j].value = co[c].val.value
      BY <2>3 DEF Present
    <3>. QED  BY <2>3, <3>1, Zenon DEF HandRecent
  <2>. QED  BY <2>1, <2>2, <2>3, Zenon
<1>7. ASSUME NEW d \in Callers PROVE HandRecent(co[d])'
  <2>1. CASE d # c
    BY <1>0, <1>3, <2>1, Zenon DEF HandRecent, Recent
  <2>2. CASE d = c
    <3>1. n.pc = "set" => Recent(n.val.value, n.key)
      BY <1>2, Zenon DEF HandRecent
    <3>2. a.is = "value" => co[c].pc = "get" /\ a = redis[co[c].key]
      BY <1>1, <1>4, RepliesAreEntries, Zenon
    <3>3. a.is = "value" => Recent(a.value, n.key)
      <4>. SUFFICES ASSUME a.is = "value" PROVE Recent(a.value, n.key)
        BY Zenon
      <4>1. co[c].pc = "get" /\ a = redis[co[c].key]
        BY <3>2, Zenon
      <4>2. ~\E e \in Callers : DelPending(co[e], co[c].key)
        BY <4>1, Zenon DEF DropsAlone, AtWork, DelPending
      <4>. QED  BY <1>2, <1>4, <4>1, <4>2, Zenon DEF StoredRecent
    <3>4. HandRecent(n)
      BY <1>2, <3>1, <3>3, Zenon DEF HandRecent
    <3>. QED  BY <1>0, <1>3, <2>2, <3>4, Zenon DEF HandRecent, Recent
  <2>. QED  BY <2>1, <2>2, Zenon
<1>. QED  BY <1>5, <1>6, <1>7, Zenon

LEMMA NoOverlap ==
  ASSUME SpentType, ~spent'.overlap, NEW c \in Callers, NEW k
  PROVE  /\ Invalidate(c, k) => ~Busy(k)
         /\ GetCreate(c, k) \/ GetJoin(c, k) \/ GetCached(c, k) \/ Set(c, k) => ~Dropping(k)
<1>1. ASSUME NEW p, \/ spent' = [spent EXCEPT !.calls = @ + 1, !.overlap = @ \/ p]
                    \/ spent' = [[spent EXCEPT !.calls = @ + 1, !.overlap = @ \/ p] EXCEPT !.put = TRUE]
      PROVE  ~p
  <2>1. PICK o : o = (spent.overlap \/ p)
    BY Zenon
  <2>2. \/ spent' = [spent EXCEPT !.calls = @ + 1, !.overlap = o]
        \/ spent' = [[spent EXCEPT !.calls = @ + 1, !.overlap = o] EXCEPT !.put = TRUE]
    BY <1>1, <2>1, Zenon
  <2>3. spent'.overlap = o
    BY <2>2, Zenon DEF SpentType, SpentFields
  <2>. QED  BY <2>1, <2>3, Zenon
<1>2. Invalidate(c, k) => ~Busy(k)
  BY <1>1, Zenon DEF Invalidate
<1>3. GetCreate(c, k) \/ GetJoin(c, k) \/ GetCached(c, k) \/ Set(c, k) => ~Dropping(k)
  BY <1>1, Zenon DEF GetCreate, GetJoin, GetCached, Set, Called
<1>. QED  BY <1>2, <1>3, Zenon

LEMMA DropStep ==
  ASSUME BaseInv, FloorInv, DropInv, [Next]_vars
  PROVE  DropInv'
<1>. DEFINE Rest == StoredRecent /\ (\A d \in Callers : HandRecent(co[d])) /\ DropsAlone
<1>. SUFFICES ASSUME Undisturbed' PROVE Rest' /\ LocalRecent'
  BY Zenon DEF DropInv
<1>1. CacheType /\ SpentGrows /\ SpentType /\ SpentType'
  BY BaseStep, SpentKept, Zenon DEF BaseInv
<1>2. /\ Undisturbed /\ ~spent'.overlap /\ spent'.errors = 0 /\ spent'.cancels = 0
      /\ StoredRecent /\ (\A d \in Callers : HandRecent(co[d])) /\ DropsAlone /\ LocalRecent
  BY <1>1, Zenon DEF DropInv, Undisturbed, SpentGrows
<1>3. floor' = floor => LocalRecent'
  BY <1>1, <1>2, LocalRecentKept, Zenon
<1>4. CASE UNCHANGED <<co, redis, floor>>
  <2>1. StoredRecent'
    BY <1>2, <1>4, Zenon DEF StoredRecent, Recent, DelPending
  <2>2. (\A d \in Callers : HandRecent(co[d]))'
    BY <1>2, <1>4, Zenon DEF HandRecent, Recent
  <2>3. DropsAlone'
    BY <1>2, <1>4, Zenon DEF DropsAlone, AtWork
  <2>. QED  BY <1>3, <1>4, <2>1, <2>2, <2>3, Zenon
<1>5. ASSUME NEW c \in Callers, NEW k \in Keys, Invalidate(c, k) PROVE Rest' /\ LocalRecent'
  <2>1. ~Busy(k)
    BY <1>1, <1>2, <1>5, NoOverlap, Zenon
  <2>. QED  BY <1>2, <1>5, <2>1, DropOfInvalidate, Zenon
<1>6. ASSUME NEW c \in Callers, NEW n, co' = [co EXCEPT ![c] = n], floor' = floor, redis' = redis,
             \A k : ~DelPending(co[c], k), n.pc # "del", HandRecent(n),
             AtWork(n, n.key) => \A d \in Callers \ {c} : ~(co[d].pc = "del" /\ co[d].key = n.key)
      PROVE  Rest' /\ LocalRecent'
  <2>1. co'[c] = n /\ \A d \in Callers \ {c} : co'[d] = co[d]
    BY <1>1, <1>6, Zenon DEF CacheType
  <2>2. StoredRecent' /\ (\A d \in Callers : HandRecent(co[d])') /\ DropsAlone'
    BY <1>2, <1>6, <2>1, DropMoves, Zenon
  <2>. QED  BY <1>3, <1>6, <2>2, Zenon
<1>. HIDE DEF Rest
<1>7. ASSUME NEW c \in Callers, NEW k \in Keys, GetCreate(c, k) \/ GetJoin(c, k) \/ GetCached(c, k) \/ Set(c, k)
      PROVE  Rest' /\ LocalRecent'
  <2>1. redis' = redis /\ floor' = floor
    BY <1>7, Zenon DEF GetCreate, GetJoin, GetCached, Set
  <2>2. CASE co' # co
    <3>1. PICK n \in Coroutines :
                 /\ co' = [co EXCEPT ![c] = n] /\ n.reply = NoReply /\ n.key = k /\ n.pc \in {"get", "want", "set"}
                 /\ n.pc = "set" => n.val = Present(truth[k], 0, 0)
      BY <1>1, <1>7, <2>2, CallMoves
    <3>2. HandRecent(n)
      BY <3>1, RepliesAreEntries DEF HandRecent, FloorInv, Present
    <3>3. co[c].pc = "none"
      BY <1>1, <1>7, CallMoves, Zenon
    <3>4. ~Dropping(k)
      BY <1>1, <1>2, <1>7, NoOverlap, Zenon
    <3>. QED  BY <1>6, <2>1, <3>1, <3>2, <3>3, <3>4, Zenon DEF Dropping, DelPending
  <2>. QED  BY <1>4, <2>1, <2>2, Zenon
<1>8. ASSUME NEW c \in Callers, Resume(c) \/ WaitEnds(c) \/ RunLoader(c) PROVE Rest' /\ LocalRecent'
  <2>1. PICK n \in Coroutines : Step(c, n)
    BY <1>1, <1>8, Resumes, Zenon
  <2>2. redis' = redis /\ floor' = floor
    BY <1>1, <1>8, Resumes, Zenon DEF others
  <2>3. co[c].key \in Keys
    BY <1>1, CoFields, Zenon DEF CacheType
  <2>4. HandRecent(n)
    <3>1. n.reply.is = "value" => Recent(n.reply.value, n.key)
      BY <2>1, <2>3, RepliesAreEntries DEF Step, FloorInv, Present
    <3>2. n.pc = "set" => Recent(n.val.value, n.key)
      BY <1>2, <2>1, Zenon DEF Step, HandRecent
    <3>. QED  BY <3>1, <3>2, Zenon DEF HandRecent
  <2>5. \A d \in Callers \ {c} : ~(co[d].pc = "del" /\ co[d].key = n.key)
    BY <1>2, <2>1, Zenon DEF Step, DropsAlone, AtWork
  <2>6. \A k : ~DelPending(co[c], k)
    BY <1>8, DelIsAnswered, Zenon
  <2>7. co' = [co EXCEPT ![c] = n] /\ n.pc # "del"
    BY <2>1, Zenon DEF Step
  <2>. QED  BY <1>6, <2>2, <2>4, <2>5, <2>6, <2>7, Zenon
<1>9. ASSUME NEW c \in Callers, Return(c) PROVE Rest' /\ LocalRecent'
  <2>1. redis' = redis /\ floor' = floor
    BY <1>9, Zenon DEF Return
  <2>2. CASE co' # co
    <3>1. PICK t \in Callers : co' = [co EXCEPT ![t] = NoCo] /\ co[t].pc = "done"
      BY <1>1, <1>9, <2>2, Zenon DEF Return, CacheType
    <3>2. co[t].key \in Keys /\ "none" \in Pcs /\ "none" \in Paths
      BY <1>1, CoFields, Zenon DEF CacheType, Pcs, Paths
    <3>3. PICK n \in Coroutines : n = NoCo /\ n.pc = "none" /\ n.reply = NoReply
      BY <3>2, Starts, Zenon
    <3>4. HandRecent(n) /\ ~AtWork(n, n.key) /\ \A k : ~DelPending(co[t], k)
      BY <3>1, <3>3, RepliesAreEntries, Zenon DEF HandRecent, AtWork, DelPending
    <3>. QED  BY <1>6, <2>1, <3>1, <3>3, <3>4, Zenon
  <2>. QED  BY <1>4, <2>1, <2>2, Zenon
<1>10. ASSUME NEW c \in Callers, Execute(c) PROVE Rest' /\ LocalRecent'
  <2>1. StoredRecent' /\ (\A d \in Callers : HandRecent(co[d])') /\ DropsAlone' /\ floor' = floor
    BY <1>2, <1>10, DropOfExecute, Zenon DEF Execute
  <2>. QED  BY <1>3, <2>1, Zenon DEF Rest
<1>11. ASSUME NEW c \in Callers, Fail(c) \/ Cancel(c) PROVE FALSE
  BY <1>1, <1>2, <1>11 DEF Fail, Cancel, SpentType, SpentFields
<1>12. ASSUME NEW k, ForeignWrite(k) PROVE FALSE
  BY <1>1, <1>2, <1>12 DEF ForeignWrite, SpentType, SpentFields
<1>13. ASSUME NEW k, Change(k) \/ ClearLocal(k) PROVE UNCHANGED <<co, redis, floor>>
  BY <1>13, Zenon DEF Change, ClearLocal
<1>14. CASE Tick
  <2>1. co' = co /\ floor' = floor
    BY <1>14, Zenon DEF Tick
  <2>2. ASSUME NEW k \in Keys, redis'[k].is = "value" PROVE redis[k].is = "value" /\ redis'[k].value = redis[k].value
    <3>1. Missing.is # "value"
      BY RepliesAreEntries, Zenon
    <3>2. PICK e \in Entries : e = redis[k]
      BY <1>1, Zenon DEF CacheType
    <3>3. redis'[k] = Missing \/ redis'[k] = [e EXCEPT !.left = e.left - 1, !.age = Older(e.age)]
      BY <1>14, <3>2, Zenon DEF Tick
    <3>. QED  BY <2>2, <3>1, <3>2, <3>3, Zenon DEF Entries
  <2>3. StoredRecent'
    BY <1>2, <2>1, <2>2, Zenon DEF StoredRecent, Recent, DelPending
  <2>4. (\A d \in Callers : HandRecent(co[d]))'
    BY <1>2, <2>1, Zenon DEF HandRecent, Recent
  <2>5. DropsAlone'
    BY <1>2, <2>1, Zenon DEF DropsAlone, AtWork
  <2>. QED  BY <1>3, <2>1, <2>3, <2>4, <2>5, Zenon DEF Rest
<1>15. UNCHANGED vars => UNCHANGED <<co, redis, floor>>
  BY Zenon DEF vars
<1>16. conf.bound.keys \subseteq Keys
  BY <1>1, KeysOfBounds, Zenon
<1>. QED  BY <1>4, <1>5, <1>7, <1>8, <1>9, <1>10, <1>11, <1>12, <1>13, <1>14, <1>15, <1>16, Zenon DEF Next

LEMMA DropInit ==
  ASSUME Init
  PROVE  FloorInv /\ DropInv
<1>1. "none" \in Pcs /\ "none" \in Paths
  BY Zenon DEF Pcs, Paths
<1>2. PICK k \in Keys : TRUE
  BY KeysExist, Zenon
<1>3. NoCo.pc = "none" /\ NoCo.reply = NoReply
  BY <1>1, <1>2, Starts, Zenon
<1>4. /\ \A c \in Callers : co[c] = NoCo
      /\ \A j \in Keys : redis[j] = Missing /\ truth[j] = 0 /\ \A r \in Replicas : floor[r][j] = 0
      /\ \A r \in Replicas : local[r] = << >>
  BY Zenon DEF Init
<1>5. FloorInv
  BY <1>4 DEF FloorInv, Recent
<1>6. StoredRecent
  BY <1>4, RepliesAreEntries, Zenon DEF StoredRecent
<1>7. \A c \in Callers : HandRecent(co[c])
  BY <1>3, <1>4, RepliesAreEntries, Zenon DEF HandRecent
<1>8. DropsAlone /\ LocalRecent
  BY <1>3, <1>4 DEF DropsAlone, LocalRecent
<1>. QED  BY <1>5, <1>6, <1>7, <1>8, Zenon DEF DropInv

-----------------------------------------------------------------------------
(* The stampede guard of _load_through_redis in state/cache.py: as long as *)
(* Redis answers, no lock lapses under its holder and nobody gives up      *)
(* waiting, at most one coroutine of all replicas loads a key, and the one *)
(* that has waited for the lock finds no entry of the load it waited for.  *)
THEOREM AlwaysOneLoader == Spec => []OneLoader
<1>1. Init => BaseInv /\ LockInv
  BY BaseInit, LockInit, Zenon
<1>2. BaseInv /\ LockInv /\ [Next]_vars => BaseInv' /\ LockInv'
  BY BaseStep, LockStep, Zenon
<1>3. BaseInv /\ LockInv => OneLoader
  BY LockInvGuards, Zenon
<1>. QED  BY <1>1, <1>2, <1>3, PTL DEF Spec

(* The ages of _store_local and _set_redis in state/cache.py: what is read *)
(* locally was loaded no longer ago than the local TTL plus the Redis TTL  *)
(* of its kind of value, whatever fails, overlaps or is cancelled, as long *)
(* as no call to Redis outlasts a tick.                                    *)
THEOREM AlwaysAgeBounded == Spec => []AgeBounded
<1>1. Init => BaseInv /\ AgeInv
  BY BaseInit, LockInit, Zenon
<1>2. BaseInv /\ AgeInv /\ [Next]_vars => BaseInv' /\ AgeInv'
  BY BaseStep, AgeStep, Zenon
<1>3. AgeInv => AgeBounded
  BY AgeInvBounds, Zenon
<1>. QED  BY <1>1, <1>2, <1>3, PTL DEF Spec

(* invalidate() of state/cache.py, when it overlaps no other use of its    *)
(* key: from then on its replica keeps nothing older than the              *)
(* invalidation, whether it comes from Redis, a loader or set().           *)
THEOREM AlwaysInvalidationHolds == Spec => []InvalidationHolds
<1>1. Init => BaseInv /\ FloorInv /\ DropInv
  BY BaseInit, DropInit, Zenon
<1>2. BaseInv /\ FloorInv /\ DropInv /\ [Next]_vars => BaseInv' /\ FloorInv' /\ DropInv'
  BY BaseStep, FloorStep, DropStep, Zenon DEF BaseInv
<1>3. DropInv => InvalidationHolds
  BY Zenon DEF DropInv, InvalidationHolds, Undisturbed, LocalRecent
<1>. QED  BY <1>1, <1>2, <1>3, PTL DEF Spec

=============================================================================
