------------------------------- MODULE Cache -------------------------------
(***************************************************************************)
(* The read-through cache of src/core/cache/cache.ts over a shared Redis,  *)
(* seen through ONE full key (every map of the class is keyed by the full  *)
(* key, so keys do not interact).  Server processes (Instances) run        *)
(* getOrSet calls (Callers) and mutating requests (Writers); each call and *)
(* each request is one element of its set and runs once.                   *)
(*                                                                         *)
(* The cached datum is the version number of the row it was computed from: *)
(* db is the current version, every committed write makes the next one.    *)
(* A step is what runs between two awaits, which is what a JavaScript      *)
(* process does without being interrupted.                                 *)
(***************************************************************************)
EXTENDS Integers, Sequences, FiniteSets

CONSTANTS Instances,     \* server processes
          Callers,       \* getOrSet calls
          Writers,       \* requests that commit a write and then invalidate
          Home,          \* the process an element of Callers or Writers runs in
          NullVersions,  \* versions for which the loader answers null
          NoOne          \* no call: an empty inFlight slot

ASSUME CallersFinite == IsFiniteSet(Callers)
ASSUME HomeType == Home \in [Callers \cup Writers -> Instances]
ASSUME CallersAreNotWriters == Callers \cap Writers = {}
ASSUME NoOneIsNoCall == NoOne \notin Callers
ASSUME NullVersionsType == NullVersions \subseteq Nat

VARIABLES db,        \* version of the row in Postgres
          store,     \* what Redis holds under the key
          wire,      \* per instance: commands on its one Redis connection
          inFlight,  \* per instance: the call whose loader is running
          loading,   \* per instance: the beginLoad / endLoad counter
          mark,      \* per instance: the key is in invalidatedWhileLoading
          cpc,       \* where each getOrSet call is
          val,       \* what each call has read or will return
          owner,     \* the call a joined call waits for
          wpc,       \* where each write request is
          ver,       \* the version a write request committed
          asOf       \* history: how far each write request was when a call began

vars == <<db, store, wire, inFlight, loading, mark, cpc, val, owner, wpc, ver, asOf>>

(***************************************************************************)
(* Redis contents: a version, nothing, or bytes the codec cannot decode.   *)
(***************************************************************************)
Absent  == -1
Corrupt == -2
Contents == Nat \cup {Absent, Corrupt}

Commands == [op : {"get", "set"}, ver : Nat, by : Callers]
            \cup [op : {"del"}, ver : Nat, by : Callers \cup Writers]

CallerPC == {"idle", "getting", "got", "loading", "read", "failing", "setting",
             "settled", "joined", "returned", "threw", "crashed"}
WriterPC == {"idle", "committed", "deleting", "acked", "done", "failed", "crashed"}

\* How far a write request is with its invalidation, as a call finds it.
Progress == {"before", "issued", "acked"}
Seen(w) == IF wpc[w] = "done" THEN "acked"
           ELSE IF wpc[w] \in {"idle", "committed"} THEN "before" ELSE "issued"

\* Calls between beginLoad and endLoad.  A joined call is not one of them:
\* `return pending` inside the try does not await, so its finally runs at once.
Counted == {"getting", "got", "loading", "read", "failing", "setting", "settled"}

\* Calls that run the loader, that is, own the inFlight entry.
Owning == {"loading", "read", "failing", "setting", "settled"}

Active(i) == {r \in Callers : Home[r] = i /\ cpc[r] \in Counted}

TypeOK ==
  /\ db \in Nat
  /\ store \in Contents
  /\ wire \in [Instances -> Seq(Commands)]
  /\ inFlight \in [Instances -> Callers \cup {NoOne}]
  /\ loading \in [Instances -> Nat]
  /\ mark \in [Instances -> BOOLEAN]
  /\ cpc \in [Callers -> CallerPC]
  /\ val \in [Callers -> Contents]
  /\ owner \in [Callers -> Callers \cup {NoOne}]
  /\ wpc \in [Writers -> WriterPC]
  /\ ver \in [Writers -> Nat]
  /\ asOf \in [Callers -> [Writers -> Progress]]

Init ==
  /\ db = 0
  /\ store \in {Absent, Corrupt, 0}
  /\ wire = [i \in Instances |-> <<>>]
  /\ inFlight = [i \in Instances |-> NoOne]
  /\ loading = [i \in Instances |-> 0]
  /\ mark = [i \in Instances |-> FALSE]
  /\ cpc = [r \in Callers |-> "idle"]
  /\ val = [r \in Callers |-> Absent]
  /\ owner = [r \in Callers |-> NoOne]
  /\ wpc = [w \in Writers |-> "idle"]
  /\ ver = [w \in Writers |-> 0]
  /\ asOf = [r \in Callers |-> [w \in Writers |-> "before"]]

-----------------------------------------------------------------------------
(***************************************************************************)
(* The pieces of state getOrSet and delete share.                          *)
(***************************************************************************)
Command(o, v, b) == [op |-> o, ver |-> v, by |-> b]

\* The circuit breaker may refuse a command, which is then never sent.
MaybeSend(i, c) ==
  \/ wire' = [wire EXCEPT ![i] = Append(@, c)]
  \/ UNCHANGED wire

beginLoad(i) == loading' = [loading EXCEPT ![i] = @ + 1]

Mutant_LeaveMark(i) == mark[i]
\* endLoad clears the key's mark with the last counted call, and only then.
MarkAfterEndLoad(i) == mark[i] /\ loading[i] > 1

Mutant_EndTwice(i) ==
  /\ loading' = [loading EXCEPT ![i] = @ - 2]
  /\ mark' = [mark EXCEPT ![i] = MarkAfterEndLoad(i)]
endLoad(i) ==
  /\ loading' = [loading EXCEPT ![i] = @ - 1]
  /\ mark' = [mark EXCEPT ![i] = MarkAfterEndLoad(i)]

Mutant_NeverMark(i) == mark[i]
\* delete marks a key that has a call between beginLoad and endLoad.
MarkAfterDelete(i) == mark[i] \/ loading[i] > 0

Mutant_CacheAnyway(i, v) == v \notin NullVersions
\* The loaded value is written to the store only if it is a value and no
\* invalidation arrived while the key was loading.
MayCache(i, v) == v \notin NullVersions /\ ~mark[i]

-----------------------------------------------------------------------------
(***************************************************************************)
(* getOrSet, step by step.                                                 *)
(***************************************************************************)
\* The synchronous beginning: count the call, send GET (unless the circuit
\* breaker refuses it, which the call learns as an error).
BeginLoad(r) ==
  /\ cpc[r] = "idle"
  /\ beginLoad(Home[r])
  /\ MaybeSend(Home[r], Command("get", 0, r))
  /\ cpc' = [cpc EXCEPT ![r] = "getting"]
  /\ asOf' = [asOf EXCEPT ![r] = [w \in Writers |-> Seen(w)]]
  /\ UNCHANGED <<db, store, inFlight, mark, val, owner, wpc, ver>>

\* A decoded value: return it.
Hit(r) ==
  /\ cpc[r] = "got"
  /\ val[r] \in Nat
  /\ endLoad(Home[r])
  /\ cpc' = [cpc EXCEPT ![r] = "returned"]
  /\ UNCHANGED <<db, store, wire, inFlight, val, owner, wpc, ver, asOf>>

\* No value, a value that does not decode, or an error or timeout of the GET
\* (which may strike whether or not Redis has executed it).
Missed(r) ==
  \/ cpc[r] = "got" /\ val[r] \in {Absent, Corrupt}
  \/ cpc[r] = "getting"

\* tryDecode drops the bytes it cannot decode: a DEL nobody waits for, and
\* that marks no loading key.
DropCorrupt(r) ==
  IF cpc[r] = "got" /\ val[r] = Corrupt
  THEN MaybeSend(Home[r], Command("del", 0, r))
  ELSE UNCHANGED wire

\* The key is being loaded: return that promise, and run endLoad at once.
Join(r) ==
  /\ Missed(r)
  /\ DropCorrupt(r)
  /\ inFlight[Home[r]] # NoOne
  /\ owner' = [owner EXCEPT ![r] = inFlight[Home[r]]]
  /\ cpc' = [cpc EXCEPT ![r] = "joined"]
  /\ endLoad(Home[r])
  /\ UNCHANGED <<db, store, inFlight, val, wpc, ver, asOf>>

Mutant_AlwaysStart(r) == TRUE
MayStart(r) == inFlight[Home[r]] = NoOne

\* Nobody is loading: start the loader.
StartLoader(r) ==
  /\ Missed(r)
  /\ DropCorrupt(r)
  /\ MayStart(r)
  /\ inFlight' = [inFlight EXCEPT ![Home[r]] = r]
  /\ cpc' = [cpc EXCEPT ![r] = "loading"]
  /\ UNCHANGED <<db, store, loading, mark, val, owner, wpc, ver, asOf>>

\* The loader's query runs in the database.
LoaderReads(r) ==
  /\ cpc[r] = "loading"
  /\ val' = [val EXCEPT ![r] = db]
  /\ cpc' = [cpc EXCEPT ![r] = "read"]
  /\ UNCHANGED <<db, store, wire, inFlight, loading, mark, owner, wpc, ver, asOf>>

LoaderFails(r) ==
  /\ cpc[r] \in {"loading", "read"}
  /\ cpc' = [cpc EXCEPT ![r] = "failing"]
  /\ val' = [val EXCEPT ![r] = Absent]
  /\ UNCHANGED <<db, store, wire, inFlight, loading, mark, owner, wpc, ver, asOf>>

\* The loader's answer is back: check the mark and, in the same synchronous
\* step, send SET.
LoaderReturns(r) ==
  /\ cpc[r] = "read"
  /\ \/ /\ MayCache(Home[r], val[r])
        /\ MaybeSend(Home[r], Command("set", val[r], r))
        /\ cpc' = [cpc EXCEPT ![r] = "setting"]
     \/ /\ ~MayCache(Home[r], val[r])
        /\ cpc' = [cpc EXCEPT ![r] = "settled"]
        /\ UNCHANGED wire
  /\ UNCHANGED <<db, store, inFlight, loading, mark, val, owner, wpc, ver, asOf>>

\* SET is acknowledged, fails or times out: all the same, errors are swallowed.
SetSettles(r) ==
  /\ cpc[r] = "setting"
  /\ cpc' = [cpc EXCEPT ![r] = "settled"]
  /\ UNCHANGED <<db, store, wire, inFlight, loading, mark, val, owner, wpc, ver, asOf>>

\* The owner's two finally blocks: free the slot, leave the count.
OwnerEnds(r) ==
  /\ cpc[r] \in {"settled", "failing"}
  /\ inFlight' = [inFlight EXCEPT ![Home[r]] = NoOne]
  /\ endLoad(Home[r])
  /\ cpc' = [cpc EXCEPT ![r] = IF @ = "settled" THEN "returned" ELSE "threw"]
  /\ UNCHANGED <<db, store, wire, val, owner, wpc, ver, asOf>>

\* The promise of call o: settled with a value, or rejected by its loader.
Resolved(o) == cpc[o] \in {"settled", "returned"}
Mutant_RejectionLost(o) == FALSE
Rejected(o) == cpc[o] \in {"failing", "threw"}

\* A joined call gets whatever the promise it joined gets.
JoinerEnds(r) ==
  /\ cpc[r] = "joined"
  /\ \/ /\ Resolved(owner[r])
        /\ cpc' = [cpc EXCEPT ![r] = "returned"]
        /\ val' = [val EXCEPT ![r] = val[owner[r]]]
     \/ /\ Rejected(owner[r])
        /\ cpc' = [cpc EXCEPT ![r] = "threw"]
        /\ UNCHANGED val
  /\ UNCHANGED <<db, store, wire, inFlight, loading, mark, owner, wpc, ver, asOf>>

-----------------------------------------------------------------------------
(***************************************************************************)
(* A write request: the handler commits, then the invalidates() middleware *)
(* (or a service that emits the effect itself) deletes the key.            *)
(***************************************************************************)
Commit(w) ==
  /\ wpc[w] = "idle"
  /\ db' = db + 1
  /\ ver' = [ver EXCEPT ![w] = db + 1]
  /\ wpc' = [wpc EXCEPT ![w] = "committed"]
  /\ UNCHANGED <<store, wire, inFlight, loading, mark, cpc, val, owner, asOf>>

\* Cache.delete: mark, then DEL; the circuit breaker may refuse it, which
\* invalidates() logs and forgets.
Delete(w) ==
  /\ wpc[w] = "committed"
  /\ mark' = [mark EXCEPT ![Home[w]] = MarkAfterDelete(Home[w])]
  /\ \/ /\ wire' = [wire EXCEPT ![Home[w]] = Append(@, Command("del", 0, w))]
        /\ wpc' = [wpc EXCEPT ![w] = "deleting"]
     \/ /\ UNCHANGED wire
        /\ wpc' = [wpc EXCEPT ![w] = "failed"]
  /\ UNCHANGED <<db, store, inFlight, loading, cpc, val, owner, ver, asOf>>

DeleteAcked(w) ==
  /\ wpc[w] = "acked"
  /\ wpc' = [wpc EXCEPT ![w] = "done"]
  /\ UNCHANGED <<db, store, wire, inFlight, loading, mark, cpc, val, owner, ver, asOf>>

\* The 200 ms are over, or the parameter resolver threw before anything was
\* deleted.  A DEL that was sent stays on the connection.
DeleteFails(w) ==
  /\ wpc[w] \in {"committed", "deleting", "acked"}
  /\ wpc' = [wpc EXCEPT ![w] = "failed"]
  /\ UNCHANGED <<db, store, wire, inFlight, loading, mark, cpc, val, owner, ver, asOf>>

-----------------------------------------------------------------------------
(***************************************************************************)
(* The environment.  Redis executes the commands of one connection in      *)
(* order (external: ioredis and Redis, from how RedisCacheStore uses them).*)
(***************************************************************************)
Deliver(i) ==
  /\ wire[i] # <<>>
  /\ wire' = [wire EXCEPT ![i] = Tail(@)]
  /\ LET c == Head(wire[i]) IN
     \/ /\ c.op = "get"
        /\ IF cpc[c.by] = "getting"
           THEN /\ val' = [val EXCEPT ![c.by] = store]
                /\ cpc' = [cpc EXCEPT ![c.by] = "got"]
           ELSE UNCHANGED <<val, cpc>>
        /\ UNCHANGED <<store, wpc>>
     \/ /\ c.op = "set"
        /\ store' = c.ver
        /\ UNCHANGED <<val, cpc, wpc>>
     \/ /\ c.op = "del"
        /\ store' = Absent
        /\ IF c.by \in Writers /\ wpc[c.by] = "deleting"
           THEN wpc' = [wpc EXCEPT ![c.by] = "acked"]
           ELSE UNCHANGED wpc
        /\ UNCHANGED <<val, cpc>>
  /\ UNCHANGED <<db, inFlight, loading, mark, owner, ver, asOf>>

\* ioredis gives up reconnecting and fails every queued command.
ConnectionFlushed(i) ==
  /\ wire[i] # <<>>
  /\ wire' = [wire EXCEPT ![i] = <<>>]
  /\ UNCHANGED <<db, store, inFlight, loading, mark, cpc, val, owner, wpc, ver, asOf>>

\* SET always carries a TTL (the entry's own or CACHE_DEFAULT_TTL).
Expire ==
  /\ store \in Nat
  /\ store' = Absent
  /\ UNCHANGED <<db, wire, inFlight, loading, mark, cpc, val, owner, wpc, ver, asOf>>

\* The process dies and restarts with empty maps.
Crash(i) ==
  /\ \/ \E r \in Callers : Home[r] = i /\ cpc[r] \in Counted \cup {"joined"}
     \/ \E w \in Writers : Home[w] = i /\ wpc[w] \in {"committed", "deleting", "acked"}
  /\ wire' = [wire EXCEPT ![i] = <<>>]
  /\ inFlight' = [inFlight EXCEPT ![i] = NoOne]
  /\ loading' = [loading EXCEPT ![i] = 0]
  /\ mark' = [mark EXCEPT ![i] = FALSE]
  /\ cpc' = [r \in Callers |->
               IF Home[r] = i /\ cpc[r] \in Counted \cup {"joined"}
               THEN "crashed" ELSE cpc[r]]
  /\ wpc' = [w \in Writers |->
               IF Home[w] = i /\ wpc[w] \in {"committed", "deleting", "acked"}
               THEN "crashed" ELSE wpc[w]]
  /\ UNCHANGED <<db, store, val, owner, ver, asOf>>

CallerStep(r) ==
  \/ BeginLoad(r) \/ Hit(r) \/ Join(r) \/ StartLoader(r)
  \/ LoaderReads(r) \/ LoaderFails(r) \/ LoaderReturns(r) \/ SetSettles(r)
  \/ OwnerEnds(r) \/ JoinerEnds(r)

WriterStep(w) == Commit(w) \/ Delete(w) \/ DeleteAcked(w) \/ DeleteFails(w)

Next ==
  \/ \E r \in Callers : CallerStep(r)
  \/ \E w \in Writers : WriterStep(w)
  \/ \E i \in Instances : Deliver(i) \/ ConnectionFlushed(i) \/ Crash(i)
  \/ Expire

Spec == Init /\ [][Next]_vars

\* What the runtime guarantees: a continuation that is ready runs; every
\* store command ends within its timeout; the database answers or fails.
\* Nothing is assumed of delivery, of the connection, of a key's TTL or of
\* crashes.
Fairness ==
  \A r \in Callers :
    WF_vars(\/ Hit(r) \/ Join(r) \/ StartLoader(r) \/ LoaderReads(r) \/ LoaderFails(r)
            \/ LoaderReturns(r) \/ SetSettles(r) \/ OwnerEnds(r) \/ JoinerEnds(r))

-----------------------------------------------------------------------------
(***************************************************************************)
(* Properties.                                                             *)
(***************************************************************************)
\* Redis holds nothing older than version v.
NotOlder(v) == store \in Nat => store >= v

\* Once a write request has seen its invalidation acknowledged, Redis never
\* again holds a value older than what it wrote, whatever loads were running
\* when it invalidated, whatever other requests fail to invalidate (the
\* "YARIS KORUMASI" of getOrSet).  Holds when all calls share a process.
AckedInvalidationSticks ==
  \A w \in Writers : wpc[w] = "done" => NotOlder(ver[w])

\* Redis is stale only while some request that wrote still owes its
\* invalidation or has failed to deliver it: with every invalidation
\* acknowledged the cache is coherent.  Holds when all calls share a process.
StaleOnlyIfOwed ==
  store \in Nat /\ store # db =>
    \E w \in Writers : /\ ver[w] > store
                       /\ wpc[w] \in {"committed", "deleting", "failed", "crashed"}

\* Stampede protection: a process runs at most one loader for the key.
SingleFlight ==
  \A r, s \in Callers :
     Home[r] = Home[s] /\ cpc[r] \in Owning /\ cpc[s] \in Owning => r = s

\* The race mark never outlives the loads it is about ("isaret bir SONRAKI
\* yuklemeye sizmamali"): a process with no call between beginLoad and endLoad
\* has no mark, so that a later load is cached again.
MarkDiesWithLoads ==
  \A i \in Instances : mark[i] => Active(i) # {}

\* A call that did not join another one returns a value at least as new as
\* every write whose invalidation was acknowledged before the call began.
\* Holds when all calls share a process.
DirectReadsFresh ==
  \A r \in Callers :
    cpc[r] = "returned" /\ owner[r] = NoOne =>
      \A w \in Writers : asOf[r][w] = "acked" => val[r] >= ver[w]

\* Every getOrSet call ends: no joined call waits for a load that is gone.
CallsEnd ==
  \A r \in Callers : cpc[r] = "getting" ~> cpc[r] \in {"returned", "threw", "crashed"}

=============================================================================
