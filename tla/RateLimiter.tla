---------------------------- MODULE RateLimiter ----------------------------
(***************************************************************************)
(* The limit on how often an identity may call an endpoint, counted in     *)
(* Redis: INCR and TTL go together, EXPIRE follows on its own if the key   *)
(* had no time to live.  A store that fails lets the request through.      *)
(* Time is counted in ticks; an EXPIRE arrives within MaxDelay of its INCR *)
(* or not at all.  A request with no identity to count by is not limited.  *)
(***************************************************************************)
EXTENDS Naturals, FiniteSets, Names

CONSTANTS Hits,           \* requests of one identity to one endpoint
          Limit, Window,  \* calls allowed in a window of so many ticks
          MaxDelay,
          LastMoment,     \* bound: the last tick
          Endless         \* a key without an expiry

ASSUME RateLimiterAssumption ==
  /\ {Limit, Window, MaxDelay, LastMoment} \subseteq Nat
  /\ IsFiniteSet(Hits) /\ Endless \notin Nat

VARIABLES moment,     \* the time
          counter,    \* the key: [count, expires, born], count 0 when it is absent
          hit,        \* each request: [pc, count, at, era]
          era,        \* history: windows begun so far
          unrepaired, \* history: an EXPIRE of this window was lost and no hit came since,
          brokenEver, \* or one was at some time in it
          passed      \* history: calls the limiter let through in each window

limiterVars == <<moment, counter, hit, era, unrepaired, brokenEver, passed>>

Idle == [pc |-> "idle", count |-> 0, at |-> 0, era |-> 0]
NoCounter == [count |-> 0, expires |-> Endless, born |-> 0]
Eras == 1..Cardinality(Hits)

LimiterInit ==
  /\ moment = 0 /\ counter = NoCounter /\ hit = [h \in Hits |-> Idle]
  /\ era = 0 /\ unrepaired = FALSE /\ brokenEver = FALSE
  /\ passed = [w \in Eras |-> 0]

----------------------------------------------------------------------------
\* The key vanishes on its tick, and nothing waits longer than MaxDelay.
Tick ==
  /\ moment < LastMoment
  /\ \A h \in Hits : hit[h].pc = "expire" => moment < hit[h].at + MaxDelay
  /\ moment' = moment + 1
  /\ counter' = IF counter.expires = moment + 1 THEN NoCounter ELSE counter
  /\ UNCHANGED <<hit, era, unrepaired, brokenEver, passed>>

\* Mutant: every hit sets the expiry, so that the window slides.
Mutant_EveryHit(c) == TRUE
\* ttlSeconds < 0
NeedsExpiry(c) == c.expires = Endless
\* Mutant: the call that reaches the limit is the last that passes, and one more.
Mutant_OneMore(count) == count > Limit + 1
Exceeded(count) == count > Limit

\* The answer of the middleware to a counted request.
AnswerHit(h, count, w) ==
  /\ hit' = [hit EXCEPT ![h] = [Idle EXCEPT !.pc = IF Exceeded(count) THEN "refused" ELSE "passed"]]
  /\ passed' = IF Exceeded(count) THEN passed ELSE [passed EXCEPT ![w] = @ + 1]

\* INCR creates the key when there is none.
Begins == counter.count = 0
Increment ==
  /\ counter' = IF Begins THEN [NoCounter EXCEPT !.count = 1, !.born = moment]
                ELSE [counter EXCEPT !.count = @ + 1]
  /\ era' = IF Begins THEN era + 1 ELSE era

\* The pipeline.
Count(h) ==
  /\ hit[h].pc = "idle"
  /\ Increment
  /\ unrepaired' = FALSE
  /\ brokenEver' = (~Begins /\ brokenEver)
  /\ IF NeedsExpiry(counter')
     THEN /\ hit' = [hit EXCEPT ![h] = [pc |-> "expire", count |-> counter'.count,
                                       at |-> moment, era |-> era']]
          /\ UNCHANGED passed
     ELSE AnswerHit(h, counter'.count, era')
  /\ UNCHANGED moment

\* EXPIRE, of whatever key has that name by then.
SetExpiry(h) ==
  /\ hit[h].pc = "expire"
  /\ counter' = IF counter.count = 0 THEN counter ELSE [counter EXCEPT !.expires = moment + Window]
  /\ AnswerHit(h, hit[h].count, hit[h].era)
  /\ UNCHANGED <<moment, era, unrepaired, brokenEver>>

\* clientIp or bodyField finds nobody to count, or limits are switched off:
\* the call goes on, and no counter is asked.
Unidentified(h) ==
  /\ hit[h].pc = "idle"
  /\ hit' = [hit EXCEPT ![h] = [Idle EXCEPT !.pc = "open"]]
  /\ UNCHANGED <<moment, counter, era, unrepaired, brokenEver, passed>>

\* The store throws, before the pipeline ran or after: the call goes on.
FailsOpen(h, ran) ==
  /\ hit[h].pc = "idle"
  /\ hit' = [hit EXCEPT ![h] = [Idle EXCEPT !.pc = "open"]]
  /\ IF ran THEN /\ Increment
                 /\ unrepaired' = (counter'.expires = Endless)
                 /\ brokenEver' = ((~Begins /\ brokenEver) \/ unrepaired')
     ELSE UNCHANGED <<counter, era, unrepaired, brokenEver>>
  /\ UNCHANGED <<moment, passed>>
\* EXPIRE is lost, with the connection or the process.
LosesExpire(h) ==
  /\ hit[h].pc = "expire"
  /\ hit' = [hit EXCEPT ![h] = [Idle EXCEPT !.pc = "open"]]
  /\ unrepaired' = TRUE /\ brokenEver' = TRUE
  /\ UNCHANGED <<moment, counter, era, passed>>

LimiterNext ==
  \/ Tick
  \/ \E h \in AnyOne({g \in Hits : hit[g].pc = "idle"}) :
       Count(h) \/ Unidentified(h) \/ \E ran \in BOOLEAN : FailsOpen(h, ran)
  \/ \E h \in Hits : SetExpiry(h) \/ LosesExpire(h)

LimiterSpec == LimiterInit /\ [][LimiterNext]_limiterVars

----------------------------------------------------------------------------
LimiterTypeOK ==
  /\ moment \in 0..LastMoment /\ era \in 0..Cardinality(Hits)
  /\ counter.count \in 0..Cardinality(Hits) /\ counter.born \in 0..LastMoment
  /\ counter.expires \in 0..LastMoment + Window \cup {Endless}
  /\ hit \in [Hits -> [pc : {"idle", "expire", "passed", "refused", "open"},
                       count : 0..Cardinality(Hits), at : 0..LastMoment, era : {0} \cup Eras]]
  /\ {unrepaired, brokenEver} \subseteq BOOLEAN /\ passed \in [Eras -> Nat]
AtMostLimit == \A w \in Eras : passed[w] <= Limit
\* A window ends when it should, late by no more than its EXPIREs were.
WindowEnds ==
  counter.count > 0 /\ ~brokenEver /\ (\A h \in Hits : hit[h].pc # "expire") =>
    counter.expires # Endless /\ counter.expires <= counter.born + 2 * MaxDelay + Window
\* Nobody is locked out: a key without expiry has one coming, or the next
\* hit brings it.
NoLockOut ==
  counter.count > 0 /\ counter.expires = Endless =>
    unrepaired \/ \E h \in Hits : hit[h].pc = "expire"

(* Every variable keeps its type; no window lets more calls through than   *)
(* its limit, those it could not count apart; a window ends, in spite of     *)
(* hits that keep coming and of several EXPIREs in flight, of which one    *)
(* may even fall into the next window; and a key whose EXPIRE was lost is  *)
(* given one by the next hit (redis.store.ts:51).                          *)
LimiterSound == LimiterTypeOK /\ AtMostLimit /\ WindowEnds /\ NoLockOut
=============================================================================
