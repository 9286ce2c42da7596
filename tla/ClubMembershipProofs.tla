------------------------ MODULE ClubMembershipProofs ------------------------
(***************************************************************************)
(* Proofs about ClubMembership, for any members, requests, boards and      *)
(* plans: its types; that nobody becomes a member without a decision on    *)
(* their request, however requests interleave; that whoever comes back     *)
(* comes back as a plain member; and that as long as requests come in      *)
(* order there is one president and the history tells every membership.    *)
(***************************************************************************)
EXTENDS ClubMembership, FiniteSetTheorems, TLAPS

ReqType ==
  [op : Ops \cup {"none"}, by : Users \cup {None}, on : Users \cup {None},
   pc : {"idle", "check", "write", "record", "elected", "demote", "promote", "president",
         "deputies", "deputy"},
   arg : {"none", "approved", "rejected", "pending"} \cup Roles,
   deputies : SUBSET Users, seen : Users \cup {None},
   log : SUBSET (Users \X ({"out"} \cup Roles))]

Electing == {"elected", "demote", "promote", "president"}

\* What a request carries at each point of its way.
Sensible(q) ==
  /\ q.pc = "idle" => q = Idle
  /\ q.pc # "idle" => q.op # "none"
  /\ q.op \notin {"none", "elect"} => q.by \in Users /\ q.on \in Users
  /\ q.pc \in {"write", "record"} => q.op # "elect"
  /\ q.pc \in Electing \cup {"deputies", "deputy"} => q.op = "elect"
  /\ q.pc \in Electing => q.on \in Users
  /\ q.pc = "deputy" => q.seen \in Users
  /\ q.op = "join" /\ q.pc = "write" => q.arg \in {"approved", "pending"}
  /\ q.op = "decide" => q.arg \in {"approved", "rejected"}
  /\ q.op = "role" => q.arg \in {"member", "officer"}
  /\ q.op = "transfer" => q.by # q.on
  /\ q.pc \notin {"record", "promote", "deputies"} => q.log = {}

Typed == TypeOK /\ \A r \in Requests : Sensible(req[r])

Said == {"none", "out"} \cup Roles

-----------------------------------------------------------------------------
\* One request changes, and with it what the rest of the step changes.
LEMMA TypedChange ==
  ASSUME Typed, NEW r \in Requests, NEW q \in ReqType, Sensible(q), req' = [req EXCEPT ![r] = q],
         row' \in [Users -> Rows], open' \in BOOLEAN, last' \in [Users -> Said],
         UNCHANGED counted, overlapped' \in BOOLEAN
  PROVE  Typed'
<1>1. req' \in [Requests -> ReqType] /\ \A s \in Requests : Sensible(req'[s])
  BY DEF Typed, TypeOK, ReqType
<1> QED
  BY <1>1 DEF Typed, TypeOK, ReqType, Said, counted, Sensible

\* What the history says once a request's events are in it.
LEMMA LoggedType == ASSUME Typed, NEW r \in Requests PROVE Logged(r) \in [Users -> Said]
<1>1. req[r].log \subseteq Users \X ({"out"} \cup Roles) /\ last \in [Users -> Said]
  BY DEF Typed, TypeOK, Said
<1>2. ASSUME NEW u \in Users, \E e \in req[r].log : e[1] = u
      PROVE  (CHOOSE e \in req[r].log : e[1] = u)[2] \in Said
  <2>1. (CHOOSE e \in req[r].log : e[1] = u) \in req[r].log
    BY <1>2
  <2> QED BY <1>1, <2>1 DEF Said
<1> QED BY <1>1, <1>2 DEF Logged

\* A slot without a request carries nothing.
LEMMA IdleType == Idle \in ReqType /\ Sensible(Idle)
BY MembershipType DEF Idle, ReqType, Sensible, Electing, Roles, Ops

\* The club as its approval leaves it.
LEMMA InitTyped == Init => Typed
<1> SUFFICES ASSUME Init PROVE Typed
  OBVIOUS
<1>1. row \in [Users -> Rows] /\ last \in [Users -> Said]
  BY DEF Init, Rows, NoRow, Roles, Said
<1>2. req \in [Requests -> ReqType] /\ \A r \in Requests : Sensible(req[r])
  BY IdleType DEF Init
<1>3. plan \in Plans /\ 0 \in 0..plan.removals /\ 0 \in 0..plan.crashes
  BY MembershipType DEF Init
<1> QED
  BY <1>1, <1>2, <1>3 DEF Init, Typed, TypeOK, ReqType, Said

\* A request begins.
Entry(r, q) ==
  /\ req[r] = Idle /\ req' = [req EXCEPT ![r] = q]
  /\ q \in ReqType /\ Sensible(q) /\ q.pc = "check"
  /\ q.op = "transfer" => MayAs(q.by, {"president"})
  /\ overlapped' = (overlapped \/ \E s \in Requests : req[s] # Idle)
  /\ UNCHANGED <<row, open, last, counted>>

Begins(r) ==
  \/ \E u \in Users : Join(r, u) \/ Leave(r, u) \/ SetPolicy(r, u)
  \/ \E o, u \in Users :
       \/ \E d \in {"approved", "rejected"} : Decide(r, o, u, d)
       \/ Remove(r, o, u)
       \/ \E new \in {"member", "officer"} : SetRole(r, o, u, new)
       \/ Transfer(r, o, u)
  \/ \E o \in Users, b \in Boards : Elect(r, o, b)

\* Every endpoint puts a request before its read, and asks a transfer of the president only.
LEMMA Entered == ASSUME NEW r \in Requests, Begins(r) PROVE \E q : Entry(r, q)
<1> DEFINE Q(op, by, on, arg, deps) ==
      [Idle EXCEPT !.op = op, !.pc = "check", !.by = by, !.on = on, !.arg = arg, !.deputies = deps]
<1>1. ASSUME NEW op \in Ops, NEW by \in Users, NEW on \in Users \cup {None},
             NEW arg \in {"none", "approved", "rejected"} \cup Roles, NEW deps \in SUBSET Users,
             Enter(r, op, by, on, arg, deps), op # "elect" => on \in Users,
             op = "decide" => arg \in {"approved", "rejected"},
             op = "role" => arg \in {"member", "officer"},
             op = "transfer" => by # on /\ MayAs(by, {"president"})
      PROVE  Entry(r, Q(op, by, on, arg, deps))
  <2> DEFINE q == Q(op, by, on, arg, deps)
  <2>1. q.op = op /\ q.pc = "check" /\ q.by = by /\ q.on = on /\ q.arg = arg /\ q.log = {}
    BY DEF Idle
  <2>2. q \in ReqType
    BY IdleType DEF ReqType
  <2>3. Sensible(Q(op, by, on, arg, deps))
    BY <1>1, <2>1 DEF Sensible, Ops, Electing
  <2> QED BY <1>1, <2>1, <2>2, <2>3 DEF Entry, Enter
<1>2. ASSUME NEW u \in Users, Join(r, u) PROVE \E q : Entry(r, q)
  <2>1. Entry(r, Q("join", u, u, "none", {}))
    BY <1>1, <1>2 DEF Join, Ops
  <2> QED BY <2>1
<1>3. ASSUME NEW u \in Users, Leave(r, u) PROVE \E q : Entry(r, q)
  <2>1. Entry(r, Q("leave", u, u, "none", {}))
    BY <1>1, <1>3 DEF Leave, Ops
  <2> QED BY <2>1
<1>4. ASSUME NEW u \in Users, SetPolicy(r, u) PROVE \E q : Entry(r, q)
  <2>1. Entry(r, Q("policy", u, u, "none", {}))
    BY <1>1, <1>4 DEF SetPolicy, Ops
  <2> QED BY <2>1
<1>5. ASSUME NEW o \in Users, NEW u \in Users, NEW d \in {"approved", "rejected"}, Decide(r, o, u, d)
      PROVE  \E q : Entry(r, q)
  <2>1. Entry(r, Q("decide", o, u, d, {}))
    BY <1>1, <1>5 DEF Decide, Ops
  <2> QED BY <2>1
<1>6. ASSUME NEW o \in Users, NEW u \in Users, Remove(r, o, u) PROVE \E q : Entry(r, q)
  <2>1. Entry(r, Q("remove", o, u, "none", {}))
    BY <1>1, <1>6 DEF Remove, Ops
  <2> QED BY <2>1
<1>7. ASSUME NEW o \in Users, NEW u \in Users, NEW new \in {"member", "officer"}, SetRole(r, o, u, new)
      PROVE  \E q : Entry(r, q)
  <2>1. Entry(r, Q("role", o, u, new, {}))
    BY <1>1, <1>7 DEF SetRole, Ops, Roles
  <2> QED BY <2>1
<1>8. ASSUME NEW o \in Users, NEW u \in Users, Transfer(r, o, u) PROVE \E q : Entry(r, q)
  <2>1. Entry(r, Q("transfer", o, u, "none", {}))
    BY <1>1, <1>8 DEF Transfer, Ops
  <2> QED BY <2>1
<1>9. ASSUME NEW o \in Users, NEW b \in Boards, Elect(r, o, b) PROVE \E q : Entry(r, q)
  <2>1. b.pres \in Users \cup {None} /\ b.deputies \in SUBSET Users
    BY MembershipType
  <2>2. Entry(r, Q("elect", o, b.pres, "none", b.deputies))
    BY <1>1, <1>9, <2>1 DEF Elect, Ops
  <2> QED BY <2>2
<1> QED
  BY <1>2, <1>3, <1>4, <1>5, <1>6, <1>7, <1>8, <1>9 DEF Begins

\* A request goes on, keeping its events or with new ones, or ends.
Moved(r, pc, log) == [req[r] EXCEPT !.pc = pc, !.log = log]
Events == SUBSET (Users \X ({"out"} \cup Roles))

\* A request that goes on is one of its kind at its next place.
LEMMA MovedType ==
  ASSUME Typed, NEW r \in Requests, NEW pc \in {"write", "record"} \cup Electing \cup {"deputies"},
         NEW log \in Events,
         pc \notin {"record", "promote", "deputies"} => log = {},
         req[r].op \notin {"none"}, pc \in {"write", "record"} <=> req[r].op # "elect",
         pc \in Electing => req[r].on \in Users,
         pc = "write" => req[r].op # "join"
  PROVE  Moved(r, pc, log) \in ReqType /\ Sensible(Moved(r, pc, log))
<1>1. req[r] \in ReqType /\ Sensible(req[r])
  BY DEF Typed, TypeOK, ReqType
<1>2. /\ Moved(r, pc, log).op = req[r].op /\ Moved(r, pc, log).pc = pc
      /\ Moved(r, pc, log).on = req[r].on /\ Moved(r, pc, log).by = req[r].by
      /\ Moved(r, pc, log).arg = req[r].arg /\ Moved(r, pc, log).seen = req[r].seen
      /\ Moved(r, pc, log).log = log
  BY <1>1 DEF Moved, ReqType
<1>3. Moved(r, pc, log) \in ReqType
  BY <1>1 DEF Moved, ReqType, Events, Electing
<1> QED BY <1>1, <1>2, <1>3 DEF Sensible, Electing

\* Every step keeps the types and what requests carry.
LEMMA TypedStep == Typed /\ [Next]_vars => Typed'
<1> SUFFICES ASSUME Typed, [Next]_vars PROVE Typed'
  OBVIOUS
<1>k. /\ row \in [Users -> Rows] /\ open \in BOOLEAN /\ last \in [Users -> Said]
      /\ overlapped \in BOOLEAN /\ req \in [Requests -> ReqType]
      /\ \A r \in Requests : Sensible(req[r])
  BY DEF Typed, TypeOK, ReqType, Said
<1>t. \A r \in Requests : /\ req[r] \in ReqType /\ Sensible(req[r]) /\ req[r].log \in Events
  BY <1>k DEF ReqType, Events
<1>s. \A u, new : new \in Rows /\ Set(u, new) => row' \in [Users -> Rows]
  BY <1>k DEF Set
<1>1. ASSUME NEW r \in Requests, Begins(r) PROVE Typed'
  <2>1. PICK q : Entry(r, q)
    BY <1>1, Entered
  <2> QED BY <1>k, <2>1, TypedChange DEF Entry
<1>2. ASSUME NEW r \in Requests, Check(r) PROVE Typed'
  <2>1. CASE req' = [req EXCEPT ![r] = Idle]
    BY <1>2, <1>k, <2>1, IdleType, TypedChange DEF Check
  <2> DEFINE pc == IF req[r].op # "elect" THEN "write"
                   ELSE IF req[r].on = None THEN "deputies" ELSE "elected"
             arg == IF req[r].op # "join" THEN req[r].arg ELSE IF open THEN "approved" ELSE "pending"
             q == [req[r] EXCEPT !.pc = pc, !.arg = arg]
  <2>2. CASE req' = [req EXCEPT ![r] = q]
    <3>1. req[r] \in ReqType /\ Sensible(req[r]) /\ req[r].pc = "check"
      BY <1>2, <1>t DEF Check
    <3>2. q \in ReqType
      BY <3>1 DEF ReqType
    <3>3. /\ q.op = req[r].op /\ q.pc = pc /\ q.on = req[r].on /\ q.by = req[r].by /\ q.arg = arg
          /\ q.log = req[r].log /\ q.seen = req[r].seen
      BY <3>1 DEF ReqType
    <3>4. req[r].on \in Users \cup {None}
      BY <3>1 DEF ReqType
    <3>5. Sensible(q)
      BY <3>1, <3>3, <3>4 DEF Sensible, Electing
    <3> QED BY <1>2, <1>k, <2>2, <3>2, <3>5, TypedChange DEF Check
  <2>3. req' = [req EXCEPT ![r] = Idle] \/ req' = [req EXCEPT ![r] = q]
    BY <1>2 DEF Check, End
  <2> QED BY <2>1, <2>2, <2>3
<1>3. ASSUME NEW r \in Requests, Write(r) PROVE Typed'
  <2>1. req[r].pc = "write" /\ req[r].op \notin {"none", "elect"}
        /\ req[r].by \in Users /\ req[r].on \in Users /\ row[req[r].on] \in Rows
    BY <1>3, <1>k DEF Write, Sensible
  <2>2. \A E \in Events : Moved(r, "record", E) \in ReqType /\ Sensible(Moved(r, "record", E))
    BY <1>k, <2>1, MovedType DEF Electing
  <2>3. \A E : Log(r, E, "record") => req' = [req EXCEPT ![r] = Moved(r, "record", E)]
    BY DEF Log, Moved
  <2>4. End(r) => req' = [req EXCEPT ![r] = Idle]
    BY DEF End
  <2>5. ASSUME row' \in [Users -> Rows], open' \in BOOLEAN,
               End(r) \/ (\E E \in Events : Log(r, E, "record")),
               UNCHANGED <<last, counted, overlapped>>
        PROVE  Typed'
    BY <1>k, <2>2, <2>3, <2>4, <2>5, IdleType, TypedChange
  <2>6. CASE WriteJoin(r)
    <3>1. req[r].arg \in {"approved", "pending"} /\ req[r].op = "join"
      BY <1>k, <2>1, <2>6 DEF WriteJoin, Sensible
    <3>2. row' \in [Users -> Rows]
      BY <1>k, <2>6, <3>1 DEF WriteJoin, Insert, Rows, Roles
    <3>3. {<<req[r].on, "member">>} \in Events
      BY <2>1 DEF Events, Roles
    <3> QED BY <1>3, <1>k, <2>5, <2>6, <3>2, <3>3 DEF WriteJoin, Write
  <2>7. CASE WriteLeft(r)
    <3>1. [row[req[r].on] EXCEPT !.left = TRUE] \in Rows
      BY <2>1 DEF Rows
    <3>2. {<<req[r].on, "out">>} \in Events
      BY <2>1 DEF Events
    <3> QED BY <1>3, <1>k, <1>s, <2>5, <2>7, <3>1, <3>2 DEF WriteLeft, Write
  <2>8. CASE WriteDecision(r)
    <3>1. req[r].arg \in {"approved", "rejected"}
      BY <1>k, <2>1, <2>8 DEF WriteDecision, Sensible
    <3>2. [row[req[r].on] EXCEPT !.status = req[r].arg] \in Rows
      BY <2>1, <3>1 DEF Rows
    <3>3. {<<req[r].on, IF req[r].arg = "approved" THEN "member" ELSE "out">>} \in Events
      BY <2>1 DEF Events, Roles
    <3> QED BY <1>3, <1>k, <1>s, <2>5, <2>8, <3>2, <3>3 DEF WriteDecision, Write
  <2>9. CASE WriteRole(r)
    <3>1. req[r].arg \in {"member", "officer"}
      BY <1>k, <2>1, <2>9 DEF WriteRole, Sensible
    <3>2. [row[req[r].on] EXCEPT !.role = req[r].arg] \in Rows
      BY <2>1, <3>1 DEF Rows, Roles
    <3>3. {<<req[r].on, req[r].arg>>} \in Events
      BY <2>1, <3>1 DEF Events, Roles
    <3> QED BY <1>3, <1>k, <1>s, <2>5, <2>9, <3>2, <3>3 DEF WriteRole, Write
  <2>10. CASE WriteTransfer(r)
    <3>1. row' \in [Users -> Rows]
      BY <1>k, <2>10 DEF WriteTransfer, Rows, Roles
    <3>2. {<<req[r].by, "officer">>, <<req[r].on, "president">>} \in Events
      BY <2>1 DEF Events, Roles
    <3> QED BY <1>3, <1>k, <2>5, <2>10, <3>1, <3>2 DEF WriteTransfer, Write
  <2>11. CASE WritePolicy(r)
    BY <1>3, <1>k, <2>5, <2>11 DEF WritePolicy, Write
  <2> QED BY <1>3, <2>6, <2>7, <2>8, <2>9, <2>10, <2>11 DEF Write
<1>4. ASSUME NEW r \in Requests, Record(r) PROVE Typed'
  BY <1>4, <1>k, LoggedType, IdleType, TypedChange DEF Record, End
<1>5. ASSUME NEW r \in Requests, FindPresident(r) PROVE Typed'
  <2>1. req[r].pc = "elected" /\ req[r].op = "elect" /\ req[r].on \in Users /\ req[r].log = {}
    BY <1>5, <1>k DEF FindPresident, Sensible, Electing
  <2>2. PICK p \in Users \cup {None} :
         req' = [req EXCEPT ![r] = [req[r] EXCEPT !.seen = p, !.pc = "demote"]]
    BY <1>5 DEF FindPresident, Presidents
  <2>3. [req[r] EXCEPT !.seen = p, !.pc = "demote"] \in ReqType
        /\ Sensible([req[r] EXCEPT !.seen = p, !.pc = "demote"])
    BY <1>t, <2>1 DEF ReqType, Sensible, Electing
  <2> QED BY <1>5, <1>k, <2>2, <2>3, TypedChange DEF FindPresident
<1>6. ASSUME NEW r \in Requests, Demote(r) PROVE Typed'
  <2>1. req[r].pc = "demote" /\ req[r].op = "elect" /\ req[r].on \in Users /\ req[r].log = {}
        /\ req[r].seen \in Users \cup {None}
    BY <1>6, <1>t DEF Demote, Sensible, Electing, ReqType
  <2>2. \A E \in Events : Moved(r, "promote", E) \in ReqType /\ Sensible(Moved(r, "promote", E))
    BY <1>k, <2>1, MovedType DEF Electing
  <2>3. CASE req[r].seen \in {None, req[r].on}
    <3>1. req' = [req EXCEPT ![r] = [req[r] EXCEPT !.pc = "promote"]]
      BY <1>6, <2>3 DEF Demote, Goto
    <3>2. [req[r] EXCEPT !.pc = "promote"] \in ReqType /\ Sensible([req[r] EXCEPT !.pc = "promote"])
      BY <1>t, <2>1 DEF ReqType, Sensible, Electing
    <3> QED BY <1>6, <1>k, <2>3, <3>1, <3>2, TypedChange DEF Demote
  <2>4. CASE req[r].seen \notin {None, req[r].on}
    <3>1. [row[req[r].seen] EXCEPT !.role = "officer"] \in Rows
      BY <1>k, <2>1, <2>4 DEF Rows, Roles
    <3>2. row' \in [Users -> Rows]
      BY <1>6, <1>s, <2>4, <3>1 DEF Demote
    <3>3. {<<req[r].seen, "officer">>} \in Events
      BY <2>1, <2>4 DEF Events, Roles
    <3>4. req' = [req EXCEPT ![r] = Moved(r, "promote", {<<req[r].seen, "officer">>})]
      BY <1>6, <2>4 DEF Demote, Log, Moved
    <3> QED BY <1>6, <1>k, <2>2, <3>2, <3>3, <3>4, TypedChange DEF Demote
  <2> QED BY <2>3, <2>4
<1>7. ASSUME NEW r \in Requests, FindElected(r) PROVE Typed'
  <2>1. req[r].pc = "promote" /\ req[r].op = "elect" /\ req[r].on \in Users
    BY <1>7, <1>k DEF FindElected, Sensible, Electing
  <2>2. \A pc \in {"president", "deputies"} : Moved(r, pc, {}) \in ReqType /\ Sensible(Moved(r, pc, {}))
    BY <1>k, <2>1, MovedType DEF Electing, Events
  <2>3. \E pc \in {"president", "deputies"} : req' = [req EXCEPT ![r] = Moved(r, pc, {})]
    BY <1>7 DEF FindElected, Moved
  <2> QED BY <1>7, <1>k, <2>2, <2>3, LoggedType, TypedChange DEF FindElected
<1>8. ASSUME NEW r \in Requests, Promote(r) PROVE Typed'
  <2>1. req[r].pc = "president" /\ req[r].op = "elect" /\ req[r].on \in Users
    BY <1>8, <1>k DEF Promote, Sensible, Electing
  <2>2. {<<req[r].on, "president">>} \in Events
    BY <2>1 DEF Events, Roles
  <2>3. req' = [req EXCEPT ![r] = Moved(r, "deputies", {<<req[r].on, "president">>})]
    BY <1>8 DEF Promote, Log, Moved
  <2>4. [row[req[r].on] EXCEPT !.role = "president"] \in Rows
    BY <1>k, <2>1 DEF Rows, Roles
  <2>5. row' \in [Users -> Rows]
    BY <1>8, <1>s, <2>4 DEF Promote
  <2>6. Moved(r, "deputies", {<<req[r].on, "president">>}) \in ReqType
        /\ Sensible(Moved(r, "deputies", {<<req[r].on, "president">>}))
    BY <1>k, <2>1, <2>2, MovedType DEF Electing
  <2> QED BY <1>8, <1>k, <2>3, <2>5, <2>6, TypedChange DEF Promote
<1>9. ASSUME NEW r \in Requests, FindDeputy(r) PROVE Typed'
  <2>1. req[r].pc = "deputies" /\ req[r].op = "elect" /\ req[r] \in ReqType
    BY <1>9, <1>t DEF FindDeputy, Sensible, Electing
  <2>2. CASE req' = [req EXCEPT ![r] = Idle]
    BY <1>9, <1>k, <2>2, IdleType, LoggedType, TypedChange DEF FindDeputy
  <2>3. ASSUME NEW v \in req[r].deputies, NEW pc \in {"deputy", "deputies"},
               req' = [req EXCEPT ![r] = [req[r] EXCEPT !.log = {}, !.deputies = @ \ {v},
                                                        !.seen = v, !.pc = pc]]
        PROVE  Typed'
    <3> DEFINE q == [req[r] EXCEPT !.log = {}, !.deputies = @ \ {v}, !.seen = v, !.pc = pc]
    <3>1. v \in Users
      BY <2>1 DEF ReqType
    <3>2. q \in ReqType
      BY <2>1, <3>1 DEF ReqType
    <3>3. q.op = "elect" /\ q.pc = pc /\ q.seen = v /\ q.log = {}
      BY <2>1 DEF ReqType
    <3>4. Sensible(q)
      BY <3>1, <3>3 DEF Sensible, Electing
    <3> QED BY <1>9, <1>k, <2>3, <3>2, <3>4, LoggedType, TypedChange DEF FindDeputy
  <2>4. \/ req' = [req EXCEPT ![r] = Idle]
        \/ \E v \in req[r].deputies, pc \in {"deputy", "deputies"} :
             req' = [req EXCEPT ![r] = [req[r] EXCEPT !.log = {}, !.deputies = @ \ {v},
                                                      !.seen = v, !.pc = pc]]
    <3>1. CASE End(r)
      BY <3>1 DEF End
    <3>2. ASSUME NEW v \in req[r].deputies,
                 req' = [req EXCEPT ![r].log = {}, ![r].deputies = @ \ {v}, ![r].seen = v,
                           ![r].pc = IF Member(row[v]) /\ row[v].role = "member"
                                       THEN "deputy" ELSE "deputies"]
          PROVE  \E pc \in {"deputy", "deputies"} :
                   req' = [req EXCEPT ![r] = [req[r] EXCEPT !.log = {}, !.deputies = @ \ {v},
                                                            !.seen = v, !.pc = pc]]
      <4>1. CASE Member(row[v]) /\ row[v].role = "member"
        BY <3>2, <4>1
      <4>2. CASE ~(Member(row[v]) /\ row[v].role = "member")
        BY <3>2, <4>2
      <4> QED BY <4>1, <4>2
    <3> QED BY <1>9, <3>1, <3>2 DEF FindDeputy
  <2> QED BY <2>2, <2>3, <2>4
<1>10. ASSUME NEW r \in Requests, MakeOfficer(r) PROVE Typed'
  <2>1. req[r].pc = "deputy" /\ req[r].op = "elect" /\ req[r].seen \in Users
    BY <1>10, <1>k DEF MakeOfficer, Sensible, Electing
  <2>2. {<<req[r].seen, "officer">>} \in Events
    BY <2>1 DEF Events, Roles
  <2>3. req' = [req EXCEPT ![r] = Moved(r, "deputies", {<<req[r].seen, "officer">>})]
    BY <1>10 DEF MakeOfficer, Log, Moved
  <2>4. [row[req[r].seen] EXCEPT !.role = "officer"] \in Rows
    BY <1>k, <2>1 DEF Rows, Roles
  <2>5. row' \in [Users -> Rows]
    BY <1>10, <1>s, <2>4 DEF MakeOfficer
  <2>6. Moved(r, "deputies", {<<req[r].seen, "officer">>}) \in ReqType
        /\ Sensible(Moved(r, "deputies", {<<req[r].seen, "officer">>}))
    BY <1>k, <2>1, <2>2, MovedType DEF Electing
  <2> QED BY <1>10, <1>k, <2>3, <2>5, <2>6, TypedChange DEF MakeOfficer
<1>11. ASSUME NEW u \in Users, removeClubMember(u) PROVE Typed'
  <2>1. plan \in Plans /\ plan.removals \in Nat /\ removals \in 0..plan.removals
    BY MembershipType DEF Typed, TypeOK
  <2>2. row' \in [Users -> Rows] /\ removals' \in 0..plan.removals
    BY <1>11, <1>k, <2>1 DEF removeClubMember, Rows, NoRow, Roles
  <2> QED BY <1>11, <2>2 DEF removeClubMember, Typed, TypeOK, Sensible
<1>12. CASE Crash
  <2>1. plan \in Plans /\ plan.crashes \in Nat /\ crashes \in 0..plan.crashes
    BY MembershipType DEF Typed, TypeOK
  <2>2. crashes' \in 0..plan.crashes
    BY <1>12, <2>1 DEF Crash
  <2>3. req' \in [Requests -> ReqType] /\ \A r \in Requests : Sensible(req'[r])
    BY <1>12, IdleType DEF Crash
  <2> QED BY <1>12, <2>2, <2>3 DEF Crash, Typed, TypeOK, ReqType, Sensible
<1>13. CASE UNCHANGED vars
  BY <1>13 DEF vars, counted, Typed, TypeOK, Sensible
<1> QED
  BY <1>1, <1>2, <1>3, <1>4, <1>5, <1>6, <1>7, <1>8, <1>9, <1>10, <1>11, <1>12, <1>13
     DEF Next, Step, Begins

(* The memberships, their history and the requests keep their types.       *)
THEOREM TypeCorrect == Spec => []TypeOK
<1>1. Spec => []Typed
  BY InitTyped, TypedStep, PTL DEF Spec
<1> QED
  BY <1>1, PTL DEF Typed

-----------------------------------------------------------------------------
(***************************************************************************)
(* While no two requests overlap there is one at a time, whatever it was   *)
(* told is still so but for rows removed since, and who waits for a        *)
(* decision has no role.                                                   *)
(***************************************************************************)
Alone == \A r, s \in Requests : req[r] # Idle /\ req[s] # Idle => r = s
PendingIsPlain == \A u \in Users : row[u].status = "pending" => row[u].role = "member"
NotPending(u) == row[u].status # "pending"

Asked(r) ==
  /\ req[r].op = "decide" /\ req[r].pc = "write" => row[req[r].on].status \in {"none", "pending"}
  /\ req[r].op = "role" /\ req[r].pc = "write" => NotPending(req[r].on)
  /\ req[r].op = "transfer" => NotPending(req[r].by)
  /\ req[r].op = "transfer" /\ req[r].pc = "write" => NotPending(req[r].on)
  /\ req[r].pc = "demote" /\ req[r].seen \in Users => NotPending(req[r].seen)
  /\ req[r].pc \in Electing => NotPending(req[r].on)
  /\ req[r].pc = "deputy" => NotPending(req[r].seen)

Careful == ~overlapped => Alone /\ PendingIsPlain /\ \A r \in Requests : Asked(r)

\* Nobody waits for a decision in a new club.
LEMMA InitCareful == Init => Careful
BY DEF Init, Careful, Alone, PendingIsPlain, Asked, NoRow, Idle, Electing

\* One request changes; while none overlaps, the others are idle.
LEMMA CarefulChange ==
  ASSUME Typed, Careful, NEW r \in Requests, NEW q, req' = [req EXCEPT ![r] = q],
         \/ req[r] # Idle /\ UNCHANGED overlapped
         \/ overlapped' = (overlapped \/ \E s \in Requests : req[s] # Idle),
         ~overlapped /\ Asked(r) => PendingIsPlain' /\ Asked(r)'
  PROVE  Careful'
<1> SUFFICES ASSUME ~overlapped' PROVE Alone' /\ PendingIsPlain' /\ \A s \in Requests : Asked(s)'
  BY DEF Careful
<1>0. ~overlapped
  BY DEF Typed, TypeOK
<1>1. ~overlapped /\ Alone /\ Asked(r)
  BY <1>0 DEF Careful
<1>2. \A s \in Requests \ {r} : req[s] = Idle /\ req'[s] = Idle
  BY <1>1 DEF Alone, Typed, TypeOK
<1>3. \A s \in Requests \ {r} : Asked(s)'
  BY <1>2 DEF Asked, Idle, Electing
<1> QED
  BY <1>1, <1>2, <1>3 DEF Alone

\* Every step keeps what requests were told, one at a time.
LEMMA CarefulStep == Typed /\ Careful /\ [Next]_vars => Careful'
<1> SUFFICES ASSUME Typed, Careful, [Next]_vars PROVE Careful'
  OBVIOUS
<1>k. /\ row \in [Users -> Rows] /\ req \in [Requests -> ReqType]
      /\ \A r \in Requests : req[r] \in ReqType /\ Sensible(req[r])
  BY DEF Typed, TypeOK, ReqType
<1>p. ~overlapped => PendingIsPlain
  BY DEF Careful
<1>i. \A r \in Requests : req[r].pc # "idle" => req[r] # Idle
  BY DEF Idle
<1>e. ASSUME NEW r \in Requests, req[r].pc # "idle", End(r), UNCHANGED overlapped,
             ~overlapped => PendingIsPlain'
      PROVE  Careful'
  <2>0. req' = [req EXCEPT ![r] = Idle] /\ req'[r] = Idle
    BY <1>k, <1>e DEF End
  <2>1. Asked(r)'
    BY <2>0 DEF Asked, Idle, Electing
  <2> QED BY <1>e, <1>i, <2>0, <2>1, CarefulChange
<1>m. ASSUME NEW r \in Requests, req[r].pc # "idle", UNCHANGED overlapped,
             NEW pc \in {"record", "promote", "deputies"}, NEW log,
             Log(r, log, pc), ~overlapped => PendingIsPlain',
             ~overlapped /\ req[r].op = "transfer" => row'[req[r].by].status # "pending",
             ~overlapped /\ pc = "promote" => row'[req[r].on].status # "pending"
      PROVE  Careful'
  <2>0. req' = [req EXCEPT ![r] = [req[r] EXCEPT !.pc = pc, !.log = log]]
    BY <1>m DEF Log
  <2>1. /\ req'[r].op = req[r].op /\ req'[r].pc = pc /\ req'[r].on = req[r].on
        /\ req'[r].by = req[r].by
    BY <1>k, <2>0 DEF ReqType
  <2>2. ~overlapped => Asked(r)'
    BY <1>m, <2>1 DEF Asked, Electing, NotPending
  <2> QED BY <1>i, <1>m, <2>0, <2>2, CarefulChange
<1>1. ASSUME NEW r \in Requests, Begins(r) PROVE Careful'
  <2>1. PICK q : Entry(r, q)
    BY <1>1, Entered
  <2>2. req'[r] = q
    BY <1>k, <2>1 DEF Entry
  <2>3. Asked(r)'
    BY <2>1, <2>2 DEF Entry, Asked, Electing, MayAs, NotPending
  <2>4. PendingIsPlain => PendingIsPlain'
    BY <2>1 DEF Entry, PendingIsPlain
  <2> QED BY <1>p, <2>1, <2>3, <2>4, CarefulChange DEF Entry
<1>2. ASSUME NEW r \in Requests, Check(r) PROVE Careful'
  <2>0. req[r].pc = "check" /\ (PendingIsPlain => PendingIsPlain')
    BY <1>2 DEF Check, PendingIsPlain
  <2>1. CASE End(r)
    BY <1>2, <1>e, <1>p, <2>0, <2>1 DEF Check
  <2>2. CASE ~End(r)
    <3>1. Passes(r) /\ UNCHANGED row
      BY <1>2, <2>2 DEF Check
    <3>2. /\ req'[r].op = req[r].op /\ req'[r].on = req[r].on /\ req'[r].by = req[r].by
          /\ req'[r].pc \in {"write", "deputies", "elected"} /\ req'[r].seen = req[r].seen
          /\ req'[r].pc = "write" <=> req[r].op # "elect"
          /\ req'[r].pc = "elected" => req[r].on # None
          /\ req' = [req EXCEPT ![r] = req'[r]]
      BY <1>2, <1>k, <2>2 DEF Check, ReqType
    <3>3. req[r].op = "elect" /\ req[r].on # None => Member(row[req[r].on])
      BY <3>1 DEF Passes
    <3>4. req[r].op \in {"role", "transfer"} => row[req[r].on].status = "approved"
      BY <3>1 DEF Passes
    <3>5. req[r].op = "decide" => row[req[r].on].status = "pending"
      BY <3>1 DEF Passes
    <3>6. Asked(r) => Asked(r)'
      BY <3>1, <3>2, <3>3, <3>4, <3>5 DEF Asked, Electing, NotPending, Member
    <3> QED BY <1>2, <1>i, <1>p, <2>0, <3>2, <3>6, CarefulChange DEF Check
  <2> QED BY <2>1, <2>2
<1>3. ASSUME NEW r \in Requests, Write(r) PROVE Careful'
  <2>0. /\ req[r].pc = "write" /\ UNCHANGED overlapped /\ req[r].on \in Users /\ req[r].by \in Users
        /\ row[req[r].on] \in Rows /\ (~overlapped => Asked(r))
    BY <1>3, <1>k DEF Write, Sensible, Careful
  <2>1. CASE WriteJoin(r)
    <3>1. ~overlapped => PendingIsPlain'
      BY <1>k, <1>p, <2>0, <2>1 DEF WriteJoin, Insert, PendingIsPlain
    <3>2. CASE End(r)
      BY <1>e, <2>0, <3>1, <3>2
    <3>3. CASE Log(r, {<<req[r].on, "member">>}, "record")
      <4>1. req[r].op = "join"
        BY <2>1 DEF WriteJoin
      <4> QED BY <1>m, <2>0, <3>1, <3>3, <4>1
    <3> QED BY <2>1, <3>2, <3>3 DEF WriteJoin
  <2>2. CASE WriteLeft(r)
    <3>1. Set(req[r].on, [row[req[r].on] EXCEPT !.left = TRUE]) /\ req[r].op # "transfer"
          /\ Log(r, {<<req[r].on, "out">>}, "record")
      BY <2>2 DEF WriteLeft
    <3>2. ~overlapped => PendingIsPlain'
      BY <1>k, <1>p, <2>0, <3>1 DEF Set, PendingIsPlain, Rows
    <3> QED BY <1>m, <2>0, <3>1, <3>2
  <2>3. CASE WriteDecision(r)
    <3>1. req[r].arg \in {"approved", "rejected"}
      BY <1>k, <2>3 DEF WriteDecision, Sensible
    <3>2. PICK e : Log(r, e, "record")
      BY <2>3 DEF WriteDecision
    <3>3. Set(req[r].on, [row[req[r].on] EXCEPT !.status = req[r].arg]) /\ req[r].op # "transfer"
      BY <2>3 DEF WriteDecision
    <3>4. ~overlapped => PendingIsPlain'
      BY <1>k, <1>p, <2>0, <3>1, <3>3 DEF Set, PendingIsPlain, Rows
    <3> QED BY <1>m, <2>0, <3>2, <3>3, <3>4
  <2>4. CASE WriteRole(r)
    <3>1. ~overlapped => row[req[r].on].status # "pending"
      BY <2>0, <2>4 DEF WriteRole, Asked, NotPending
    <3>2. Set(req[r].on, [row[req[r].on] EXCEPT !.role = req[r].arg]) /\ req[r].op # "transfer"
          /\ Log(r, {<<req[r].on, req[r].arg>>}, "record")
      BY <2>4 DEF WriteRole
    <3>3. ~overlapped => PendingIsPlain'
      BY <1>k, <1>p, <2>0, <3>1, <3>2 DEF Set, PendingIsPlain, Rows
    <3> QED BY <1>m, <2>0, <3>2, <3>3
  <2>5. CASE WriteTransfer(r)
    <3>1. ~overlapped => NotPending(req[r].by) /\ NotPending(req[r].on)
      BY <2>0, <2>5 DEF WriteTransfer, Asked
    <3>2. \A v \in Users : row'[v].status = row[v].status
                           /\ (v \notin {req[r].by, req[r].on} => row'[v] = row[v])
      BY <1>k, <2>5 DEF WriteTransfer, Rows
    <3>3. ~overlapped => PendingIsPlain' /\ row'[req[r].by].status # "pending"
      BY <1>p, <2>0, <3>1, <3>2 DEF PendingIsPlain, NotPending
    <3>4. Log(r, {<<req[r].by, "officer">>, <<req[r].on, "president">>}, "record")
      BY <2>5 DEF WriteTransfer
    <3> QED BY <1>m, <2>0, <3>3, <3>4
  <2>6. CASE WritePolicy(r)
    BY <1>e, <1>p, <2>0, <2>6 DEF WritePolicy, PendingIsPlain
  <2> QED BY <1>3, <2>1, <2>2, <2>3, <2>4, <2>5, <2>6 DEF Write
<1>4. ASSUME NEW r \in Requests, Record(r) PROVE Careful'
  BY <1>4, <1>e, <1>p DEF Record, PendingIsPlain
<1>5. ASSUME NEW r \in Requests, FindPresident(r) PROVE Careful'
  <2>1. PICK p \in Users \cup {None} :
          /\ req' = [req EXCEPT ![r] = [req[r] EXCEPT !.seen = p, !.pc = "demote"]]
          /\ p \in Users => Member(row[p])
    BY <1>5, MembershipType DEF FindPresident, Presidents
  <2>2. /\ req'[r].op = req[r].op /\ req'[r].on = req[r].on /\ req'[r].by = req[r].by
        /\ req'[r].pc = "demote" /\ req'[r].seen = p /\ UNCHANGED <<row, overlapped>>
    BY <1>5, <1>k, <2>1 DEF FindPresident, ReqType
  <2>3. Asked(r) => Asked(r)'
    BY <1>5, <2>1, <2>2 DEF FindPresident, Asked, Electing, NotPending, Member
  <2> QED BY <1>5, <1>i, <1>p, <2>1, <2>2, <2>3, CarefulChange DEF FindPresident, PendingIsPlain
<1>6. ASSUME NEW r \in Requests, Demote(r) PROVE Careful'
  <2>0. /\ req[r].pc = "demote" /\ req[r].op = "elect" /\ UNCHANGED overlapped
        /\ (~overlapped => Asked(r)) /\ req[r].seen \in Users \cup {None} /\ req[r].on \in Users
    BY <1>6, <1>k DEF Demote, Sensible, Electing, Careful, ReqType
  <2>1. CASE req[r].seen \in {None, req[r].on}
    <3>1. req' = [req EXCEPT ![r] = [req[r] EXCEPT !.pc = "promote"]] /\ UNCHANGED row
      BY <1>6, <2>1 DEF Demote, Goto
    <3>2. /\ req'[r].op = req[r].op /\ req'[r].pc = "promote" /\ req'[r].on = req[r].on
      BY <1>k, <3>1 DEF ReqType
    <3>3. Asked(r) => Asked(r)'
      BY <2>0, <3>1, <3>2 DEF Asked, Electing, NotPending
    <3> QED BY <1>i, <1>p, <2>0, <3>1, <3>3, CarefulChange DEF PendingIsPlain
  <2>2. CASE req[r].seen \notin {None, req[r].on}
    <3>1. /\ Set(req[r].seen, [row[req[r].seen] EXCEPT !.role = "officer"])
          /\ Log(r, {<<req[r].seen, "officer">>}, "promote")
      BY <1>6, <2>2 DEF Demote
    <3>2. ~overlapped => row[req[r].seen].status # "pending" /\ NotPending(req[r].on)
      BY <2>0, <2>2 DEF Asked, NotPending, Electing
    <3>3. ~overlapped => PendingIsPlain'
      BY <1>k, <1>p, <2>0, <2>2, <3>1, <3>2 DEF Set, PendingIsPlain, Rows
    <3>4. row'[req[r].on] = row[req[r].on]
      BY <1>k, <2>0, <2>2, <3>1 DEF Set
    <3>5. ~overlapped => row'[req[r].on].status # "pending"
      BY <2>0, <3>2, <3>4 DEF NotPending, Set
    <3> QED BY <1>m, <2>0, <3>1, <3>3, <3>5
  <2> QED BY <2>1, <2>2
<1>7. ASSUME NEW r \in Requests, FindElected(r) PROVE Careful'
  <2>0. req[r].pc = "promote"
    BY <1>7 DEF FindElected
  <2>1. PICK pc \in {"president", "deputies"} :
          req' = [req EXCEPT ![r] = [req[r] EXCEPT !.pc = pc, !.log = {}]]
    BY <1>7 DEF FindElected
  <2>2. /\ req'[r].op = req[r].op /\ req'[r].on = req[r].on /\ req'[r].by = req[r].by
        /\ req'[r].pc = pc /\ UNCHANGED <<row, overlapped>>
    BY <1>7, <1>k, <2>1 DEF FindElected, ReqType
  <2>3. Asked(r) => Asked(r)'
    BY <1>7, <2>2 DEF FindElected, Asked, Electing, NotPending
  <2> QED BY <1>i, <1>p, <2>0, <2>1, <2>2, <2>3, CarefulChange DEF PendingIsPlain
<1>8. ASSUME NEW r \in Requests, Promote(r) PROVE Careful'
  <2>0. /\ req[r].pc = "president" /\ req[r].op = "elect" /\ UNCHANGED overlapped
        /\ (~overlapped => Asked(r)) /\ req[r].on \in Users
    BY <1>8, <1>k DEF Promote, Sensible, Electing, Careful
  <2>1. ~overlapped => row[req[r].on].status # "pending"
    BY <2>0 DEF Asked, NotPending, Electing
  <2>2. ~overlapped => PendingIsPlain'
    BY <1>8, <1>k, <1>p, <2>0, <2>1 DEF Promote, Set, PendingIsPlain, Rows
  <2>3. Log(r, {<<req[r].on, "president">>}, "deputies")
    BY <1>8 DEF Promote
  <2> QED BY <1>m, <2>0, <2>2, <2>3
<1>9. ASSUME NEW r \in Requests, FindDeputy(r) PROVE Careful'
  <2>0. req[r].pc = "deputies" /\ req[r].op = "elect" /\ UNCHANGED <<row, overlapped>>
           /\ req[r] \in ReqType
    BY <1>9, <1>k DEF FindDeputy, Sensible, Electing
  <2>1. CASE End(r)
    BY <1>e, <1>p, <2>0, <2>1 DEF PendingIsPlain
  <2>2. ASSUME NEW v \in req[r].deputies,
               req' = [req EXCEPT ![r].log = {}, ![r].deputies = @ \ {v}, ![r].seen = v,
                         ![r].pc = IF Member(row[v]) /\ row[v].role = "member"
                                     THEN "deputy" ELSE "deputies"]
        PROVE  Careful'
    <3> DEFINE q == [req[r] EXCEPT !.log = {}, !.deputies = @ \ {v}, !.seen = v,
                       !.pc = IF Member(row[v]) /\ row[v].role = "member" THEN "deputy" ELSE "deputies"]
    <3>1. req' = [req EXCEPT ![r] = q] /\ req'[r] = q
      BY <1>k, <2>2
    <3>2. q.op = "elect" /\ q.seen = v /\ q.pc \in {"deputy", "deputies"}
          /\ (q.pc = "deputy" => Member(row[v]))
      BY <2>0 DEF ReqType
    <3>3. Asked(r)'
      BY <2>0, <3>1, <3>2 DEF Asked, Electing, NotPending, Member
    <3> QED BY <1>i, <1>p, <2>0, <3>1, <3>3, CarefulChange DEF PendingIsPlain
  <2> QED BY <1>9, <2>1, <2>2 DEF FindDeputy
<1>10. ASSUME NEW r \in Requests, MakeOfficer(r) PROVE Careful'
  <2>0. /\ req[r].pc = "deputy" /\ req[r].op = "elect" /\ UNCHANGED overlapped
        /\ (~overlapped => Asked(r)) /\ req[r].seen \in Users
    BY <1>10, <1>k DEF MakeOfficer, Sensible, Electing, Careful
  <2>1. ~overlapped => row[req[r].seen].status # "pending"
    BY <2>0 DEF Asked, NotPending
  <2>2. ~overlapped => PendingIsPlain'
    BY <1>10, <1>k, <1>p, <2>0, <2>1 DEF MakeOfficer, Set, PendingIsPlain, Rows
  <2>3. Log(r, {<<req[r].seen, "officer">>}, "deputies")
    BY <1>10 DEF MakeOfficer
  <2> QED BY <1>m, <2>0, <2>2, <2>3
<1>11. ASSUME NEW u \in Users, removeClubMember(u) PROVE Careful'
  <2>1. \A v \in Users : row'[v] = IF v = u THEN NoRow ELSE row[v]
    BY <1>11, <1>k DEF removeClubMember
  <2>2. PendingIsPlain => PendingIsPlain'
    BY <2>1 DEF PendingIsPlain, NoRow
  <2>3. \A v \in Users : NotPending(v) => NotPending(v)'
    BY <2>1 DEF NotPending, NoRow
  <2>4. ASSUME NEW r \in Requests, Asked(r) PROVE Asked(r)'
    <3>1. req'[r] = req[r]
      BY <1>11 DEF removeClubMember
    <3> QED BY <1>k, <2>1, <2>3, <2>4, <3>1 DEF Asked, Sensible, Electing, NoRow
  <2> QED BY <1>11, <2>2, <2>4 DEF removeClubMember, Careful, Alone
<1>12. CASE Crash
  BY <1>12 DEF Crash, Careful, Alone, PendingIsPlain, Asked, Idle, Electing
<1>13. CASE UNCHANGED vars
  BY <1>13 DEF vars, Careful, Alone, PendingIsPlain, Asked, NotPending
<1> QED
  BY <1>1, <1>2, <1>3, <1>4, <1>5, <1>6, <1>7, <1>8, <1>9, <1>10, <1>11, <1>12, <1>13
     DEF Next, Step, Begins

-----------------------------------------------------------------------------
\* Whoever becomes a member does so by a join or a decision whose answer is yes: every other
\* step leaves the status and the departure of everybody alone, or takes the row away.
LEMMA Admission ==
  Typed /\ [Next]_vars =>
    \A u \in Users : ~Member(row[u]) /\ Member(row'[u]) =>
      \E r \in Requests : /\ req[r].pc = "write" /\ req[r].on = u /\ req[r].arg = "approved"
                          /\ WriteJoin(r) \/ WriteDecision(r)
<1> SUFFICES ASSUME Typed, [Next]_vars, NEW u \in Users, ~Member(row[u]), Member(row'[u])
             PROVE  \E r \in Requests :
                      /\ req[r].pc = "write" /\ req[r].on = u /\ req[r].arg = "approved"
                      /\ WriteJoin(r) \/ WriteDecision(r)
  OBVIOUS
<1>k. /\ row \in [Users -> Rows] /\ row[u] \in Rows
      /\ \A r \in Requests : req[r] \in ReqType /\ Sensible(req[r])
  BY DEF Typed, TypeOK, ReqType
<1>1. row' # row
  OBVIOUS
<1>2. \A x, role : ~Set(x, [row[x] EXCEPT !.role = role])
  <2> SUFFICES ASSUME NEW x, NEW role, Set(x, [row[x] EXCEPT !.role = role]) PROVE FALSE
    OBVIOUS
  <2>1. row'[u].status = row[u].status /\ row'[u].left = row[u].left
    BY <1>k DEF Set, Rows
  <2> QED BY <2>1 DEF Member
<1>3. ASSUME NEW r \in Requests, Write(r)
      PROVE  /\ req[r].pc = "write" /\ req[r].on = u /\ req[r].arg = "approved"
             /\ WriteJoin(r) \/ WriteDecision(r)
  <2>0. req[r].pc = "write"
    BY <1>3 DEF Write
  <2>1. CASE WriteJoin(r)
    <3>1. /\ req[r].on = u
          /\ row'[u] = [status |-> req[r].arg, role |-> "member", left |-> FALSE]
      BY <1>k, <2>1 DEF WriteJoin, Insert
    <3> QED BY <2>0, <2>1, <3>1 DEF Member
  <2>2. CASE WriteDecision(r)
    <3>1. Set(req[r].on, [row[req[r].on] EXCEPT !.status = req[r].arg])
      BY <2>2 DEF WriteDecision
    <3>2. req[r].on = u
      BY <1>k, <3>1 DEF Set
    <3>3. row'[u].status \in {req[r].arg, "none"}
      BY <1>k, <3>1, <3>2 DEF Set, Rows
    <3> QED BY <2>0, <2>2, <3>2, <3>3 DEF Member
  <2>3. ~WriteLeft(r)
    <3> SUFFICES ASSUME Set(req[r].on, [row[req[r].on] EXCEPT !.left = TRUE]) PROVE FALSE
      BY DEF WriteLeft
    <3>1. row'[u].left = TRUE \/ row'[u] = row[u]
      BY <1>k DEF Set, Rows
    <3> QED BY <3>1 DEF Member
  <2>4. ~WriteTransfer(r)
    <3> SUFFICES ASSUME WriteTransfer(r) PROVE FALSE
      OBVIOUS
    <3>1. row'[u].status = row[u].status /\ row'[u].left = row[u].left
      BY <1>k DEF WriteTransfer, Rows
    <3> QED BY <3>1 DEF Member
  <2> QED BY <1>1, <1>2, <1>3, <2>1, <2>2, <2>3, <2>4 DEF Write, WriteRole, WritePolicy
<1>4. ASSUME NEW r \in Requests, ~Write(r) PROVE ~Step(r)
  <2>1. ~Begins(r) /\ ~Check(r) /\ ~Record(r) /\ ~FindPresident(r) /\ ~FindElected(r) /\ ~FindDeputy(r)
    <3>1. Begins(r) => UNCHANGED row
      BY Entered DEF Entry
    <3> QED BY <1>1, <3>1 DEF Check, Record, FindPresident, FindElected, FindDeputy
  <2>2. ~Demote(r) /\ ~Promote(r) /\ ~MakeOfficer(r)
    BY <1>1, <1>2 DEF Demote, Promote, MakeOfficer
  <2> QED BY <1>4, <2>1, <2>2 DEF Step, Begins
<1>5. \A v \in Users : ~removeClubMember(v)
  <2> SUFFICES ASSUME NEW v \in Users, removeClubMember(v) PROVE FALSE
    OBVIOUS
  <2>1. row'[u] \in {NoRow, row[u]}
    BY <1>k DEF removeClubMember
  <2> QED BY <2>1 DEF Member, NoRow
<1>6. ~Crash /\ ~UNCHANGED vars
  BY <1>1 DEF Crash, vars
<1> QED
  BY <1>3, <1>4, <1>5, <1>6 DEF Next

(* However requests interleave with each other, with removals and with     *)
(* crashes, nobody is a member whom no decision and no open door admitted. *)
THEOREM AdmissionNeedsDecision == Spec => AdmissionDecided
<1> DEFINE Admits == \A u \in Users : (~Member(row[u]) /\ Member(row'[u])) =>
                       \E r \in Requests : /\ req[r].pc = "write" /\ req[r].on = u
                                           /\ req[r].op \in {"join", "decide"}
                                              /\ req[r].arg = "approved"
<1>1. Typed /\ [Next]_vars => [Admits]_vars
  BY Admission DEF WriteJoin, WriteDecision
<1> QED
  BY <1>1, InitTyped, TypedStep, PTL DEF Spec, AdmissionDecided

(* One request at a time, a revived row brings no earlier role back.       *)
THEOREM ReturnIsPlain == Spec => ReturnsAsMember
<1> DEFINE Plain == \A u \in Users : (~overlapped /\ ~Member(row[u]) /\ Member(row'[u])) =>
                      row'[u].role = "member"
<1>1. ASSUME Typed, Careful, [Next]_vars, NEW u \in Users, ~overlapped, ~Member(row[u]), Member(row'[u])
      PROVE  row'[u].role = "member"
  <2>1. PICK r \in Requests : /\ req[r].pc = "write" /\ req[r].on = u
                              /\ WriteJoin(r) \/ WriteDecision(r)
    BY <1>1, Admission
  <2>2. row \in [Users -> Rows] /\ row[u] \in Rows
    BY <1>1 DEF Typed, TypeOK
  <2>3. CASE WriteJoin(r)
    BY <2>1, <2>2, <2>3 DEF WriteJoin, Insert
  <2>4. CASE WriteDecision(r)
    <3>1. row[u].status \in {"none", "pending"} /\ PendingIsPlain
      BY <1>1, <2>1, <2>4 DEF Careful, Asked, WriteDecision
    <3>2. Set(u, [row[u] EXCEPT !.status = req[r].arg])
      BY <2>1, <2>4 DEF WriteDecision
    <3>3. row[u].status = "pending" /\ row'[u].role = row[u].role
      BY <1>1, <2>2, <3>1, <3>2 DEF Set, Rows, Member
    <3> QED BY <3>1, <3>3 DEF PendingIsPlain
  <2> QED BY <2>1, <2>3, <2>4
<1>2. Typed /\ Careful /\ [Next]_vars => [Plain]_vars
  BY <1>1
<1> QED
  BY <1>2, InitTyped, TypedStep, InitCareful, CarefulStep, PTL DEF Spec, ReturnsAsMember

-----------------------------------------------------------------------------
(***************************************************************************)
(* In order, everybody who has the president's role is a member, one       *)
(* member has it but between the two statements of an election that move   *)
(* it, and what the history will say once the request has written its      *)
(* events is what everybody is.  For memberships m and a history h.        *)
(***************************************************************************)
Leads(m, u) == m[u].role = "president"
Held(m) == \A u \in Users : Leads(m, u) => Member(m[u])
Sole(m, p) == \A u \in Users : Leads(m, u) <=> u = p
Vacancy(m) == \A u \in Users : ~Leads(m, u)
Present(m, u) == m[u].status # "none" /\ ~m[u].left
IsSaid(n, e) == IF Member(n) THEN e = n.role ELSE e \in {"none", "out"}
Tells(m, h) == \A u \in Users : IsSaid(m[u], h[u])

\* A history with events added to it.
With(log, h) == [u \in Users |-> IF \E e \in log : e[1] = u
                                   THEN (CHOOSE e \in log : e[1] = u)[2] ELSE h[u]]

\* What is still so of the rows that request q has read.
Still(q, m) ==
  /\ q.pc \in {"check", "write"} /\ q.op = "transfer" => Leads(m, q.by)
  /\ q.pc = "write" /\ q.op = "transfer" => Member(m[q.on])
  /\ q.pc = "write" /\ q.op = "join" => ~Present(m, q.on)
  /\ q.pc = "write" /\ q.op \in {"leave", "remove"} => Present(m, q.on) /\ ~Leads(m, q.on)
  /\ q.pc = "write" /\ q.op = "decide" => Present(m, q.on) /\ m[q.on].status = "pending"
  /\ q.pc = "write" /\ q.op = "role" => Member(m[q.on]) /\ ~Leads(m, q.on)
  /\ q.pc \in Electing => Member(m[q.on])
  /\ q.pc = "demote" => q.seen \in Users /\ Leads(m, q.seen)
  /\ q.pc = "promote" => Vacancy(m) \/ Sole(m, q.on)
  /\ q.pc = "president" => Vacancy(m)
  /\ q.pc = "deputy" => Member(m[q.seen]) /\ m[q.seen].role = "member"
  /\ q.pc \notin {"promote", "president"} => \E p \in Users : Sole(m, p)

Good(q, m, h) == Held(m) /\ Still(q, m) /\ Tells(m, With(q.log, h))

Ordered ==
  Orderly => /\ Quiet => Good(Idle, row, last)
             /\ \A r \in Requests : req[r] # Idle => Good(req[r], row, last)

\* No events leave a history as it is.
LEMMA WithNone == ASSUME NEW h \in [Users -> Said] PROVE With({}, h) = h
BY DEF With

\* One row is written and its event noted.
LEMMA TellsOne ==
  ASSUME NEW m \in [Users -> Rows], NEW h, NEW x \in Users, NEW n, NEW e, IsSaid(n, e), Tells(m, h)
  PROVE  Tells([m EXCEPT ![x] = n], With({<<x, e>>}, h))
<1> SUFFICES ASSUME NEW u \in Users
             PROVE  IsSaid([m EXCEPT ![x] = n][u], With({<<x, e>>}, h)[u])
  BY DEF Tells
<1>1. With({<<x, e>>}, h)[u] = IF u = x THEN e ELSE h[u]
  <2>1. CASE u = x
    <3>1. (CHOOSE f \in {<<x, e>>} : f[1] = u) = <<x, e>>
      BY <2>1
    <3> QED BY <2>1, <3>1 DEF With
  <2>2. CASE u # x
    BY <2>2 DEF With
  <2> QED BY <2>1, <2>2
<1>2. [m EXCEPT ![x] = n][u] = IF u = x THEN n ELSE m[u]
  OBVIOUS
<1>3. IsSaid(m[u], h[u])
  BY DEF Tells
<1>4. CASE u = x
  BY <1>1, <1>2, <1>4
<1>5. CASE u # x
  <2>1. [m EXCEPT ![x] = n][u] = m[u] /\ With({<<x, e>>}, h)[u] = h[u]
    BY <1>1, <1>2, <1>5
  <2> QED BY <1>3, <2>1
<1> QED BY <1>4, <1>5

\* A row may be written that makes no outsider a president.
LEMMA HeldOne ==
  ASSUME NEW m \in [Users -> Rows], NEW x \in Users, NEW n, Held(m), n.role = "president" => Member(n)
  PROVE  Held([m EXCEPT ![x] = n])
BY DEF Held, Leads

\* The president stays while others change without becoming one.
LEMMA SoleOne ==
  ASSUME NEW m \in [Users -> Rows], NEW x \in Users, NEW n, NEW p, Sole(m, p), ~Leads(m, x),
         n.role # "president"
  PROVE  Sole([m EXCEPT ![x] = n], p)
BY DEF Sole, Leads

\* A statement that makes no president, about somebody who is none, with its event.
LEMMA OneWrite ==
  ASSUME NEW m \in [Users -> Rows], NEW h, NEW q, NEW x \in Users, NEW n, NEW e, NEW p \in Users,
         Held(m), Sole(m, p), Tells(m, h), ~Leads(m, x), n.role # "president", IsSaid(n, e),
         q.pc \in {"record", "deputies"}, q.log = {<<x, e>>}
  PROVE  Good(q, [m EXCEPT ![x] = n], h)
BY TellsOne, HeldOne, SoleOne DEF Good, Still, Electing

\* An idle slot is nowhere and has no events.
LEMMA IdleFields == Idle.pc = "idle" /\ Idle.log = {}
BY DEF Idle

\* A request that is over, or has all but written its events.
LEMMA Rested ==
  ASSUME NEW m, NEW h, NEW q, NEW p \in Users, Held(m), Sole(m, p), Tells(m, With(q.log, h)),
         q.pc \in {"idle", "record", "deputies"}
  PROVE  Good(q, m, h)
BY DEF Good, Still, Electing

\* In order there is one request: if it leaves the club good, the club is in order.
LEMMA OrderedChange ==
  ASSUME Typed, Careful, Ordered, NEW r \in Requests, NEW q, req' = [req EXCEPT ![r] = q],
         \/ req[r] # Idle /\ UNCHANGED overlapped
         \/ overlapped' = (overlapped \/ \E s \in Requests : req[s] # Idle),
         UNCHANGED counted,
         Orderly /\ Alone /\ PendingIsPlain /\ Good(req[r], row, last) => Good(q, row', last')
  PROVE  Ordered'
<1> SUFFICES ASSUME Orderly'
             PROVE  /\ Quiet' => Good(Idle, row', last')
                    /\ \A s \in Requests : req'[s] # Idle => Good(req'[s], row', last')
  BY DEF Ordered
<1>0. Orderly
  BY DEF Orderly, counted, Typed, TypeOK
<1>1. Alone /\ PendingIsPlain
  BY <1>0 DEF Careful, Orderly
<1>2. \A s \in Requests \ {r} : req[s] = Idle
  BY <1>0, <1>1 DEF Alone, Orderly, Typed, TypeOK
<1>3. Good(req[r], row, last)
  <2>1. CASE req[r] = Idle
    BY <1>0, <1>2, <2>1 DEF Ordered, Quiet
  <2>2. CASE req[r] # Idle
    BY <1>0, <2>2 DEF Ordered
  <2> QED BY <2>1, <2>2
<1>4. Good(q, row', last')
  BY <1>0, <1>1, <1>3
<1>5. req'[r] = q /\ \A s \in Requests \ {r} : req'[s] = Idle
  BY <1>2 DEF Typed, TypeOK
<1> QED
  BY <1>4, <1>5 DEF Quiet

\* The founder is president, and the history says so.
LEMMA InitOrdered == Init => Ordered
<1> SUFFICES ASSUME Init PROVE Good(Idle, row, last)
  BY DEF Ordered, Init, Quiet
<1>1. Founder \in Users /\ row \in [Users -> Rows] /\ last \in [Users -> Said]
  BY MembershipType DEF Init, Said, Rows, Roles, NoRow
<1>2. Held(row) /\ Sole(row, Founder)
  BY MembershipType DEF Init, Held, Sole, Leads, Member, NoRow
<1>3. Tells(row, last)
  BY MembershipType DEF Init, Tells, IsSaid, Member, NoRow
<1>4. With(Idle.log, last) = last
  BY <1>1, IdleFields, WithNone
<1> QED BY <1>1, <1>2, <1>3, <1>4, IdleFields, Rested

\* Every step keeps the order.
LEMMA OrderedStep == Typed /\ Careful /\ Ordered /\ [Next]_vars => Ordered'
<1> SUFFICES ASSUME Typed, Careful, Ordered, [Next]_vars PROVE Ordered'
  OBVIOUS
<1>k. /\ row \in [Users -> Rows] /\ last \in [Users -> Said] /\ req \in [Requests -> ReqType]
      /\ \A r \in Requests : req[r] \in ReqType /\ Sensible(req[r])
  BY DEF Typed, TypeOK, ReqType, Said
<1>n. With({}, last) = last
  BY <1>k, WithNone
<1>g. ASSUME NEW r \in Requests, req[r].pc # "idle", NEW q, req' = [req EXCEPT ![r] = q],
             UNCHANGED <<counted, overlapped>>,
             PendingIsPlain /\ Good(req[r], row, last) => Good(q, row', last')
      PROVE  Ordered'
  BY <1>g, IdleFields, OrderedChange
<1>e. ASSUME NEW r \in Requests, req[r].pc # "idle", End(r), UNCHANGED <<counted, overlapped>>,
             Good(req[r], row, last) => Good(Idle, row', last')
      PROVE  Ordered'
  <2>1. req' = [req EXCEPT ![r] = Idle]
    BY <1>e DEF End
  <2> QED BY <1>e, <1>g, <2>1
<1>l. ASSUME NEW r \in Requests, NEW log, NEW pc, Log(r, log, pc)
      PROVE  /\ req' = [req EXCEPT ![r] = req'[r]]
             /\ req'[r].pc = pc /\ req'[r].log = log
             /\ req'[r].op = req[r].op /\ req'[r].on = req[r].on /\ req'[r].by = req[r].by
  <2>1. req' = [req EXCEPT ![r] = [req[r] EXCEPT !.log = log, !.pc = pc]]
    BY <1>l DEF Log
  <2> QED BY <1>k, <2>1 DEF ReqType
<1>s. ASSUME NEW x \in Users, NEW n, row[x].status # "none", Set(x, n)
      PROVE  row' = [row EXCEPT ![x] = n]
  BY <1>k, <1>s DEF Set
\* A write about somebody who is not the president and does not become it.
<1>o. ASSUME NEW r \in Requests, req[r].pc \in {"write", "deputy"}, NEW x \in Users, NEW n, NEW e,
             NEW pc \in {"record", "deputies"}, Log(r, {<<x, e>>}, pc), row' = [row EXCEPT ![x] = n],
             UNCHANGED <<last, counted, overlapped>>,
             PendingIsPlain /\ Good(req[r], row, last) =>
               ~Leads(row, x) /\ n.role # "president" /\ IsSaid(n, e)
      PROVE  Ordered'
  <2>1. req[r].log = {} /\ req[r].pc # "idle"
    BY <1>k, <1>o DEF Sensible
  <2>2. ASSUME PendingIsPlain, Good(req[r], row, last) PROVE Good(req'[r], row', last')
    <3>1. Held(row) /\ Tells(row, last)
      BY <1>n, <2>1, <2>2 DEF Good
    <3>2. PICK p \in Users : Sole(row, p)
      BY <1>o, <2>2 DEF Good, Still
    <3>3. ~Leads(row, x) /\ n.role # "president" /\ IsSaid(n, e)
      BY <1>o, <2>2
    <3>4. req'[r].pc = pc /\ req'[r].log = {<<x, e>>}
      BY <1>l, <1>o
    <3>5. Good(req'[r], [row EXCEPT ![x] = n], last)
      BY <1>k, <3>1, <3>2, <3>3, <3>4, OneWrite
    <3> QED BY <1>o, <3>5
  <2>3. req' = [req EXCEPT ![r] = req'[r]]
    BY <1>l, <1>o
  <2> QED BY <1>g, <1>o, <2>1, <2>2, <2>3
\* The same by an UPDATE, which writes a row that is there.
<1>w. ASSUME NEW r \in Requests, req[r].pc \in {"write", "deputy"}, NEW x \in Users, NEW n, NEW e,
             NEW pc \in {"record", "deputies"}, Log(r, {<<x, e>>}, pc), Set(x, n),
             UNCHANGED <<last, counted, overlapped>>,
             PendingIsPlain /\ Good(req[r], row, last) =>
               row[x].status # "none" /\ ~Leads(row, x) /\ n.role # "president" /\ IsSaid(n, e)
      PROVE  Ordered'
  <2>1. CASE row[x].status = "none"
    <3>1. req' = [req EXCEPT ![r] = req'[r]] /\ req[r].pc # "idle"
      BY <1>l, <1>w
    <3> QED BY <1>g, <1>w, <2>1, <3>1
  <2>2. CASE row[x].status # "none"
    <3>1. row' = [row EXCEPT ![x] = n]
      BY <1>s, <1>w, <2>2
    <3> QED BY <1>o, <1>w, <3>1
  <2> QED BY <2>1, <2>2
<1>1. ASSUME NEW r \in Requests, Begins(r) PROVE Ordered'
  <2>1. PICK q : Entry(r, q)
    BY <1>1, Entered
  <2>2. ASSUME Good(req[r], row, last) PROVE Good(q, row', last')
    <3>0. req[r] = Idle /\ q.pc = "check" /\ q.log = {} /\ UNCHANGED <<row, last>>
      BY <2>1 DEF Entry, Sensible
    <3>1. req[r].pc = "idle" /\ req[r].log = {}
      BY <3>0, IdleFields
    <3>2. q.op = "transfer" => Leads(row, q.by)
      BY <2>1 DEF Entry, MayAs, Leads
    <3>3. Still(q, row)
      BY <2>2, <3>0, <3>1, <3>2 DEF Good, Still, Electing
    <3> QED BY <2>2, <3>0, <3>1, <3>3 DEF Good
  <2> QED BY <2>1, <2>2, OrderedChange DEF Entry
<1>2. ASSUME NEW r \in Requests, Check(r) PROVE Ordered'
  <2>0. req[r].pc = "check" /\ req[r].log = {} /\ UNCHANGED <<row, last, counted, overlapped>>
    BY <1>2, <1>k DEF Check, Sensible
  <2>1. CASE End(r)
    <3>1. Good(req[r], row, last) => Good(Idle, row, last)
      BY <2>0, IdleFields DEF Good, Still, Electing
    <3> QED BY <1>e, <2>0, <2>1, <3>1
  <2>2. CASE ~End(r)
    <3>1. Passes(r)
      BY <1>2, <2>2 DEF Check
    <3>2. /\ req'[r].op = req[r].op /\ req'[r].on = req[r].on /\ req'[r].by = req[r].by
          /\ req'[r].log = {} /\ req'[r].pc \in {"write", "deputies", "elected"}
          /\ req'[r].pc = "write" <=> req[r].op # "elect"
          /\ req'[r].pc = "elected" => req[r].on # None
          /\ req' = [req EXCEPT ![r] = req'[r]]
      BY <1>2, <1>k, <2>0, <2>2 DEF Check, ReqType
    <3>3. ASSUME Good(req[r], row, last) PROVE Good(req'[r], row', last')
      <4>1. \E p \in Users : Sole(row, p)
        BY <2>0, <3>3 DEF Good, Still
      <4>2. req[r].op = "transfer" => Leads(row, req[r].by)
        BY <2>0, <3>3 DEF Good, Still
      <4>3. req[r].op = "transfer" => Member(row[req[r].on])
        BY <3>1 DEF Passes, Active, Member
      <4>4. req[r].op = "join" => ~Present(row, req[r].on)
        BY <3>1 DEF Passes, Active, Present
      <4>5. req[r].op \in {"leave", "remove"} => Present(row, req[r].on) /\ ~Leads(row, req[r].on)
        BY <3>1 DEF Passes, MayLeave, Active, Present, Leads
      <4>6. req[r].op = "decide" => Present(row, req[r].on) /\ row[req[r].on].status = "pending"
        BY <3>1 DEF Passes, Active, Present
      <4>7. req[r].op = "role" => Member(row[req[r].on]) /\ ~Leads(row, req[r].on)
        BY <3>1 DEF Passes, Active, Member, Leads
      <4>8. req[r].op = "elect" /\ req[r].on # None => Member(row[req[r].on])
        BY <3>1 DEF Passes
      <4>9. Still(req'[r], row)
        BY <3>2, <4>1, <4>2, <4>3, <4>4, <4>5, <4>6, <4>7, <4>8 DEF Still, Electing
      <4> QED BY <2>0, <3>2, <3>3, <4>9 DEF Good
    <3> QED BY <1>g, <2>0, <3>2, <3>3
  <2> QED BY <2>1, <2>2
<1>3. ASSUME NEW r \in Requests, Write(r) PROVE Ordered'
  <2>0. /\ req[r].pc = "write" /\ UNCHANGED <<last, counted, overlapped>> /\ req[r].log = {}
        /\ req[r].on \in Users /\ req[r].by \in Users /\ row[req[r].on] \in Rows
           /\ row[req[r].by] \in Rows
    BY <1>3, <1>k DEF Write, Sensible
  <2> DEFINE u == req[r].on
  <2>1. CASE WriteJoin(r)
    <3> DEFINE n == [status |-> req[r].arg, role |-> "member", left |-> FALSE]
    <3>0. req[r].op = "join" /\ req[r].arg \in {"approved", "pending"} /\ row' = [row EXCEPT ![u] = n]
      BY <1>k, <2>0, <2>1 DEF WriteJoin, Insert, Sensible
    <3>1. Good(req[r], row, last) => ~Member(row[u]) /\ ~Leads(row, u)
      BY <2>0, <3>0 DEF Good, Still, Held, Present, Member
    <3>2. CASE req[r].arg = "approved"
      <4>1. Log(r, {<<u, "member">>}, "record") /\ IsSaid(n, "member")
        BY <2>1, <3>2 DEF WriteJoin, IsSaid, Member
      <4> HIDE DEF u, n
      <4>2. n.role # "president" /\ req[r].pc \in {"write", "deputy"} /\ u \in Users
        BY <2>0 DEF n, u
      <4> QED BY <1>o, <2>0, <3>0, <3>1, <4>1, <4>2
    <3>3. CASE req[r].arg = "pending"
      <4>1. End(r)
        BY <2>1, <3>3 DEF WriteJoin
      <4>2. ASSUME Good(req[r], row, last) PROVE Good(Idle, row', last')
        <5>1. PICK p \in Users : Sole(row, p)
          BY <2>0, <4>2 DEF Good, Still
        <5>2. Tells(row, last) /\ Held(row)
          BY <1>n, <2>0, <4>2 DEF Good
        <5>3. ~Member(n) /\ ~Member(row[u]) /\ ~Leads(row, u) /\ n.role = "member"
          BY <3>1, <3>3, <4>2 DEF Member
        <5> HIDE DEF n
        <5>4. Held(row')
          BY <1>k, <2>0, <3>0, <5>2, <5>3, HeldOne
        <5>5. Sole(row', p)
          BY <1>k, <2>0, <3>0, <5>1, <5>3, SoleOne
        <5>6. Tells(row', last)
          BY <1>k, <2>0, <3>0, <5>2, <5>3 DEF Tells, IsSaid
        <5>7. Tells(row', With(Idle.log, last'))
          BY <1>n, <2>0, <5>6, IdleFields
        <5> QED BY <5>4, <5>5, <5>7, IdleFields, Rested
      <4> QED BY <1>e, <2>0, <4>1, <4>2
    <3> QED BY <3>0, <3>2, <3>3
  <2>2. CASE WriteLeft(r)
    <3> DEFINE n == [row[u] EXCEPT !.left = TRUE]
    <3>0. req[r].op \in {"leave", "remove"} /\ Set(u, n) /\ Log(r, {<<u, "out">>}, "record")
      BY <2>2 DEF WriteLeft
    <3>1. IsSaid(n, "out") /\ n.role = row[u].role
      BY <2>0 DEF IsSaid, Member, Rows
    <3>2. Good(req[r], row, last) => row[u].status # "none" /\ ~Leads(row, u) /\ n.role # "president"
      BY <2>0, <3>0, <3>1 DEF Good, Still, Present, Leads
    <3> HIDE DEF n
    <3> QED BY <1>w, <2>0, <3>0, <3>1, <3>2
  <2>3. CASE WriteDecision(r)
    <3> DEFINE n == [row[u] EXCEPT !.status = req[r].arg]
               e == IF req[r].arg = "approved" THEN "member" ELSE "out"
    <3>0. req[r].op = "decide" /\ Set(u, n) /\ Log(r, {<<u, e>>}, "record")
      BY <2>3 DEF WriteDecision
    <3>1. n.status = req[r].arg /\ n.role = row[u].role /\ n.left = row[u].left
      BY <2>0 DEF Rows
    <3>2. ASSUME PendingIsPlain, Good(req[r], row, last)
          PROVE  row[u].status # "none" /\ ~Leads(row, u) /\ n.role # "president" /\ IsSaid(n, e)
      <4>1. row[u].status = "pending" /\ ~row[u].left
        BY <2>0, <3>0, <3>2 DEF Good, Still, Present
      <4>2. row[u].role = "member"
        BY <2>0, <3>2, <4>1 DEF PendingIsPlain
      <4> QED BY <3>1, <4>1, <4>2 DEF Leads, IsSaid, Member
    <3> HIDE DEF n, e
    <3> QED BY <1>w, <2>0, <3>0, <3>2
  <2>4. CASE WriteRole(r)
    <3> DEFINE n == [row[u] EXCEPT !.role = req[r].arg]
    <3>0. /\ req[r].op = "role" /\ Set(u, n) /\ Log(r, {<<u, req[r].arg>>}, "record")
          /\ req[r].arg \in {"member", "officer"}
      BY <1>k, <2>0, <2>4 DEF WriteRole, Sensible
    <3>1. n.status = row[u].status /\ n.role = req[r].arg /\ n.left = row[u].left
      BY <2>0 DEF Rows
    <3>2. ASSUME Good(req[r], row, last)
          PROVE  /\ row[u].status # "none" /\ ~Leads(row, u)
                 /\ n.role # "president" /\ IsSaid(n, req[r].arg)
      <4>1. Member(row[u]) /\ ~Leads(row, u)
        BY <2>0, <3>0, <3>2 DEF Good, Still
      <4> QED BY <3>0, <3>1, <4>1 DEF IsSaid, Member
    <3> HIDE DEF n
    <3> QED BY <1>w, <2>0, <3>0, <3>2
  <2>5. CASE WriteTransfer(r)
    <3> DEFINE p == req[r].by
               log == {<<p, "officer">>, <<u, "president">>}
    <3>0. req[r].op = "transfer" /\ Log(r, log, "record") /\ p # u
      BY <1>k, <2>0, <2>5 DEF WriteTransfer, Sensible
    <3>1. ASSUME Good(req[r], row, last) PROVE Good(req'[r], row', last')
      <4>1. PICK q \in Users : Sole(row, q)
        BY <2>0, <3>1 DEF Good, Still
      <4>2. Leads(row, p) /\ Member(row[u]) /\ Held(row) /\ Tells(row, last)
        BY <1>n, <2>0, <3>0, <3>1 DEF Good, Still
      <4>3. p = q /\ Member(row[p])
        BY <2>0, <4>1, <4>2 DEF Sole, Held
      <4>4. \A v \in Users : /\ v \notin {p, u} => row'[v] = row[v]
                             /\ v = u => Member(row'[v]) /\ row'[v].role = "president"
                             /\ v = p => Member(row'[v]) /\ row'[v].role = "officer"
        BY <1>k, <2>0, <2>5, <3>0, <4>2, <4>3 DEF WriteTransfer, Member, Rows
      <4>5. Held(row')
        BY <2>0, <4>2, <4>4 DEF Held, Leads
      <4>6. Sole(row', u)
        BY <2>0, <3>0, <4>1, <4>3, <4>4 DEF Sole, Leads
      <4>7. ASSUME NEW v \in Users
            PROVE  /\ v = p => With(log, last)[v] = "officer"
                   /\ v = u => With(log, last)[v] = "president"
                   /\ v \notin {p, u} => With(log, last)[v] = last[v]
        <5>1. CASE v = p
          <6>1. (CHOOSE g \in log : g[1] = v) = <<p, "officer">>
            BY <3>0, <5>1
          <6> QED BY <3>0, <5>1, <6>1 DEF With
        <5>2. CASE v = u
          <6>1. (CHOOSE g \in log : g[1] = v) = <<u, "president">>
            BY <3>0, <5>2
          <6> QED BY <3>0, <5>2, <6>1 DEF With
        <5>3. CASE v \notin {p, u}
          BY <5>3 DEF With
        <5> QED BY <3>0, <5>1, <5>2, <5>3
      <4>8. Tells(row', With(log, last))
        BY <2>0, <3>0, <4>2, <4>4, <4>7 DEF Tells, IsSaid
      <4>9. req'[r].pc = "record" /\ req'[r].log = log
        BY <1>l, <3>0
      <4> QED BY <2>0, <4>5, <4>6, <4>8, <4>9, Rested
    <3>2. req' = [req EXCEPT ![r] = req'[r]]
      BY <1>l, <3>0
    <3> QED BY <1>g, <2>0, <3>1, <3>2
  <2>6. CASE WritePolicy(r)
    <3>1. UNCHANGED row /\ End(r)
      BY <2>6 DEF WritePolicy
    <3>2. Good(req[r], row, last) => Good(Idle, row', last')
      BY <2>0, <3>1, IdleFields DEF Good, Still, Electing
    <3> QED BY <1>e, <2>0, <3>1, <3>2
  <2> QED BY <1>3, <2>1, <2>2, <2>3, <2>4, <2>5, <2>6 DEF Write
<1>4. ASSUME NEW r \in Requests, Record(r) PROVE Ordered'
  <2>0. /\ req[r].pc = "record" /\ UNCHANGED <<row, counted, overlapped>> /\ End(r)
        /\ last' = With(req[r].log, last) /\ last' \in [Users -> Said]
    BY <1>4, LoggedType DEF Record, Logged, With
  <2>1. With({}, last') = last'
    BY <2>0, WithNone
  <2>2. Good(req[r], row, last) => Good(Idle, row', last')
    BY <2>0, <2>1, IdleFields DEF Good, Still, Electing
  <2> QED BY <1>e, <2>0, <2>2
<1>5. ASSUME NEW r \in Requests, FindPresident(r) PROVE Ordered'
  <2>0. req[r].pc = "elected" /\ UNCHANGED <<row, last, counted, overlapped>>
    BY <1>5 DEF FindPresident
  <2>1. PICK p \in IF Presidents = {} THEN {None} ELSE Presidents :
          req' = [req EXCEPT ![r] = [req[r] EXCEPT !.seen = p, !.pc = "demote"]]
    BY <1>5 DEF FindPresident
  <2>2. /\ req'[r].pc = "demote" /\ req'[r].seen = p /\ req'[r].log = req[r].log
        /\ req'[r].on = req[r].on /\ req' = [req EXCEPT ![r] = req'[r]]
    BY <1>k, <2>1 DEF ReqType
  <2>3. ASSUME Good(req[r], row, last) PROVE Good(req'[r], row', last')
    <3>1. PICK q \in Users : Sole(row, q)
      BY <2>0, <2>3 DEF Good, Still
    <3>2. q \in Presidents
      BY <2>3, <3>1 DEF Good, Held, Sole, Presidents, Leads
    <3>3. p \in Users /\ Leads(row, p)
      BY <2>1, <3>2 DEF Presidents, Leads
    <3>4. Member(row[req[r].on])
      BY <2>0, <2>3 DEF Good, Still, Electing
    <3>5. Still(req'[r], row)
      BY <2>2, <3>1, <3>3, <3>4 DEF Still, Electing
    <3> QED BY <2>0, <2>2, <2>3, <3>5 DEF Good
  <2> QED BY <1>g, <2>0, <2>2, <2>3
<1>6. ASSUME NEW r \in Requests, Demote(r) PROVE Ordered'
  <2>0. /\ req[r].pc = "demote" /\ UNCHANGED <<last, counted, overlapped>>
        /\ req[r].on \in Users /\ req[r].log = {}
    BY <1>6, <1>k DEF Demote, Sensible, Electing
  <2> DEFINE p == req[r].seen
             n == [row[p] EXCEPT !.role = "officer"]
  <2>1. CASE p \in {None, req[r].on}
    <3>1. /\ req'[r].pc = "promote" /\ req'[r].log = {} /\ req'[r].on = req[r].on
          /\ req' = [req EXCEPT ![r] = req'[r]] /\ UNCHANGED row
      BY <1>6, <1>k, <2>0, <2>1 DEF Demote, Goto, ReqType
    <3>2. ASSUME Good(req[r], row, last) PROVE Good(req'[r], row', last')
      <4>1. Leads(row, p) /\ p \in Users /\ (\E q \in Users : Sole(row, q)) /\ Member(row[req[r].on])
        BY <2>0, <3>2 DEF Good, Still, Electing
      <4>2. Sole(row, req[r].on)
        BY <2>1, <4>1, MembershipType DEF Sole
      <4>3. Still(req'[r], row)
        BY <3>1, <4>1, <4>2 DEF Still, Electing
      <4> QED BY <2>0, <3>1, <3>2, <4>3 DEF Good
    <3> QED BY <1>g, <2>0, <3>1, <3>2
  <2>2. CASE p \notin {None, req[r].on}
    <3>1. Set(p, n) /\ Log(r, {<<p, "officer">>}, "promote")
      BY <1>6, <2>2 DEF Demote
    <3>2. ASSUME Good(req[r], row, last) PROVE Good(req'[r], row', last')
      <4>1. /\ Leads(row, p) /\ p \in Users /\ Member(row[req[r].on]) /\ Held(row)
            /\ Tells(row, last) /\ \E q \in Users : Sole(row, q)
        BY <1>n, <2>0, <3>2 DEF Good, Still, Electing
      <4>2. Member(row[p]) /\ Sole(row, p)
        BY <4>1 DEF Held, Sole
      <4>3. Member(n) /\ n.role = "officer"
        BY <1>k, <4>1, <4>2 DEF Member, Rows
      <4>4. row' = [row EXCEPT ![p] = n]
        BY <1>s, <3>1, <4>1, <4>2 DEF Member
      <4> HIDE DEF n
      <4>5. Held(row')
        BY <1>k, <4>1, <4>3, <4>4, HeldOne
      <4>6. Vacancy(row')
        BY <1>k, <4>1, <4>2, <4>3, <4>4 DEF Vacancy, Sole, Leads
      <4>7. Tells(row', With({<<p, "officer">>}, last))
        BY <1>k, <4>1, <4>3, <4>4, TellsOne DEF IsSaid
      <4>8. Member(row'[req[r].on])
        BY <1>k, <2>0, <2>2, <4>1, <4>4
      <4>9. /\ req'[r].pc = "promote" /\ req'[r].log = {<<p, "officer">>} /\ req'[r].on = req[r].on
        BY <1>l, <3>1
      <4>10. Still(req'[r], row')
        BY <4>6, <4>8, <4>9 DEF Still, Electing
      <4> QED BY <2>0, <4>5, <4>7, <4>9, <4>10 DEF Good
    <3>3. req' = [req EXCEPT ![r] = req'[r]]
      BY <1>l, <3>1
    <3> QED BY <1>g, <2>0, <3>2, <3>3
  <2> QED BY <2>1, <2>2
<1>7. ASSUME NEW r \in Requests, FindElected(r) PROVE Ordered'
  <2>0. /\ req[r].pc = "promote" /\ UNCHANGED <<row, counted, overlapped>> /\ req[r].on \in Users
        /\ last' = With(req[r].log, last) /\ last' \in [Users -> Said]
    BY <1>7, <1>k, LoggedType DEF FindElected, Logged, With, Sensible, Electing
  <2>1. /\ req'[r].log = {} /\ req'[r].on = req[r].on /\ req' = [req EXCEPT ![r] = req'[r]]
        /\ req'[r].pc = IF Member(row[req[r].on]) /\ row[req[r].on].role # "president"
                           THEN "president" ELSE "deputies"
    BY <1>7, <1>k DEF FindElected, ReqType
  <2>2. With({}, last') = last'
    BY <2>0, WithNone
  <2>3. ASSUME Good(req[r], row, last) PROVE Good(req'[r], row', last')
    <3>1. Member(row[req[r].on]) /\ (Vacancy(row) \/ Sole(row, req[r].on))
      BY <2>0, <2>3 DEF Good, Still, Electing
    <3>2. IF Leads(row, req[r].on) THEN Sole(row, req[r].on) ELSE Vacancy(row)
      BY <2>0, <3>1 DEF Vacancy, Sole
    <3>3. Still(req'[r], row)
      BY <2>0, <2>1, <3>1, <3>2 DEF Still, Electing, Leads
    <3> QED BY <2>0, <2>1, <2>2, <2>3, <3>3 DEF Good
  <2> QED BY <1>g, <2>0, <2>1, <2>3
<1>8. ASSUME NEW r \in Requests, Promote(r) PROVE Ordered'
  <2> DEFINE u == req[r].on
             n == [row[u] EXCEPT !.role = "president"]
  <2>0. /\ req[r].pc = "president" /\ UNCHANGED <<last, counted, overlapped>> /\ u \in Users
        /\ req[r].log = {} /\ Set(u, n) /\ Log(r, {<<u, "president">>}, "deputies")
    BY <1>8, <1>k DEF Promote, Sensible, Electing
  <2>1. ASSUME Good(req[r], row, last) PROVE Good(req'[r], row', last')
    <3>1. Member(row[u]) /\ Vacancy(row) /\ Held(row) /\ Tells(row, last)
      BY <1>n, <2>0, <2>1 DEF Good, Still, Electing
    <3>2. Member(n) /\ n.role = "president"
      BY <1>k, <2>0, <3>1 DEF Member, Rows
    <3>3. row' = [row EXCEPT ![u] = n]
      BY <1>s, <2>0, <3>1 DEF Member
    <3> HIDE DEF n
    <3>4. Held(row')
      BY <1>k, <2>0, <3>1, <3>2, <3>3, HeldOne
    <3>5. Sole(row', u)
      BY <1>k, <2>0, <3>1, <3>2, <3>3 DEF Vacancy, Sole, Leads
    <3>6. Tells(row', With({<<u, "president">>}, last))
      BY <1>k, <2>0, <3>1, <3>2, <3>3, TellsOne DEF IsSaid
    <3>7. req'[r].pc = "deputies" /\ req'[r].log = {<<u, "president">>}
      BY <1>l, <2>0
    <3> QED BY <2>0, <3>4, <3>5, <3>6, <3>7, Rested
  <2>2. req' = [req EXCEPT ![r] = req'[r]]
    BY <1>l, <2>0
  <2> QED BY <1>g, <2>0, <2>1, <2>2
<1>9. ASSUME NEW r \in Requests, FindDeputy(r) PROVE Ordered'
  <2>0. /\ req[r].pc = "deputies" /\ UNCHANGED <<row, counted, overlapped>> /\ req[r] \in ReqType
        /\ last' = With(req[r].log, last) /\ last' \in [Users -> Said]
    BY <1>9, <1>k, LoggedType DEF FindDeputy, Logged, With
  <2>1. With({}, last') = last'
    BY <2>0, WithNone
  <2>2. CASE End(r)
    <3>1. Good(req[r], row, last) => Good(Idle, row', last')
      BY <2>0, <2>1, IdleFields DEF Good, Still, Electing
    <3> QED BY <1>e, <2>0, <2>2, <3>1
  <2>3. ASSUME NEW v \in req[r].deputies,
               req' = [req EXCEPT ![r].log = {}, ![r].deputies = @ \ {v}, ![r].seen = v,
                         ![r].pc = IF Member(row[v]) /\ row[v].role = "member"
                                     THEN "deputy" ELSE "deputies"]
        PROVE  Ordered'
    <3>1. /\ req' = [req EXCEPT ![r] = req'[r]] /\ req'[r].log = {} /\ req'[r].seen = v
          /\ req'[r].pc = IF Member(row[v]) /\ row[v].role = "member" THEN "deputy" ELSE "deputies"
      BY <1>k, <2>3 DEF ReqType
    <3>2. ASSUME Good(req[r], row, last) PROVE Good(req'[r], row', last')
      <4>1. Still(req'[r], row)
        BY <2>0, <3>1, <3>2 DEF Good, Still, Electing
      <4> QED BY <2>0, <2>1, <3>1, <3>2, <4>1 DEF Good
    <3> QED BY <1>g, <2>0, <3>1, <3>2
  <2> QED BY <1>9, <2>2, <2>3 DEF FindDeputy
<1>10. ASSUME NEW r \in Requests, MakeOfficer(r) PROVE Ordered'
  <2> DEFINE v == req[r].seen
             n == [row[v] EXCEPT !.role = "officer"]
  <2>0. /\ req[r].pc = "deputy" /\ UNCHANGED <<last, counted, overlapped>> /\ v \in Users
        /\ Set(v, n) /\ Log(r, {<<v, "officer">>}, "deputies")
    BY <1>10, <1>k DEF MakeOfficer, Sensible, Electing
  <2>1. ASSUME Good(req[r], row, last)
        PROVE  row[v].status # "none" /\ ~Leads(row, v) /\ n.role # "president" /\ IsSaid(n, "officer")
    <3>1. Member(row[v]) /\ row[v].role = "member"
      BY <2>0, <2>1 DEF Good, Still
    <3>2. n.status = row[v].status /\ n.role = "officer" /\ n.left = row[v].left
      BY <1>k, <2>0 DEF Rows
    <3> QED BY <3>1, <3>2 DEF IsSaid, Member, Leads
  <2> HIDE DEF n, v
  <2> QED BY <1>w, <2>0, <2>1
<1>11. ASSUME NEW u \in Users, removeClubMember(u) PROVE Ordered'
  <2>1. removals \in Nat /\ removals' = removals + 1
    BY <1>11, MembershipType DEF removeClubMember, Typed, TypeOK
  <2> QED BY <2>1 DEF Ordered, Orderly
<1>12. CASE Crash
  <2>1. crashes \in Nat /\ crashes' = crashes + 1
    BY <1>12, MembershipType DEF Crash, Typed, TypeOK
  <2> QED BY <2>1 DEF Ordered, Orderly
<1>13. CASE UNCHANGED vars
  BY <1>13 DEF vars, counted, Ordered, Orderly, Quiet
<1> QED
  BY <1>1, <1>2, <1>3, <1>4, <1>5, <1>6, <1>7, <1>8, <1>9, <1>10, <1>11, <1>12, <1>13
     DEF Next, Step, Begins

(* As long as requests come one at a time, none is cut short and the       *)
(* university removes nobody, a club at rest has exactly one president and *)
(* the last event of everybody's history is what they are; and every       *)
(* variable keeps its type in any case.                                    *)
THEOREM MembershipHolds == Spec => []MembershipSound
<1>1. ASSUME Typed, Ordered, Orderly, Quiet PROVE ClubHasPresident /\ Tells(row, last)
  <2>1. Good(Idle, row, last) /\ last \in [Users -> Said]
    BY <1>1 DEF Ordered, Typed, TypeOK, Said
  <2>2. PICK p \in Users : Sole(row, p)
    BY <2>1, IdleFields DEF Good, Still
  <2>3. Presidents = {p}
    BY <2>1, <2>2 DEF Good, Held, Sole, Leads, Presidents
  <2>4. Cardinality(Presidents) = 1
    BY <2>3, FS_Singleton
  <2> QED BY <2>1, <2>4, IdleFields, WithNone DEF Good, ClubHasPresident
<1>2. Typed /\ Ordered => MembershipSound
  BY <1>1 DEF Typed, MembershipSound, OnePresident, ClubHasPresident, HistoryTells, Tells, IsSaid
<1> QED
  BY <1>2, InitTyped, TypedStep, InitCareful, CarefulStep, InitOrdered, OrderedStep, PTL DEF Spec
=============================================================================
