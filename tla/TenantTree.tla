----------------------------- MODULE TenantTree -----------------------------
(***************************************************************************)
(* What hangs below a tenant: its faculties, their departments and the     *)
(* users assigned to a department, with the cached list of each parent's   *)
(* children.  A parent is read before a child is inserted, and children    *)
(* are looked for before a parent is removed; no lock joins the two, and a *)
(* removal keeps the row, so no foreign key refuses what comes late.       *)
(***************************************************************************)
EXTENDS Naturals, FiniteSets, Names

CONSTANTS Nodes,          \* the tenant, its faculties and departments
          ParentOf,       \* their parents; the tenant is its own
          Assignees,      \* users who may be assigned
          TreeRequests, MaxTreeReqs,   \* bound: requests ever begun
          Nowhere         \* no department, nothing cached

\* There is room for a faculty below the tenant.
ASSUME TreeAssumption ==
  /\ ParentOf \in [Nodes -> Nodes] /\ MaxTreeReqs \in Nat
  /\ \A n \in Nodes : ParentOf[n] = n => \E m \in Nodes \ {n} : ParentOf[m] = n

Root == CHOOSE n \in Nodes : ParentOf[n] = n
Children(n) == {m \in Nodes \ {n} : ParentOf[m] = n}
Inner == {n \in Nodes : Children(n) # {}}
Leaves == Nodes \ Inner

VARIABLES node,       \* "absent", "live" or "gone" (deleted_at)
          placed,     \* users.department_id
          lists,      \* the cached list of a parent's children, or Nowhere
          listLoads,  \* what a load of it read
          treeReq, begunTree,
          metTree,    \* history: a removal overlapped another request
          latecomers, \* history: users placed after their department was gone
          laggingLists  \* lists that are old until their TTL

treeVars == <<node, placed, lists, listLoads, treeReq, begunTree, metTree, latecomers, laggingLists>>

NoTreeReq == [op |-> "none", pc |-> "idle", on |-> Nowhere, user |-> Nowhere]

\* insertTenantPackageInTx: faculties and departments may come with the tenant.
Packages == {made \in SUBSET Nodes : Root \in made /\ \A n \in made : ParentOf[n] \in made}

TreeInit ==
  /\ \E made \in Packages : node = [n \in Nodes |-> IF n \in made THEN "live" ELSE "absent"]
  /\ placed = [u \in Assignees |-> Nowhere]
  /\ lists = [n \in Inner |-> Nowhere] /\ listLoads = [n \in Inner |-> Nowhere]
  /\ treeReq = [r \in TreeRequests |-> NoTreeReq] /\ begunTree = 0
  /\ metTree = FALSE /\ latecomers = {} /\ laggingLists = {}

LiveChildren(n) == {m \in Children(n) : node[m] = "live"}
Occupied(n) == \E u \in Assignees : placed[u] = n

----------------------------------------------------------------------------
(* listFaculties, listDepartments: the parent is looked up outside the     *)
(* cache.                                                                  *)
LoadList(n) ==
  /\ node[n] = "live" /\ lists[n] = Nowhere /\ listLoads[n] = Nowhere
  /\ listLoads' = [listLoads EXCEPT ![n] = LiveChildren(n)]
  /\ UNCHANGED <<node, placed, lists, treeReq, begunTree, metTree, latecomers, laggingLists>>
CacheList(n) ==
  /\ listLoads[n] # Nowhere
  /\ lists' = [lists EXCEPT ![n] = listLoads[n]] /\ listLoads' = [listLoads EXCEPT ![n] = Nowhere]
  /\ laggingLists' = IF listLoads[n] = LiveChildren(n) THEN laggingLists ELSE laggingLists \cup {n}
  /\ UNCHANGED <<node, placed, treeReq, begunTree, metTree, latecomers>>

----------------------------------------------------------------------------
\* Mutant: what hangs below is not looked for.
Mutant_RemovesAny(n) == TRUE
\* hasFaculties, existsByFaculty, hasUsers
Removable(n) == LiveChildren(n) = {} /\ ~Occupied(n)

BeginTreeReq(r, op, n, u, ok) ==
  /\ treeReq[r] = NoTreeReq /\ begunTree < MaxTreeReqs /\ ok
  /\ treeReq' = [treeReq EXCEPT ![r] = [op |-> op, pc |-> "write", on |-> n, user |-> u]]
  /\ begunTree' = begunTree + 1
  /\ LET others == {treeReq[q].op : q \in TreeRequests \ {r}} \ {"none"} IN
     metTree' = (metTree \/ "remove" \in others \/ (op = "remove" /\ others # {}))
  /\ UNCHANGED <<node, placed, lists, listLoads, latecomers, laggingLists>>

CreateNode(r, n) == BeginTreeReq(r, "create", n, Nowhere,
  /\ node[n] = "absent" /\ node[ParentOf[n]] = "live" /\ \A q \in TreeRequests : treeReq[q].on # n)
RenameNode(r, n) == BeginTreeReq(r, "rename", n, Nowhere, node[n] = "live")
RemoveNode(r, n) == BeginTreeReq(r, "remove", n, Nowhere, node[n] = "live" /\ Removable(n))
\* findDepartmentWithUniversity: a department that is gone is found too; no
\* department (null) is not looked up.
PlaceUser(r, u, n) == BeginTreeReq(r, "place", n, u, n # Nowhere => node[n] # "absent")

\* One statement; the row is found or not.
WriteTree(r) ==
  LET q == treeReq[r] IN
  /\ q.pc = "write"
  /\ node' = CASE q.op = "create" -> [node EXCEPT ![q.on] = "live"]
               [] q.op = "remove" -> [node EXCEPT ![q.on] = "gone"]
               [] OTHER           -> node
  /\ placed' = IF q.op = "place" THEN [placed EXCEPT ![q.user] = q.on] ELSE placed
  /\ latecomers' = IF q.op # "place" THEN latecomers
                   ELSE IF q.on # Nowhere /\ node[q.on] = "gone" THEN latecomers \cup {q.user}
                   ELSE latecomers \ {q.user}
  /\ treeReq' = [treeReq EXCEPT ![r] = IF q.op = "place" THEN NoTreeReq ELSE [q EXCEPT !.pc = "drop"]]
  /\ UNCHANGED <<lists, listLoads, begunTree, metTree, laggingLists>>

\* Mutant: only the list of its own children falls.
Mutant_DropsOwn(op, n) == {n} \cap Inner
\* facultyChanged, facultyDeleted, departmentChanged, universityDeleted
DroppedLists(op, n) == {ParentOf[n]} \cup (IF op = "remove" THEN {n} \cap Inner ELSE {})

\* dropEntries
Without(dropped) == [n \in Inner |-> IF n \in dropped THEN Nowhere ELSE lists[n]]
\* invalidates: after a 2xx answer; a failing cache is logged and the answer
\* stands.
DropLists(r, fails) ==
  LET q == treeReq[r]
      dropped == DroppedLists(q.op, q.on) IN
  /\ q.pc = "drop"
  /\ IF fails THEN laggingLists' = laggingLists \cup dropped /\ UNCHANGED lists
     ELSE /\ lists' = Without(dropped)
          /\ laggingLists' = laggingLists \ dropped
  /\ treeReq' = [treeReq EXCEPT ![r] = NoTreeReq]
  /\ UNCHANGED <<node, placed, listLoads, begunTree, metTree, latecomers>>

TreeNext ==
  \/ \E n \in Inner : LoadList(n) \/ CacheList(n)
  \/ \E r \in AnyOne({q \in TreeRequests : treeReq[q] = NoTreeReq}) :
       \/ \E n \in Nodes \ {Root} : CreateNode(r, n) \/ RenameNode(r, n)
       \/ \E n \in Nodes : RemoveNode(r, n)
       \/ \E u \in Assignees, n \in Leaves \cup {Nowhere} : PlaceUser(r, u, n)
  \/ \E r \in TreeRequests : WriteTree(r) \/ \E fails \in BOOLEAN : DropLists(r, fails)

TreeSpec == TreeInit /\ [][TreeNext]_treeVars

----------------------------------------------------------------------------
TreeTypeOK ==
  /\ node \in [Nodes -> {"absent", "live", "gone"}] /\ placed \in [Assignees -> Leaves \cup {Nowhere}]
  /\ \A n \in Inner : {lists[n], listLoads[n]} \subseteq (SUBSET Children(n)) \cup {Nowhere}
  /\ \A r \in TreeRequests : treeReq[r].pc \in {"idle", "write", "drop"}
  /\ begunTree \in 0..MaxTreeReqs /\ metTree \in BOOLEAN
  /\ latecomers \subseteq Assignees /\ laggingLists \subseteq Inner
\* A live node hangs below a live one, unless a removal met another request.
Rooted == ~metTree => \A n \in Nodes : node[n] = "live" => node[ParentOf[n]] = "live"
\* So does a user, unless it was placed in a department that was gone.
PlacedInLive ==
  ~metTree => \A u \in Assignees \ latecomers : placed[u] = Nowhere \/ node[placed[u]] = "live"
\* Between requests a cached list is the list.
ListsFollow ==
  (\A r \in TreeRequests : treeReq[r] = NoTreeReq) =>
    \A n \in Inner \ laggingLists : lists[n] \in {Nowhere, LiveChildren(n)}

(* Every variable keeps its type; nothing live hangs below a removed       *)
(* faculty or tenant, nor a user in a removed department, but where a      *)
(* removal met another request (university.service.ts:307, :383) or an     *)
(* admin names a department that is gone already (admin.service.ts:156);   *)
(* the cached lists follow, but for a slow load or a failed drop.          *)
TreeSound == TreeTypeOK /\ Rooted /\ PlacedInLive /\ ListsFollow
=============================================================================
