-------------------------- MODULE AnnouncementBoard --------------------------
(***************************************************************************)
(* The announcements of one club, or of one university (where every        *)
(* visibility is "university"): the requests of staff that write, publish, *)
(* pin, edit and remove them, and the two cached lists viewers are shown.  *)
(* A list that is read and stored while a request drops it is a matter of  *)
(* the module Cache: here a list is loaded in one step.                    *)
(***************************************************************************)
EXTENDS FiniteSets, Naturals, Names

CONSTANTS Posts, BoardRequests,
          OldPost, DraftPost,  \* what stands on the board at the start
          PinLimits,           \* the values a tenant may give its limit on pinned announcements
          NoList, Kept         \* an absent list, and a field the patch does not have

\* One announcement is pinned at the start.
ASSUME BoardAssumption ==
  /\ IsFiniteSet(Posts) /\ {OldPost, DraftPost} \subseteq Posts /\ OldPost # DraftPost
  /\ PinLimits \subseteq Nat /\ Kept \notin BOOLEAN

VARIABLES posts,       \* the rows
          pinLimit,    \* the tenant's clubPinnedAnnouncementsMax, or universityPinnedAnnouncementsMax
          boardLists,  \* the cached lists
          asked,       \* each request: [pc, op, post, pinned, visibility]
          allowed,     \* history: the limit, or what was pinned or let through when it was last lowered
          raced,       \* history: two requests that pin were between their check and their write
          missed       \* history: cached lists that a request failed to drop

boardVars == <<posts, pinLimit, boardLists, asked, allowed, raced, missed>>

NoPost == [status |-> "none", pinned |-> FALSE, visibility |-> "university"]
NewPost(status, pinned, visibility) ==
  [status |-> status, pinned |-> pinned, visibility |-> visibility]
NoRequest == [pc |-> "idle", op |-> "none", post |-> OldPost, pinned |-> Kept, visibility |-> Kept]
Audiences == {"university", "members"}

BoardInit ==
  /\ posts = [p \in Posts |-> CASE p = OldPost -> NewPost("published", TRUE, "university")
                                [] p = DraftPost -> NewPost("draft", FALSE, "members")
                                [] OTHER -> NoPost]
  /\ boardLists = [staff |-> NoList, published |-> NoList]
  /\ asked = [r \in BoardRequests |-> NoRequest]
  /\ pinLimit \in PinLimits \ {0} /\ allowed = pinLimit
  /\ raced = FALSE /\ missed = {}

----------------------------------------------------------------------------
(***************************************************************************)
(* The lists.                                                              *)
(***************************************************************************)
RowsOf(keep) == [p \in keep |-> posts[p]]
findByClubForStaff == RowsOf({p \in Posts : posts[p].status # "none"})
findPublishedByClub == RowsOf({p \in Posts : posts[p].status = "published"})

Load(list) == IF list = "staff" THEN findByClubForStaff ELSE findPublishedByClub
Listed(list) == IF boardLists[list] # NoList THEN boardLists[list] ELSE Load(list)

\* Mutant: a members' announcement is open to everyone.
Mutant_MembersToo(row, isMember) == row.status = "published"
VisibleTo(row, isMember) == row.status = "published" /\ (row.visibility = "university" \/ isMember)

\* What a viewer who opens the board now is shown.
listByClub(viewer) ==
  LET rows == Listed(IF viewer = "staff" THEN "staff" ELSE "published")
  IN {p \in DOMAIN rows : viewer = "staff" \/ VisibleTo(rows[p], viewer = "member")}

ReadList(list) ==
  /\ boardLists[list] = NoList
  /\ boardLists' = [boardLists EXCEPT ![list] = Load(list)]
  /\ UNCHANGED <<posts, pinLimit, asked, allowed, raced, missed>>

ListExpires(list) ==
  /\ boardLists[list] # NoList
  /\ boardLists' = [boardLists EXCEPT ![list] = NoList]
  /\ missed' = missed \ {list}
  /\ UNCHANGED <<posts, pinLimit, asked, allowed, raced>>

----------------------------------------------------------------------------
(***************************************************************************)
(* The requests.                                                           *)
(***************************************************************************)
\* Mutant: an edit that pins is not counted.
Mutant_OnlyNew(row, pinned) == FALSE
\* An edit that pins is counted if the row it read is not pinned.
Counts(row, pinned) == pinned = TRUE /\ ~row.pinned

Begin(r, request) ==
  /\ asked[r].pc = "idle"
  /\ asked' = [asked EXCEPT ![r] = request]
  /\ UNCHANGED <<posts, pinLimit, boardLists, allowed, raced, missed>>

\* create: the post is written as published, or as a draft.
AskCreate(r, p, publish, pinned, visibility) ==
  /\ posts[p].status = "none" /\ \A q \in BoardRequests : asked[q].post = p => asked[q].op # "create"
  /\ Begin(r, [pc |-> IF pinned THEN "counting" ELSE "checked", post |-> p, pinned |-> pinned,
               op |-> IF publish THEN "create" ELSE "draft", visibility |-> visibility])

AskPublish(r, p) ==
  /\ posts[p].status = "draft"
  /\ Begin(r, [NoRequest EXCEPT !.pc = "checked", !.op = "publish", !.post = p])

AskUpdate(r, p, pinned, visibility) ==
  /\ posts[p].status # "none" /\ (pinned # Kept \/ visibility # Kept)
  /\ Begin(r, [pc |-> IF Counts(posts[p], pinned) THEN "counting" ELSE "checked",
               op |-> "update", post |-> p, pinned |-> pinned, visibility |-> visibility])

AskRemove(r, p) ==
  /\ posts[p].status # "none"
  /\ Begin(r, [NoRequest EXCEPT !.pc = "checked", !.op = "remove", !.post = p])

Pinned == {p \in Posts : posts[p].pinned}
\* Mutant: the limit itself may be exceeded by one.
Mutant_AtLimit == Cardinality(Pinned) <= pinLimit
HasRoom == Cardinality(Pinned) < pinLimit
assertPinnedCapacity(r) ==
  /\ asked[r].pc = "counting"
  /\ asked' = [asked EXCEPT ![r].pc = IF HasRoom THEN "checked" ELSE "refused"]
  /\ UNCHANGED <<posts, pinLimit, boardLists, allowed, raced, missed>>

Patch(row, request) ==
  [row EXCEPT !.pinned = IF request.pinned = Kept THEN @ ELSE request.pinned,
              !.visibility = IF request.visibility = Kept THEN @ ELSE request.visibility]

\* The row the request leaves.
Written(request) ==
  LET row == posts[request.post]
  IN CASE request.op = "create" -> NewPost("published", request.pinned, request.visibility)
       [] request.op = "draft" -> NewPost("draft", request.pinned, request.visibility)
       [] request.op = "remove" -> NoPost
       [] request.op = "publish" -> [row EXCEPT !.status = "published"]
       [] request.op = "update" -> Patch(row, request)

\* publishAnnouncement and updateInClub change a row that is there, and a draft.
MayWrite(request) ==
  /\ request.op = "publish" => posts[request.post].status = "draft"
  /\ request.op = "update" => posts[request.post].status # "none"

\* A request that pins and has been let through.
PinsNow(r) == asked[r].pc = "checked" /\ asked[r].pinned = TRUE
Write(r) ==
  /\ asked[r].pc = "checked"
  /\ IF MayWrite(asked[r])
     THEN /\ posts' = [posts EXCEPT ![asked[r].post] = Written(asked[r])]
          /\ asked' = [asked EXCEPT ![r].pc =
                         IF asked[r].op \in {"create", "publish"} THEN "unannounced" ELSE "written"]
          /\ raced' = (raced \/ (PinsNow(r) /\ \E q \in BoardRequests \ {r} : PinsNow(q)))
     ELSE /\ asked' = [asked EXCEPT ![r].pc = "refused"]
          /\ UNCHANGED <<posts, raced>>
  /\ UNCHANGED <<pinLimit, boardLists, allowed, missed>>

\* notifyClubMembersPublished comes before the lists are dropped.
Notify(r) ==
  /\ asked[r].pc = "unannounced"
  /\ asked' = [asked EXCEPT ![r].pc = "written"]
  /\ UNCHANGED <<posts, pinLimit, boardLists, allowed, raced, missed>>

\* Mutant: the change drops the list of the staff only.
Mutant_StaffOnly == {"staff"}
Dropped == {"staff", "published"}
Changed(r) ==
  /\ asked[r].pc = "written"
  /\ boardLists' = [list \in DOMAIN boardLists |-> IF list \in Dropped THEN NoList ELSE boardLists[list]]
  /\ missed' = {}
  /\ asked' = [asked EXCEPT ![r].pc = "done"]
  /\ UNCHANGED <<posts, pinLimit, allowed, raced>>

\* The queue or the store is out of reach, or the process dies: nothing drops the lists.
FailAfterWrite(r) ==
  /\ asked[r].pc \in {"unannounced", "written"}
  /\ missed' = {list \in DOMAIN boardLists : boardLists[list] # NoList}
  /\ asked' = [asked EXCEPT ![r].pc = "failed"]
  /\ UNCHANGED <<posts, pinLimit, boardLists, allowed, raced>>

\* The tenant's administrator changes the limit, also to less than is pinned.
SetLimit(n) ==
  LET committed == Pinned \cup {asked[r].post : r \in {q \in BoardRequests : PinsNow(q)}}
  IN /\ pinLimit' = n
     /\ allowed' = IF n < Cardinality(committed) THEN Cardinality(committed) ELSE n
     /\ UNCHANGED <<posts, boardLists, asked, raced, missed>>

BoardNext ==
  \/ \E list \in {"staff", "published"} : ReadList(list) \/ ListExpires(list)
  \/ \E r \in AnyOne({q \in BoardRequests : asked[q].pc = "idle"}), p \in Posts :
       \/ \E publish, pinned \in BOOLEAN, visibility \in Audiences :
            AskCreate(r, p, publish, pinned, visibility)
       \/ \E pinned \in {TRUE, FALSE, Kept}, visibility \in Audiences \cup {Kept} :
            AskUpdate(r, p, pinned, visibility)
       \/ AskPublish(r, p) \/ AskRemove(r, p)
  \/ \E r \in BoardRequests : assertPinnedCapacity(r) \/ Write(r) \/ Notify(r) \/ Changed(r)
                              \/ FailAfterWrite(r)
  \/ \E n \in PinLimits \ {pinLimit} : SetLimit(n)

BoardSpec == BoardInit /\ [][BoardNext]_boardVars

----------------------------------------------------------------------------
\* A change is written and the lists it stales are still to be dropped.
Owed == \E r \in BoardRequests : asked[r].pc \in {"unannounced", "written"}

(* No more announcements are pinned than the limit, or than already were   *)
(* when it was lowered, unless two requests that pin had both been let     *)
(* through before either wrote.                                            *)
PinsBounded == raced \/ Cardinality(Pinned) <= allowed

(* Once every request is answered, viewers are shown the board as it is:   *)
(* staff all of it, members what is published, visitors what is published  *)
(* for all.  A list that a failed request left behind is the exception,    *)
(* until it expires.                                                       *)
BoardIsShown ==
  Owed \/ /\ "staff" \in missed \/ listByClub("staff") = {p \in Posts : posts[p].status # "none"}
          /\ "published" \in missed \/
               /\ listByClub("member") = {p \in Posts : posts[p].status = "published"}
               /\ listByClub("visitor") = {p \in Posts : posts[p].status = "published"
                                                         /\ posts[p].visibility = "university"}

BoardSound == PinsBounded /\ BoardIsShown
=============================================================================
