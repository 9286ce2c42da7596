---------------------------- MODULE ActivityHosts ----------------------------
(***************************************************************************)
(* The clubs that host one activity, and the lists of the universities     *)
(* that show it for that.                                                  *)
(*                                                                         *)
(* A host club invites another as co-host; the activity belongs to the     *)
(* universities of the clubs that accepted, whose discovery lists are      *)
(* cached.  Each request looks at the link, learns the universities that   *)
(* are affected, writes, and drops their lists: acceptance learns them     *)
(* after its write, removal before.                                        *)
(***************************************************************************)
EXTENDS FiniteSets

CONSTANTS CoClubs, Schools,
          SchoolOf,     \* the university of each club
          HostSchool,   \* that of the host club
          HostRequests, \* requests that may overlap
          Unlisted

ASSUME HostsAssumption ==
  /\ SchoolOf \in [CoClubs -> Schools] /\ HostSchool \in Schools
  /\ Unlisted \notin BOOLEAN

VARIABLES link,       \* activity_clubs of the co-hosts: absent, invited, accepted
          live,       \* the activity is published, not cancelled
          listed,     \* the cached list: Unlisted, or whether it shows the activity
          hostReq,
          joined,     \* universities a club of which has ever accepted
          crossed     \* an acceptance was written while its removal was under way

hostsVars == <<link, live, listed, hostReq, joined, crossed>>

NoHostReq == [op |-> "none", pc |-> "idle", club |-> Unlisted, schools |-> {}]
HostPcs == {"idle", "insert", "write", "learn", "delete", "emit"}

HostsInit ==
  /\ link = [c \in CoClubs |-> "absent"]
  /\ live = TRUE
  /\ listed = [s \in Schools |-> Unlisted]
  /\ hostReq = [r \in HostRequests |-> NoHostReq]
  /\ joined = {} /\ crossed = FALSE

\* Mutant: an invitation counts.
Mutant_InvitedCounts == {c \in CoClubs : link[c] # "absent"}
AcceptedClubs == {c \in CoClubs : link[c] = "accepted"}
\* Mutant: the clubs are taken for their universities.
Mutant_ClubsForSchools == {HostSchool} \cup AcceptedClubs
\* getAcceptedUniversityIds
AcceptedSchools == {HostSchool} \cup {SchoolOf[c] : c \in AcceptedClubs}
\* listForUniversity
Shows(s) == live /\ s \in AcceptedSchools

HostGoto(r, pc) == hostReq' = [hostReq EXCEPT ![r].pc = pc]
HostEnter(r, op, pc, c) ==
  /\ hostReq[r] = NoHostReq
  /\ hostReq' = [hostReq EXCEPT ![r] = [NoHostReq EXCEPT !.op = op, !.pc = pc, !.club = c]]
  /\ UNCHANGED <<link, live, listed, joined, crossed>>

\* inviteCoHost: no link yet.
InviteCoHost(r, c) == link[c] = "absent" /\ HostEnter(r, "invite", "insert", c)
\* The primary key lets one of two inserts through.
InsertInvite(r) ==
  LET c == hostReq[r].club IN
  /\ hostReq[r].pc = "insert"
  /\ link' = [link EXCEPT ![c] = IF @ = "absent" THEN "invited" ELSE @]
  /\ hostReq' = [hostReq EXCEPT ![r] = NoHostReq]
  /\ UNCHANGED <<live, listed, joined, crossed>>

\* acceptCoHostInvite
AcceptCoHost(r, c) == link[c] = "invited" /\ HostEnter(r, "accept", "write", c)
\* setCoHostAccepted: by key, if the link is still there.
WriteAccepted(r) ==
  LET c == hostReq[r].club IN
  /\ hostReq[r].op = "accept" /\ hostReq[r].pc = "write"
  /\ link' = [link EXCEPT ![c] = IF @ = "absent" THEN @ ELSE "accepted"]
  /\ joined' = IF link[c] = "absent" THEN joined ELSE joined \cup {SchoolOf[c]}
  /\ crossed' = (crossed \/ \E q \in HostRequests :
                              hostReq[q].club = c /\ hostReq[q].pc = "delete")
  /\ HostGoto(r, "learn") /\ UNCHANGED <<live, listed>>

\* Mutant: removal learns the universities after it has deleted.
Mutant_RemoveFirst == "delete"
\* removeCoHost, leaveCoHost: the universities first.
RemovalStart == "learn"
RemoveCoHost(r, c) == link[c] # "absent" /\ HostEnter(r, "remove", RemovalStart, c)

\* moderateCancel: the moderator's university is one of the activity's.
ModerateCancel(r, s) == live /\ s \in AcceptedSchools /\ HostEnter(r, "cancel", "write", Unlisted)
WriteCancelled(r) ==
  /\ hostReq[r].op = "cancel" /\ hostReq[r].pc = "write"
  /\ live' = FALSE /\ HostGoto(r, "learn")
  /\ UNCHANGED <<link, listed, joined, crossed>>

\* Where a request goes from learning the universities affected.
LearnSchools(r) ==
  /\ hostReq[r].pc = "learn"
  /\ hostReq' = [hostReq EXCEPT ![r].schools = AcceptedSchools,
       ![r].pc = IF hostReq[r].op = "remove" /\ RemovalStart = "learn" THEN "delete" ELSE "emit"]
  /\ UNCHANGED <<link, live, listed, joined, crossed>>

\* removeActivityClub
DeleteLink(r) ==
  /\ hostReq[r].pc = "delete"
  /\ link' = [link EXCEPT ![hostReq[r].club] = "absent"]
  /\ HostGoto(r, IF RemovalStart = "learn" THEN "emit" ELSE "learn")
  /\ UNCHANGED <<live, listed, joined, crossed>>

\* activityChanged.emit
EmitHosts(r) ==
  /\ hostReq[r].pc = "emit"
  /\ listed' = [s \in Schools |-> IF s \in hostReq[r].schools THEN Unlisted ELSE listed[s]]
  /\ hostReq' = [hostReq EXCEPT ![r] = NoHostReq]
  /\ UNCHANGED <<link, live, joined, crossed>>

\* listDiscovery, through the cache.
BrowseDiscovery(s) ==
  /\ listed[s] = Unlisted
  /\ listed' = [listed EXCEPT ![s] = Shows(s)]
  /\ UNCHANGED <<link, live, hostReq, joined, crossed>>

HostsNext ==
  \/ \E r \in HostRequests :
       \/ \E c \in CoClubs : InviteCoHost(r, c) \/ AcceptCoHost(r, c) \/ RemoveCoHost(r, c)
       \/ \E s \in Schools : ModerateCancel(r, s)
       \/ InsertInvite(r) \/ WriteAccepted(r) \/ WriteCancelled(r)
       \/ LearnSchools(r) \/ DeleteLink(r) \/ EmitHosts(r)
  \/ \E s \in Schools : BrowseDiscovery(s)

HostsSpec == HostsInit /\ [][HostsNext]_hostsVars

----------------------------------------------------------------------------
HostsTypeOK ==
  /\ link \in [CoClubs -> {"absent", "invited", "accepted"}]
  /\ live \in BOOLEAN /\ crossed \in BOOLEAN /\ joined \subseteq Schools
  /\ listed \in [Schools -> BOOLEAN \cup {Unlisted}]
  /\ hostReq \in [HostRequests -> [op : {"none", "invite", "accept", "remove", "cancel"},
       pc : HostPcs, club : CoClubs \cup {Unlisted}, schools : SUBSET Schools]]

(* When no request is under way, every cached discovery list shows the     *)
(* activity exactly where it belongs, unless an acceptance was written     *)
(* between a removal's look at the universities and its delete             *)
(* (activities.service.ts:368-371).                                        *)
ListsFollowHosts ==
  (\A r \in HostRequests : hostReq[r] = NoHostReq) /\ ~crossed =>
    \A s \in Schools : listed[s] \in {Unlisted, Shows(s)}

(* A university sees the activity only if it is the host's or one of its   *)
(* clubs has accepted: an invitation shows nothing                         *)
(* (activities.repository.ts:251).                                         *)
InvitedNotListed == \A s \in Schools : listed[s] = TRUE => s \in joined \cup {HostSchool}

(* What holds of the hosts and the lists: every variable keeps its type;   *)
(* the cached lists follow the hosts; and an invitation shows nothing.     *)
HostsSound == HostsTypeOK /\ ListsFollowHosts /\ InvitedNotListed
=============================================================================
