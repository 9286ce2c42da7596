------------------------------- MODULE Gallery -------------------------------
(***************************************************************************)
(* Uploaded images and the gallery of one club: a file in the store and a  *)
(* row that tells of it are written one after the other, a gallery entry   *)
(* keeps the address of a file, and the list of entries is cached.         *)
(*                                                                         *)
(* An address is an upload's here; the code takes any, served by it or     *)
(* not.  Nothing spans the store, the table and the cache: a request that  *)
(* is cut short leaves what it has done.                                   *)
(***************************************************************************)
EXTENDS FiniteSets, Naturals, Names

CONSTANTS Uploads,         \* storage keys, random and used once
          Entries,         \* gallery rows ever made
          MediaRequests,   \* requests that may overlap
          NoEntry, NoCopy, \* an absent row, an absent cached list
          MaxRequests      \* bound: requests ever begun

ASSUME GalleryAssumption == MaxRequests \in Nat /\ NoEntry \notin Uploads

VARIABLES files,     \* keys in the store
          media,     \* rows of media
          entries,   \* club_gallery: the key behind each address
          copy,      \* gallery:list:<club>
          mediaJob,  \* each request under way
          answered,  \* history: keys whose address a client was given
          halfUp, halfGone, \* history: uploads and removals cut between file and row
          unlinked,  \* history: keys whose removal has begun
          unnoted,   \* history: a change failed to drop the cached list
          begun      \* history: requests begun

galleryVars == <<files, media, entries, copy, mediaJob, answered, halfUp, halfGone, unlinked, unnoted,
                 begun>>
mediaVars == <<files, media, answered, halfUp, halfGone, unlinked>>

NoJob == [pc |-> "idle", key |-> NoEntry, on |-> NoEntry]

GalleryInit ==
  /\ files = {} /\ media = {} /\ entries = [e \in Entries |-> NoEntry] /\ copy = NoCopy
  /\ mediaJob = [r \in MediaRequests |-> NoJob]
  /\ answered = {} /\ halfUp = {} /\ halfGone = {} /\ unlinked = {} /\ unnoted = FALSE /\ begun = 0

GalleryBegins(r, pc, key, on) ==
  /\ mediaJob[r] = NoJob /\ begun < MaxRequests /\ begun' = begun + 1
  /\ mediaJob' = [mediaJob EXCEPT ![r] = [pc |-> pc, key |-> key, on |-> on]]
JobGoto(r, pc) == mediaJob' = [mediaJob EXCEPT ![r].pc = pc]
JobDone(r) == mediaJob' = [mediaJob EXCEPT ![r] = NoJob]

----------------------------------------------------------------------------
(***************************************************************************)
(* media.service.ts.                                                       *)
(***************************************************************************)
Unused ==
  {k \in Uploads : k \notin answered \cup halfUp /\ \A r \in MediaRequests : mediaJob[r].key # k}
\* upload, once size and type are seen: a key nobody has used.
AskUpload(r, k) ==
  /\ k \in Unused /\ GalleryBegins(r, "put", k, NoEntry)
  /\ UNCHANGED <<mediaVars, entries, copy, unnoted>>
PutFile(r) ==
  /\ mediaJob[r].pc = "put" /\ files' = files \cup {mediaJob[r].key} /\ JobGoto(r, "row")
  /\ UNCHANGED <<media, answered, halfUp, halfGone, unlinked, entries, copy, unnoted, begun>>
AddMedia(r) ==
  /\ mediaJob[r].pc = "row" /\ media' = media \cup {mediaJob[r].key} /\ JobDone(r)
  /\ answered' = answered \cup {mediaJob[r].key}
  /\ UNCHANGED <<files, halfUp, halfGone, unlinked, entries, copy, unnoted, begun>>

\* remove, by the uploader: the row is read, the file goes first.
AskRemoveMedia(r, k) ==
  /\ k \in media /\ GalleryBegins(r, "unlink", k, NoEntry)
  /\ UNCHANGED <<mediaVars, entries, copy, unnoted>>
\* Mutant: the file is left in the store.
Mutant_KeepFile(k) == files
Unlink(k) == files \ {k}
DeleteFile(r) ==
  /\ mediaJob[r].pc = "unlink" /\ files' = Unlink(mediaJob[r].key) /\ JobGoto(r, "forget")
  /\ unlinked' = unlinked \cup {mediaJob[r].key}
  /\ UNCHANGED <<media, answered, halfUp, halfGone, entries, copy, unnoted, begun>>
DeleteRow(r) ==
  /\ mediaJob[r].pc = "forget" /\ media' = media \ {mediaJob[r].key} /\ JobDone(r)
  /\ halfGone' = halfGone \ {mediaJob[r].key}
  /\ UNCHANGED <<files, answered, halfUp, unlinked, entries, copy, unnoted, begun>>

----------------------------------------------------------------------------
(***************************************************************************)
(* gallery.service.ts, and moderateRemoveGalleryImage, which does the same *)
(* by id.                                                                  *)
(***************************************************************************)
\* addImage takes the address it is given: nothing asks whether it is served.
AskAddImage(r, e, k) ==
  /\ k \in answered /\ entries[e] = NoEntry /\ \A q \in MediaRequests : mediaJob[q].on # e
  /\ GalleryBegins(r, "insert", k, e)
  /\ UNCHANGED <<mediaVars, entries, copy, unnoted>>
AskRemoveImage(r, e) ==
  /\ entries[e] # NoEntry /\ GalleryBegins(r, "delete", NoEntry, e)
  /\ UNCHANGED <<mediaVars, entries, copy, unnoted>>
WriteEntry(r) ==
  /\ mediaJob[r].pc \in {"insert", "delete"} /\ JobGoto(r, "emit")
  /\ entries' = [entries EXCEPT ![mediaJob[r].on] = mediaJob[r].key]
  /\ UNCHANGED <<mediaVars, copy, unnoted, begun>>

\* Mutant: the list is left to expire.
Mutant_LeaveList == copy
DropList == NoCopy
\* galleryEffects.changed.
EmitChanged(r) ==
  /\ mediaJob[r].pc = "emit" /\ copy' = DropList /\ unnoted' = FALSE /\ JobDone(r)
  /\ UNCHANGED <<mediaVars, entries, begun>>

\* The store, the database or the cache is out of reach, or the process dies.
JobFails(r) ==
  LET key == {mediaJob[r].key} IN
  /\ mediaJob[r].pc # "idle" /\ JobDone(r)
  /\ halfUp' = IF mediaJob[r].pc = "row" THEN halfUp \cup key ELSE halfUp
  /\ halfGone' = IF mediaJob[r].pc = "forget" THEN halfGone \cup key ELSE halfGone
  /\ unnoted' = (unnoted \/ (mediaJob[r].pc = "emit" /\ copy # NoCopy))
  /\ UNCHANGED <<files, media, answered, unlinked, entries, copy, begun>>

----------------------------------------------------------------------------
\* listByClub, loaded and mediaVars in one step as in AnnouncementBoard.
ListByClub == IF copy # NoCopy THEN copy ELSE entries
FillList ==
  /\ copy = NoCopy /\ copy' = entries
  /\ UNCHANGED <<mediaVars, entries, mediaJob, unnoted, begun>>
GalleryExpires ==
  /\ copy # NoCopy /\ copy' = NoCopy /\ unnoted' = FALSE
  /\ UNCHANGED <<mediaVars, entries, mediaJob, begun>>

\* What GET /uploads/:key answers with.
Served(k) == k \in files

GalleryNext ==
  \/ \E r \in AnyOne({q \in MediaRequests : mediaJob[q] = NoJob}) :
       \/ \E k \in AnyOne(Unused) : AskUpload(r, k)
       \/ \E k \in Uploads : AskRemoveMedia(r, k)
       \/ \E e \in Entries : AskRemoveImage(r, e) \/ \E k \in Uploads : AskAddImage(r, e, k)
  \/ \E r \in MediaRequests : PutFile(r) \/ AddMedia(r) \/ DeleteFile(r) \/ DeleteRow(r)
                              \/ WriteEntry(r) \/ EmitChanged(r) \/ JobFails(r)
  \/ FillList \/ GalleryExpires

GallerySpec == GalleryInit /\ [][GalleryNext]_galleryVars

----------------------------------------------------------------------------
Doing(pc) == {mediaJob[r].key : r \in {q \in MediaRequests : mediaJob[q].pc = pc}}

\* A row without its file is one whose removal is under way or was cut short;
\* asking again removes it.
RowsHaveFiles == media \subseteq files \cup Doing("forget") \cup halfGone
\* A file without its row is an upload under way or cut short: no removal
\* leaves one behind.
FilesHaveRows == files \subseteq media \cup Doing("row") \cup halfUp
\* An entry whose image is not served is one whose image was removed by its
\* uploader, which the gallery is not told of.
EntriesServed ==
  \A e \in Entries : entries[e] = NoEntry \/ Served(entries[e]) \/ entries[e] \in unlinked
\* The gallery is shown as it is once its changes are answered, but for a list
\* that a failed one left behind, until it expires.
GalleryIsShown == unnoted \/ (\E r \in MediaRequests : mediaJob[r].pc = "emit") \/ ListByClub = entries

(* Files, rows, addresses and the cached list agree, up to the requests    *)
(* under way and those that were cut short (media.service.ts:28-97,        *)
(* gallery.service.ts:35-53).                                              *)
GallerySound == RowsHaveFiles /\ FilesHaveRows /\ EntriesServed /\ GalleryIsShown
=============================================================================
