----------------------------- MODULE MCDelivery -----------------------------
(***************************************************************************)
(* The modules about what reaches people, for TLC: notifications, sockets  *)
(* and devices; lists read page by page; the announcement board, the       *)
(* poster codes and the gallery; and a server process, from its deployment *)
(* and its limits to its end.  As in MCClubLife a behaviour works on one   *)
(* part and the others rest.                                               *)
(***************************************************************************)
EXTENDS NotificationFanout, NotificationSockets, PushDevices, Paging, AnnouncementBoard,
        PosterQr, Gallery, RateLimiter, Shutdown, Deployment, TLC

CONSTANTS news, verdict, a, b, club, newsType, verdictType, i1, i2, s1, s2, s3, k1, k2, d1, d2,
          o1, o2, n1, n2, n3, q1, q2, qa, act1, e1, e2, h1, h2, h3, h4, sigterm, sigint,
          b1, b2, v1, student, superAdmin, key1, oldKey, extra, g1, g2

VARIABLE part

SomeTypes == (news :> newsType) @@ (verdict :> verdictType)
SomeClubs == (news :> club) @@ (verdict :> club)
SomeHosts == {<<qa, act1>>}
SomeBundles == (student :> {key1}) @@ (superAdmin :> {})

Parts == {"fanout", "sockets", "push", "paging", "board", "poster", "gallery", "limiter",
          "shutdown", "deploy"}
deliveryVars == <<part, fanoutVars, socketsVars, pushVars, pagingVars, boardVars, posterVars,
                   galleryVars, limiterVars, shutdownVars, deployVars>>

\* A part that rests has one initial state.
DeliveryInit ==
  /\ part \in Parts
  /\ FanoutInit /\ SocketsInit /\ PushInit /\ PagingInit /\ BoardInit /\ PosterInit
  /\ GalleryInit /\ LimiterInit /\ ShutdownInit /\ DeployInit
  /\ part # "paging" =>
       /\ listing.order = "whole" /\ listing.limit = 1 /\ visible = {}
       /\ \A r \in Rows : entry[r].at = 0
  /\ part # "board" => pinLimit = 1
  /\ part # "deploy" => keys = {}

DeliveryNext ==
  \/ part = "fanout" /\ FanoutNext
     /\ UNCHANGED <<part, socketsVars, pushVars, pagingVars, boardVars,
                    posterVars, galleryVars, limiterVars, shutdownVars, deployVars>>
  \/ part = "sockets" /\ SocketsNext
     /\ UNCHANGED <<part, fanoutVars, pushVars, pagingVars, boardVars,
                    posterVars, galleryVars, limiterVars, shutdownVars, deployVars>>
  \/ part = "push" /\ PushNext
     /\ UNCHANGED <<part, fanoutVars, socketsVars, pagingVars, boardVars,
                    posterVars, galleryVars, limiterVars, shutdownVars, deployVars>>
  \/ part = "paging" /\ PagingNext
     /\ UNCHANGED <<part, fanoutVars, socketsVars, pushVars, boardVars,
                    posterVars, galleryVars, limiterVars, shutdownVars, deployVars>>
  \/ part = "board" /\ BoardNext
     /\ UNCHANGED <<part, fanoutVars, socketsVars, pushVars, pagingVars,
                    posterVars, galleryVars, limiterVars, shutdownVars, deployVars>>
  \/ part = "poster" /\ PosterNext
     /\ UNCHANGED <<part, fanoutVars, socketsVars, pushVars, pagingVars,
                    boardVars, galleryVars, limiterVars, shutdownVars, deployVars>>
  \/ part = "gallery" /\ GalleryNext
     /\ UNCHANGED <<part, fanoutVars, socketsVars, pushVars, pagingVars,
                    boardVars, posterVars, limiterVars, shutdownVars, deployVars>>
  \/ part = "limiter" /\ LimiterNext
     /\ UNCHANGED <<part, fanoutVars, socketsVars, pushVars, pagingVars,
                    boardVars, posterVars, galleryVars, shutdownVars, deployVars>>
  \/ part = "shutdown" /\ ShutdownNext
     /\ UNCHANGED <<part, fanoutVars, socketsVars, pushVars, pagingVars,
                    boardVars, posterVars, galleryVars, limiterVars, deployVars>>
  \/ part = "deploy" /\ DeployNext
     /\ UNCHANGED <<part, fanoutVars, socketsVars, pushVars, pagingVars,
                    boardVars, posterVars, galleryVars, limiterVars, shutdownVars>>

DeliverySpec == DeliveryInit /\ [][DeliveryNext]_deliveryVars

(* What each part promises, asked where it works: notifications in the     *)
(* table, over sockets and to devices, the board, the posters' codes and   *)
(* the gallery; lists read page by page; rate limiting, what a deployment  *)
(* provisions, and how a process ends.                                     *)
DeliverySound ==
  /\ part = "fanout" => FanoutSound
  /\ part = "sockets" => SocketsSound
  /\ part = "push" => PushSound
  /\ part = "board" => BoardSound
  /\ part = "poster" => PosterSound
  /\ part = "gallery" => GallerySound
ListsSound == part = "paging" => PagingSound
LimitsSound ==
  /\ part = "limiter" => LimiterSound
  /\ part = "shutdown" => ShutdownSound
  /\ part = "deploy" => DeploymentSound
=============================================================================
