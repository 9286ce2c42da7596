----------------------------- MODULE PushDevices -----------------------------
(***************************************************************************)
(* Web push: the subscriptions of browsers, one row for each endpoint, and *)
(* the sender that lists a user's rows, sends to all of them and removes   *)
(* those the push service no longer knows.  A browser passes from one user *)
(* to another under the same endpoint; the push service forgets an         *)
(* endpoint for good.                                                      *)
(***************************************************************************)
CONSTANTS Devices, Owners, Sends,
          Nobody  \* the owner of an endpoint that has no row

VARIABLES subscription,  \* the user of each endpoint's row
          forgotten,     \* endpoints the push service does not know any more
          sending,       \* each sendToUser: [pc, waiting, dead]
          wanted         \* history: who subscribed each browser last, and has not left

pushVars == <<subscription, forgotten, sending, wanted>>

NoSend == [pc |-> "idle", waiting |-> {}, dead |-> {}]

PushInit ==
  /\ subscription = [d \in Devices |-> Nobody] /\ wanted = subscription
  /\ forgotten = {} /\ sending = [s \in Sends |-> NoSend]

----------------------------------------------------------------------------
\* Mutant: an endpoint that has a row keeps its user.
Mutant_DoNothing(d, u) == IF subscription[d] = Nobody THEN u ELSE subscription[d]
\* onConflictDoUpdate
Upserted(d, u) == u

subscribePush(d, u) ==
  /\ d \notin forgotten
  /\ subscription' = [subscription EXCEPT ![d] = Upserted(d, u)]
  /\ wanted' = [wanted EXCEPT ![d] = u]
  /\ UNCHANGED <<forgotten, sending>>

unsubscribePush(d) ==
  /\ subscription[d] # Nobody
  /\ subscription' = [subscription EXCEPT ![d] = Nobody]
  /\ wanted' = [wanted EXCEPT ![d] = Nobody]
  /\ UNCHANGED <<forgotten, sending>>

Forget(d) ==
  /\ d \notin forgotten
  /\ forgotten' = forgotten \cup {d}
  /\ UNCHANGED <<subscription, sending, wanted>>

----------------------------------------------------------------------------
ListDevices(s, u) ==
  /\ sending[s].pc = "idle"
  /\ LET mine == {d \in Devices : subscription[d] = u}
     IN sending' = [sending EXCEPT ![s] =
          [NoSend EXCEPT !.pc = IF mine = {} THEN "done" ELSE "sending", !.waiting = mine]]
  /\ UNCHANGED <<subscription, forgotten, wanted>>

\* Mutant: whatever could not be sent is removed.
Mutant_AnyError(answer) == answer # "sent"
\* 404 and 410
Gone(answer) == answer = "gone"

\* The push service takes the message, does not know the endpoint, or fails.
Answered(s, d, answer) ==
  /\ sending[s].pc = "sending" /\ d \in sending[s].waiting
  /\ IF d \in forgotten THEN answer # "sent" ELSE answer # "gone"
  /\ sending' = [sending EXCEPT ![s].waiting = @ \ {d},
                                ![s].dead = IF Gone(answer) THEN @ \cup {d} ELSE @]
  /\ UNCHANGED <<subscription, forgotten, wanted>>

\* removeByEndpoints, by endpoint alone; a failure leaves the rows.
Prune(s) ==
  /\ sending[s].pc = "sending" /\ sending[s].waiting = {}
  /\ \/ subscription' = [d \in Devices |-> IF d \in sending[s].dead THEN Nobody ELSE subscription[d]]
     \/ UNCHANGED subscription
  /\ sending' = [sending EXCEPT ![s] = [NoSend EXCEPT !.pc = "done"]]
  /\ UNCHANGED <<forgotten, wanted>>

PushNext ==
  \/ \E d \in Devices : unsubscribePush(d) \/ Forget(d)
                        \/ \E u \in Owners : subscribePush(d, u)
  \/ \E s \in Sends : Prune(s) \/ \E u \in Owners : ListDevices(s, u)
  \/ \E s \in Sends, d \in Devices, answer \in {"sent", "gone", "failed"} : Answered(s, d, answer)

PushSpec == PushInit /\ [][PushNext]_pushVars

----------------------------------------------------------------------------
(* A browser the push service knows keeps its subscription until its user  *)
(* leaves, whatever was sent meanwhile and failed, and it is the           *)
(* subscription of whoever used the browser last.                          *)
PushSound == \A d \in Devices :
  IF d \in forgotten THEN subscription[d] \in {wanted[d], Nobody} ELSE subscription[d] = wanted[d]
=============================================================================
