----------------------------- MODULE DhcpClient -----------------------------
(***************************************************************************)
(* The DHCP client of NetworkControl for one interface in dynamic mode: a  *)
(* DHCPEngine with its DHCPClient, the adapter it configures, and the      *)
(* Flush and Activity that restart it.                                     *)
(*                                                                         *)
(* Three threads meet.  The worker runs Dispatch: it reads in which case   *)
(* it is, and acts on that later, with no lock of the engine.  The socket's*)
(* thread runs ReceiveData and SendData under the client's lock.  Flush and*)
(* Activity hold NetworkControl's lock, and wait in Revoke for the worker. *)
(*                                                                         *)
(* A server offers one address, so that address is named by its server.    *)
(* What was sent may be answered never, late, and more than once.  Time is *)
(* the order of steps: a scheduled job may run at any moment.              *)
(***************************************************************************)
EXTENDS Naturals, Sequences, FiniteSets

CONSTANTS
  Server,       \* the DHCP servers of the network
  Nobody,       \* no server, no address
  All,          \* whom a Discover is for
  Xid, NoXid,   \* the transactions; a new one takes another than the last
  MaxRetries,   \* _maxRetries
  MaxOffers     \* how many offers may be listed: a bound

ASSUME ServerAssumption == {Nobody, All} \cap Server = {} /\ Nobody # All
ASSUME NumberAssumption == MaxRetries \in Nat /\ MaxOffers \in Nat
ASSUME XidAssumption == NoXid \notin Xid

VARIABLES
  running, address,   \* the adapter: IsRunning(), and its addresses
  notice,             \* AdapterObserver::_reporting has the interface
  settings,           \* DHCPEngine::_settings.Address()
  offers, retries,    \* _offers, _retries
  scheduled, worker,  \* _job is submitted, and where its Dispatch is
  state, target,      \* DHCPClient::_state, and for whom _modus is until it is
                      \* sent
  xid, offer,         \* _xid, _offer
  expired,            \* _expired: "none", "valid" or "past"
  sent,               \* what went out: for whom, in which transaction
  admin,              \* where Flush or Activity is; it holds the lock
  failed,             \* history: Failed was reported since the last restart
  removed,            \* history: the address of _settings was deleted
  strayed             \* history: "late", an acknowledgement met another offer
                      \* than the first; "undefined", the first of an empty
                      \* list was used

adapterVars == <<running, address>>
engineVars  == <<settings, offers, retries>>
clientVars  == <<state, target, xid, offer, expired>>
historyVars == <<failed, removed, strayed>>
vars == <<adapterVars, notice, engineVars, scheduled, worker, clientVars,
          sent, admin, historyVars>>

Offer == [server : Server, xid : Xid]
Message == (Server \cup {All}) \X Xid
NoOffer == [server |-> Nobody, xid |-> NoXid]

\* A saved lease is asked for again
Init ==
  /\ running \in BOOLEAN
  /\ address = {}
  /\ notice = TRUE
  /\ \E s \in Server \cup {Nobody}, x \in Xid :
       /\ settings = s
       /\ offers = IF s = Nobody THEN <<>> ELSE <<[server |-> s, xid |-> x]>>
  /\ retries = 0
  /\ scheduled = FALSE
  /\ worker = "idle"
  /\ state = "IDLE"
  /\ target = Nobody
  /\ xid = NoXid
  /\ offer = NoOffer
  /\ expired = "none"
  /\ sent = {}
  /\ admin = "idle"
  /\ failed = FALSE
  /\ removed = FALSE
  /\ strayed = {}

-----------------------------------------------------------------------------
(* DHCPClient.  Its socket is open unless it is IDLE.                      *)

HasActiveLease == expired # "none"

\* Request: refused while another message waits to be sent
Request(o) ==
  IF state = "SENDING" THEN UNCHANGED clientVars
  ELSE /\ state' = "SENDING"
       /\ target' = o.server
       /\ offer' = o
       /\ xid' = o.xid
       /\ expired' = "none"

\* Discover, up to the end of its critical section
StartDiscover ==
  IF state = "SENDING" THEN UNCHANGED clientVars
  ELSE /\ state' = "SENDING"
       /\ offer' = NoOffer
       /\ expired' = "none"
       /\ UNCHANGED <<target, xid>>

\* The rest of Discover.  Of an old transaction that had this number no
\* message is left
Draw ==
  /\ xid' \in Xid \ {xid}
  /\ target' = All
  /\ sent' = {m \in sent : m[2] # xid'}
  /\ UNCHANGED <<state, offer, expired>>

Close == state' = "IDLE" /\ UNCHANGED <<target, xid, offer, expired>>

\* The socket is triggered at the end of Discover and Request
SendData ==
  /\ state = "SENDING"
  /\ "draw" \notin {worker, admin}
  /\ state' = "RECEIVING"
  /\ sent' = sent \cup ({<<target, xid>>} \cap Message)
  /\ target' = Nobody
  /\ UNCHANGED <<adapterVars, notice, engineVars, scheduled, worker, xid, offer,
                 expired, admin, historyVars>>

SlipAnswers(t) == state # "IDLE" /\ \E x \in Xid : <<t, x>> \in sent
\* A message of the transaction _xid arrives, which answers one for t.  Those
\* of other transactions are dropped
Answers(t) == state # "IDLE" /\ <<t, xid>> \in sent

\* Offered wakes the job for the first offer of the list
Wakes == offers = <<>>

\* ProcessMessage, OFFER, with the callback Offered
ReceiveOffer(s) ==
  /\ Answers(All)
  /\ Len(offers) < MaxOffers
  /\ offers' = Append(offers, [server |-> s, xid |-> xid])
  /\ scheduled' = (scheduled \/ Wakes)
  /\ UNCHANGED <<adapterVars, notice, settings, retries, worker, clientVars,
                 sent, admin, historyVars>>

\* The acknowledgement is for what the engine asks for
Meets(s) == offer.server = s /\ offers # <<>> /\ Head(offers) = offer

\* ACK, with Approved.  It is not asked from which server it comes.  A cleared
\* offer has no lease time
ReceiveAck(s) ==
  /\ Answers(s)
  /\ expired' = IF offer = NoOffer THEN "past" ELSE "valid"
  /\ state' = "IDLE"
  /\ scheduled' = TRUE
  /\ strayed' = strayed \cup (IF Meets(s) THEN {} ELSE {"late"})
  /\ UNCHANGED <<adapterVars, notice, engineVars, worker, target, xid, offer,
                 sent, admin, failed, removed>>

\* NAK, with Rejected
ReceiveNak(s) ==
  /\ Answers(s)
  /\ offer' = NoOffer
  /\ retries' = MaxRetries
  /\ scheduled' = TRUE
  /\ UNCHANGED <<adapterVars, notice, settings, offers, worker, state, target,
                 xid, expired, sent, admin, historyVars>>

\* The lease time is over
Expire ==
  /\ expired = "valid"
  /\ expired' = "past"
  /\ UNCHANGED <<adapterVars, notice, engineVars, scheduled, worker, state,
                 target, xid, offer, sent, admin, historyVars>>

-----------------------------------------------------------------------------
(* DHCPEngine::Dispatch.                                                   *)

ClearLease == offers' = <<>> /\ settings' = Nobody /\ removed' = FALSE

\* The first offer has the address of the settings
Preferred == offers # <<>> /\ Head(offers).server = settings

Tries == retries < MaxRetries

\* The first offer is the one that is asked for
Asked == offer.server = Head(offers).server

\* What Dispatch finds, and with it whether it may try once more
Case ==
  CASE ~running -> "giveup"
    [] running /\ expired = "valid" -> "install"
    [] running /\ expired = "past" -> IF Tries THEN "repeat" ELSE "restart"
    [] running /\ expired = "none" /\ offers = <<>> ->
         IF Tries THEN "discover" ELSE "giveup"
    [] OTHER -> IF Asked /\ Tries THEN "repeat" ELSE "next"

\* _retries++ stands in the conditions
Counts ==
  running /\ expired # "valid" /\ (HasActiveLease \/ offers = <<>> \/ Asked)

\* A job that is being revoked does not start
Dispatch ==
  /\ scheduled
  /\ worker = "idle"
  /\ admin # "revoke"
  /\ scheduled' = FALSE
  /\ worker' = Case
  /\ retries' = IF Counts THEN retries + 1 ELSE retries
  /\ UNCHANGED <<adapterVars, notice, settings, offers, clientVars, sent, admin,
                 historyVars>>

SlipReschedule == UNCHANGED scheduled
\* _job.Reschedule at the end of a case
Reschedule == scheduled' = TRUE

\* The case acts and ends, or goes on in w
Acts(w) == worker' = w /\ UNCHANGED <<notice, admin, sent, historyVars>>

\* The interface is gone, or the Discovers found nothing: Close, then Failed
GiveUp ==
  /\ worker = "giveup"
  /\ Close
  /\ Acts("fail")
  /\ UNCHANGED <<adapterVars, engineVars, scheduled>>

\* Another Discover: the offers and the address are forgotten
Rediscover ==
  /\ \/ worker = "discover" /\ UNCHANGED retries
     \/ worker = "restart" /\ retries' = 0
  /\ ClearLease
  /\ StartDiscover
  /\ Reschedule
  /\ worker' = IF state = "SENDING" THEN "idle" ELSE "draw"
  /\ UNCHANGED <<adapterVars, notice, admin, sent, failed, strayed>>

\* The lease is over, or its acknowledgement did not come
Repeat ==
  /\ worker = "repeat"
  /\ Request(offer)
  /\ Reschedule
  /\ Acts("idle")
  /\ UNCHANGED <<adapterVars, engineVars>>

\* The first offer is dropped when it was refused, or asked for in vain
Left == IF retries >= MaxRetries THEN Tail(offers) ELSE offers

\* Its address goes with it, and that of the next one comes
NextOffer ==
  /\ worker = "next" /\ offers # <<>>
  /\ offers' = Left
  /\ address' =
       (IF Left = offers THEN address ELSE address \ {Head(offers).server})
         \cup {Left[i].server : i \in DOMAIN Left \cap {1}}
  /\ IF Left = <<>> THEN UNCHANGED clientVars ELSE Request(Head(Left))
  /\ retries' = 0
  /\ Reschedule
  /\ worker' = "idle"
  /\ removed' = (removed \/ (Left # offers /\ Preferred))
  /\ UNCHANGED <<running, notice, settings, sent, admin, failed, strayed>>

\* front() of a list that was cleared meanwhile
Undefined ==
  /\ worker = "next" /\ offers = <<>>
  /\ worker' = "idle"
  /\ strayed' = strayed \cup {"undefined"}
  /\ UNCHANGED <<adapterVars, notice, engineVars, scheduled, clientVars, sent,
                 admin, failed, removed>>

SlipStore(other) == other
\* Settings::Store: the address is new, or what came with it
Updated(other) == settings # offer.server \/ other

Install ==
  /\ worker = "install"
  /\ settings' = offer.server
  /\ \E other \in BOOLEAN :
       IF Updated(other)
       THEN Acts("accept") /\ UNCHANGED <<retries, scheduled>>
       ELSE Acts("idle") /\ retries' = 0 /\ Reschedule
  /\ UNCHANGED <<adapterVars, offers, clientVars>>

\* Accepted, with SetIP: the other addresses are deleted
Accept ==
  /\ worker = "accept"
  /\ IF offer = NoOffer THEN UNCHANGED <<address, removed>>
     ELSE address' = {offer.server} /\ removed' = FALSE
  /\ worker' = "report"
  /\ UNCHANGED <<running, notice, engineVars, scheduled, clientVars, sent,
                 admin, failed, strayed>>

Unlocked == admin = "idle"

\* NotifyNetworkUpdate and RefreshDNS take the lock.  The client is closed
Report ==
  /\ worker = "report"
  /\ Unlocked
  /\ Close
  /\ retries' = 0
  /\ Reschedule
  /\ Acts("idle")
  /\ UNCHANGED <<adapterVars, settings, offers>>

\* Failed takes the lock
Fail ==
  /\ worker = "fail"
  /\ Unlocked
  /\ worker' = "idle"
  /\ failed' = TRUE
  /\ UNCHANGED <<adapterVars, notice, engineVars, scheduled, clientVars, sent,
                 admin, removed, strayed>>

WorkerDraws ==
  /\ worker = "draw"
  /\ worker' = "idle"
  /\ Draw
  /\ UNCHANGED <<adapterVars, notice, engineVars, scheduled, admin,
                 historyVars>>

Worker == \/ Dispatch \/ GiveUp \/ Rediscover \/ Repeat \/ NextOffer
          \/ Undefined \/ Install \/ Accept \/ Report \/ Fail \/ WorkerDraws

-----------------------------------------------------------------------------
(* Flush, and Activity that follows a change of the adapter.               *)

\* The link goes down or comes up
Link ==
  /\ running' = ~running
  /\ notice' = TRUE
  /\ UNCHANGED <<address, engineVars, scheduled, worker, clientVars, sent,
                 admin, historyVars>>

SlipSetIP == {settings}
\* SetIP in Reload, which deletes the others
SetIP == IF settings = Nobody THEN address ELSE {settings}

\* Reload of a running interface, up to the Revoke in DHCPEngine::Discover
Reload ==
  /\ admin = "idle"
  /\ running
  /\ address' = SetIP
  /\ removed' = (removed /\ settings = Nobody)
  /\ retries' = 0
  /\ admin' = "revoke"
  /\ UNCHANGED <<running, settings, offers, scheduled, worker, clientVars,
                 sent, failed, strayed>>

Flush == Reload /\ UNCHANGED notice
ActivityUp == notice /\ Reload /\ notice' = FALSE

\* ClearIP
ActivityDown ==
  /\ notice
  /\ admin = "idle"
  /\ ~running
  /\ address' = {}
  /\ notice' = FALSE
  /\ UNCHANGED <<running, engineVars, scheduled, worker, clientVars, sent,
                 admin, historyVars>>

\* Revoke returns when Dispatch has
Revoked == worker = "idle"

\* The rest of DHCPEngine::Discover, from the end of Revoke to that of the
\* client's critical section.  A known address is asked for again
AskAgain ==
  /\ Preferred
  /\ Request(Head(offers))
  /\ admin' = "idle"
  /\ UNCHANGED <<settings, offers, removed>>

StartOver ==
  /\ ~Preferred
  /\ ClearLease
  /\ StartDiscover
  /\ admin' = IF state = "SENDING" THEN "idle" ELSE "draw"

Restart ==
  /\ admin = "revoke"
  /\ Revoked
  /\ AskAgain \/ StartOver
  /\ scheduled' = TRUE
  /\ failed' = FALSE
  /\ UNCHANGED <<adapterVars, notice, retries, worker, sent, strayed>>

AdminDraws ==
  /\ admin = "draw"
  /\ admin' = "idle"
  /\ Draw
  /\ UNCHANGED <<adapterVars, notice, engineVars, scheduled, worker,
                 historyVars>>

Admin == ActivityUp \/ ActivityDown \/ Restart \/ AdminDraws

Network == \/ \E s \in Server : ReceiveOffer(s) \/ ReceiveAck(s) \/ ReceiveNak(s)
           \/ SendData \/ Expire \/ Link

\* Of undefined behaviour nothing can be said
Next == "undefined" \notin strayed /\ (Worker \/ Flush \/ Admin \/ Network)

Spec == Init /\ [][Next]_vars

-----------------------------------------------------------------------------
\* Every variable keeps its type.
TypeOK ==
  /\ running \in BOOLEAN /\ notice \in BOOLEAN /\ scheduled \in BOOLEAN
  /\ failed \in BOOLEAN /\ removed \in BOOLEAN
  /\ address \subseteq Server
  /\ settings \in Server \cup {Nobody}
  /\ offers \in Seq(Offer)
  /\ retries \in Nat
  /\ worker \in {"idle", "giveup", "install", "repeat", "restart", "discover",
                 "next", "draw", "fail", "accept", "report"}
  /\ state \in {"IDLE", "SENDING", "RECEIVING"}
  /\ target \in Server \cup {Nobody, All}
  /\ xid \in Xid \cup {NoXid}
  /\ offer \in Offer \cup {NoOffer}
  /\ expired \in {"none", "valid", "past"}
  /\ sent \subseteq Message
  /\ admin \in {"idle", "revoke", "draw"}
  /\ strayed \subseteq {"late", "undefined"}

\* The interface never falls asleep: while its link is up and no failure was
\* reported, its job is scheduled or running, or a restart is under way,
\* whatever the network answers, late acknowledgements included, and whenever
\* Flush and Activity revoke the job; until the first of an empty list is used,
\* which is undefined.
Awake ==
  running /\ ~failed /\ "undefined" \notin strayed
    => scheduled \/ worker # "idle" \/ notice \/ admin # "idle"

\* A lease is one that was asked for: of its server, in its transaction, unless
\* some late answer met another offer than the one it was for.
LeaseAskedFor ==
  HasActiveLease /\ strayed = {} => <<offer.server, offer.xid>> \in sent

\* Each acknowledgement met what was asked for, and the address of the settings
\* was not deleted
Straight == ~removed /\ strayed = {}

\* Nothing is under way on a running interface
Quiet == running /\ ~notice /\ worker = "idle" /\ admin = "idle"

\* When the lease is stored and all is at rest, the adapter has the address of
\* the lease and no other, whatever was tried, dropped and flushed before,
\* unless its address was given up, and deleted, and then acknowledged after all:
\* the settings that still have it are not new, and nobody installs it again.
Installed ==
  expired = "valid" /\ settings = offer.server /\ Quiet /\ Straight
    => address = {settings}
=============================================================================
