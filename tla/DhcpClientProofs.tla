-------------------------- MODULE DhcpClientProofs --------------------------
(***************************************************************************)
(* Proofs about DhcpClient, for any number of servers, transactions,       *)
(* retries and offers: the types, that the interface never falls asleep,   *)
(* that a lease was asked for, and that a stored lease is on the adapter.  *)
(***************************************************************************)
EXTENDS DhcpClient, TLAPS

\* A Discover is between its critical section and its new transaction
Drawing == "draw" \in {worker, admin}

\* The offer that is asked for is of the present transaction; a Discover that is
\* being started has none, and cannot be overtaken by a Request.
Transaction ==
  strayed = {} =>
    /\ offer # NoOffer => offer.xid = xid
    /\ Drawing => offer = NoOffer /\ (state = "SENDING" \/ worker = "fail")

\* A lease is of the offer asked for, which is still the first of the list unless
\* the list was emptied, and ended the exchange of messages.
Leased ==
  strayed = {} /\ HasActiveLease =>
    /\ state = "IDLE"
    /\ offer # NoOffer
    /\ <<offer.server, offer.xid>> \in sent
    /\ offers = <<>> \/ Head(offers) = offer

\* The lease that Dispatch stores and sets stays while it does so.
Storing ==
  strayed = {} =>
    /\ worker \in {"install", "accept"} => HasActiveLease
    /\ worker = "accept" => settings = offer.server

\* The adapter has the address of the settings, and beside it at most that of
\* the offer that is being tried.
Configured ==
  strayed = {} /\ ~removed /\ running /\ ~notice /\ settings # Nobody
      /\ worker # "accept" =>
    /\ settings \in address
    /\ \A s \in address : s = settings \/ (offers # <<>> /\ s = Head(offers).server)

\* A Discover leaves its job scheduled until a Dispatch takes it.
Scheduled ==
  "undefined" \notin strayed =>
    /\ worker = "draw" => scheduled
    /\ admin = "draw" /\ worker = "idle" => scheduled

IndInv ==
  /\ TypeOK /\ Awake /\ Transaction /\ Leased /\ Storing /\ Configured /\ Scheduled

-----------------------------------------------------------------------------
\* The sequences the list of offers goes through: an offer is appended, the
\* first one is dropped.
LEMMA OfferLists ==
  ASSUME NEW S, NEW s \in Seq(S)
  PROVE  /\ \A x \in S : /\ Append(s, x) \in Seq(S) /\ Append(s, x) # <<>>
                         /\ Head(Append(s, x)) = IF s = <<>> THEN x ELSE Head(s)
         /\ s # <<>> => /\ Head(s) \in S /\ Tail(s) \in Seq(S) /\ Tail(s) # s
                        /\ s[1] = Head(s) /\ 1 \in DOMAIN s
         /\ s = <<>> => 1 \notin DOMAIN s
         /\ <<>> \in Seq(S)
<1>0. Len(s) \in Nat /\ (s # <<>> => Len(s) > 0) /\ s \in [1 .. Len(s) -> S]
  OBVIOUS
<1>1. ASSUME NEW x \in S
      PROVE  /\ Append(s, x) \in Seq(S) /\ Append(s, x) # <<>>
             /\ Head(Append(s, x)) = IF s = <<>> THEN x ELSE Head(s)
  <2>1. Append(s, x) \in Seq(S) /\ Len(Append(s, x)) = Len(s) + 1
    OBVIOUS
  <2>2. Append(s, x) # <<>> /\ Head(Append(s, x)) = Append(s, x)[1]
    BY <1>0, <2>1
  <2>3. CASE s = <<>>
    BY <2>2, <2>3
  <2>4. CASE s # <<>>
    <3>1. Append(s, x)[1] = s[1] /\ Head(s) = s[1]
      BY <1>0, <2>4
    <3> QED
      BY <2>1, <2>2, <2>4, <3>1
  <2> QED
    BY <2>3, <2>4
<1>2. ASSUME s # <<>>
      PROVE  /\ Head(s) \in S /\ Tail(s) \in Seq(S) /\ Tail(s) # s
             /\ s[1] = Head(s) /\ 1 \in DOMAIN s
  <2>1. Tail(s) \in Seq(S) /\ Len(Tail(s)) = Len(s) - 1
    BY <1>2
  <2>2. ASSUME Tail(s) = s PROVE FALSE
    <3>1. Len(Tail(s)) = Len(s)
      BY <2>2
    <3> QED
      BY <1>0, <2>1, <3>1
  <2>3. 1 \in 1 .. Len(s) /\ s[1] = Head(s) /\ s[1] \in S /\ DOMAIN s = 1 .. Len(s)
    BY <1>0, <1>2
  <2> QED
    BY <2>1, <2>2, <2>3
<1>3. s = <<>> => 1 \notin DOMAIN s
  OBVIOUS
<1> QED
  BY <1>1, <1>2, <1>3

\* An offer is not the cleared one.
LEMMA OfferIsOne ==
  /\ NoOffer \notin Offer
  /\ \A o \in Offer : o.server \in Server /\ o.xid \in Xid
  /\ NoOffer.server = Nobody /\ NoOffer.xid = NoXid
  /\ Nobody \notin Server /\ All \notin Server
BY ServerAssumption, XidAssumption DEF Offer, NoOffer

\* NextOffer keeps the list or drops its first offer, and adds the address of the
\* first one that is left.
LEMMA LeftOffers ==
  ASSUME TypeOK, offers # <<>>
  PROVE  /\ Left \in Seq(Offer)
         /\ Left = offers \/ (Left = Tail(offers) /\ Left # offers)
         /\ {Left[i].server : i \in DOMAIN Left \cap {1}} =
              IF Left = <<>> THEN {} ELSE {Head(Left).server}
<1>1. Left \in Seq(Offer) /\ (Left = offers \/ (Left = Tail(offers) /\ Left # offers))
  BY OfferLists DEF TypeOK, Left
<1>2. CASE Left = <<>>
  <2>1. DOMAIN Left \cap {1} = {}
    BY <1>1, <1>2, OfferLists
  <2> QED
    BY <1>1, <1>2, <2>1
<1>3. CASE Left # <<>>
  <2>1. DOMAIN Left \cap {1} = {1} /\ Left[1] = Head(Left)
    BY <1>1, <1>3, OfferLists
  <2> QED
    BY <1>1, <1>3, <2>1
<1> QED
  BY <1>1, <1>2, <1>3

\* The part of the types that is about flags, and the rest
Flags ==
  /\ running \in BOOLEAN /\ notice \in BOOLEAN /\ scheduled \in BOOLEAN
  /\ failed \in BOOLEAN /\ removed \in BOOLEAN

ClientTypes ==
  /\ state \in {"IDLE", "SENDING", "RECEIVING"}
  /\ target \in Server \cup {Nobody, All}
  /\ xid \in Xid \cup {NoXid}
  /\ offer \in Offer \cup {NoOffer}
  /\ expired \in {"none", "valid", "past"}

RestTypes ==
  /\ address \subseteq Server
  /\ settings \in Server \cup {Nobody}
  /\ offers \in Seq(Offer)
  /\ retries \in Nat
  /\ worker \in {"idle", "giveup", "install", "repeat", "restart", "discover",
                 "next", "draw", "fail", "accept", "report"}
  /\ sent \subseteq Message
  /\ admin \in {"idle", "revoke", "draw"}
  /\ strayed \subseteq {"late", "undefined"}

LEMMA SplitTypes == TypeOK <=> Flags /\ ClientTypes /\ RestTypes
BY DEF TypeOK, Flags, ClientTypes, RestTypes

\* The initial states satisfy the invariant.
LEMMA InitInv == Init => IndInv
<1> SUFFICES ASSUME Init PROVE IndInv
  OBVIOUS
<1>1. PICK s \in Server \cup {Nobody}, x \in Xid :
        /\ settings = s
        /\ offers = IF s = Nobody THEN <<>> ELSE <<[server |-> s, xid |-> x]>>
  BY DEF Init
<1>2. offers \in Seq(Offer)
  <2>1. s # Nobody => [server |-> s, xid |-> x] \in Offer
    BY DEF Offer
  <2> QED
    BY <1>1, <2>1
<1>3. Flags
  BY DEF Init, Flags
<1>4. ClientTypes
  BY DEF Init, ClientTypes
<1>5. RestTypes
  <2>1. /\ address = {} /\ retries = 0 /\ worker = "idle" /\ sent = {}
        /\ admin = "idle" /\ strayed = {}
    BY DEF Init
  <2> QED
    BY <1>1, <1>2, <2>1 DEF RestTypes
<1>6. Awake /\ Transaction /\ Leased /\ Storing /\ Configured /\ Scheduled
  BY DEF Init, Awake, Transaction, Leased, Storing, Configured, Scheduled, Drawing,
     HasActiveLease
<1> QED
  BY <1>3, <1>4, <1>5, <1>6, SplitTypes DEF IndInv

-----------------------------------------------------------------------------
\* What the engine asks of its client keeps the client's types.
LEMMA ClientSteps ==
  ASSUME ClientTypes
  PROVE  /\ \A o \in Offer \cup {NoOffer} : Request(o) => ClientTypes'
         /\ StartDiscover \/ Close \/ Draw \/ UNCHANGED clientVars => ClientTypes'
<1> USE OfferIsOne DEF ClientTypes, clientVars
<1>1. ASSUME NEW o \in Offer \cup {NoOffer}, Request(o) PROVE ClientTypes'
  BY <1>1 DEF Request
<1>2. ASSUME StartDiscover \/ Close \/ Draw \/ UNCHANGED clientVars PROVE ClientTypes'
  BY <1>2 DEF StartDiscover, Close, Draw
<1> QED
  BY <1>1, <1>2

\* Every step keeps every variable's type.
LEMMA StepTypes == TypeOK /\ [Next]_vars => TypeOK'
<1> SUFFICES ASSUME Flags, ClientTypes, RestTypes, [Next]_vars
             PROVE  Flags' /\ ClientTypes' /\ RestTypes'
  BY DEF TypeOK, Flags, ClientTypes, RestTypes
<1>t. TypeOK
  BY SplitTypes
<1> DEFINE Keeps == Flags' /\ ClientTypes' /\ RestTypes'
<1> USE NumberAssumption, OfferIsOne, ClientSteps
    DEF vars, adapterVars, engineVars, historyVars
<1>f. ASSUME UNCHANGED <<running, notice, failed, removed>>,
             scheduled' = scheduled \/ scheduled' = TRUE
      PROVE  Flags'
  BY <1>f DEF Flags
<1>1. ASSUME Dispatch PROVE Keeps
  <2>1. Case \in {"giveup", "install", "repeat", "restart", "discover", "next"}
    BY DEF Case
  <2>2. Flags'
    BY <1>1 DEF Dispatch, Flags
  <2>3. RestTypes'
    BY <1>1, <2>1 DEF Dispatch, RestTypes
  <2> QED
    BY <1>1, <2>2, <2>3 DEF Dispatch
<1>2. ASSUME GiveUp PROVE Keeps
  BY <1>2, <1>f DEF GiveUp, Acts, RestTypes
<1>3. ASSUME Rediscover PROVE Keeps
  <2>1. Flags'
    BY <1>3 DEF Rediscover, ClearLease, Reschedule, Flags
  <2>2. RestTypes'
    BY <1>3, OfferLists DEF Rediscover, ClearLease, RestTypes
  <2> QED
    BY <1>3, <2>1, <2>2 DEF Rediscover
<1>4. ASSUME Repeat PROVE Keeps
  <2>1. ClientTypes'
    BY <1>4 DEF Repeat, ClientTypes
  <2> QED
    BY <1>4, <1>f, <2>1 DEF Repeat, Reschedule, Acts, RestTypes
<1>5. ASSUME NextOffer PROVE Keeps
  <2>1. offers # <<>> /\ Head(offers) \in Offer
    BY <1>5, OfferLists DEF NextOffer, RestTypes
  <2>2. Left \in Seq(Offer) /\ (Left # <<>> => Head(Left) \in Offer)
    BY <1>t, <2>1, LeftOffers, OfferLists
  <2>3. address' \subseteq Server
    <3>1. {Left[i].server : i \in DOMAIN Left \cap {1}} \subseteq Server
      BY <1>t, <2>1, <2>2, LeftOffers
    <3> QED
      BY <1>5, <3>1 DEF NextOffer, RestTypes
  <2>4. ClientTypes'
    BY <1>5, <2>2 DEF NextOffer
  <2>5. Flags'
    <3>1. (removed \/ (Left # offers /\ Preferred)) \in BOOLEAN
      BY DEF Preferred
    <3> QED
      BY <1>5, <3>1 DEF NextOffer, Reschedule, Flags
  <2>6. RestTypes'
    BY <1>5, <2>2, <2>3 DEF NextOffer, RestTypes
  <2> QED
    BY <2>4, <2>5, <2>6
<1>6. ASSUME Undefined PROVE Keeps
  BY <1>6, <1>f DEF Undefined, RestTypes
<1>7. ASSUME Install PROVE Keeps
  <2>1. Flags'
    <3>1. /\ UNCHANGED <<running, notice, failed, removed>>
          /\ scheduled' = scheduled \/ scheduled' = TRUE
      BY <1>7 DEF Install, Acts, Reschedule
    <3> QED
      BY <1>f, <3>1
  <2>2. RestTypes'
    <3>1. /\ UNCHANGED <<address, offers, sent, admin, strayed>>
          /\ settings' = offer.server
          /\ worker' \in {"accept", "idle"}
          /\ retries' = retries \/ retries' = 0
      BY <1>7 DEF Install, Acts
    <3>2. offer.server \in Server \cup {Nobody}
      BY DEF ClientTypes
    <3> QED
      BY <3>1, <3>2 DEF RestTypes
  <2> QED
    BY <1>7, <2>1, <2>2 DEF Install
<1>8. ASSUME Accept PROVE Keeps
  <2>1. Flags'
    BY <1>8 DEF Accept, Flags
  <2>2. RestTypes'
    BY <1>8 DEF Accept, RestTypes, ClientTypes
  <2> QED
    BY <1>8, <2>1, <2>2 DEF Accept
<1>9. ASSUME Report PROVE Keeps
  BY <1>9, <1>f DEF Report, Acts, Reschedule, RestTypes
<1>10. ASSUME Fail PROVE Keeps
  <2>1. Flags'
    BY <1>10 DEF Fail, Flags
  <2> QED
    BY <1>10, <2>1 DEF Fail, RestTypes
<1>11. ASSUME WorkerDraws \/ AdminDraws PROVE Keeps
  <2>1. RestTypes'
    BY <1>11 DEF WorkerDraws, AdminDraws, Draw, RestTypes
  <2> QED
    BY <1>11, <1>f, <2>1 DEF WorkerDraws, AdminDraws
<1>12. ASSUME Reload, notice' \in BOOLEAN PROVE Keeps
  <2>1. Flags'
    <3>1. (removed /\ settings = Nobody) \in BOOLEAN
      OBVIOUS
    <3> QED
      BY <1>12, <3>1 DEF Reload, Flags
  <2>2. RestTypes'
    BY <1>12 DEF Reload, SetIP, RestTypes
  <2> QED
    BY <1>12, <2>1, <2>2 DEF Reload
<1>13. ASSUME ActivityDown PROVE Keeps
  <2>1. Flags'
    BY <1>13 DEF ActivityDown, Flags
  <2> QED
    BY <1>13, <2>1 DEF ActivityDown, RestTypes
<1>14. ASSUME Restart PROVE Keeps
  <2>1. Flags'
    BY <1>14 DEF Restart, AskAgain, StartOver, ClearLease, Flags
  <2>2. RestTypes'
    <3>1. /\ UNCHANGED <<address, retries, worker, sent, strayed>>
          /\ admin' \in {"idle", "draw"}
          /\ settings' = settings \/ settings' = Nobody
          /\ offers' = offers \/ offers' = <<>>
      BY <1>14 DEF Restart, AskAgain, StartOver, ClearLease
    <3>2. <<>> \in Seq(Offer) /\ offers \in Seq(Offer)
      BY DEF RestTypes
    <3>3. offers' \in Seq(Offer)
      BY <3>1, <3>2, Zenon
    <3> QED
      BY <3>1, <3>3 DEF RestTypes
  <2>3. CASE AskAgain
    <3>1. Head(offers) \in Offer
      BY <2>3, OfferLists DEF AskAgain, Preferred, RestTypes
    <3> QED
      BY <2>1, <2>2, <2>3, <3>1 DEF AskAgain
  <2>4. CASE StartOver
    BY <2>1, <2>2, <2>4 DEF StartOver
  <2> QED
    BY <1>14, <2>3, <2>4 DEF Restart
<1>15. ASSUME NEW s \in Server, ReceiveOffer(s) PROVE Keeps
  <2>1. xid \in Xid
    BY <1>15 DEF ReceiveOffer, Answers, Message, RestTypes
  <2>2. [server |-> s, xid |-> xid] \in Offer
    BY <2>1 DEF Offer
  <2>3. offers' \in Seq(Offer)
    BY <1>15, <2>2, OfferLists DEF ReceiveOffer, RestTypes
  <2>4. Flags'
    <3>1. (scheduled \/ Wakes) \in BOOLEAN
      OBVIOUS
    <3> QED
      BY <1>15, <3>1 DEF ReceiveOffer, Flags
  <2> QED
    BY <1>15, <2>3, <2>4 DEF ReceiveOffer, RestTypes
<1>16. ASSUME NEW s \in Server, ReceiveAck(s) PROVE Keeps
  <2>1. ClientTypes'
    BY <1>16 DEF ReceiveAck, ClientTypes
  <2>2. strayed' \subseteq {"late", "undefined"}
    BY <1>16 DEF ReceiveAck, RestTypes
  <2> QED
    BY <1>16, <1>f, <2>1, <2>2 DEF ReceiveAck, RestTypes
<1>17. ASSUME NEW s \in Server, ReceiveNak(s) PROVE Keeps
  <2>1. ClientTypes'
    BY <1>17 DEF ReceiveNak, ClientTypes
  <2> QED
    BY <1>17, <1>f, <2>1 DEF ReceiveNak, RestTypes
<1>18. ASSUME SendData PROVE Keeps
  <2>1. ClientTypes'
    BY <1>18 DEF SendData, ClientTypes
  <2> QED
    BY <1>18, <1>f, <2>1 DEF SendData, RestTypes
<1>19. ASSUME Expire \/ Link PROVE Keeps
  <2>1. Flags' /\ ClientTypes'
    BY <1>19 DEF Expire, Link, Flags, ClientTypes, clientVars
  <2> QED
    BY <1>19, <2>1 DEF Expire, Link, RestTypes
<1>20. CASE UNCHANGED vars
  BY <1>20 DEF Flags, RestTypes
<1> QED
  BY <1>1, <1>2, <1>3, <1>4, <1>5, <1>6, <1>7, <1>8, <1>9, <1>10, <1>11, <1>12,
     <1>13, <1>14, <1>15, <1>16, <1>17, <1>18, <1>19, <1>20
     DEF Next, Worker, Flush, ActivityUp, Admin, Network, Flags

-----------------------------------------------------------------------------
\* Dispatch goes on in one of its cases, and is not idle then.
LEMMA CaseKinds ==
  /\ Case \in {"giveup", "install", "repeat", "restart", "discover", "next"}
  /\ Case = "install" => expired = "valid"
BY DEF Case

\* What went astray is not forgotten.
LEMMA StrayedStays == [Next]_vars /\ strayed' = {} => strayed = {}
<1> SUFFICES ASSUME [Next]_vars, strayed' = {} PROVE strayed = {}
  OBVIOUS
<1> USE DEF historyVars, Acts
<1>1. strayed \subseteq strayed'
  <2>1. CASE Worker
    BY <2>1 DEF Worker, Dispatch, GiveUp, Rediscover, Repeat, NextOffer, Undefined,
       Install, Accept, Report, Fail, WorkerDraws
  <2>2. CASE Flush \/ Admin
    BY <2>2 DEF Flush, Admin, Reload, ActivityUp, ActivityDown, Restart, AdminDraws
  <2>3. CASE Network
    BY <2>3 DEF Network, ReceiveOffer, ReceiveAck, ReceiveNak, SendData, Expire, Link
  <2>4. CASE UNCHANGED vars
    BY <2>4 DEF vars
  <2> QED
    BY <2>1, <2>2, <2>3, <2>4 DEF Next
<1> QED
  BY <1>1

\* A Discover that is being started has no lease.
LEMMA DrawingHasNoLease ==
  ASSUME IndInv, strayed = {}, Drawing
  PROVE  ~HasActiveLease /\ offer = NoOffer /\ (state = "SENDING" \/ worker = "fail")
BY DEF IndInv, Transaction, Leased

\* Every case of Dispatch ends by scheduling the job again, by reporting Failed, or
\* astray; and every restart schedules it.
LEMMA StepAwake == IndInv /\ [Next]_vars => Awake' /\ Scheduled'
<1> SUFFICES ASSUME IndInv, [Next]_vars PROVE Awake' /\ Scheduled'
  OBVIOUS
<1>0. /\ Awake /\ Scheduled
      /\ running \in BOOLEAN /\ notice \in BOOLEAN /\ scheduled \in BOOLEAN
      /\ failed \in BOOLEAN
  BY DEF IndInv, TypeOK
<1> USE DEF adapterVars, historyVars
\* The job is scheduled, or the worker is at work or went astray, and it did not
\* come out of a case.
<1>a. ASSUME scheduled' \/ (worker' \notin {"idle", "draw"}) \/ "undefined" \in strayed'
      PROVE  Awake' /\ Scheduled'
  BY <1>a DEF Awake, Scheduled
\* Nothing changes for the worker.
<1>b. ASSUME scheduled => scheduled', worker' = worker, admin' = admin,
             "undefined" \in strayed => "undefined" \in strayed',
             running' /\ ~failed' => notice' \/ (running /\ ~failed /\ (notice => notice'))
      PROVE  Awake' /\ Scheduled'
  BY <1>0, <1>b, Zenon DEF Awake, Scheduled
<1>1. ASSUME Dispatch PROVE Awake' /\ Scheduled'
  BY <1>1, <1>a, CaseKinds DEF Dispatch
<1>2. ASSUME GiveUp PROVE Awake' /\ Scheduled'
  BY <1>2, <1>a DEF GiveUp, Acts
<1>3. ASSUME Rediscover \/ Repeat \/ NextOffer \/ Report \/ Restart
      PROVE  Awake' /\ Scheduled'
  BY <1>3, <1>a DEF Rediscover, Repeat, NextOffer, Report, Restart, Reschedule
<1>4. ASSUME Undefined PROVE Awake' /\ Scheduled'
  BY <1>4, <1>a DEF Undefined
<1>5. ASSUME Install PROVE Awake' /\ Scheduled'
  <2>1. worker' = "accept" \/ scheduled'
    BY <1>5 DEF Install, Acts, Reschedule
  <2> QED
    BY <1>a, <2>1
<1>6. ASSUME Accept PROVE Awake' /\ Scheduled'
  BY <1>6, <1>a DEF Accept
<1>7. ASSUME Fail PROVE Awake' /\ Scheduled'
  BY <1>7 DEF Fail, Unlocked, Awake, Scheduled
<1>8. ASSUME WorkerDraws, "undefined" \notin strayed PROVE Awake' /\ Scheduled'
  <2>1. scheduled' = scheduled /\ scheduled
    BY <1>0, <1>8 DEF WorkerDraws, Scheduled
  <2> QED
    BY <1>a, <2>1
<1>9. ASSUME AdminDraws, "undefined" \notin strayed PROVE Awake' /\ Scheduled'
  <2>1. /\ scheduled' = scheduled /\ worker' = worker
        /\ admin = "draw" /\ admin' = "idle"
        /\ worker \in {"idle", "draw"} => scheduled
    BY <1>0, <1>9 DEF AdminDraws, Scheduled
  <2> QED
    BY <1>a, <2>1
<1>10. ASSUME Reload PROVE Awake' /\ Scheduled'
  <2>1. admin' = "revoke" /\ worker' = worker /\ scheduled' = scheduled /\ strayed' = strayed
    BY <1>10 DEF Reload
  <2> QED
    BY <1>0, <2>1 DEF Awake, Scheduled
<1>11. ASSUME ActivityDown PROVE Awake' /\ Scheduled'
  <2>1. /\ ~running' /\ admin' = admin /\ worker' = worker
        /\ scheduled' = scheduled /\ strayed' = strayed
    BY <1>11 DEF ActivityDown
  <2> QED
    BY <1>0, <2>1 DEF Awake, Scheduled
<1>12. ASSUME NEW s \in Server, ReceiveOffer(s) PROVE Awake' /\ Scheduled'
  BY <1>12, <1>b, Zenon DEF ReceiveOffer
<1>13. ASSUME NEW s \in Server, ReceiveAck(s) \/ ReceiveNak(s) PROVE Awake' /\ Scheduled'
  BY <1>13, <1>a DEF ReceiveAck, ReceiveNak
<1>14. ASSUME SendData \/ Expire PROVE Awake' /\ Scheduled'
  BY <1>14, <1>b DEF SendData, Expire
<1>15. ASSUME Link PROVE Awake' /\ Scheduled'
  BY <1>15, <1>b DEF Link
<1>16. ASSUME UNCHANGED vars PROVE Awake' /\ Scheduled'
  BY <1>16, <1>b DEF vars
<1> QED
  BY <1>1, <1>2, <1>3, <1>4, <1>5, <1>6, <1>7, <1>8, <1>9, <1>10, <1>11, <1>12,
     <1>13, <1>14, <1>15, <1>16
     DEF Next, Worker, Flush, ActivityUp, Admin, Network

\* No Request is made, and no message sent, while a Discover is being started.
LEMMA StepTransaction == IndInv /\ [Next]_vars => Transaction'
<1> SUFFICES ASSUME IndInv, [Next]_vars, strayed' = {}
             PROVE  /\ offer' # NoOffer => offer'.xid = xid'
                    /\ Drawing' => offer' = NoOffer /\ (state' = "SENDING" \/ worker' = "fail")
  BY DEF Transaction
<1> DEFINE Goal == /\ offer' # NoOffer => offer'.xid = xid'
                   /\ Drawing' => offer' = NoOffer /\ (state' = "SENDING" \/ worker' = "fail")
<1>0. strayed = {} => /\ offer # NoOffer => offer.xid = xid
                      /\ Drawing => offer = NoOffer /\ (state = "SENDING" \/ worker = "fail")
  BY DEF IndInv, Transaction
<1> USE OfferIsOne DEF adapterVars, engineVars, clientVars, historyVars
<1> HIDE DEF Goal
\* The client is left alone, and the worker does not leave "fail".
<1>a. ASSUME strayed = {}, UNCHANGED <<state, xid, offer>>, Drawing' => Drawing,
             worker = "fail" => worker' = "fail"
      PROVE  Goal
  BY <1>0, <1>a DEF Goal
<1>r. ASSUME strayed = {}, NEW o \in Offer \cup {NoOffer}, Request(o),
             worker # "fail", Drawing' => Drawing
      PROVE  Goal
  <2>1. CASE state = "SENDING"
    BY <1>a, <1>r, <2>1 DEF Request
  <2>2. CASE state # "SENDING"
    BY <1>0, <1>r, <2>2 DEF Request, Goal
  <2> QED
    BY <2>1, <2>2
<1>d. ASSUME strayed = {}, StartDiscover, worker # "fail",
             Drawing' /\ state = "SENDING" => Drawing
      PROVE  Goal
  <2>1. CASE state = "SENDING"
    BY <1>a, <1>d, <2>1 DEF StartDiscover
  <2>2. CASE state # "SENDING"
    BY <1>d, <2>2 DEF StartDiscover, Goal
  <2> QED
    BY <2>1, <2>2
<1>1. ASSUME strayed = {}, Dispatch PROVE Goal
  BY <1>1, <1>a, CaseKinds DEF Dispatch, Drawing
<1>2. ASSUME strayed = {}, GiveUp PROVE Goal
  <2>1. /\ worker' = "fail" /\ UNCHANGED <<xid, offer, admin>> /\ worker = "giveup"
    BY <1>2 DEF GiveUp, Close, Acts
  <2> QED
    BY <1>0, <1>2, <2>1 DEF Goal, Drawing
<1>3. ASSUME strayed = {}, Rediscover PROVE Goal
  BY <1>3, <1>d DEF Rediscover, Drawing
<1>4. ASSUME strayed = {}, Repeat PROVE Goal
  <2>1. offer \in Offer \cup {NoOffer}
    BY DEF IndInv, TypeOK
  <2> QED
    BY <1>4, <1>r, <2>1 DEF Repeat, Acts, Drawing
<1>5. ASSUME strayed = {}, NextOffer PROVE Goal
  <2>1. /\ worker = "next" /\ worker' = "idle" /\ admin' = admin /\ offers # <<>>
        /\ IF Left = <<>> THEN UNCHANGED clientVars ELSE Request(Head(Left))
    BY <1>5 DEF NextOffer
  <2>2. CASE Left = <<>>
    BY <1>5, <1>a, <2>1, <2>2 DEF Drawing
  <2>3. CASE Left # <<>>
    <3>1. Head(Left) \in Offer
      BY <2>1, <2>3, LeftOffers, OfferLists DEF IndInv
    <3> QED
      BY <1>5, <1>r, <2>1, <2>3, <3>1 DEF Drawing
  <2> QED
    BY <2>2, <2>3
<1>6. ASSUME strayed = {}, Install \/ Accept PROVE Goal
  <2>1. /\ worker \in {"install", "accept"} /\ worker' \in {"accept", "idle", "report"}
        /\ UNCHANGED <<state, xid, offer, admin>>
    BY <1>6 DEF Install, Accept, Acts
  <2> QED
    BY <1>6, <1>a, <2>1 DEF Drawing
<1>7. ASSUME strayed = {}, Report \/ Fail PROVE Goal
  <2>1. /\ admin = "idle" /\ admin' = "idle" /\ worker' = "idle" /\ UNCHANGED <<xid, offer>>
    BY <1>7 DEF Report, Fail, Unlocked, Close, Acts
  <2> QED
    BY <1>0, <1>7, <2>1 DEF Goal, Drawing
<1>8. ASSUME strayed = {}, WorkerDraws \/ AdminDraws PROVE Goal
  <2>1. /\ Drawing /\ UNCHANGED <<state, offer>>
        /\ (worker = "draw" /\ worker' = "idle") \/ worker' = worker
    BY <1>8 DEF WorkerDraws, AdminDraws, Draw, Drawing
  <2> QED
    BY <1>0, <1>8, <2>1 DEF Goal
<1>9. ASSUME strayed = {}, Reload \/ ActivityDown PROVE Goal
  <2>1. UNCHANGED <<state, xid, offer, worker>> /\ (admin' = "revoke" \/ admin' = admin)
    BY <1>9 DEF Reload, ActivityDown
  <2> QED
    BY <1>9, <1>a, <2>1 DEF Drawing
<1>10. ASSUME strayed = {}, Restart PROVE Goal
  <2>1. worker = "idle" /\ worker' = "idle" /\ admin = "revoke"
    BY <1>10 DEF Restart, Revoked
  <2>2. CASE AskAgain
    <3>1. Head(offers) \in Offer
      BY <2>2, OfferLists DEF AskAgain, Preferred, IndInv, TypeOK
    <3> QED
      BY <1>10, <1>r, <2>1, <2>2, <3>1 DEF AskAgain, Drawing
  <2>3. CASE StartOver
    BY <1>10, <1>d, <2>1, <2>3 DEF StartOver, Drawing
  <2> QED
    BY <1>10, <2>2, <2>3 DEF Restart
<1>11. ASSUME strayed = {}, NEW s \in Server, ReceiveOffer(s) PROVE Goal
  BY <1>11, <1>a DEF ReceiveOffer, Drawing
<1>12. ASSUME strayed = {}, NEW s \in Server, ReceiveAck(s) PROVE Goal
  <2>1. offer.server = s
    BY <1>12 DEF ReceiveAck, Meets
  <2>2. offer # NoOffer /\ UNCHANGED <<xid, offer, worker, admin>>
    BY <1>12, <2>1 DEF ReceiveAck
  <2> QED
    BY <1>0, <1>12, <2>2 DEF Goal, Drawing
<1>13. ASSUME strayed = {}, NEW s \in Server, ReceiveNak(s) PROVE Goal
  <2>1. offer' = NoOffer /\ UNCHANGED <<state, worker, admin>>
    BY <1>13 DEF ReceiveNak
  <2> QED
    BY <1>0, <1>13, <2>1 DEF Goal, Drawing
<1>14. ASSUME strayed = {}, SendData PROVE Goal
  <2>1. ~Drawing /\ UNCHANGED <<xid, offer, worker, admin>>
    BY <1>14 DEF SendData, Drawing
  <2> QED
    BY <1>0, <1>14, <2>1 DEF Goal, Drawing
<1>15. ASSUME strayed = {}, Expire \/ Link \/ UNCHANGED vars PROVE Goal
  BY <1>15, <1>a DEF Expire, Link, vars, Drawing
<1>16. strayed = {}
  BY StrayedStays
<1>17. Goal
  BY <1>1, <1>2, <1>3, <1>4, <1>5, <1>6, <1>7, <1>8, <1>9, <1>10, <1>11, <1>12,
     <1>13, <1>14, <1>15, <1>16
     DEF Next, Worker, Undefined, Flush, ActivityUp, Admin, Network
<1> QED
  BY <1>17 DEF Goal

\* While there is a lease the client is closed: nothing arrives that could disturb
\* it, and what asks for another one forgets it.
LEMMA StepLeased == IndInv /\ [Next]_vars => Leased'
<1> SUFFICES ASSUME IndInv, [Next]_vars, strayed' = {}, HasActiveLease'
             PROVE  /\ state' = "IDLE"
                    /\ offer' # NoOffer
                    /\ <<offer'.server, offer'.xid>> \in sent'
                    /\ offers' = <<>> \/ Head(offers') = offer'
  BY DEF Leased, HasActiveLease
<1> DEFINE Goal == /\ state' = "IDLE"
                   /\ offer' # NoOffer
                   /\ <<offer'.server, offer'.xid>> \in sent'
                   /\ offers' = <<>> \/ Head(offers') = offer'
<1>0. strayed = {} /\ HasActiveLease =>
         /\ state = "IDLE"
         /\ offer # NoOffer
         /\ <<offer.server, offer.xid>> \in sent
         /\ offers = <<>> \/ Head(offers) = offer
  BY DEF IndInv, Leased
<1> USE OfferIsOne DEF adapterVars, engineVars, clientVars, historyVars, HasActiveLease
<1> HIDE DEF Goal
\* The lease stays, and the list of offers or is emptied.
<1>a. ASSUME strayed = {}, expired # "none", offer' = offer, sent' = sent,
             state' = state \/ state' = "IDLE", offers' = offers \/ offers' = <<>>
      PROVE  Goal
  BY <1>0, <1>a DEF Goal
<1>r. ASSUME strayed = {}, NEW o, Request(o) PROVE FALSE
  BY <1>0, <1>r DEF Request
<1>d. ASSUME strayed = {}, StartDiscover PROVE FALSE
  BY <1>0, <1>d DEF StartDiscover
<1>1. ASSUME strayed = {}, Dispatch PROVE Goal
  BY <1>1, <1>a DEF Dispatch
<1>2. ASSUME strayed = {}, GiveUp \/ Report PROVE Goal
  BY <1>2, <1>a DEF GiveUp, Report, Close, Acts
<1>3. ASSUME strayed = {}, Rediscover \/ Repeat PROVE Goal
  BY <1>3, <1>d, <1>r DEF Rediscover, Repeat
<1>5. ASSUME strayed = {}, NextOffer PROVE Goal
  <2>1. Left = <<>> /\ offers' = <<>> /\ UNCHANGED <<clientVars, sent>>
    BY <1>5, <1>r DEF NextOffer
  <2> QED
    BY <1>5, <1>a, <2>1
<1>6. ASSUME strayed = {}, Install \/ Accept \/ Fail PROVE Goal
  BY <1>6, <1>a DEF Install, Accept, Fail, Acts
<1>8. ASSUME strayed = {}, WorkerDraws \/ AdminDraws PROVE Goal
  BY <1>8, DrawingHasNoLease DEF WorkerDraws, AdminDraws, Draw, Drawing
<1>9. ASSUME strayed = {}, Reload \/ ActivityDown PROVE Goal
  BY <1>9, <1>a DEF Reload, ActivityDown
<1>10. ASSUME strayed = {}, Restart PROVE Goal
  BY <1>10, <1>d, <1>r DEF Restart, AskAgain, StartOver
<1>11. ASSUME strayed = {}, NEW s \in Server, ReceiveOffer(s) \/ ReceiveNak(s) PROVE Goal
  BY <1>0, <1>11 DEF ReceiveOffer, ReceiveNak, Answers
<1>12. ASSUME strayed = {}, NEW s \in Server, ReceiveAck(s) PROVE Goal
  <2>1. Meets(s) /\ Answers(s)
    BY <1>12 DEF ReceiveAck
  <2>2. offer # NoOffer
    BY <2>1 DEF Meets
  <2>3. offer.xid = xid
    BY <1>12, <2>2 DEF IndInv, Transaction
  <2>4. state' = "IDLE" /\ UNCHANGED <<offer, offers, sent>>
    BY <1>12 DEF ReceiveAck
  <2> QED
    BY <2>1, <2>2, <2>3, <2>4 DEF Goal, Meets, Answers
<1>14. ASSUME strayed = {}, SendData PROVE Goal
  BY <1>0, <1>14 DEF SendData
<1>15. ASSUME strayed = {}, Expire \/ Link \/ UNCHANGED vars PROVE Goal
  BY <1>15, <1>a DEF Expire, Link, vars
<1>16. strayed = {}
  BY StrayedStays
<1>18. ~Undefined
  BY DEF Undefined
<1>17. Goal
  BY <1>1, <1>2, <1>3, <1>5, <1>6, <1>8, <1>9, <1>10, <1>11, <1>12, <1>14, <1>15,
     <1>16, <1>18
     DEF Next, Worker, Flush, ActivityUp, Admin, Network
<1> QED
  BY <1>17 DEF Goal

\* Only the worker itself, and a restart that waits for it, forget a lease that is
\* being stored; a refusal cannot arrive then.
LEMMA StepStoring == IndInv /\ [Next]_vars => Storing'
<1> SUFFICES ASSUME IndInv, [Next]_vars, strayed' = {}
             PROVE  /\ worker' \in {"install", "accept"} => expired' # "none"
                    /\ worker' = "accept" => settings' = offer'.server
  BY DEF Storing, HasActiveLease
<1> DEFINE Goal == /\ worker' \in {"install", "accept"} => expired' # "none"
                   /\ worker' = "accept" => settings' = offer'.server
<1>0. strayed = {} => /\ worker \in {"install", "accept"} => expired # "none" /\ state = "IDLE"
                      /\ worker = "accept" => settings = offer.server
  BY DEF IndInv, Storing, Leased, HasActiveLease
<1> USE DEF adapterVars, engineVars, clientVars, historyVars, Acts
<1> HIDE DEF Goal
<1>a. ASSUME worker' \notin {"install", "accept"} PROVE Goal
  BY <1>a DEF Goal
<1>b. ASSUME strayed = {}, UNCHANGED <<worker, settings, offer>>,
             expired # "none" => expired' # "none"
      PROVE  Goal
  BY <1>0, <1>b DEF Goal
<1>1. ASSUME Dispatch PROVE Goal
  BY <1>1, CaseKinds DEF Dispatch, Goal
<1>2. ASSUME GiveUp \/ Rediscover \/ Repeat \/ NextOffer \/ Accept \/ Report \/ Fail
               \/ WorkerDraws
      PROVE  Goal
  BY <1>2, <1>a DEF GiveUp, Rediscover, Repeat, NextOffer, Accept, Report, Fail,
     WorkerDraws
<1>3. ASSUME strayed = {}, Install PROVE Goal
  <2>1. /\ worker = "install" /\ worker' \in {"idle", "accept"}
        /\ settings' = offer.server /\ UNCHANGED <<offer, expired>>
    BY <1>3 DEF Install
  <2> QED
    BY <1>0, <1>3, <2>1 DEF Goal
<1>4. ASSUME Restart PROVE Goal
  BY <1>4, <1>a DEF Restart, Revoked
<1>5. ASSUME strayed = {}, AdminDraws \/ Reload \/ ActivityDown \/ SendData \/ Expire
               \/ Link \/ UNCHANGED vars
      PROVE  Goal
  <2>1. /\ UNCHANGED <<worker, settings, offer>>
        /\ expired # "none" => expired' # "none"
    BY <1>5 DEF AdminDraws, Draw, Reload, ActivityDown, SendData, Expire, Link, vars
  <2> QED
    BY <1>5, <1>b, <2>1
<1>6. ASSUME strayed = {}, NEW s \in Server, ReceiveOffer(s) PROVE Goal
  BY <1>6, <1>b DEF ReceiveOffer
<1>7. ASSUME strayed = {}, NEW s \in Server, ReceiveAck(s) PROVE Goal
  <2>1. UNCHANGED <<worker, settings, offer>> /\ expired' # "none"
    BY <1>7 DEF ReceiveAck
  <2> QED
    BY <1>7, <1>b, <2>1
<1>8. ASSUME strayed = {}, NEW s \in Server, ReceiveNak(s) PROVE Goal
  <2>1. state # "IDLE" /\ worker' = worker
    BY <1>8 DEF ReceiveNak, Answers
  <2> QED
    BY <1>0, <1>8, <1>a, <2>1
<1>9. ~Undefined
  BY DEF Undefined
<1>10. strayed = {}
  BY StrayedStays
<1>11. Goal
  BY <1>1, <1>2, <1>3, <1>4, <1>5, <1>6, <1>7, <1>8, <1>9, <1>10
     DEF Next, Worker, Flush, ActivityUp, Admin, Network
<1> QED
  BY <1>11 DEF Goal

\* The address of the settings goes on the adapter with them, and is deleted only
\* with a note of it; beside it the adapter has that of the offer being tried.
LEMMA StepConfigured == IndInv /\ [Next]_vars => Configured'
<1> DEFINE Held == /\ settings \in address
                   /\ \A s \in address :
                        s = settings \/ (offers # <<>> /\ s = Head(offers).server)
           Goal == /\ settings' \in address'
                   /\ \A s \in address' :
                        s = settings' \/ (offers' # <<>> /\ s = Head(offers').server)
<1> SUFFICES ASSUME IndInv, [Next]_vars, strayed' = {}, ~removed', running', ~notice',
                    settings' # Nobody, worker' # "accept"
             PROVE  Goal
  BY DEF Configured
<1>0. strayed = {} /\ ~removed /\ running /\ ~notice /\ settings # Nobody
        /\ worker # "accept" => Held
  BY DEF IndInv, Configured
<1>t. offers \in Seq(Offer)
  BY DEF IndInv, TypeOK
<1> USE DEF adapterVars, engineVars, clientVars, historyVars, Acts
\* Nothing of it changes, or an offer is appended.
<1>a. ASSUME strayed = {}, UNCHANGED <<address, settings, offers, removed, running, notice>>,
             worker # "accept"
      PROVE  Goal
  BY <1>0, <1>a
<1> HIDE DEF Goal
<1>1. ASSUME strayed = {}, Dispatch \/ Repeat \/ Report \/ Fail \/ WorkerDraws
               \/ GiveUp
      PROVE  Goal
  <2>1. /\ UNCHANGED <<address, settings, offers, removed, running, notice>>
        /\ worker # "accept"
    BY <1>1 DEF Dispatch, Repeat, Report, Fail, WorkerDraws, GiveUp
  <2> QED
    BY <1>1, <1>a, <2>1
<1>2. ASSUME Rediscover \/ (Restart /\ StartOver) PROVE Goal
  BY <1>2 DEF Rediscover, StartOver, ClearLease
<1>3. ASSUME strayed = {}, NextOffer PROVE Goal
  <2>1. /\ offers # <<>> /\ offers' = Left /\ settings' = settings
        /\ address' = (IF Left = offers THEN address ELSE address \ {Head(offers).server})
                        \cup {Left[i].server : i \in DOMAIN Left \cap {1}}
        /\ removed' = (removed \/ (Left # offers /\ Preferred))
        /\ running' = running /\ notice' = notice /\ worker = "next"
    BY <1>3 DEF NextOffer
  <2>2. Held
    BY <1>0, <1>3, <2>1
  <2>3. {Left[i].server : i \in DOMAIN Left \cap {1}} =
          IF Left = <<>> THEN {} ELSE {Head(Left).server}
    BY <2>1, LeftOffers DEF IndInv
  <2>4. CASE Left = offers
    <3>1. address' = address \cup {Head(offers).server}
      BY <2>1, <2>3, <2>4
    <3> QED
      BY <2>1, <2>2, <2>4, <3>1 DEF Goal
  <2>5. CASE Left # offers
    <3>1. Head(offers).server # settings
      BY <2>1, <2>5 DEF Preferred
    <3>2. address' = (address \ {Head(offers).server})
                       \cup IF Left = <<>> THEN {} ELSE {Head(Left).server}
      BY <2>1, <2>3, <2>5
    <3> QED
      BY <2>1, <2>2, <3>1, <3>2 DEF Goal
  <2> QED
    BY <2>4, <2>5
<1>4. ASSUME strayed = {}, Install PROVE Goal
  <2>1. /\ settings' = offer.server /\ worker' = "idle" /\ worker = "install"
        /\ UNCHANGED <<address, offers, removed, running, notice>>
        /\ settings = offer.server
    BY <1>4 DEF Install, Updated
  <2> QED
    BY <1>4, <1>a, <2>1
<1>5. ASSUME strayed = {}, Accept PROVE Goal
  <2>1. expired # "none" /\ settings = offer.server
    BY <1>5 DEF Accept, IndInv, Storing, HasActiveLease
  <2>2. offer # NoOffer
    BY <1>5, <2>1 DEF IndInv, Leased, HasActiveLease
  <2>3. address' = {offer.server} /\ settings' = settings
    BY <1>5, <2>2 DEF Accept
  <2> QED
    BY <2>1, <2>3 DEF Goal
<1>6. ASSUME Reload PROVE Goal
  BY <1>6 DEF Reload, SetIP, Goal
<1>7. ASSUME Link \/ ActivityDown PROVE FALSE
  BY <1>7 DEF Link, ActivityDown
<1>8. ASSUME strayed = {}, Restart, AskAgain PROVE Goal
  BY <1>8, <1>a DEF Restart, AskAgain, Revoked
<1>9. ASSUME strayed = {}, NEW s \in Server, ReceiveOffer(s) PROVE Goal
  <2>1. /\ offers' = Append(offers, [server |-> s, xid |-> xid])
        /\ UNCHANGED <<address, settings, removed, running, notice, worker>>
    BY <1>9 DEF ReceiveOffer
  <2>2. xid \in Xid
    BY <1>9 DEF ReceiveOffer, Answers, Message, IndInv, TypeOK
  <2>3. [server |-> s, xid |-> xid] \in Offer
    BY <2>2 DEF Offer
  <2>4. offers' # <<>> /\ (offers # <<>> => Head(offers') = Head(offers))
    BY <1>t, <2>1, <2>3, OfferLists
  <2>5. Held
    BY <1>0, <1>9, <2>1
  <2> QED
    BY <2>1, <2>4, <2>5 DEF Goal
<1>10. ASSUME strayed = {}, NEW s \in Server, ReceiveAck(s) \/ ReceiveNak(s) PROVE Goal
  <2>1. /\ UNCHANGED <<address, settings, offers, removed, running, notice>>
        /\ worker = worker'
    BY <1>10 DEF ReceiveAck, ReceiveNak
  <2> QED
    BY <1>10, <1>a, <2>1
<1>11. ASSUME strayed = {}, AdminDraws \/ SendData \/ Expire \/ UNCHANGED vars PROVE Goal
  <2>1. /\ UNCHANGED <<address, settings, offers, removed, running, notice>>
        /\ worker = worker'
    BY <1>11 DEF AdminDraws, SendData, Expire, vars
  <2> QED
    BY <1>11, <1>a, <2>1
<1>12. ~Undefined
  BY DEF Undefined
<1>13. strayed = {}
  BY StrayedStays
<1> QED
  BY <1>1, <1>2, <1>3, <1>4, <1>5, <1>6, <1>7, <1>8, <1>9, <1>10, <1>11, <1>12, <1>13
     DEF Next, Worker, Flush, ActivityUp, Admin, Network, Restart

-----------------------------------------------------------------------------
\* In every reachable state: the types; that the job of a running
\* interface is scheduled or being run; what is asked for, leased, stored and
\* configured fits together.
THEOREM Invariance == Spec => []IndInv
<1>1. Init => IndInv
  BY InitInv
<1>2. IndInv /\ [Next]_vars => IndInv'
  <2>1. IndInv /\ [Next]_vars => TypeOK'
    BY StepTypes DEF IndInv
  <2> QED
    BY <2>1, StepAwake, StepTransaction, StepLeased, StepStoring, StepConfigured DEF IndInv
<1> QED
  BY <1>1, <1>2, PTL DEF Spec

\* Every variable of the interface, its client and the network keeps its type.
THEOREM TypeCorrect == Spec => []TypeOK
<1>1. IndInv => TypeOK
  BY DEF IndInv
<1> QED
  BY Invariance, <1>1, PTL

\* DHCPEngine's job (DHCPEngine::Dispatch, Offered, Approved, Rejected,
\* Flush and Activity) does not fall asleep on a running interface: unless Failed
\* was reported, it is scheduled or running, or a restart is under way.  Late
\* acknowledgements, and whatever they lead to, are among the behaviours; they end
\* where the first offer of an empty list is used.
THEOREM AwakeHolds == Spec => []Awake
<1>1. IndInv => Awake
  BY DEF IndInv
<1> QED
  BY <1>1, Invariance, PTL

\* The lease that DHCPClient::ProcessMessage takes from an acknowledgement
\* is one that was asked for, of that server in that transaction, until a late
\* acknowledgement meets another offer.
THEOREM LeaseAskedForHolds == Spec => []LeaseAskedFor
<1>1. IndInv => LeaseAskedFor
  BY DEF IndInv, Leased, LeaseAskedFor
<1> QED
  BY <1>1, Invariance, PTL

\* When a lease is stored (Settings::Store) and the interface is at rest,
\* the adapter has the address of that lease and no other, until a late
\* acknowledgement meets another offer, and but for an address that was deleted
\* and is acknowledged after all.
THEOREM InstalledHolds == Spec => []Installed
<1>1. IndInv => Installed
  <2> SUFFICES ASSUME IndInv, expired = "valid", settings = offer.server, Quiet, Straight
               PROVE  address = {settings}
    BY DEF Installed
  <2>1. offer # NoOffer /\ (offers = <<>> \/ Head(offers) = offer)
    BY DEF IndInv, Leased, HasActiveLease, Straight
  <2>2. settings # Nobody
    <3>1. offer \in Offer
      BY <2>1 DEF IndInv, TypeOK
    <3> QED
      BY <3>1, OfferIsOne
  <2>3. /\ settings \in address
        /\ \A s \in address : s = settings \/ (offers # <<>> /\ s = Head(offers).server)
    BY <2>2 DEF IndInv, Configured, Quiet, Straight
  <2> QED
    BY <2>1, <2>3
<1> QED
  BY <1>1, Invariance, PTL
=============================================================================
