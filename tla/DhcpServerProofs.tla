-------------------------- MODULE DhcpServerProofs --------------------------
(***************************************************************************)
(* Proofs about DhcpServer, for any number of clients, any address pool and*)
(* any times: the types, that a client has one lease at most, that no      *)
(* address is held by two clients, that queued responses are sent, and     *)
(* that no client is refused while the pool has an address for it.         *)
(***************************************************************************)
EXTENDS DhcpServer, WellFoundedInduction, TLAPS

\* What stands behind the grant of a client: the file unless it is stale, and
\* the server when it runs, lease the same address to it, for at least as long.
Backed(c) ==
  LET a == grant[c].address
  IN  /\ a \in Address
      /\ content \notin {"stale", "torn"} =>
           file[a].owner = c /\ file[a].left >= grant[c].left
      /\ status # "down" =>
           lease[a].owner = c /\ lease[a].left >= grant[c].left

AllBacked == Parted \/ \A c \in Client : grant[c].left > 0 => Backed(c)

\* A file is written while the server is open, and one that is not whole when
\* the process ended was noted, or nothing is granted any more.
TornWhere ==
  /\ content = "written" => status = "open"
  /\ content # "whole" /\ status = "down" => Parted \/ NothingGranted

\* Only an open socket attends to the queue.
Attended ==
  /\ responses # <<>> => triggered \/ "stuck" \in strayed
  /\ status # "open" => ~triggered

IndInv == TypeOK /\ OneLeaseEach /\ AllBacked /\ TornWhere /\ Attended

-----------------------------------------------------------------------------
\* An address that Discover picks is the client's, or the client has none and
\* nobody holds it.
LEMMA PickFree ==
  ASSUME TypeOK, NEW c \in Client, NEW r, NEW a \in Pick(c, r)
  PROVE  /\ a \in Address
         /\ \/ a \in Of(c)
            \/ Of(c) = {} /\ IsExpired(a)
            \/ Of(c) = {} /\ lease[a].owner = Nobody
BY DEF Pick, Of, Preferred, Fresh, Expired, Least

\* A response is queued.
LEMMA SubmitStep ==
  ASSUME TypeOK, Attended, NEW valid \in BOOLEAN, Submit(valid),
         status = "open", UNCHANGED <<status, strayed>>
  PROVE  /\ responses' \in Seq(BOOLEAN) /\ triggered' \in BOOLEAN
         /\ Attended'
<1>1. responses' \in Seq(BOOLEAN) /\ triggered' \in BOOLEAN
  BY DEF Submit, First, TypeOK
<1>2. responses = <<>> => Len(responses') = 1
  BY DEF Submit, TypeOK
<1>3. Attended'
  BY <1>2 DEF Submit, First, TypeOK, Attended
<1> QED
  BY <1>1, <1>3

\* The initial state satisfies the invariant.
LEMMA InitInv == Init => IndInv
<1> SUFFICES ASSUME Init PROVE IndInv
  OBVIOUS
<1>1. TypeOK
  <2>1. /\ NoLease \in Lease
        /\ NoGrant \in [address : Address \cup {Nowhere}, left : Nat]
    BY DEF Lease, NoLease, NoGrant
  <2>2. lease \in [Address -> Lease] /\ file \in [Address -> Lease]
    BY <2>1 DEF Init
  <2>3. grant \in [Client -> [address : Address \cup {Nowhere}, left : Nat]]
    BY <2>1 DEF Init
  <2>4. responses \in Seq(BOOLEAN) /\ nextFreeIp \in Int
    BY DEF Init
  <2>5. triggered \in BOOLEAN /\ content \in {"whole", "torn", "stale", "written"}
    BY DEF Init
  <2>6. /\ status \in {"down", "closed", "open"}
        /\ strayed \subseteq {"parted", "stuck"}
    BY DEF Init
  <2> QED
    BY <2>2, <2>3, <2>4, <2>5, <2>6 DEF TypeOK
<1>2. OneLeaseEach /\ AllBacked /\ TornWhere /\ Attended
  BY DEF Init, OneLeaseEach, AllBacked, TornWhere, Attended, NoLease, NoGrant
<1> QED
  BY <1>1, <1>2 DEF IndInv

\* Discover (l.772-834) gives the client its lease, or one that nobody holds.
LEMMA DiscoverStep ==
  ASSUME IndInv, NEW c \in Client, NEW r \in Address \cup {Nowhere},
         Discover(c, r)
  PROVE  IndInv'
<1>1. UNCHANGED <<status, file, content, grant, strayed>> /\ status = "open"
  BY DEF Discover, Receiving, fileVars
<1>2. CASE Pick(c, r) = {}
  <2>1. Submit(FALSE) /\ UNCHANGED <<lease, nextFreeIp>>
    BY <1>2 DEF Discover, serverVars
  <2> QED
    BY <1>1, <2>1, SubmitStep DEF IndInv, TypeOK, OneLeaseEach, AllBacked, Backed,
       Parted, TornWhere
<1>3. ASSUME NEW a \in Pick(c, r),
             lease' = [lease EXCEPT ![a] = Offered(c, a)],
             nextFreeIp' = IF Searched(c, r) THEN a + 1 ELSE nextFreeIp,
             Submit(TRUE)
      PROVE  IndInv'
  <2>1. a \in Address /\ a \in Int
    BY PickFree, PoolAssumption DEF IndInv, Address
  <2>2. Offered(c, a) \in Lease /\ Offered(c, a).owner = c
    <3>1. lease[a].left \in Nat
      BY <2>1 DEF IndInv, TypeOK, Lease
    <3> QED
      BY <3>1, TimeAssumption DEF Offered, Lease
  <2>3. TypeOK' /\ Attended'
    <3>1. responses' \in Seq(BOOLEAN) /\ triggered' \in BOOLEAN /\ Attended'
      BY <1>1, <1>3, SubmitStep DEF IndInv
    <3>2. lease' \in [Address -> Lease] /\ nextFreeIp' \in Int
      BY <1>3, <2>1, <2>2 DEF IndInv, TypeOK
    <3>3. UNCHANGED <<status, file, content, grant, strayed>>
      BY <1>1
    <3> QED
      BY <3>1, <3>2, <3>3 DEF IndInv, TypeOK
  <2>4. \A b \in Address : b # a => lease[b].owner # c
    <3>1. a \in Of(c) \/ Of(c) = {}
      BY PickFree DEF IndInv
    <3> QED
      BY <2>1, <3>1, ClientAssumption DEF IndInv, OneLeaseEach, Of
  <2>5. OneLeaseEach'
    BY <1>1, <1>3, <2>1, <2>2, <2>4, ClientAssumption
       DEF IndInv, OneLeaseEach, TypeOK
  <2>6. \A d \in Client : grant[d].left > 0 /\ Backed(d) => Backed(d)'
    <3> SUFFICES ASSUME NEW d \in Client, grant[d].left > 0, Backed(d)
                 PROVE  Backed(d)'
      OBVIOUS
    <3>1. CASE grant[d].address # a
      BY <3>1, <1>1, <1>3, <2>1 DEF Backed, IndInv, TypeOK
    <3>2. CASE grant[d].address = a
      <4>1. lease[a].owner = d /\ lease[a].left > 0
        BY <3>2, <1>1, <2>1 DEF Backed, IndInv, TypeOK, Lease
      <4>2. a \in Of(c)
        BY <4>1, PickFree, ClientAssumption DEF IsExpired, IndInv
      <4>3. lease' = lease
        BY <4>1, <4>2, <1>3, <2>1
           DEF Of, Offered, IsExpired, IndInv, TypeOK, Lease
      <4> QED
        BY <4>3, <1>1 DEF Backed
    <3> QED
      BY <3>1, <3>2
  <2>7. AllBacked' /\ TornWhere'
    BY <2>6, <1>1 DEF IndInv, AllBacked, Parted, TornWhere
  <2> QED
    BY <2>3, <2>5, <2>7 DEF IndInv
<1> QED
  BY <1>2, <1>3 DEF Discover

\* Request (l.835-859): the lease is extended and saved, or not.
LEMMA AcknowledgeStep ==
  ASSUME IndInv, NEW c \in Client, NEW r \in Address \cup {Nowhere},
         Acknowledge(c, r)
  PROVE  IndInv'
<1>1. /\ UNCHANGED <<status, nextFreeIp>>
      /\ status = "open" /\ content # "written"
  BY DEF Acknowledge, Receiving
<1>2. PICK a \in Of(c) :
        /\ lease' = [lease EXCEPT ![a].left = LeaseTime]
        /\ strayed' = strayed \cup (IF r = a THEN {} ELSE {"parted"})
  BY DEF Acknowledge
<1>3. /\ a \in Address /\ lease[a].owner = c
      /\ grant' = [grant EXCEPT ![c] = [address |-> r, left |-> LeaseTime]]
  BY DEF Acknowledge, Of
<1>4. \/ /\ file' = lease' /\ content' = "written"
         /\ UNCHANGED <<responses, triggered>>
      \/ /\ file' = file /\ content' \in {"torn", "stale"} /\ Submit(TRUE)
  BY DEF Acknowledge, SaveLeases, Stale, queueVars
<1>5. /\ lease'[a] = [owner |-> c, left |-> LeaseTime]
      /\ \A b \in Address : b # a => lease'[b] = lease[b]
      /\ lease' \in [Address -> Lease]
  BY <1>2, <1>3, TimeAssumption DEF IndInv, TypeOK, Lease
<1>6. responses' \in Seq(BOOLEAN) /\ triggered' \in BOOLEAN /\ Attended'
  <2>1. CASE UNCHANGED <<responses, triggered>>
    BY <1>1, <1>2, <2>1 DEF IndInv, TypeOK, Attended
  <2>2. CASE Submit(TRUE)
    <3>1. responses' \in Seq(BOOLEAN) /\ triggered' \in BOOLEAN
      BY <2>2 DEF Submit, First, IndInv, TypeOK
    <3>2. responses = <<>> => Len(responses') = 1
      BY <2>2 DEF Submit, IndInv, TypeOK
    <3> QED
      BY <1>1, <1>2, <2>2, <3>1, <3>2 DEF Submit, First, IndInv, Attended
  <2> QED
    BY <1>4, <2>1, <2>2
<1>7. TypeOK'
  <2>1. file' \in [Address -> Lease] /\ content' \in {"torn", "stale", "written"}
    BY <1>4, <1>5 DEF IndInv, TypeOK
  <2>2. grant' \in [Client -> [address : Address \cup {Nowhere}, left : Nat]]
    BY <1>3, TimeAssumption DEF IndInv, TypeOK
  <2>3. strayed' \subseteq {"parted", "stuck"}
    BY <1>2 DEF IndInv, TypeOK
  <2> QED
    BY <1>1, <1>5, <1>6, <2>1, <2>2, <2>3 DEF IndInv, TypeOK
<1>8. OneLeaseEach'
  <2>1. \A b \in Address : lease'[b].owner = lease[b].owner
    BY <1>3, <1>5
  <2>2. OneLeaseEach /\ file' \in {lease', file}
    BY <1>4 DEF IndInv
  <2>3. CASE file' = lease'
    BY <2>1, <2>2, <2>3 DEF OneLeaseEach
  <2>4. CASE file' = file
    BY <2>1, <2>2, <2>4 DEF OneLeaseEach
  <2> QED
    BY <2>2, <2>3, <2>4
<1>9. AllBacked'
  <2> SUFFICES ASSUME ~Parted', NEW d \in Client, grant'[d].left > 0
               PROVE  Backed(d)'
    BY DEF AllBacked
  <2>1. ~Parted /\ r = a
    BY <1>2 DEF Parted
  <2>2. grant'[d].address \in Address /\ lease'[grant'[d].address].owner = d
        /\ lease'[grant'[d].address].left >= grant'[d].left
    <3>1. CASE d = c
      BY <2>1, <3>1, <1>3, <1>5, TimeAssumption DEF IndInv, TypeOK
    <3>2. CASE d # c
      <4>1. grant'[d] = grant[d]
        BY <3>2, <1>3 DEF IndInv, TypeOK
      <4>2. Backed(d)
        BY <2>1, <4>1 DEF IndInv, AllBacked
      <4>3. grant[d].address # a
        BY <4>2, <3>2, <1>1, <1>3 DEF Backed
      <4> QED
        BY <4>1, <4>2, <4>3, <1>1, <1>5 DEF Backed
    <3> QED
      BY <3>1, <3>2
  <2> QED
    BY <1>4, <2>2 DEF Backed
<1>10. TornWhere'
  BY <1>1, <1>4 DEF IndInv, TornWhere
<1> QED
  BY <1>6, <1>7, <1>8, <1>9, <1>10 DEF IndInv

\* A refusal (l.844-859) ends the lease and the grant of the client.
LEMMA RefuseStep ==
  ASSUME IndInv, NEW c \in Client, NEW serverId \in BOOLEAN, Refuse(c, serverId)
  PROVE  IndInv'
<1>1. /\ UNCHANGED <<status, nextFreeIp, file, content, strayed>> /\ status = "open"
      /\ lease' = Invalidated(c)
      /\ grant' = [grant EXCEPT ![c] = NoGrant]
      /\ Submit(TRUE)
  BY DEF Refuse, Receiving, fileVars
<1>2. \A b \in Address :
        /\ lease'[b] \in Lease /\ lease'[b].owner = lease[b].owner
        /\ lease[b].owner # c => lease'[b] = lease[b]
  BY <1>1 DEF Invalidated, Of, IndInv, TypeOK, Lease
<1>3. TypeOK' /\ Attended'
  BY <1>1, <1>2, SubmitStep DEF IndInv, TypeOK, Lease, NoGrant, Invalidated
<1>4. OneLeaseEach'
  BY <1>1, <1>2 DEF IndInv, OneLeaseEach
<1>5. AllBacked'
  <2> SUFFICES ASSUME ~Parted, NEW d \in Client, grant'[d].left > 0
               PROVE  Backed(d)'
    BY <1>1 DEF AllBacked, Parted
  <2>1. d # c /\ grant'[d] = grant[d]
    BY <1>1 DEF IndInv, TypeOK, NoGrant
  <2>2. Backed(d)
    BY <2>1 DEF IndInv, AllBacked
  <2> QED
    BY <2>1, <2>2, <1>1, <1>2 DEF Backed
<1>6. TornWhere'
  BY <1>1 DEF IndInv, TornWhere
<1> QED
  BY <1>3, <1>4, <1>5, <1>6 DEF IndInv

\* The other steps of the socket (SaveLeases, l.198-222; SendData, l.873-894).
LEMMA SocketStep ==
  ASSUME IndInv, Saved \/ SendData \/ Unsupported
  PROVE  IndInv'
<1>1. UNCHANGED <<status, lease, nextFreeIp, file, grant>>
  BY DEF Saved, SendData, Unsupported, serverVars, fileVars
<1>2. \/ content' = content
      \/ content = "written" /\ content' \in {"whole", "torn"}
  BY DEF Saved, SendData, Unsupported, fileVars
<1>3. strayed' \subseteq strayed \cup {"stuck"} /\ (Parted' <=> Parted)
  <2>1. CASE Saved \/ Unsupported
    BY <2>1 DEF Saved, Unsupported, Parted
  <2>2. CASE SendData
    <3>1. strayed' \in {strayed \ {"stuck"}, strayed, strayed \cup {"stuck"}}
      BY <2>2 DEF SendData
    <3> QED
      BY <3>1 DEF Parted
  <2> QED
    BY <2>1, <2>2
<1>4. responses' \in Seq(BOOLEAN) /\ triggered' \in BOOLEAN /\ Attended'
  <2>1. CASE Saved \/ Unsupported
    BY <2>1, SubmitStep DEF Saved, Unsupported, Receiving, IndInv
  <2>2. CASE SendData
    <3>1. responses # <<>> =>
            Head(responses) \in BOOLEAN /\ Tail(responses) \in Seq(BOOLEAN)
      BY DEF IndInv, TypeOK
    <3>2. responses' \in Seq(BOOLEAN) /\ triggered' \in BOOLEAN
      BY <2>2, <3>1 DEF SendData, IndInv, TypeOK
    <3>3. Attended'
      BY <2>2, <3>1 DEF SendData, Dropped, Attended
    <3> QED
      BY <3>2, <3>3
  <2> QED
    BY <2>1, <2>2
<1>5. TypeOK'
  <2>1. strayed' \subseteq {"parted", "stuck"}
    BY <1>3 DEF IndInv, TypeOK
  <2> QED
    BY <1>1, <1>2, <1>4, <2>1 DEF IndInv, TypeOK
<1>6. OneLeaseEach' /\ TornWhere' /\ AllBacked'
  <2>1. OneLeaseEach'
    BY <1>1 DEF IndInv, OneLeaseEach
  <2>2. TornWhere'
    BY <1>1, <1>2, <1>3 DEF IndInv, TornWhere, NothingGranted
  <2>3. AllBacked'
    BY <1>1, <1>2, <1>3 DEF IndInv, AllBacked, Backed, Parted
  <2> QED
    BY <2>1, <2>2, <2>3
<1> QED
  BY <1>4, <1>5, <1>6 DEF IndInv

\* The server is opened and closed, the process ends.
LEMMA StopStep ==
  ASSUME IndInv, Open \/ Close \/ Crash
  PROVE  IndInv'
<1>1. CASE Open
  <2>1. TypeOK'
    <3>1. triggered' \in BOOLEAN /\ nextFreeIp' \in Int /\ status' = "open"
      BY <1>1, PoolAssumption DEF Open
    <3>2. UNCHANGED <<lease, responses, file, content, grant, strayed>>
      BY <1>1 DEF Open, fileVars
    <3> QED
      BY <3>1, <3>2 DEF IndInv, TypeOK
  <2> QED
    <3>1. /\ status = "closed" /\ status' = "open"
          /\ UNCHANGED <<lease, responses, file, content, grant, strayed>>
      BY <1>1 DEF Open, fileVars
    <3>2. OneLeaseEach' /\ AllBacked'
      BY <3>1 DEF IndInv, OneLeaseEach, AllBacked, Backed, Parted
    <3>3. TornWhere'
      BY <3>1 DEF IndInv, TornWhere
    <3>4. Attended'
      BY <3>1 DEF IndInv, Attended
    <3> QED
      BY <2>1, <3>2, <3>3, <3>4 DEF IndInv
<1>2. CASE Close
  <2>1. TypeOK'
    BY <1>2 DEF Close, fileVars, serverVars, IndInv, TypeOK
  <2> QED
    BY <1>2, <2>1 DEF Close, fileVars, serverVars, IndInv, OneLeaseEach,
       AllBacked, Backed, Parted, TornWhere, Attended
<1>3. CASE Crash
  <2>1. TypeOK'
    <3>1. /\ status' = "down" /\ responses' = <<>> /\ triggered' = FALSE
          /\ nextFreeIp' = 0 /\ UNCHANGED <<file, grant>>
          /\ lease' = [a \in Address |-> NoLease]
          /\ strayed' \subseteq strayed \cup {"parted"}
          /\ content' \in {content, "torn"}
      BY <1>3 DEF Crash
    <3>2. lease' \in [Address -> Lease]
      BY <3>1 DEF NoLease, Lease
    <3>3. responses' \in Seq(BOOLEAN) /\ nextFreeIp' \in Int
      BY <3>1
    <3>4. strayed' \subseteq {"parted", "stuck"}
      BY <3>1 DEF IndInv, TypeOK
    <3> QED
      BY <3>1, <3>2, <3>3, <3>4 DEF IndInv, TypeOK
  <2>2. OneLeaseEach'
    BY <1>3 DEF Crash, fileVars, IndInv, OneLeaseEach, NoLease
  <2>3. AllBacked'
    BY <1>3 DEF Crash, fileVars, IndInv, AllBacked, Backed, Parted
  <2> QED
    BY <1>3, <2>1, <2>2, <2>3 DEF Crash, fileVars, IndInv, TornWhere, Parted,
       Attended
<1> QED
  BY <1>1, <1>2, <1>3

\* LoadLeases (l.224-246): a file that is whole is loaded whole, and one that
\* is not read is empty or was noted.
LEMMA InitializeStep ==
  ASSUME IndInv, Initialize
  PROVE  IndInv'
<1>1. /\ status = "down" /\ status' = "closed"
      /\ UNCHANGED <<nextFreeIp, responses, triggered, grant>>
  BY DEF Initialize, queueVars
<1>2. CASE ReadLeases
  <2>1. /\ content' = "whole" /\ UNCHANGED strayed /\ file' = lease'
        /\ \E S \in SUBSET Address : lease' = Loaded(S)
    BY <1>2 DEF ReadLeases
  <2>2. /\ lease' \in [Address -> Lease]
        /\ \A a \in Address : lease'[a] \in {file[a], NoLease}
        /\ content # "torn" => \A a \in Address : lease'[a] = file[a]
    BY <2>1 DEF Loaded, IndInv, TypeOK, NoLease, Lease
  <2>3. TypeOK'
    BY <1>1, <2>1, <2>2 DEF IndInv, TypeOK
  <2>4. OneLeaseEach'
    BY <2>1, <2>2 DEF IndInv, OneLeaseEach, NoLease
  <2>5. ~Parted' => content = "whole" \/ NothingGranted
    BY <1>1, <2>1 DEF IndInv, TornWhere, Parted
  <2>6. AllBacked'
    BY <1>1, <2>1, <2>2, <2>5 DEF IndInv, AllBacked, Backed, Parted, NothingGranted
  <2> QED
    BY <1>1, <2>1, <2>3, <2>4, <2>6 DEF IndInv, TornWhere, Attended
<1>3. CASE NoLeases
  <2>1. /\ lease' = [a \in Address |-> NoLease]
        /\ strayed' = strayed \cup (IF file = lease' THEN {} ELSE {"parted"})
        /\ UNCHANGED <<file, content>>
    BY <1>3 DEF NoLeases, fileVars
  <2>2. lease' \in [Address -> Lease]
    BY <2>1 DEF NoLease, Lease
  <2>3. strayed' \subseteq {"parted", "stuck"}
    BY <2>1 DEF IndInv, TypeOK
  <2>4. TypeOK'
    BY <1>1, <2>1, <2>2, <2>3 DEF IndInv, TypeOK
  <2>5. OneLeaseEach'
    BY <2>1 DEF IndInv, OneLeaseEach, NoLease
  <2>6. ~Parted' => /\ ~Parted /\ file = lease'
                    /\ content = "whole" \/ NothingGranted
    BY <1>1, <2>1 DEF IndInv, TornWhere, Parted
  <2>7. AllBacked'
    BY <1>1, <2>1, <2>6 DEF IndInv, AllBacked, Backed, NothingGranted
  <2>8. TornWhere'
    <3>1. content # "written"
      BY <1>1 DEF IndInv, TornWhere
    <3> QED
      BY <1>1, <2>1, <3>1 DEF TornWhere
  <2>9. Attended'
    BY <1>1, <2>1 DEF IndInv, Attended
  <2> QED
    BY <2>4, <2>5, <2>7, <2>8, <2>9 DEF IndInv
<1> QED
  BY <1>2, <1>3 DEF Initialize

\* Time passes for the server, the file and the clients alike.
LEMMA TickStep ==
  ASSUME IndInv, Tick
  PROVE  IndInv'
<1>1. /\ UNCHANGED <<status, nextFreeIp, responses, triggered, content>>
      /\ lease' = Older(lease) /\ file' = Older(file) /\ grant' = Older(grant)
      /\ strayed' = strayed \ (IF NothingGranted' THEN {"parted"} ELSE {})
  BY DEF Tick, queueVars
<1>2. \A n \in Nat : Less(n) \in Nat /\ (Less(n) > 0 => n > 0)
  BY DEF Less
<1>3. \A m, n \in Nat : m >= n => Less(m) >= Less(n)
  BY DEF Less
<1>4. ASSUME NEW a \in Address
      PROVE  /\ lease'[a] \in Lease /\ file'[a] \in Lease
             /\ lease'[a].owner = lease[a].owner
             /\ lease'[a].left = Less(lease[a].left)
             /\ file'[a].owner = file[a].owner
             /\ file'[a].left = Less(file[a].left)
  <2>1. /\ lease'[a] = [lease[a] EXCEPT !.left = Less(@)]
        /\ file'[a] = [file[a] EXCEPT !.left = Less(@)]
    BY <1>1 DEF Older, IndInv, TypeOK
  <2>2. /\ lease[a] \in Lease /\ file[a] \in Lease
        /\ lease[a].left \in Nat /\ file[a].left \in Nat
    BY DEF IndInv, TypeOK, Lease
  <2>3. Less(lease[a].left) \in Nat /\ Less(file[a].left) \in Nat
    BY <2>2, <1>2
  <2> QED
    BY <2>1, <2>2, <2>3 DEF Lease
<1>5. ASSUME NEW c \in Client
      PROVE  /\ grant'[c] \in [address : Address \cup {Nowhere}, left : Nat]
             /\ grant'[c].address = grant[c].address
             /\ grant'[c].left = Less(grant[c].left)
             /\ grant[c].left \in Nat
  <2>1. grant'[c] = [grant[c] EXCEPT !.left = Less(@)]
    BY <1>1 DEF Older, IndInv, TypeOK
  <2>2. grant[c] \in [address : Address \cup {Nowhere}, left : Nat]
    BY DEF IndInv, TypeOK
  <2>3. Less(grant[c].left) \in Nat
    BY <2>2, <1>2
  <2> QED
    BY <2>1, <2>2, <2>3
<1>6. /\ lease' \in [Address -> Lease] /\ file' \in [Address -> Lease]
      /\ grant' \in [Client -> [address : Address \cup {Nowhere}, left : Nat]]
  <2>1. /\ lease' = [a \in Address |-> lease'[a]]
        /\ file' = [a \in Address |-> file'[a]]
        /\ grant' = [c \in Client |-> grant'[c]]
    BY <1>1 DEF Older, IndInv, TypeOK
  <2> QED
    BY <2>1, <1>4, <1>5
<1>7. TypeOK'
  <2>1. triggered' \in BOOLEAN
    BY <1>1 DEF IndInv, TypeOK
  <2>2. status' = status /\ nextFreeIp' = nextFreeIp /\ responses' = responses
        /\ strayed' \subseteq strayed /\ content' = content
    BY <1>1
  <2> QED
    BY <1>6, <2>1, <2>2 DEF IndInv, TypeOK
<1>8. OneLeaseEach'
  BY <1>4 DEF IndInv, OneLeaseEach
<1>9. AllBacked'
  <2> SUFFICES ASSUME ~Parted, NEW c \in Client, grant'[c].left > 0
               PROVE  Backed(c)'
    BY <1>1 DEF AllBacked, Parted, NothingGranted
  <2> DEFINE a == grant[c].address
  <2>1. grant[c].left > 0
    BY <1>2, <1>5
  <2>2. Backed(c)
    BY <2>1 DEF IndInv, AllBacked
  <2>3. a \in Address /\ lease[a].left \in Nat /\ file[a].left \in Nat
    BY <2>2 DEF Backed, IndInv, TypeOK, Lease
  <2>4. /\ file'[a].owner = file[a].owner /\ file'[a].left = Less(file[a].left)
        /\ lease'[a].owner = lease[a].owner /\ lease'[a].left = Less(lease[a].left)
    BY <2>3, <1>4
  <2>5. /\ content \notin {"stale", "torn"} => file'[a].left >= grant'[c].left
        /\ status # "down" => lease'[a].left >= grant'[c].left
    BY <2>2, <2>3, <2>4, <1>3, <1>5 DEF Backed
  <2>6. grant'[c].address = a
    BY <1>5
  <2>7. /\ a \in Address
        /\ content' \notin {"stale", "torn"} =>
             file'[a].owner = c /\ file'[a].left >= grant'[c].left
    BY <2>2, <2>4, <2>5, <1>1 DEF Backed
  <2>8. status' # "down" => lease'[a].owner = c /\ lease'[a].left >= grant'[c].left
    BY <2>2, <2>4, <2>5, <1>1 DEF Backed
  <2> QED
    BY <2>6, <2>7, <2>8 DEF Backed
<1>10. TornWhere'
  <2>1. NothingGranted => NothingGranted'
    BY <1>2, <1>5 DEF NothingGranted, Less
  <2>2. ~NothingGranted' => strayed' = strayed
    BY <1>1
  <2> QED
    BY <1>1, <2>1, <2>2 DEF IndInv, TornWhere, Parted
<1>11. Attended'
  <2>1. "stuck" \in strayed => "stuck" \in strayed'
    BY <1>1
  <2> QED
    BY <1>1, <2>1 DEF IndInv, Attended
<1> QED
  BY <1>7, <1>8, <1>9, <1>10, <1>11 DEF IndInv

\* The invariant is inductive.
THEOREM Invariance == Spec => []IndInv
<1>1. ASSUME IndInv, [Next]_vars PROVE IndInv'
  <2>1. CASE ReceiveData
    BY <1>1, <2>1, DiscoverStep, AcknowledgeStep, RefuseStep, SocketStep
       DEF ReceiveData
  <2>2. CASE Saved \/ SendData
    BY <1>1, <2>2, SocketStep
  <2>3. CASE Open \/ Close \/ Crash
    BY <1>1, <2>3, StopStep
  <2>4. CASE Initialize
    BY <1>1, <2>4, InitializeStep
  <2>5. CASE Tick
    BY <1>1, <2>5, TickStep
  <2>6. CASE UNCHANGED vars
    BY <1>1, <2>6 DEF vars, serverVars, queueVars, fileVars, IndInv, TypeOK,
       OneLeaseEach, AllBacked, Backed, Parted, TornWhere, NothingGranted, Attended
  <2> QED
    BY <1>1, <2>1, <2>2, <2>3, <2>4, <2>5, <2>6 DEF Next
<1> QED
  BY InitInv, <1>1, PTL DEF Spec

\* Every variable keeps its type.
THEOREM TypeCorrect == Spec => []TypeOK
<1>1. IndInv => TypeOK
  BY DEF IndInv
<1> QED
  BY Invariance, <1>1, PTL

\* A client has one lease at most, in memory and in the file (Find, Discover,
\* LoadLeases).
THEOREM OneLeaseEachHolds == Spec => []OneLeaseEach
<1>1. IndInv => OneLeaseEach
  BY DEF IndInv
<1> QED
  BY Invariance, <1>1, PTL

\* No address is held by two clients at a time, across expiry and restarts,
\* unless Request acknowledged another address than the lease's, or the process
\* ended with a file that SaveLeases did not write to its end, or LoadLeases did
\* not read it, and what was acknowledged before that has not run out: a save that
\* failed is made good by the next that does not.
THEOREM GrantExclusiveHolds == Spec => []GrantExclusive
<1>1. ASSUME IndInv PROVE GrantExclusive
  <2>1. ~Parted => status # "down" \/ content = "whole" \/ NothingGranted
    BY <1>1 DEF IndInv, TornWhere, Parted
  <2>2. ASSUME ~Parted, NEW c \in Client, grant[c].left > 0
        PROVE  \/ lease[grant[c].address].owner = c /\ status # "down"
               \/ file[grant[c].address].owner = c /\ status = "down"
    BY <1>1, <2>1, <2>2 DEF IndInv, AllBacked, Backed, NothingGranted
  <2> QED
    BY <2>2 DEF GrantExclusive
<1> QED
  BY Invariance, <1>1, PTL

\* While a response is queued the socket is going to call SendData, unless one
\* was left behind (Submit, SendData).
THEOREM ResponsesFlowHolds == Spec => []ResponsesFlow
<1>1. IndInv => ResponsesFlow
  BY DEF IndInv, Attended, ResponsesFlow
<1> QED
  BY Invariance, <1>1, PTL

-----------------------------------------------------------------------------
\* What the search from _nextFreeIp has passed is leased: an owner never goes
\* while the server is open.
SearchedAll ==
  status = "open" => \A a \in Address : a < nextFreeIp => lease[a].owner # Nobody

\* A set of addresses that is not empty has a least one, at which the search of
\* the pool (Discover l.800-816) ends.
LEMMA LeastExists ==
  ASSUME NEW S \in SUBSET Address, S # {}
  PROVE  Least(S) # {}
<1> DEFINE Shifted == {a - minAddress : a \in S}
<1>1. \A a \in S : a \in Int /\ a - minAddress \in Nat
  BY PoolAssumption DEF Address
<1>2. Shifted \subseteq Nat /\ Shifted # {}
  BY <1>1
<1>3. IsWellFoundedOn(OpToRel(<, Nat), Nat)
  BY NatLessThanWellFounded
<1>4. PICK n \in Shifted : \A m \in Shifted : ~(<<m, n>> \in OpToRel(<, Nat))
  BY <1>2, <1>3, WFMin
<1>5. \A m \in Shifted : ~(m < n)
  BY <1>2, <1>4 DEF OpToRel
<1>6. PICK a \in S : n = a - minAddress
  OBVIOUS
<1>7. ASSUME NEW b \in S PROVE a <= b
  <2>1. b - minAddress \in Shifted
    OBVIOUS
  <2>2. ~(b - minAddress < a - minAddress)
    BY <1>5, <1>6, <2>1
  <2> QED
    BY <1>1, <2>2, PoolAssumption
<1> QED
  BY <1>7 DEF Least

\* Discover moves _nextFreeIp past the first address nobody has, which it
\* leases; no other step of an open server takes an owner away (l.800-834).
LEMMA StepSearched == IndInv /\ SearchedAll /\ [Next]_vars => SearchedAll'
<1> SUFFICES ASSUME IndInv, SearchedAll, [Next]_vars, status' = "open"
             PROVE  \A a \in Address : a < nextFreeIp' => lease'[a].owner # Nobody
  BY DEF SearchedAll
<1>0. lease \in [Address -> Lease] /\ nextFreeIp \in Int /\ Address \subseteq Int
  BY PoolAssumption DEF IndInv, TypeOK, Address
<1>1. ASSUME UNCHANGED nextFreeIp, status = "open",
             \A a \in Address : lease[a].owner # Nobody => lease'[a].owner # Nobody
      PROVE  \A a \in Address : a < nextFreeIp' => lease'[a].owner # Nobody
  BY <1>1 DEF SearchedAll
<1>2. ASSUME NEW c \in Client, NEW r \in Address \cup {Nowhere}, Discover(c, r)
      PROVE  \A a \in Address : a < nextFreeIp' => lease'[a].owner # Nobody
  <2>1. status = "open"
    BY <1>2 DEF Discover, Receiving
  <2>2. CASE Pick(c, r) = {}
    BY <1>1, <1>2, <2>1, <2>2 DEF Discover, serverVars
  <2>3. CASE Pick(c, r) # {}
    <3>1. PICK p \in Pick(c, r) :
            /\ lease' = [lease EXCEPT ![p] = Offered(c, p)]
            /\ nextFreeIp' = IF Searched(c, r) THEN p + 1 ELSE nextFreeIp
      BY <1>2, <2>3 DEF Discover
    <3>2. p \in Address
      BY PickFree DEF IndInv
    <3>3. \A a \in Address : lease'[a].owner = IF a = p THEN c ELSE lease[a].owner
      BY <1>0, <3>1, <3>2 DEF Offered
    <3>4. CASE ~Searched(c, r)
      BY <1>1, <2>1, <3>1, <3>3, <3>4, ClientAssumption
    <3>5. CASE Searched(c, r)
      <4>1. p \in Least(Fresh)
        BY <3>5 DEF Searched, Pick
      <4>2. \A a \in Address : a >= nextFreeIp /\ a < p => lease[a].owner # Nobody
        BY <1>0, <3>2, <4>1 DEF Least, Fresh
      <4>3. \A a \in Address : a < p => lease[a].owner # Nobody
        BY <1>0, <2>1, <4>2 DEF SearchedAll
      <4> QED
        BY <1>0, <3>1, <3>2, <3>3, <3>5, <4>3, ClientAssumption
    <3> QED
      BY <3>4, <3>5
  <2> QED
    BY <2>2, <2>3
<1>3. ASSUME NEW c \in Client, NEW r \in Address \cup {Nowhere}, Acknowledge(c, r)
      PROVE  \A a \in Address : a < nextFreeIp' => lease'[a].owner # Nobody
  BY <1>0, <1>1, <1>3 DEF Acknowledge, Receiving, Of
<1>4. ASSUME NEW c \in Client, NEW serverId \in BOOLEAN, Refuse(c, serverId)
      PROVE  \A a \in Address : a < nextFreeIp' => lease'[a].owner # Nobody
  BY <1>0, <1>1, <1>4 DEF Refuse, Receiving, Invalidated, Lease
<1>5. CASE Unsupported \/ Saved \/ SendData
  BY <1>1, <1>5 DEF Unsupported, Saved, SendData, serverVars, Receiving
<1>6. CASE Open
  BY <1>0, <1>6, PoolAssumption DEF Open, Address
<1>7. CASE Close \/ Crash \/ Initialize
  BY <1>7 DEF Close, Crash, Initialize
<1>8. CASE Tick
  <2>1. status = "open" /\ nextFreeIp' = nextFreeIp /\ lease' = Older(lease)
    BY <1>8 DEF Tick
  <2>2. ASSUME NEW a \in Address PROVE lease'[a].owner = lease[a].owner
    BY <1>0, <2>1 DEF Older, Lease
  <2> QED
    BY <1>1, <2>1, <2>2
<1>9. CASE UNCHANGED vars
  BY <1>1, <1>9 DEF vars, serverVars
<1> QED
  BY <1>2, <1>3, <1>4, <1>5, <1>6, <1>7, <1>8, <1>9 DEF Next, ReceiveData

\* A client that asks for any address is refused only when the pool is full
\* (Discover l.793-826): what lies before _nextFreeIp is leased, and so is what
\* lies after it when the search finds nothing.
THEOREM RefusedOnlyWhenFullHolds == Spec => []RefusedOnlyWhenFull
<1>1. Init => SearchedAll
  BY DEF Init, SearchedAll
<1>2. ASSUME IndInv, SearchedAll PROVE RefusedOnlyWhenFull
  <2> SUFFICES ASSUME status = "open", NEW c \in Client, Pick(c, Nowhere) = {},
                      NEW a \in Address
               PROVE  lease[a].owner # Nobody /\ ~IsExpired(a)
    BY DEF RefusedOnlyWhenFull
  <2>1. ~Preferred(c, Nowhere)
    BY PoolAssumption DEF Preferred, Address
  <2>2. Of(c) = {}
    BY DEF Pick
  <2>3. Pick(c, Nowhere) = IF Fresh # {} THEN Least(Fresh) ELSE Least(Expired)
    BY <2>1, <2>2 DEF Pick
  <2>4. Fresh \in SUBSET Address /\ Expired \in SUBSET Address
    BY DEF Fresh, Expired
  <2>5. Fresh = {} /\ Expired = {}
    BY <2>3, <2>4, LeastExists
  <2>6. a \in Int /\ nextFreeIp \in Int
    BY <1>2, PoolAssumption DEF Address, IndInv, TypeOK
  <2>7. lease[a].owner # Nobody
    BY <1>2, <2>5, <2>6 DEF Fresh, SearchedAll
  <2> QED
    BY <2>5, <2>7 DEF Expired
<1> QED
  BY Invariance, StepSearched, <1>1, <1>2, PTL DEF Spec
=============================================================================
