----------------------------- MODULE DhcpServer -----------------------------
(***************************************************************************)
(* One server of the DHCPServer plugin: the leases of its address pool,    *)
(* the queue of responses that its socket sends, and the file in which the *)
(* leases survive a restart.  Clients send what they like, as often as     *)
(* they like and as late as they like.                                     *)
(*                                                                         *)
(* The list of leases is a function of the addresses, since Create is only *)
(* called for an address of which no lease was found.  An expiration is    *)
(* the time that is left; Tick is the clock.  ReceiveData and SendData run *)
(* on the one thread of the sockets, so a handler is a step, except that   *)
(* it writes the file: the process may end meanwhile.  The file may not be *)
(* there, not be created, not be written to its end or not be read, and    *)
(* the client is acknowledged all the same.                                *)
(***************************************************************************)
EXTENDS Integers, Sequences, FiniteSets

CONSTANTS
  Client,                 \* the clients, as their Identifiers
  Nobody,                 \* no Identifier: the address has no lease
  minAddress, maxAddress, \* _minAddress and _maxAddress, which is inclusive
  Nowhere,                \* an address outside of the pool, or none (0)
  OfferTime, LeaseTime,   \* the 60 seconds of an offer, DefaultLeaseTime
  MaxResponses            \* how many responses may be queued: a bound

ASSUME ClientAssumption == Nobody \notin Client
ASSUME PoolAssumption ==
  /\ minAddress \in Int
  /\ maxAddress \in Int
  /\ Nowhere \notin minAddress .. maxAddress
ASSUME TimeAssumption == OfferTime \in Nat \ {0} /\ LeaseTime \in Nat \ {0}
ASSUME BoundAssumption == MaxResponses \in Nat

VARIABLES
  status,      \* the plugin is "down", the server "closed" or "open"
  lease,       \* DHCPServerImplementation::_leases
  nextFreeIp,  \* DHCPServerImplementation::_nextFreeIp
  responses,   \* _responses: of each whether it IsValid()
  triggered,   \* the socket is going to call SendData
  file,        \* the leases in the file
  content,     \* the file is "whole", "torn" when its end is missing, "stale"
               \* when it lacks what was acknowledged, or being "written"
  grant,       \* history: what each client was acknowledged
  strayed      \* history: "parted", the leases are not what was acknowledged:
               \* Request took another address, or the process ended with a
               \* file that was not whole, or started and did not read it;
               \* "stuck", a response was left behind

serverVars == <<lease, nextFreeIp>>
queueVars  == <<responses, triggered>>
fileVars   == <<file, content>>
vars == <<status, serverVars, queueVars, fileVars, grant, strayed>>

Address == minAddress .. maxAddress
NoLease == [owner |-> Nobody, left |-> 0]
NoGrant == [address |-> Nowhere, left |-> 0]

-----------------------------------------------------------------------------
(* The lease list.                                                         *)

SlipOf(c) == {a \in Address : lease[a].owner = c /\ lease[a].left > 0}
\* Find(id): the lease of client c, expired or not
Of(c) == {a \in Address : lease[a].owner = c}

IsExpired(a) == lease[a].left = 0

Least(S) == {a \in S : \A b \in S : a <= b}

SlipFresh == {a \in Address : a > nextFreeIp /\ lease[a].owner = Nobody}
\* The addresses of which the search from _nextFreeIp finds the first
Fresh == {a \in Address : a >= nextFreeIp /\ lease[a].owner = Nobody}

\* The expired leases of which the search from _minAddress finds the first
Expired == {a \in Address : lease[a].owner # Nobody /\ IsExpired(a)}

SlipTaken(c, r) == r \in Address
\* The client gets the address it asks for: nobody has it, or it expired
Preferred(c, r) == r \in Address /\ IsExpired(r)

\* Discover's choice for client c that asks for r, as a set of one or none
Pick(c, r) ==
  CASE Of(c) # {} -> Of(c)
    [] Of(c) = {} /\ Preferred(c, r) -> {r}
    [] Of(c) = {} /\ ~Preferred(c, r) ->
         IF Fresh # {} THEN Least(Fresh) ELSE Least(Expired)

Searched(c, r) == Of(c) = {} /\ ~Preferred(c, r) /\ Fresh # {}

Init ==
  /\ status = "closed"
  /\ lease = [a \in Address |-> NoLease]
  /\ nextFreeIp = 0
  /\ responses = <<>>
  /\ triggered = FALSE
  /\ file = lease
  /\ content = "whole"
  /\ grant = [c \in Client |-> NoGrant]
  /\ strayed = {}

-----------------------------------------------------------------------------
(* The socket: ReceiveData and SendData.                                   *)

Receiving == status = "open" /\ content # "written" /\ Len(responses) < MaxResponses

SlipFirst(q) == Len(q) = 2
\* Submit wakes the socket for the first response of the queue only
First(q) == Len(q) = 1

\* Submit.  ReceiveData submits every response, also one that was not filled
\* in: response.IsValid() asks the proxy, not the Response
Submit(valid) ==
  /\ responses' = Append(responses, valid)
  /\ triggered' = (triggered \/ First(responses'))

\* The lease is locked for the client until it requests it
Offered(c, a) ==
  [owner |-> c, left |-> IF IsExpired(a) THEN OfferTime ELSE lease[a].left]

Discover(c, r) ==
  /\ Receiving
  /\ IF Pick(c, r) = {}
     THEN Submit(FALSE) /\ UNCHANGED serverVars
     ELSE \E a \in Pick(c, r) :
            /\ lease' = [lease EXCEPT ![a] = Offered(c, a)]
            /\ nextFreeIp' = IF Searched(c, r) THEN a + 1 ELSE nextFreeIp
            /\ Submit(TRUE)
  /\ UNCHANGED <<status, fileVars, grant, strayed>>

\* A request is acknowledged if it names a server, whichever it is, and the
\* client has a lease, be it expired
Knows(c, serverId) == serverId /\ Of(c) # {}

Stale == IF content = "torn" THEN "torn" ELSE "stale"

\* SaveLeases writes the whole list into a file that Create has emptied, unless
\* there is no _persistentPath or Create fails, which nobody is told
SaveLeases ==
  \/ /\ file' = lease'
     /\ content' = "written"
     /\ UNCHANGED queueVars
  \/ /\ content' = Stale
     /\ Submit(TRUE)
     /\ UNCHANGED file

\* Request: a positive answer extends the lease and starts the callback, which
\* saves the leases
Acknowledge(c, r) ==
  /\ Receiving
  /\ Knows(c, TRUE)
  /\ \E a \in Of(c) :
       /\ lease' = [lease EXCEPT ![a].left = LeaseTime]
       /\ strayed' = strayed \cup (IF r = a THEN {} ELSE {"parted"})
  /\ grant' = [grant EXCEPT ![c] = [address |-> r, left |-> LeaseTime]]
  /\ SaveLeases
  /\ UNCHANGED <<status, nextFreeIp>>

\* A refusal invalidates the lease the client has
Invalidated(c) ==
  [a \in Address |-> IF a \in Of(c) THEN [lease[a] EXCEPT !.left = 0]
                                    ELSE lease[a]]

Refuse(c, serverId) ==
  /\ Receiving
  /\ ~Knows(c, serverId)
  /\ lease' = Invalidated(c)
  /\ grant' = [grant EXCEPT ![c] = NoGrant]
  /\ Submit(TRUE)
  /\ UNCHANGED <<status, nextFreeIp, fileVars, strayed>>

\* SaveLeases is done, and with it Request and ReceiveData; it does not look at
\* what became of the writing
Saved ==
  /\ status = "open"
  /\ content = "written"
  /\ content' \in {"whole", "torn"}
  /\ Submit(TRUE)
  /\ UNCHANGED <<status, serverVars, file, grant, strayed>>

\* DECLINE, RELEASE, INFORM and the messages of servers: nothing is done, and
\* an empty response submitted
Unsupported ==
  /\ Receiving
  /\ Submit(FALSE)
  /\ UNCHANGED <<status, serverVars, fileVars, grant, strayed>>

\* An invalid response is dropped, and SendData says that there is no more
Dropped(q) == ~Head(q) /\ Tail(q) # <<>>

SendData ==
  /\ status = "open"
  /\ content # "written"
  /\ triggered
  /\ triggered' = (responses # <<>> /\ Head(responses))
  /\ responses' = IF responses = <<>> THEN <<>> ELSE Tail(responses)
  /\ strayed' =
       IF responses' = <<>> THEN strayed \ {"stuck"}
       ELSE strayed \cup (IF Dropped(responses) THEN {"stuck"} ELSE {})
  /\ UNCHANGED <<status, serverVars, fileVars, grant>>

-----------------------------------------------------------------------------
(* Activation, restart and time.                                           *)

\* The address pool is searched from the start again
Open ==
  /\ status = "closed"
  /\ status' = "open"
  /\ nextFreeIp' = minAddress
  /\ triggered' \in BOOLEAN
  /\ UNCHANGED <<lease, responses, fileVars, grant, strayed>>

\* The responses stay in the queue, and nobody triggers them later
Close ==
  /\ status = "open"
  /\ content # "written"
  /\ status' = "closed"
  /\ triggered' = FALSE
  /\ strayed' = strayed \cup (IF responses = <<>> THEN {} ELSE {"stuck"})
  /\ UNCHANGED <<serverVars, responses, fileVars, grant>>

\* The process ends, or the plugin is deactivated
Crash ==
  /\ status # "down"
  /\ status' = "down"
  /\ lease' = [a \in Address |-> NoLease]
  /\ nextFreeIp' = 0
  /\ responses' = <<>>
  /\ triggered' = FALSE
  /\ content' = IF content = "written" THEN "torn" ELSE content
  /\ strayed' = (strayed \ {"stuck"}) \cup (IF content = "whole" THEN {} ELSE {"parted"})
  /\ UNCHANGED <<file, grant>>

\* What the parser finds in the file: all of it, if it was written to its end
Loaded(S) ==
  [a \in Address |-> IF a \in S \/ content # "torn" THEN file[a] ELSE NoLease]

\* LoadLeases finds and opens the file
ReadLeases ==
  /\ \E S \in SUBSET Address : lease' = Loaded(S)
  /\ file' = lease'
  /\ content' = "whole"
  /\ UNCHANGED strayed

\* There is no path, or the file does not open: the server starts without leases
NoLeases ==
  /\ lease' = [a \in Address |-> NoLease]
  /\ strayed' = strayed \cup (IF file = lease' THEN {} ELSE {"parted"})
  /\ UNCHANGED fileVars

Initialize ==
  /\ status = "down"
  /\ status' = "closed"
  /\ ReadLeases \/ NoLeases
  /\ UNCHANGED <<nextFreeIp, queueVars, grant>>

SlipLess(n) == n - 1
Less(n) == IF n = 0 THEN 0 ELSE n - 1
Older(f) == [x \in DOMAIN f |-> [f[x] EXCEPT !.left = Less(@)]]

NothingGranted == \A c \in Client : grant[c].left = 0

\* Time passes, for the server, for its file and for the clients
Tick ==
  /\ lease' = Older(lease)
  /\ file' = Older(file)
  /\ grant' = Older(grant)
  /\ strayed' = strayed \ (IF NothingGranted' THEN {"parted"} ELSE {})
  /\ UNCHANGED <<status, nextFreeIp, queueVars, content>>

ReceiveData ==
  \/ \E c \in Client :
       \/ \E r \in Address \cup {Nowhere} : Discover(c, r) \/ Acknowledge(c, r)
       \/ \E serverId \in BOOLEAN : Refuse(c, serverId)
  \/ Unsupported

Next ==
  \/ ReceiveData
  \/ Saved
  \/ SendData
  \/ Open \/ Close
  \/ Crash \/ Initialize
  \/ Tick

Spec == Init /\ [][Next]_vars

-----------------------------------------------------------------------------
Lease == [owner : Client \cup {Nobody}, left : Nat]

\* Every variable keeps its type.
TypeOK ==
  /\ status \in {"down", "closed", "open"}
  /\ lease \in [Address -> Lease]
  /\ nextFreeIp \in Int
  /\ responses \in Seq(BOOLEAN)
  /\ triggered \in BOOLEAN
  /\ file \in [Address -> Lease]
  /\ content \in {"whole", "torn", "stale", "written"}
  /\ grant \in [Client -> [address : Address \cup {Nowhere}, left : Nat]]
  /\ strayed \subseteq {"parted", "stuck"}

Parted == "parted" \in strayed

\* No two clients hold the same address at a time, on what the server
\* acknowledged to them, whatever they request, refuse or repeat, and across
\* restarts: unless Request acknowledged an address that is not that of the
\* client's lease, or the process ended with a file that SaveLeases had not
\* written, or not to its end, or LoadLeases did not read it; and then only until
\* what was acknowledged has run out.  What was not saved does no harm before
\* that, nor when a later acknowledgement saves the list.
GrantExclusive ==
  Parted \/ \A c, d \in Client :
    c # d /\ grant[c].left > 0 /\ grant[d].left > 0
      => grant[c].address # grant[d].address

\* A client that asks for any address is refused only when each address is
\* leased to somebody and none is expired: the search from _nextFreeIp, which
\* only grows, loses no address, whatever was handed out by preference or
\* loaded from the file.
RefusedOnlyWhenFull ==
  status = "open" =>
    \A c \in Client : Pick(c, Nowhere) = {} =>
      \A a \in Address : lease[a].owner # Nobody /\ ~IsExpired(a)

\* A client has one lease at most, in memory and in the file, so that the first
\* that Find meets is the only one.
OneLeaseEach ==
  \A a, b \in Address : a # b =>
    /\ lease[a].owner # Nobody => lease[a].owner # lease[b].owner
    /\ file[a].owner # Nobody => file[a].owner # file[b].owner

\* While a response is queued the socket is going to call SendData, unless an
\* empty response was dropped in front of it, or the server was closed, since the
\* queue was last empty.
ResponsesFlow ==
  status = "open" /\ responses # <<>> => triggered \/ "stuck" \in strayed
=============================================================================
