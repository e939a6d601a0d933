------------------------------ MODULE WebProxy ------------------------------
(***************************************************************************)
(* A Connector of the WebProxy plugin: a channel of the framework and a    *)
(* link to a host or a device, with a cyclic buffer for each direction     *)
(* that overwrites the oldest bytes when it runs over.                     *)
(*                                                                         *)
(* A byte is its number in the stream.  The framework reads a direction    *)
(* that was requested until there is nothing to read.                      *)
(*                                                                         *)
(* A behaviour ends when the link delivers to a channel that is gone.      *)
(***************************************************************************)
EXTENDS Naturals, FiniteSetsExt

CONSTANTS
  Size,        \* _size of the buffers, 8192 in the code; greater than one
  MaxSend,     \* maxSendSize, greater than zero
  LastByte     \* how many bytes are written in a direction: a bound

Direction == {"channel", "link"}   \* where the bytes go to

VARIABLES
  head, tail, buffer,  \* _channelBuffer and _socketBuffer
  written, arrived,    \* the last byte that was written, and that was read
  requested,           \* the framework is going to read
  channel,             \* "none", "attached" or "detached"
  link,                \* "closed", "opening", "open" or "closing"
  gap                  \* history: "full", a buffer was filled to the last byte
                       \* and counts as empty; "crash"

bufferVars == <<head, tail, buffer, written, arrived>>
proxyVars  == <<bufferVars, requested, channel, link, gap>>

Empty == [d \in Direction |-> 0]

Init ==
  /\ head = Empty
  /\ tail = Empty
  /\ buffer = [d \in Direction |-> [i \in 0 .. Size - 1 |-> 0]]
  /\ written = Empty
  /\ arrived = Empty
  /\ requested = [d \in Direction |-> FALSE]
  /\ channel = "none"
  /\ link = "closed"
  /\ gap = {}

-----------------------------------------------------------------------------
(* CyclicDataBuffer.                                                       *)

Filled(d) == IF head[d] >= tail[d] THEN head[d] - tail[d] ELSE Size - (tail[d] - head[d])
Free(d) == Size - Filled(d)
IsEmpty(d) == head[d] = tail[d]

SlipNewTail(d, n) == tail[d]
\* A buffer that runs over keeps what it can; one that is just filled is empty
NewTail(d, n) ==
  IF Free(d) < n THEN (head[d] + n + 1) % Size ELSE tail[d]

Stored(d, n) ==
  [i \in 0 .. Size - 1 |->
     IF \E k \in 1 .. n : i = (head[d] + k - 1) % Size
     THEN written[d] + 1 + ((Size + i - head[d]) % Size)
     ELSE buffer[d][i]]

\* Write of n bytes, fewer than Size, and the request if there was nothing
Write(d, n) ==
  /\ head' = [head EXCEPT ![d] = (@ + n) % Size]
  /\ tail' = [tail EXCEPT ![d] = NewTail(d, n)]
  /\ buffer' = [buffer EXCEPT ![d] = Stored(d, n)]
  /\ written' = [written EXCEPT ![d] = @ + n]
  /\ requested' = [requested EXCEPT ![d] = @ \/ IsEmpty(d)]
  /\ gap' = gap \cup (IF Free(d) = n THEN {"full"} ELSE {})
  /\ UNCHANGED arrived

\* Read, up to MaxSend bytes; the framework goes on until there is none
Read(d) ==
  LET n == Min({Filled(d), MaxSend})
  IN  /\ requested[d]
      /\ requested' = [requested EXCEPT ![d] = n > 0]
      /\ tail' = [tail EXCEPT ![d] = (@ + n) % Size]
      /\ arrived' =
           [arrived EXCEPT ![d] = IF n = 0 THEN @ ELSE buffer[d][(tail[d] + n - 1) % Size]]
      /\ UNCHANGED <<head, buffer, written>>

Bytes(d) == {n \in 1 .. Size - 1 : written[d] + n <= LastByte}

-----------------------------------------------------------------------------
(* The Connector.                                                          *)

\* ReceiveData of the link, whether the channel is there or not
ReceiveData ==
  /\ link \in {"open", "closing"}
  /\ IF channel = "detached" /\ IsEmpty("channel")
     THEN gap' = gap \cup {"crash"} /\ UNCHANGED <<bufferVars, requested>>
     ELSE \E n \in Bytes("channel") : Write("channel", n)
  /\ UNCHANGED <<channel, link>>

\* Inbound
ChannelReceive ==
  /\ channel = "attached"
  /\ \E n \in Bytes("link") : Write("link", n)
  /\ UNCHANGED <<channel, link>>

\* Outbound
ChannelSend == channel = "attached" /\ Read("channel") /\ UNCHANGED <<channel, link, gap>>

SendData == link = "open" /\ Read("link") /\ UNCHANGED <<channel, link, gap>>

\* CreateConnector, with the Open of the link, which may take its time
Attach ==
  /\ channel = "none"
  /\ channel' = "attached"
  /\ link' \in {"opening", "open", "closed"}
  /\ UNCHANGED <<bufferVars, requested, gap>>

\* The link is opened, and tells what it may send, or is closed by its peer
StateChange ==
  /\ \/ link = "opening" /\ link' = "open"
     \/ link # "closed" /\ link' = "closed"
  /\ \E send \in BOOLEAN :
        requested' = [requested EXCEPT !["link"] = (link' = "open" /\ (@ \/ send))]
  /\ UNCHANGED <<bufferVars, channel, gap>>

Detach ==
  /\ channel = "attached"
  /\ channel' = "detached"
  /\ link' = IF link = "closed" THEN "closed" ELSE "closing"
  /\ UNCHANGED <<bufferVars, requested, gap>>

Next ==
  /\ "crash" \notin gap
  /\ \/ ReceiveData \/ SendData \/ StateChange
     \/ ChannelReceive \/ ChannelSend
     \/ Attach \/ Detach

Spec == Init /\ [][Next]_proxyVars

-----------------------------------------------------------------------------
\* Every variable keeps its type.
TypeOK ==
  /\ \A d \in Direction :
        /\ {head[d], tail[d]} \subseteq 0 .. Size - 1
        /\ {written[d], arrived[d]} \subseteq 0 .. LastByte
        /\ requested[d] \in BOOLEAN
  /\ channel \in {"none", "attached", "detached"}
  /\ link \in {"closed", "opening", "open", "closing"}
  /\ gap \subseteq {"full", "crash"}

\* What a buffer holds are the last bytes that were written, in their order,
\* also after it ran over and around, and no byte is read twice.  It holds all of
\* them that were not read, or as many as it can, unless it was once filled to
\* the last byte.  What waits for the channel has been requested from it.
BytesInOrder ==
  /\ \A d \in Direction :
        /\ \A i \in 0 .. Filled(d) - 1 :
              buffer[d][(tail[d] + i) % Size] = written[d] - Filled(d) + 1 + i
        /\ arrived[d] <= written[d] - Filled(d)
        /\ "full" \notin gap =>
             Filled(d) = Min({Size - 1, written[d] - arrived[d]})
  /\ ~IsEmpty("channel") => requested["channel"]
=============================================================================
