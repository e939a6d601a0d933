---------------------------- MODULE FileTransfer ----------------------------
(***************************************************************************)
(* The FileTransfer plugin, from its registration on: a job reads what was *)
(* appended to the observed file, line by line, into the queue that the    *)
(* socket's thread sends in datagrams.                                     *)
(*                                                                         *)
(* The file is a sequence of pieces, each of which is read as a line: its  *)
(* number, or zero for an empty line.  A line that is appended in two steps*)
(* may be read as two pieces.                                              *)
(*                                                                         *)
(* The file may fail to open.  That this makes the plugin begin again with *)
(* a file that is not empty happens once at most, which is a bound.        *)
(***************************************************************************)
EXTENDS Naturals, Sequences

CONSTANT LastPiece    \* how many pieces are ever written: a bound

VARIABLES
  log, pieces,   \* the file, and how many pieces were written to it
  position,      \* FileObserver::_position
  observing,     \* _callback is set, and the file is monitored
  changed,       \* its _job is submitted
  reading,       \* the position that Dispatch reads next; zero when it is idle
  sendQueue,     \* TextChannel::_sendQueue
  offset,        \* _offset: "start", "text" or "done"
  waking,        \* the socket is going to call SendData
  sentLine,      \* history: the last line that was sent to its end
  again          \* history: a file with lines is read from its beginning again

fileVars == <<log, pieces, position, observing, changed, reading, sendQueue,
              offset, waking, sentLine, again>>

channelVars == <<sendQueue, offset, waking, sentLine>>

\* Register: from the end of the file, or all of it, as when it does not open
Init ==
  /\ log \in {<<>>, <<1>>}
  /\ pieces = Len(log)
  /\ position \in {0, Len(log)}
  /\ observing = TRUE
  /\ changed = FALSE
  /\ reading = 0
  /\ sendQueue = <<>>
  /\ offset = "start"
  /\ waking = FALSE
  /\ sentLine = 0
  /\ again = FALSE

\* Something is appended, or the file is emptied: Updated
Write ==
  /\ \/ /\ pieces < LastPiece
        /\ pieces' = pieces + 1
        /\ \E piece \in {0, pieces'} : log' = Append(log, piece)
     \/ log # <<>> /\ log' = <<>> /\ UNCHANGED pieces
  /\ changed' = (changed \/ observing)
  /\ UNCHANGED <<position, observing, reading, channelVars, again>>

SlipPosition == position
\* Whatever was not read, or was written after it was read, is passed over
CurrentPosition == Len(log)

\* GetCurrentPosition: the end of the file, or zero when it does not open
TakePosition ==
  \/ position' = CurrentPosition /\ UNCHANGED again
  \/ ~again /\ position' = 0 /\ again' = (log # <<>>)

\* Dispatch opens the file and seeks, be it beyond its end.  When it does not open
\* there is but the position to take
Dispatch ==
  /\ changed
  /\ reading = 0
  /\ changed' = FALSE
  /\ \/ reading' = position + 1 /\ UNCHANGED <<position, again>>
     \/ TakePosition /\ UNCHANGED reading
  /\ UNCHANGED <<log, pieces, observing, channelVars>>

\* getline finds a line.  An empty one ends the loop
Readable == reading > 0 /\ reading <= Len(log) /\ log[reading] # 0

\* NewLine wakes the socket for the first line of the queue only
NewLine ==
  /\ Readable
  /\ sendQueue' = Append(sendQueue, log[reading])
  /\ waking' = (waking \/ Len(sendQueue') = 1)
  /\ reading' = reading + 1
  /\ UNCHANGED <<log, pieces, position, observing, changed, offset, sentLine, again>>

EndDispatch ==
  /\ reading > 0
  /\ ~Readable
  /\ TakePosition
  /\ reading' = 0
  /\ UNCHANGED <<log, pieces, observing, changed, channelVars>>

\* The line that was sent to its end is discarded in the next call
Remaining == IF offset = "done" THEN Tail(sendQueue) ELSE sendQueue

\* SendData: a part of the text, or the rest of it with the closing marker
SendData ==
  /\ waking
  /\ sendQueue' = Remaining
  /\ waking' = (Remaining # <<>>)
  /\ IF Remaining = <<>>
     THEN offset' = "start" /\ UNCHANGED sentLine
     ELSE \/ offset' = "text" /\ UNCHANGED sentLine
          \/ offset' = "done" /\ sentLine' = Head(Remaining)
  /\ UNCHANGED <<log, pieces, position, observing, changed, reading, again>>

\* Unregister waits for the job
Unregister ==
  /\ observing
  /\ reading = 0
  /\ observing' = FALSE
  /\ changed' = FALSE
  /\ position' = 0
  /\ UNCHANGED <<log, pieces, reading, channelVars, again>>

Next ==
  \/ Write
  \/ Dispatch \/ NewLine \/ EndDispatch
  \/ SendData
  \/ Unregister

Spec == Init /\ [][Next]_fileVars

-----------------------------------------------------------------------------
\* Every variable keeps its type.
TypeOK ==
  /\ log \in Seq(0 .. LastPiece)
  /\ sendQueue \in Seq(1 .. LastPiece)
  /\ {position, reading, pieces, sentLine} \subseteq Nat
  /\ offset \in {"start", "text", "done"}
  /\ {observing, changed, waking, again} \subseteq BOOLEAN

\* Lines are sent in the order in which they were written, and none twice,
\* however the file grows, is emptied or cannot be read, up to the moment at which
\* the position of a file with lines is lost, when it is sent from its beginning
\* again; and what is queued has the socket's attention, then too.
LinesInOrder ==
  /\ ~again => /\ \A i, j \in DOMAIN sendQueue : i < j => sendQueue[i] < sendQueue[j]
               /\ sendQueue # <<>> /\ offset # "done" => Head(sendQueue) > sentLine
  /\ sendQueue # <<>> => waking /\ (offset = "done" => Head(sendQueue) = sentLine)
=============================================================================
