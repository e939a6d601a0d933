-------------------------- MODULE PluginDataProofs --------------------------
(***************************************************************************)
(* Proofs about the plugins that keep or forward something: Power, with    *)
(* its persisted state and the clients it suspended, FileTransfer with its *)
(* queue of lines, and WebProxy with its cyclic buffers; and the types of  *)
(* all the plugins.                                                        *)
(***************************************************************************)
EXTENDS PluginJobProofs, Sequences

-----------------------------------------------------------------------------
(* Power.                                                                  *)

CallTypes ==
  /\ call \in [Caller -> {"idle", "post", "ask", "save", "submit"}]
  /\ wanted \in [Caller -> Device!States]

\* As long as the clients are followed, whoever walks over them finds them there.
ClientTypes ==
  /\ plugin \in [Client -> {"none", "resumed", "suspended"}]
  /\ remembered \subseteq Device!Known
  /\ todo \in [Device!Walker -> SUBSET Client]
  /\ doing \in [Device!Walker -> SUBSET (Device!Step \X Client)]
  /\ owed \subseteq Client /\ overtaken \subseteq Client
  /\ lost \/ \A w \in Device!Walker : todo[w] \subseteq Device!Known

PowerTypes == CallTypes /\ ClientTypes

\* UpdateState has set the state it changes to before it calls back.
Updated ==
  /\ at \in {"awake", "revoked", "after", "resuming"} => powerState = updating
  /\ at \in {"awake", "revoked"} => updating = "SuspendToRAM"

\* Between two changes the persisted state is the present one, or one that a call
\* has saved and is going to submit, or one that is submitted.
Saved ==
  ~refused /\ at = "idle" =>
    \/ persisted = powerState
    \/ \E c \in Caller : call[c] = "submit" /\ wanted[c] = persisted
    \/ queued /\ mode = persisted

\* Only a call that controls the clients, and a job that resumes them, have clients
\* left to walk over.
Walks ==
  /\ \A c \in Caller : todo[c] # {} => call[c] \in {"post", "save"}
  /\ todo["job"] # {} => at = "resuming"

\* Whoever is in a step with a client is in no other; only a call that leaves On
\* suspends.
Doing ==
  \A w \in Device!Walker, s \in Device!Step, p \in Client : <<s, p>> \in doing[w] =>
    /\ p \in todo[w] /\ doing[w] = {<<s, p>>}
    /\ s \in {"remember", "suspend"} => w \in Caller /\ wanted[w] # "On"

\* Whom a SUSPEND is on its way to, or has suspended, has its flag set, or is being
\* resumed, unless its flag was cleared in between.
Flagged ==
  ~lost =>
    /\ \A w \in Device!Walker, p \in Client :
         <<"suspend", p>> \in doing[w] => p \in remembered \cup overtaken
    /\ \A p \in owed : \/ p \in remembered \cup overtaken
                       \/ \E w \in Device!Walker : <<"resume", p>> \in doing[w]

\* Somebody is going to take the device out of On.
Leaving ==
  \/ \E c \in Caller : call[c] \in {"post", "save", "submit"} /\ wanted[c] # "On"
  \/ queued /\ mode # "On"
  \/ at = "before" /\ updating # "On"

\* Whose flag the job has still to look at.
Ahead == {p \in todo["job"] : <<"resume", p>> \notin doing["job"]}

\* A client that is remembered while the device is on will be resumed by the job,
\* unless the device leaves On.
Resuming ==
  ~refused /\ ~lost /\ powerState = "On" =>
    \/ remembered = {} \/ Leaving
    \/ at = "after"
    \/ at = "resuming" /\ remembered \subseteq Ahead

PowerInv == PowerTypes /\ Updated /\ Saved /\ Walks /\ Doing /\ Flagged /\ Resuming

LEMMA PowerInit == Device!Init => PowerInv
<1> SUFFICES ASSUME Device!Init PROVE PowerInv
  OBVIOUS
<1> USE DEF Device!Init, Device!States, Device!Standby, Device!On
<1>1. PowerTypes
  <2>1. plugin \in [Client -> {"none", "resumed", "suspended"}]
    OBVIOUS
  <2>2. CallTypes
    BY DEF CallTypes
  <2> QED
    BY <2>1, <2>2 DEF PowerTypes, ClientTypes
<1>2. \A w \in Device!Walker : todo[w] = {} /\ doing[w] = {}
  OBVIOUS
<1>3. "job" \in Device!Walker /\ \A c \in Caller : c \in Device!Walker
  BY DEF Device!Walker
<1>4. Updated /\ Saved /\ Walks /\ Resuming
  BY <1>2, <1>3 DEF Updated, Saved, Walks, Resuming
<1>5. Doing /\ Flagged
  BY <1>2 DEF Doing, Flagged
<1> QED
  BY <1>1, <1>4, <1>5 DEF PowerInv

\* Steps with a client are told apart by their name and their client.
LEMMA Pairs == \A s, t, p, q : <<s, p>> = <<t, q>> <=> s = t /\ p = q
OBVIOUS

LEMMA WalkersAre ==
  /\ "job" \in Device!Walker /\ \A c \in Caller : c \in Device!Walker /\ c # "job"
  /\ \A w \in Device!Walker : w = "job" \/ w \in Caller
  /\ Device!Step = {"remember", "suspend", "forget", "resume"}
BY CallerAssumption DEF Device!Walker, Device!Step

\* What one step of a walk does to the walk itself.
LEMMA ControlSteps ==
  ASSUME PowerTypes, ~lost, NEW w \in Device!Walker, NEW s, Device!Control(w, s)
  PROVE  \E p \in todo[w] :
           /\ p \in Device!Known
           /\ \/ \E step \in Device!Step :
                   todo' = todo /\ doing' = [doing EXCEPT ![w] = {<<step, p>>}]
              \/ /\ todo' = [todo EXCEPT ![w] = @ \ {p}]
                 /\ doing' = [doing EXCEPT ![w] = {}]
           /\ \/ plugin' = plugin \/ plugin' = [plugin EXCEPT ![p] = "resumed"]
              \/ plugin' = [plugin EXCEPT ![p] = "suspended"]
           /\ remembered' \subseteq remembered \cup {p}
           /\ owed' \subseteq owed \cup {p} /\ overtaken' \subseteq overtaken \cup {p}
<1>1. PICK p \in todo[w] :
        \/ Device!Reach(w, s, p) \/ Device!Remember(w, p) \/ Device!Suspend(w, p)
        \/ Device!Forget(w, p) \/ Device!Resume(w, p)
  BY DEF Device!Control
<1>2. p \in Device!Known
  BY DEF PowerTypes, ClientTypes
<1> DEFINE Goal ==
      /\ \/ \E step \in Device!Step :
              todo' = todo /\ doing' = [doing EXCEPT ![w] = {<<step, p>>}]
         \/ /\ todo' = [todo EXCEPT ![w] = @ \ {p}]
            /\ doing' = [doing EXCEPT ![w] = {}]
      /\ \/ plugin' = plugin \/ plugin' = [plugin EXCEPT ![p] = "resumed"]
         \/ plugin' = [plugin EXCEPT ![p] = "suspended"]
      /\ remembered' \subseteq remembered \cup {p}
      /\ owed' \subseteq owed \cup {p} /\ overtaken' \subseteq overtaken \cup {p}
<1> USE DEF Device!GoesOn, Device!IsThrough, Device!clientVars
<1>3. ASSUME Device!Reach(w, s, p) PROVE Goal
  <2>1. /\ plugin' = plugin /\ remembered' = remembered
        /\ owed' = owed /\ overtaken' = overtaken
        /\ \/ todo' = todo /\ doing' = [doing EXCEPT ![w] = {<<"forget", p>>}]
           \/ todo' = todo /\ doing' = [doing EXCEPT ![w] = {<<"remember", p>>}]
           \/ /\ todo' = [todo EXCEPT ![w] = @ \ {p}]
              /\ doing' = [doing EXCEPT ![w] = {}]
    BY <1>3, Zenon DEF Device!Reach
  <2> QED
    BY <2>1, WalkersAre
<1>4. ASSUME Device!Remember(w, p) PROVE Goal
  BY <1>4, WalkersAre DEF Device!Remember
<1>5. ASSUME Device!Suspend(w, p) PROVE Goal
  BY <1>5 DEF Device!Suspend
<1>6. ASSUME Device!Forget(w, p) PROVE Goal
  <2>1. overtaken' \subseteq overtaken \cup {p}
    BY <1>6 DEF Device!Forget
  <2> QED
    BY <1>6, <2>1, WalkersAre DEF Device!Forget
<1>7. ASSUME Device!Resume(w, p) PROVE Goal
  <2>1. owed' \subseteq owed /\ overtaken' \subseteq overtaken
    BY <1>7 DEF Device!Resume, Device!Reached
  <2> QED
    BY <1>7, <2>1 DEF Device!Resume
<1>8. Goal
  BY <1>1, <1>3, <1>4, <1>5, <1>6, <1>7
<1> QED
  BY <1>2, <1>8

\* What a submission does to the one job.
LEMMA SubmitSteps ==
  ASSUME NEW s, Device!Submit(s)
  PROVE  (~queued /\ queued' = TRUE /\ mode' = s) \/ (queued' = queued /\ mode' = mode)
BY DEF Device!Submit

\* A step of a walk keeps the types of the clients.
LEMMA ControlTypes ==
  ASSUME PowerTypes, ~lost, NEW w \in Device!Walker, NEW s, Device!Control(w, s)
  PROVE  ClientTypes'
<1>1. PICK p \in todo[w] :
        /\ p \in Device!Known
        /\ \/ \E step \in Device!Step :
                todo' = todo /\ doing' = [doing EXCEPT ![w] = {<<step, p>>}]
           \/ /\ todo' = [todo EXCEPT ![w] = @ \ {p}]
              /\ doing' = [doing EXCEPT ![w] = {}]
        /\ \/ plugin' = plugin \/ plugin' = [plugin EXCEPT ![p] = "resumed"]
           \/ plugin' = [plugin EXCEPT ![p] = "suspended"]
        /\ remembered' \subseteq remembered \cup {p}
        /\ owed' \subseteq owed \cup {p} /\ overtaken' \subseteq overtaken \cup {p}
  BY ControlSteps
<1>0. /\ plugin \in [Client -> {"none", "resumed", "suspended"}]
      /\ remembered \subseteq Device!Known
      /\ todo \in [Device!Walker -> SUBSET Client]
      /\ doing \in [Device!Walker -> SUBSET (Device!Step \X Client)]
      /\ owed \subseteq Client /\ overtaken \subseteq Client
      /\ \A v \in Device!Walker : todo[v] \subseteq Device!Known
  BY DEF PowerTypes, ClientTypes
<1>2. p \in Client
  BY <1>1 DEF Device!Known
<1>3. plugin' \in [Client -> {"none", "resumed", "suspended"}] /\ Device!Known' = Device!Known
  BY <1>0, <1>1, <1>2 DEF Device!Known
<1>4. \A v \in Device!Walker : todo'[v] \subseteq todo[v]
  BY <1>0, <1>1
<1>5. todo' \in [Device!Walker -> SUBSET Client]
  BY <1>0, <1>1
<1>6. doing' \in [Device!Walker -> SUBSET (Device!Step \X Client)]
  <2>1. CASE \E step \in Device!Step : doing' = [doing EXCEPT ![w] = {<<step, p>>}]
    <3>1. PICK step \in Device!Step : doing' = [doing EXCEPT ![w] = {<<step, p>>}]
      BY <2>1
    <3>2. {<<step, p>>} \in SUBSET (Device!Step \X Client)
      BY <1>2
    <3> QED
      BY <1>0, <3>1, <3>2
  <2>2. CASE doing' = [doing EXCEPT ![w] = {}]
    BY <1>0, <2>2
  <2> QED
    BY <1>1, <2>1, <2>2
<1> QED
  BY <1>0, <1>1, <1>2, <1>3, <1>4, <1>5, <1>6, Zenon DEF ClientTypes

LEMMA StepPowerTypes == PowerTypes /\ [Device!Next]_powerVars => PowerTypes'
<1> SUFFICES ASSUME PowerTypes, [Device!Next]_powerVars PROVE PowerTypes'
  OBVIOUS
<1> USE DEF Device!jobVars, Device!clientVars, Device!walkVars, Device!stopVars
<1>c. ASSUME UNCHANGED <<plugin, remembered, todo, doing, owed, overtaken, lost>>
      PROVE  ClientTypes'
  BY <1>c DEF PowerTypes, ClientTypes, Device!Known
<1>t. ASSUME UNCHANGED <<plugin, remembered, doing, owed, overtaken, lost>>,
             NEW w \in Device!Walker,
             \/ todo' = [todo EXCEPT ![w] = {}]
             \/ todo' = [todo EXCEPT ![w] = Device!Known]
      PROVE  ClientTypes'
  <2>1. Device!Known \subseteq Client /\ Device!Known' = Device!Known
    BY <1>t DEF Device!Known
  <2>2. todo \in [Device!Walker -> SUBSET Client] /\ todo' \in [Device!Walker -> SUBSET Client]
    BY <1>t, <2>1 DEF PowerTypes, ClientTypes
  <2>3. \A v \in Device!Walker : todo'[v] \subseteq todo[v] \/ todo'[v] \subseteq Device!Known
    BY <1>t, <2>2
  <2> QED
    BY <1>t, <2>1, <2>2, <2>3 DEF PowerTypes, ClientTypes
<1>w. ASSUME UNCHANGED <<call, wanted>> PROVE CallTypes'
  BY <1>w DEF PowerTypes, CallTypes
<1>s. /\ \A s \in Device!States : \A c \in Caller :
           [wanted EXCEPT ![c] = s] \in [Caller -> Device!States]
      /\ "On" \in Device!States
  BY DEF PowerTypes, CallTypes, Device!States, Device!On
<1>e. \A s \in {"idle", "post", "ask", "save", "submit"} : \A c \in Caller :
        [call EXCEPT ![c] = s] \in [Caller -> {"idle", "post", "ask", "save", "submit"}]
  BY DEF PowerTypes, CallTypes
<1>d. ASSUME NEW c \in Caller, Device!Ends(c) PROVE CallTypes'
  <2>1. call' = [call EXCEPT ![c] = "idle"] /\ wanted' = [wanted EXCEPT ![c] = "On"]
    BY <1>d DEF Device!Ends, Device!On
  <2> QED
    BY <1>s, <1>e, <2>1 DEF CallTypes
<1>1. ASSUME NEW c \in Caller, Device!Call(c) PROVE PowerTypes'
  <2>1. CallTypes'
    <3>1. PICK s \in Device!States : wanted' = [wanted EXCEPT ![c] = s]
      BY <1>1 DEF Device!Call
    <3> QED
      BY <1>1, <1>s, <1>e, <3>1 DEF Device!Call, CallTypes
  <2>2. ClientTypes'
    <3>1. UNCHANGED <<plugin, remembered, doing, owed, overtaken, lost>>
      BY <1>1 DEF Device!Call
    <3>2. todo' = todo \/ todo' = [todo EXCEPT ![c] = Device!Known]
      BY <1>1 DEF Device!Call
    <3> QED
      BY <1>c, <1>t, <3>1, <3>2, WalkersAre
  <2> QED
    BY <2>1, <2>2 DEF PowerTypes
<1>2. ASSUME ~lost, NEW c \in Caller, Device!Walk(c) PROVE PowerTypes'
  BY <1>2, <1>w, ControlTypes, WalkersAre DEF Device!Walk, PowerTypes
<1>3. ASSUME NEW c \in Caller, Device!Ask(c) PROVE PowerTypes'
  <2>1. CallTypes'
    <3>1. \/ Device!Ends(c)
          \/ call' = [call EXCEPT ![c] = "save"] /\ wanted' = wanted
      BY <1>3 DEF Device!Ask
    <3>2. wanted \in [Caller -> Device!States]
      BY DEF PowerTypes, CallTypes
    <3> QED
      BY <1>d, <1>e, <3>1, <3>2 DEF CallTypes
  <2>2. ClientTypes'
    <3>1. UNCHANGED <<plugin, remembered, doing, owed, overtaken, lost>>
      BY <1>3 DEF Device!Ask
    <3>2. \/ todo' = todo \/ todo' = [todo EXCEPT ![c] = {}]
          \/ todo' = [todo EXCEPT ![c] = Device!Known]
      BY <1>3, Zenon DEF Device!Ask
    <3> QED
      BY <1>c, <1>t, <3>1, <3>2, WalkersAre
  <2> QED
    BY <2>1, <2>2 DEF PowerTypes
<1>4. ASSUME NEW c \in Caller, Device!Save(c) PROVE PowerTypes'
  <2>1. call' = [call EXCEPT ![c] = "submit"] /\ wanted' = wanted
    BY <1>4 DEF Device!Save
  <2>2. CallTypes'
    BY <1>e, <2>1 DEF PowerTypes, CallTypes
  <2> QED
    BY <1>4, <1>c, <2>2 DEF Device!Save, PowerTypes
<1>5. ASSUME NEW c \in Caller, Device!Request(c) PROVE PowerTypes'
  BY <1>5, <1>c, <1>d DEF Device!Request, PowerTypes
<1>6. ASSUME Device!Start \/ Device!Change \/ Device!RevokeJob \/ Device!Return
               \/ Device!Changed
      PROVE  PowerTypes'
  BY <1>6, <1>c, <1>w DEF Device!Start, Device!Change, Device!RevokeJob, Device!Return,
     Device!Changed, PowerTypes
<1>7. ASSUME Device!PowerChange PROVE PowerTypes'
  <2>1. \/ todo' = [todo EXCEPT !["job"] = {}]
        \/ todo' = [todo EXCEPT !["job"] = Device!Known]
    BY <1>7, Zenon DEF Device!PowerChange
  <2>2. UNCHANGED <<plugin, remembered, doing, owed, overtaken, lost, call, wanted>>
    BY <1>7 DEF Device!PowerChange
  <2> QED
    BY <1>t, <1>w, <2>1, <2>2, WalkersAre DEF PowerTypes
<1>8. ASSUME ~lost, Device!WalkBack PROVE PowerTypes'
  BY <1>8, <1>w, ControlTypes, WalkersAre DEF Device!WalkBack, PowerTypes
<1>9. ASSUME ~lost, NEW p \in Client,
             Device!Activated(p) \/ Device!Deactivated(p) \/ Device!Others(p)
      PROVE  PowerTypes'
  <2>1. UNCHANGED <<call, wanted, todo, doing>>
    BY <1>9 DEF Device!Activated, Device!Deactivated, Device!Others
  <2>2. /\ plugin \in [Client -> {"none", "resumed", "suspended"}]
        /\ remembered \subseteq Device!Known /\ owed \subseteq Client /\ overtaken \subseteq Client
        /\ todo \in [Device!Walker -> SUBSET Client]
        /\ doing \in [Device!Walker -> SUBSET (Device!Step \X Client)]
        /\ \A w \in Device!Walker : todo[w] \subseteq Device!Known
    BY <1>9 DEF PowerTypes, ClientTypes
  <2>3. /\ plugin' \in [Client -> {"none", "resumed", "suspended"}]
        /\ remembered' \subseteq Device!Known'
        /\ owed' \subseteq Client /\ overtaken' \subseteq Client
    <3>1. CASE Device!Activated(p)
      BY <2>2, <3>1 DEF Device!Activated, Device!Known
    <3>2. CASE Device!Deactivated(p)
      BY <2>2, <3>2 DEF Device!Deactivated, Device!Known
    <3>3. CASE Device!Others(p)
      BY <2>2, <3>3 DEF Device!Others, Device!Reached, Device!Known
    <3> QED
      BY <1>9, <3>1, <3>2, <3>3
  <2>4. lost' \/ \A w \in Device!Walker : todo'[w] \subseteq Device!Known'
    <3>1. CASE Device!Activated(p) \/ Device!Others(p)
      <4>1. Device!Known \subseteq Device!Known'
        BY <2>2, <3>1 DEF Device!Activated, Device!Others, Device!Known
      <4> QED
        BY <2>1, <2>2, <4>1
    <3>2. CASE Device!Deactivated(p)
      <4>1. lost' = Device!Walking
        BY <3>2 DEF Device!Deactivated
      <4>2. Device!Walking \/ \A w \in Device!Walker : todo[w] = {}
        BY <2>2 DEF Device!Walking
      <4> QED
        BY <2>1, <4>1, <4>2
    <3> QED
      BY <1>9, <3>1, <3>2
  <2> QED
    BY <1>w, <2>1, <2>2, <2>3, <2>4 DEF PowerTypes, ClientTypes
<1>10. CASE UNCHANGED powerVars
  BY <1>10, <1>c, <1>w DEF powerVars, PowerTypes
<1> QED
  BY <1>1, <1>2, <1>3, <1>4, <1>5, <1>6, <1>7, <1>8, <1>9, <1>10 DEF Device!Next

LEMMA StepUpdated == Updated /\ [Device!Next]_powerVars => Updated'
<1> SUFFICES ASSUME Updated, [Device!Next]_powerVars PROVE Updated'
  OBVIOUS
<1> USE DEF Updated, Device!jobVars
<1>f. ASSUME UNCHANGED <<powerState, updating, at>> PROVE Updated'
  BY <1>f
<1>1. ASSUME NEW c \in Caller,
             \/ Device!Call(c) \/ Device!Walk(c) \/ Device!Ask(c)
             \/ Device!Save(c) \/ Device!Request(c)
      PROVE  Updated'
  BY <1>1, <1>f DEF Device!Call, Device!Walk, Device!Ask, Device!Save, Device!Request
<1>2. ASSUME NEW p \in Client,
             Device!Activated(p) \/ Device!Deactivated(p) \/ Device!Others(p)
      PROVE  Updated'
  BY <1>2, <1>f DEF Device!Activated, Device!Deactivated, Device!Others
<1>3. ASSUME Device!Start PROVE Updated'
  BY <1>3 DEF Device!Start
<1>4. ASSUME Device!Change PROVE Updated'
  BY <1>4 DEF Device!Change
<1>5. ASSUME Device!RevokeJob \/ Device!Return PROVE Updated'
  BY <1>5 DEF Device!RevokeJob, Device!Return
<1>6. ASSUME Device!PowerChange \/ Device!WalkBack \/ Device!Changed PROVE Updated'
  BY <1>6 DEF Device!PowerChange, Device!WalkBack, Device!Changed
<1>7. CASE UNCHANGED powerVars
  BY <1>7 DEF powerVars
<1> QED
  BY <1>1, <1>2, <1>3, <1>4, <1>5, <1>6, <1>7 DEF Device!Next

LEMMA StepWalks == PowerTypes /\ Walks /\ [Device!Next]_powerVars => Walks'
<1> SUFFICES ASSUME PowerTypes, Walks, [Device!Next]_powerVars PROVE Walks'
  OBVIOUS
<1> USE WalkersAre DEF Walks, PowerTypes, CallTypes, ClientTypes, Device!jobVars,
                       Device!walkVars
\* Nobody gets further clients, and who has some left stays where it is.
<1>f. ASSUME \A w \in Device!Walker : todo'[w] \subseteq todo[w], UNCHANGED call,
             todo["job"] # {} => at' = at
      PROVE  Walks'
  BY <1>f
<1>c. ASSUME NEW w \in Device!Walker, NEW p,
             \/ todo' = todo \/ todo' = [todo EXCEPT ![w] = @ \ {p}]
      PROVE  \A v \in Device!Walker : todo'[v] \subseteq todo[v]
  BY <1>c
<1>1. ASSUME NEW c \in Caller, Device!Call(c) PROVE Walks'
  BY <1>1 DEF Device!Call
<1>2. ASSUME ~lost, NEW c \in Caller, Device!Walk(c) PROVE Walks'
  <2>1. PICK p \in todo[c] : todo' = todo \/ todo' = [todo EXCEPT ![c] = @ \ {p}]
    <3> HIDE DEF PowerTypes
    <3> QED
      BY <1>2, ControlSteps DEF Device!Walk
  <2> QED
    BY <1>2, <1>f, <1>c, <2>1 DEF Device!Walk
<1>3. ASSUME NEW c \in Caller, Device!Ask(c) PROVE Walks'
  <2>1. todo[c] = {} /\ at' = at /\ call[c] \in {"ask", "post"}
    BY <1>3 DEF Device!Ask
  <2>2. \/ /\ call' = [call EXCEPT ![c] = "idle"] /\ todo' = todo
        \/ /\ call' = [call EXCEPT ![c] = "save"]
           /\ \E S : todo' = [todo EXCEPT ![c] = S]
    BY <1>3, Zenon DEF Device!Ask, Device!Ends
  <2> QED
    BY <2>1, <2>2
<1>4. ASSUME NEW c \in Caller, Device!Save(c) PROVE Walks'
  BY <1>4 DEF Device!Save
<1>5. ASSUME NEW c \in Caller, Device!Request(c) PROVE Walks'
  <2>1. /\ call[c] = "submit" /\ call' = [call EXCEPT ![c] = "idle"] /\ todo' = todo
        /\ at' = at
    BY <1>5 DEF Device!Request, Device!Ends
  <2> QED
    BY <2>1
<1>6. ASSUME NEW p \in Client,
             Device!Activated(p) \/ Device!Deactivated(p) \/ Device!Others(p)
      PROVE  Walks'
  BY <1>6 DEF Device!Activated, Device!Deactivated, Device!Others
<1>7. ASSUME \/ Device!Start \/ Device!Change \/ Device!RevokeJob \/ Device!Return
             \/ Device!Changed
      PROVE  Walks'
  <2>1. /\ todo' = todo /\ call' = call
        /\ at # "resuming" \/ todo["job"] = {}
    BY <1>7 DEF Device!Start, Device!Change, Device!RevokeJob, Device!Return,
       Device!Changed
  <2> QED
    BY <2>1, <1>f
<1>8. ASSUME Device!PowerChange PROVE Walks'
  <2>1. /\ call' = call /\ at' = "resuming"
        /\ \E S : todo' = [todo EXCEPT !["job"] = S]
    BY <1>8 DEF Device!PowerChange
  <2> QED
    BY <2>1
<1>9. ASSUME ~lost, Device!WalkBack PROVE Walks'
  <2>1. PICK p \in todo["job"] : todo' = todo \/ todo' = [todo EXCEPT !["job"] = @ \ {p}]
    <3> HIDE DEF PowerTypes
    <3> QED
      BY <1>9, ControlSteps DEF Device!WalkBack
  <2> QED
    BY <1>9, <1>f, <1>c, <2>1 DEF Device!WalkBack
<1>10. CASE UNCHANGED powerVars
  BY <1>10 DEF powerVars
<1>11. Walks'
  <2> HIDE DEF Walks, PowerTypes
  <2> QED
    BY <1>1, <1>2, <1>3, <1>4, <1>5, <1>6, <1>7, <1>8, <1>9, <1>10 DEF Device!Next
<1> QED
  BY <1>11

\* Whoever saved last has a request that is submitted, or was refused, and a change
\* saves the state it ends in.
LEMMA StepSaved == PowerInv /\ [Device!Next]_powerVars => Saved'
<1> SUFFICES ASSUME CallTypes, Updated, Saved, [Device!Next]_powerVars,
                    ~refused', at' = "idle"
             PROVE  \/ persisted' = powerState'
                    \/ \E c \in Caller : call'[c] = "submit" /\ wanted'[c] = persisted'
                    \/ queued' /\ mode' = persisted'
  BY DEF PowerInv, PowerTypes, Saved
<1> DEFINE Goal == \/ persisted' = powerState'
                   \/ \E c \in Caller : call'[c] = "submit" /\ wanted'[c] = persisted'
                   \/ queued' /\ mode' = persisted'
<1>0. ~refused /\ at = "idle" =>
        \/ persisted = powerState
        \/ \E c \in Caller : call[c] = "submit" /\ wanted[c] = persisted
        \/ queued /\ mode = persisted
  BY DEF Saved
<1> USE DEF CallTypes, Device!jobVars
<1> HIDE DEF Goal
\* No call that is going to submit does anything else.
<1>f. ASSUME ~refused, at = "idle", UNCHANGED <<powerState, persisted>>,
             queued => queued' /\ mode' = mode,
             \A c \in Caller : call[c] = "submit" =>
                               call'[c] = "submit" /\ wanted'[c] = wanted[c]
      PROVE  Goal
  BY <1>0, <1>f DEF Goal
<1>1. ASSUME ~refused, NEW c \in Caller, Device!Call(c) PROVE Goal
  BY <1>1, <1>f DEF Device!Call
<1>2. ASSUME ~refused, NEW c \in Caller, Device!Walk(c) PROVE Goal
  BY <1>2, <1>f DEF Device!Walk
<1>3. ASSUME ~refused, NEW c \in Caller, Device!Ask(c) PROVE Goal
  BY <1>3, <1>f DEF Device!Ask, Device!Ends
<1>4. ASSUME ~refused, NEW c \in Caller, Device!Save(c) PROVE Goal
  BY <1>4 DEF Device!Save, Goal
<1>5. ASSUME ~refused, NEW c \in Caller, Device!Request(c) PROVE Goal
  <2>1. queued' # queued
    BY <1>5 DEF Device!Request
  <2>2. ~queued /\ queued' /\ mode' = wanted[c]
    BY <1>5, <2>1 DEF Device!Request, Device!Submit
  <2>3. \A d \in Caller \ {c} : call'[d] = call[d] /\ wanted'[d] = wanted[d]
    BY <1>5 DEF Device!Request, Device!Ends
  <2>4. UNCHANGED <<powerState, persisted, at>>
    BY <1>5 DEF Device!Request
  <2> QED
    BY <1>0, <1>5, <2>2, <2>3, <2>4 DEF Goal
<1>6. ASSUME ~refused, NEW p \in Client,
             Device!Activated(p) \/ Device!Deactivated(p) \/ Device!Others(p)
      PROVE  Goal
  BY <1>6, <1>f DEF Device!Activated, Device!Deactivated, Device!Others
<1>7. ASSUME ~refused, Device!Start PROVE Goal
  <2>1. /\ powerState = mode /\ at = "idle"
        /\ UNCHANGED <<powerState, persisted, call, wanted>>
    BY <1>7 DEF Device!Start
  <2> QED
    BY <1>0, <1>7, <2>1 DEF Goal
<1>8. ASSUME Device!Change \/ Device!RevokeJob \/ Device!Return \/ Device!PowerChange
      PROVE  FALSE
  BY <1>8 DEF Device!Change, Device!RevokeJob, Device!Return, Device!PowerChange
<1>9. ASSUME ~refused, Device!WalkBack PROVE Goal
  BY <1>9, <1>f DEF Device!WalkBack
<1>10. ASSUME Device!Changed PROVE Goal
  BY <1>10 DEF Device!Changed, Device!Kept, Updated, Goal
<1>11. ASSUME UNCHANGED powerVars PROVE Goal
  BY <1>0, <1>11 DEF powerVars, Goal
<1>12. Goal
  <2> HIDE DEF CallTypes
  <2> QED
    BY <1>1, <1>2, <1>3, <1>4, <1>5, <1>6, <1>7, <1>8, <1>9, <1>10, <1>11 DEF Device!Next
<1> QED
  BY <1>12 DEF Goal

\* A step of a walk with a client, by its kind: who is in a step with whom before it
\* and after it.
Kinds(w, s, p) ==
  \/ /\ doing[w] = {} /\ UNCHANGED <<remembered, owed, overtaken>>
     /\ \/ /\ s = "On" /\ p \in remembered /\ todo' = todo
           /\ doing' = [doing EXCEPT ![w] = {<<"forget", p>>}]
        \/ /\ s # "On" /\ todo' = todo
           /\ doing' = [doing EXCEPT ![w] = {<<"remember", p>>}]
        \/ /\ s = "On" => p \notin remembered
           /\ todo' = [todo EXCEPT ![w] = @ \ {p}]
           /\ doing' = [doing EXCEPT ![w] = {}]
  \/ /\ doing[w] = {<<"remember", p>>} /\ remembered' = remembered \cup {p}
     /\ UNCHANGED <<owed, overtaken, todo>>
     /\ doing' = [doing EXCEPT ![w] = {<<"suspend", p>>}]
  \/ /\ doing[w] = {<<"suspend", p>>}
     /\ owed' \subseteq owed \cup {p} /\ UNCHANGED <<remembered, overtaken>>
     /\ todo' = [todo EXCEPT ![w] = @ \ {p}]
     /\ doing' = [doing EXCEPT ![w] = {}]
  \/ /\ doing[w] = {<<"forget", p>>} /\ remembered' = remembered \ {p}
     /\ overtaken' = overtaken \cup {q \in {p} : Device!Suspending(q)}
     /\ UNCHANGED <<owed, todo>>
     /\ doing' = [doing EXCEPT ![w] = {<<"resume", p>>}]
  \/ /\ doing[w] = {<<"resume", p>>} /\ owed' = owed \ {p}
     /\ overtaken' = overtaken \ {q \in {p} : ~Device!Suspending(q)}
     /\ UNCHANGED remembered
     /\ todo' = [todo EXCEPT ![w] = @ \ {p}]
     /\ doing' = [doing EXCEPT ![w] = {}]

LEMMA StepKinds ==
  ASSUME PowerTypes, Doing, NEW w \in Device!Walker, NEW s, Device!Control(w, s)
  PROVE  \E p \in todo[w] : p \in Client /\ Kinds(w, s, p)
<1>1. PICK p \in todo[w] :
        \/ Device!Reach(w, s, p) \/ Device!Remember(w, p) \/ Device!Suspend(w, p)
        \/ Device!Forget(w, p) \/ Device!Resume(w, p)
  BY DEF Device!Control
<1>2. p \in Client
  BY DEF PowerTypes, ClientTypes
<1>3. \A step \in Device!Step : <<step, p>> \in doing[w] => doing[w] = {<<step, p>>}
  BY <1>2 DEF Doing
<1> USE DEF Kinds, Device!GoesOn, Device!IsThrough, Device!clientVars, Device!On
<1> HIDE DEF Doing, PowerTypes
<1>4. CASE Device!Reach(w, s, p)
  BY <1>2, <1>4, Zenon DEF Device!Reach, Device!Concerns
<1>5. CASE Device!Remember(w, p)
  BY <1>2, <1>3, <1>5, WalkersAre DEF Device!Remember
<1>6. CASE Device!Suspend(w, p)
  <2>1. owed' \subseteq owed \cup {p}
    BY <1>6 DEF Device!Suspend
  <2> QED
    BY <1>2, <1>3, <1>6, <2>1, WalkersAre DEF Device!Suspend
<1>7. CASE Device!Forget(w, p)
  BY <1>2, <1>3, <1>7, WalkersAre DEF Device!Forget
<1>8. CASE Device!Resume(w, p)
  BY <1>2, <1>3, <1>8, WalkersAre DEF Device!Resume, Device!Reached
<1> QED
  BY <1>1, <1>4, <1>5, <1>6, <1>7, <1>8

\* A step of a walk of a call for that state, or of the job for On.
LEMMA ControlDoing ==
  ASSUME PowerTypes, Doing, NEW w \in Device!Walker, NEW s, Device!Control(w, s),
         s # "On" => w \in Caller /\ wanted[w] # "On", wanted' = wanted
  PROVE  Doing'
<1> SUFFICES ASSUME NEW v \in Device!Walker, NEW t \in Device!Step, NEW q \in Client,
                    <<t, q>> \in doing'[v]
             PROVE  /\ q \in todo'[v] /\ doing'[v] = {<<t, q>>}
                    /\ t \in {"remember", "suspend"} => v \in Caller /\ wanted'[v] # "On"
  BY DEF Doing
<1>0. /\ doing \in [Device!Walker -> SUBSET (Device!Step \X Client)]
      /\ todo \in [Device!Walker -> SUBSET Client]
  BY DEF PowerTypes, ClientTypes
<1>1. PICK p \in todo[w] : p \in Client /\
        \/ doing' = [doing EXCEPT ![w] = {}] /\ todo' = [todo EXCEPT ![w] = @ \ {p}]
        \/ /\ todo' = todo
           /\ \/ doing' = [doing EXCEPT ![w] = {<<"forget", p>>}]
              \/ doing' = [doing EXCEPT ![w] = {<<"resume", p>>}]
              \/ s # "On" /\ doing' = [doing EXCEPT ![w] = {<<"remember", p>>}]
              \/ /\ doing[w] = {<<"remember", p>>}
                 /\ doing' = [doing EXCEPT ![w] = {<<"suspend", p>>}]
  <2>1. PICK p \in todo[w] : p \in Client /\ Kinds(w, s, p)
    BY StepKinds
  <2> QED
    BY <2>1 DEF Kinds
<1>2. CASE v # w
  <2>1. doing'[v] = doing[v] /\ todo'[v] = todo[v]
    BY <1>0, <1>1, <1>2
  <2> QED
    BY <2>1 DEF Doing
<1>3. CASE v = w
  <2>1. todo' = todo /\ doing'[w] # {}
    BY <1>0, <1>1, <1>3
  <2>2. PICK step \in Device!Step :
           /\ doing'[w] = {<<step, p>>}
           /\ \/ step \in {"forget", "resume"}
              \/ step = "remember" /\ s # "On"
              \/ step = "suspend" /\ doing[w] = {<<"remember", p>>}
    BY <1>0, <1>1, <2>1, WalkersAre
  <2>3. t = step /\ q = p
    BY <1>3, <2>2, Pairs
  <2>4. step = "suspend" => w \in Caller /\ wanted[w] # "On"
    BY <1>1, <2>2, WalkersAre DEF Doing
  <2> QED
    BY <1>1, <1>3, <2>1, <2>2, <2>3, <2>4
<1> QED
  BY <1>2, <1>3

LEMMA StepDoing ==
  PowerTypes /\ Walks /\ Doing /\ [Device!Next]_powerVars => Doing'
<1> SUFFICES ASSUME PowerTypes, Walks, Doing, [Device!Next]_powerVars PROVE Doing'
  OBVIOUS
<1> USE DEF Device!jobVars, Device!walkVars
<1>0. /\ todo \in [Device!Walker -> SUBSET Client]
      /\ wanted \in [Caller -> Device!States]
      /\ doing \in [Device!Walker -> SUBSET (Device!Step \X Client)]
  BY DEF PowerTypes, ClientTypes, CallTypes
\* Who has nobody left to walk over is in no step.
<1>e. ASSUME NEW w \in Device!Walker, todo[w] = {} PROVE doing[w] = {}
  <2>1. \A x \in doing[w] : \E t \in Device!Step, q \in Client : x = <<t, q>>
    BY <1>0
  <2> QED
    BY <1>e, <2>1 DEF Doing
\* A walker that is in no step may begin a walk, or want something else.
<1>f. ASSUME doing' = doing, NEW w \in Device!Walker, doing[w] = {},
             \A v \in Device!Walker \ {w} : todo'[v] = todo[v],
             \A c \in Caller \ {w} : wanted'[c] = wanted[c]
      PROVE  Doing'
  <2> SUFFICES ASSUME NEW v \in Device!Walker, NEW t \in Device!Step, NEW q \in Client,
                      <<t, q>> \in doing[v]
               PROVE  /\ q \in todo'[v] /\ doing[v] = {<<t, q>>}
                      /\ t \in {"remember", "suspend"} => v \in Caller /\ wanted'[v] # "On"
    BY <1>f DEF Doing
  <2>1. v # w
    BY <1>f
  <2>2. /\ q \in todo[v] /\ doing[v] = {<<t, q>>}
        /\ t \in {"remember", "suspend"} => v \in Caller /\ wanted[v] # "On"
    BY DEF Doing
  <2> QED
    BY <1>f, <2>1, <2>2
<1>u. ASSUME UNCHANGED <<todo, doing, wanted>> PROVE Doing'
  BY <1>u DEF Doing
<1>1. ASSUME NEW c \in Caller, Device!Call(c) PROVE Doing'
  <2>1. doing[c] = {}
    BY <1>1, <1>e, WalkersAre DEF Device!Call, Walks
  <2>2. /\ doing' = doing /\ \E x : wanted' = [wanted EXCEPT ![c] = x]
        /\ todo' = todo \/ \E S : todo' = [todo EXCEPT ![c] = S]
    BY <1>1 DEF Device!Call
  <2>3. /\ \A v \in Device!Walker \ {c} : todo'[v] = todo[v]
        /\ \A d \in Caller \ {c} : wanted'[d] = wanted[d]
    BY <1>0, <2>2
  <2> QED
    BY <1>f, <2>1, <2>2, <2>3, WalkersAre
<1>2. ASSUME NEW c \in Caller, Device!Walk(c) PROVE Doing'
  <2>1. Device!Control(c, wanted[c]) /\ wanted' = wanted
    BY <1>2 DEF Device!Walk
  <2> QED
    BY <2>1, ControlDoing, WalkersAre
<1>3. ASSUME NEW c \in Caller, Device!Ask(c) \/ Device!Request(c) PROVE Doing'
  <2>1. todo[c] = {}
    BY <1>3, WalkersAre DEF Device!Ask, Device!Request, Walks
  <2>2. /\ doing' = doing
        /\ wanted' = wanted \/ \E x : wanted' = [wanted EXCEPT ![c] = x]
        /\ todo' = todo \/ \E S : todo' = [todo EXCEPT ![c] = S]
    BY <1>3, Zenon DEF Device!Ask, Device!Request, Device!Ends
  <2>3. /\ \A v \in Device!Walker \ {c} : todo'[v] = todo[v]
        /\ \A d \in Caller \ {c} : wanted'[d] = wanted[d]
    BY <1>0, <2>2
  <2> QED
    BY <1>e, <1>f, <2>1, <2>2, <2>3, WalkersAre
<1>4. ASSUME NEW c \in Caller, Device!Save(c) PROVE Doing'
  BY <1>4, <1>u DEF Device!Save
<1>5. ASSUME \/ Device!Start \/ Device!Change \/ Device!RevokeJob \/ Device!Return
             \/ Device!Changed
      PROVE  Doing'
  BY <1>5, <1>u DEF Device!Start, Device!Change, Device!RevokeJob, Device!Return,
     Device!Changed
<1>6. ASSUME Device!PowerChange PROVE Doing'
  <2>1. doing["job"] = {}
    BY <1>6, <1>e, WalkersAre DEF Device!PowerChange, Walks
  <2>2. doing' = doing /\ wanted' = wanted /\ \E S : todo' = [todo EXCEPT !["job"] = S]
    BY <1>6 DEF Device!PowerChange
  <2>3. \A v \in Device!Walker \ {"job"} : todo'[v] = todo[v]
    BY <1>0, <2>2
  <2> QED
    BY <1>f, <2>1, <2>2, <2>3, WalkersAre
<1>7. ASSUME Device!WalkBack PROVE Doing'
  <2>1. Device!Control("job", "On") /\ wanted' = wanted
    BY <1>7 DEF Device!WalkBack, Device!On
  <2> QED
    BY <2>1, ControlDoing, WalkersAre
<1>8. ASSUME NEW p \in Client,
             Device!Activated(p) \/ Device!Deactivated(p) \/ Device!Others(p)
      PROVE  Doing'
  BY <1>8, <1>u DEF Device!Activated, Device!Deactivated, Device!Others
<1>9. CASE UNCHANGED powerVars
  BY <1>9, <1>u DEF powerVars
<1> QED
  BY <1>1, <1>2, <1>3, <1>4, <1>5, <1>6, <1>7, <1>8, <1>9 DEF Device!Next

\* A step of a walk leaves nobody owed a RESUME without a flag or a RESUME on its way.
LEMMA ControlFlagged ==
  ASSUME PowerTypes, Doing, Flagged, ~lost, NEW w \in Device!Walker, NEW s,
         Device!Control(w, s)
  PROVE  /\ \A v \in Device!Walker, q \in Client :
              <<"suspend", q>> \in doing'[v] => q \in remembered' \cup overtaken'
         /\ \A q \in owed' : \/ q \in remembered' \cup overtaken'
                             \/ \E v \in Device!Walker : <<"resume", q>> \in doing'[v]
<1>0. /\ doing \in [Device!Walker -> SUBSET (Device!Step \X Client)]
      /\ owed \subseteq Client
  BY DEF PowerTypes, ClientTypes
<1>a. \A v \in Device!Walker, q \in Client :
        <<"suspend", q>> \in doing[v] => q \in remembered \cup overtaken
  BY DEF Flagged
<1>b. \A q \in owed : \/ q \in remembered \cup overtaken
                      \/ \E v \in Device!Walker : <<"resume", q>> \in doing[v]
  BY DEF Flagged
<1>1. PICK p \in todo[w] : p \in Client /\ Kinds(w, s, p)
  BY StepKinds
<1>2. \A v \in Device!Walker : v # w => doing'[v] = doing[v]
  BY <1>0, <1>1 DEF Kinds
<1> DEFINE Suspends == \A v \in Device!Walker, q \in Client :
              <<"suspend", q>> \in doing'[v] => q \in remembered' \cup overtaken'
           Owes == \A q \in owed' : \/ q \in remembered' \cup overtaken'
                             \/ \E v \in Device!Walker : <<"resume", q>> \in doing'[v]
\* Nothing changes but the step.
<1>3. CASE /\ doing[w] = {} /\ UNCHANGED <<remembered, owed, overtaken>>
           /\ \E t \in {"forget", "remember"} :
                doing' = [doing EXCEPT ![w] = {}] \/ doing' = [doing EXCEPT ![w] = {<<t, p>>}]
  <2>1. PICK t \in {"forget", "remember"} : doing'[w] = {} \/ doing'[w] = {<<t, p>>}
    BY <1>0, <1>3
  <2>2. \A q : <<"suspend", q>> \notin doing'[w]
    BY <2>1, Pairs
  <2>3. Suspends
    BY <1>2, <1>3, <1>a, <2>2
  <2>4. Owes
    BY <1>2, <1>3, <1>b
  <2> QED
    BY <2>3, <2>4
<1>4. CASE /\ doing[w] = {<<"remember", p>>} /\ remembered' = remembered \cup {p}
           /\ UNCHANGED <<owed, overtaken>>
           /\ doing' = [doing EXCEPT ![w] = {<<"suspend", p>>}]
  <2>1. doing'[w] = {<<"suspend", p>>}
    BY <1>0, <1>4
  <2>2. \A q : <<"suspend", q>> \in doing'[w] => q = p
    BY <2>1, Pairs
  <2>3. \A q : <<"resume", q>> \notin doing[w]
    BY <1>4, Pairs
  <2>4. Suspends
    BY <1>2, <1>4, <1>a, <2>2
  <2>5. Owes
    BY <1>2, <1>4, <1>b, <2>3
  <2> QED
    BY <2>4, <2>5
<1>5. CASE /\ doing[w] = {<<"suspend", p>>}
           /\ owed' \subseteq owed \cup {p} /\ UNCHANGED <<remembered, overtaken>>
           /\ doing' = [doing EXCEPT ![w] = {}]
  <2>1. doing'[w] = {}
    BY <1>0, <1>5
  <2>2. p \in remembered \cup overtaken
    BY <1>1, <1>5, <1>a
  <2>3. \A q : <<"resume", q>> \notin doing[w]
    BY <1>5, Pairs
  <2>4. Suspends
    BY <1>2, <1>5, <1>a, <2>1
  <2>5. Owes
    BY <1>2, <1>5, <1>b, <2>2, <2>3
  <2> QED
    BY <2>4, <2>5
<1>6. CASE /\ doing[w] = {<<"forget", p>>} /\ remembered' = remembered \ {p}
           /\ overtaken' = overtaken \cup {q \in {p} : Device!Suspending(q)}
           /\ owed' = owed
           /\ doing' = [doing EXCEPT ![w] = {<<"resume", p>>}]
  <2>1. doing'[w] = {<<"resume", p>>}
    BY <1>0, <1>6
  <2>2. \A q : /\ <<"suspend", q>> \notin doing'[w]
               /\ <<"resume", q>> \notin doing[w]
    BY <1>6, <2>1, Pairs
  <2>3. \A v \in Device!Walker : <<"suspend", p>> \in doing[v] => p \in overtaken'
    BY <1>6 DEF Device!Suspending
  <2>4. Suspends
    BY <1>2, <1>6, <1>a, <2>2, <2>3
  <2>5. Owes
    BY <1>2, <1>6, <1>b, <2>1, <2>2
  <2> QED
    BY <2>4, <2>5
<1>7. CASE /\ doing[w] = {<<"resume", p>>} /\ owed' = owed \ {p}
           /\ overtaken' = overtaken \ {q \in {p} : ~Device!Suspending(q)}
           /\ remembered' = remembered
           /\ doing' = [doing EXCEPT ![w] = {}]
  <2>1. doing'[w] = {}
    BY <1>0, <1>7
  <2>2. \A q : <<"resume", q>> \in doing[w] => q = p
    BY <1>7, Pairs
  <2>3. \A v \in Device!Walker : <<"suspend", p>> \in doing[v] /\ p \in overtaken
                                   => p \in overtaken'
    BY <1>7 DEF Device!Suspending
  <2>4. \A q \in overtaken : q # p => q \in overtaken'
    BY <1>7
  <2>5. Suspends
    BY <1>2, <1>7, <1>a, <2>1, <2>3, <2>4
  <2>6. Owes
    BY <1>2, <1>7, <1>b, <2>2, <2>4
  <2> QED
    BY <2>5, <2>6
<1>8. \/ <1>3!1 \/ <1>4!1 \/ <1>5!1 \/ <1>6!1 \/ <1>7!1
  BY <1>1 DEF Kinds
<1> QED
  BY <1>3, <1>4, <1>5, <1>6, <1>7, <1>8

LEMMA StepFlagged ==
  PowerTypes /\ Doing /\ Flagged /\ [Device!Next]_powerVars => Flagged'
<1> SUFFICES ASSUME PowerTypes, Doing, Flagged, [Device!Next]_powerVars PROVE Flagged'
  OBVIOUS
<1> USE DEF Device!jobVars, Device!clientVars, Device!walkVars, Device!stopVars
<1>u. ASSUME UNCHANGED <<remembered, doing, owed, overtaken, lost>> PROVE Flagged'
  BY <1>u DEF Flagged
<1>c. ASSUME ~lost, NEW w \in Device!Walker, NEW s, Device!Control(w, s) PROVE Flagged'
  BY <1>c, ControlFlagged DEF Flagged
<1>1. ASSUME NEW c \in Caller,
             Device!Call(c) \/ Device!Ask(c) \/ Device!Save(c) \/ Device!Request(c)
      PROVE  Flagged'
  BY <1>1, <1>u DEF Device!Call, Device!Ask, Device!Save, Device!Request
<1>2. ASSUME ~lost, NEW c \in Caller, Device!Walk(c) PROVE Flagged'
  BY <1>2, <1>c, WalkersAre DEF Device!Walk
<1>3. ASSUME \/ Device!Start \/ Device!Change \/ Device!RevokeJob \/ Device!Return
             \/ Device!PowerChange \/ Device!Changed
      PROVE  Flagged'
  BY <1>3, <1>u DEF Device!Start, Device!Change, Device!RevokeJob, Device!Return,
     Device!PowerChange, Device!Changed
<1>4. ASSUME ~lost, Device!WalkBack PROVE Flagged'
  BY <1>4, <1>c, WalkersAre DEF Device!WalkBack
<1>5. ASSUME ~lost, NEW p \in Client, Device!Activated(p) PROVE Flagged'
  BY <1>5 DEF Device!Activated, Flagged
\* A client that is deactivated is no longer in a step, or this ends what is followed.
<1>6. ASSUME ~lost, NEW p \in Client, Device!Deactivated(p) PROVE Flagged'
  <2>1. /\ doing' = doing /\ remembered' = remembered \ {p} /\ owed' = owed \ {p}
        /\ overtaken' = overtaken \ {p} /\ lost' = Device!Walking
    BY <1>6 DEF Device!Deactivated
  <2>2. ASSUME ~Device!Walking, NEW w \in Device!Walker PROVE <<"suspend", p>> \notin doing[w]
    <3>1. w \in DOMAIN todo
      BY DEF PowerTypes, ClientTypes
    <3>2. p \notin todo[w]
      BY <2>2, <3>1 DEF Device!Walking
    <3> QED
      BY <3>2, WalkersAre DEF Doing
  <2> QED
    BY <1>6, <2>1, <2>2 DEF Flagged
\* Others resume it, or suspend it.
<1>7. ASSUME ~lost, NEW p \in Client, Device!Others(p) PROVE Flagged'
  <2>1. /\ doing' = doing /\ remembered' = remembered /\ owed' = owed \ {p}
        /\ overtaken' = overtaken \ {q \in {p} : ~Device!Suspending(q)} /\ lost' = lost
    BY <1>7 DEF Device!Others, Device!Reached
  <2>2. \A v \in Device!Walker : <<"suspend", p>> \in doing[v] /\ p \in overtaken
                                   => p \in overtaken'
    BY <2>1 DEF Device!Suspending
  <2>3. \A q \in overtaken : q # p => q \in overtaken'
    BY <2>1
  <2> QED
    BY <1>7, <2>1, <2>2, <2>3 DEF Flagged
<1>8. CASE UNCHANGED powerVars
  BY <1>8, <1>u DEF powerVars
<1> QED
  BY <1>1, <1>2, <1>3, <1>4, <1>5, <1>6, <1>7, <1>8 DEF Device!Next

\* Whoever suspended a client is going to take the device out of On, and its return
\* resumes all that are remembered.
LEMMA StepResuming == PowerInv /\ [Device!Next]_powerVars => Resuming'
<1> SUFFICES ASSUME PowerTypes, Updated, Walks, Doing, Resuming, [Device!Next]_powerVars,
                    ~refused', ~lost', powerState' = "On"
             PROVE  \/ remembered' = {} \/ Leaving'
                    \/ at' = "after"
                    \/ at' = "resuming" /\ remembered' \subseteq Ahead'
  BY DEF PowerInv, Resuming
<1> DEFINE Rest == \/ remembered = {} \/ at = "after"
                   \/ at = "resuming" /\ remembered \subseteq Ahead
           Goal == \/ remembered' = {} \/ Leaving'
                   \/ at' = "after"
                   \/ at' = "resuming" /\ remembered' \subseteq Ahead'
<1>0. ~refused /\ ~lost /\ powerState = "On" => Rest \/ Leaving
  BY DEF Resuming
<1>t. /\ call \in [Caller -> {"idle", "post", "ask", "save", "submit"}]
      /\ wanted \in [Caller -> Device!States]
      /\ todo \in [Device!Walker -> SUBSET Client]
      /\ doing \in [Device!Walker -> SUBSET (Device!Step \X Client)]
      /\ remembered \subseteq Device!Known
  BY DEF PowerTypes, CallTypes, ClientTypes
<1> DEFINE Stays(c) == call'[c] \in {"post", "save", "submit"} /\ wanted'[c] # "On"
<1> USE DEF Device!jobVars, Device!clientVars, Device!walkVars
<1> HIDE DEF Goal, Rest
\* Who is going to take it out of On goes on with it.
<1>l. ASSUME Leaving, queued => queued' /\ mode' = mode,
             UNCHANGED <<at, updating>>,
             \A c \in Caller : call[c] \in {"post", "save", "submit"} /\ wanted[c] # "On"
                                => Stays(c)
      PROVE  Goal
  BY <1>l DEF Leaving, Goal
\* Nothing else changes, or others forget a client.
<1>r. ASSUME Rest, remembered' \subseteq remembered, at' = at,
             todo'["job"] = todo["job"], doing'["job"] = doing["job"]
      PROVE  Goal
  BY <1>r DEF Rest, Goal, Ahead
<1>c. ASSUME NEW c \in Caller, Stays(c) PROVE Goal
  BY <1>c DEF Goal, Leaving
<1>1. ASSUME ~refused, ~lost, NEW c \in Caller, Device!Call(c) PROVE Goal
  <2>1. /\ UNCHANGED <<powerState, mode, queued, updating, at, remembered, doing>>
        /\ call[c] = "idle" /\ \E x : wanted' = [wanted EXCEPT ![c] = x]
        /\ \E x : call' = [call EXCEPT ![c] = x]
        /\ todo' = todo \/ \E S : todo' = [todo EXCEPT ![c] = S]
    BY <1>1 DEF Device!Call
  <2>2. /\ todo'["job"] = todo["job"]
        /\ \A d \in Caller : call[d] # "idle" => call'[d] = call[d] /\ wanted'[d] = wanted[d]
    BY <1>t, <2>1, WalkersAre
  <2> QED
    BY <1>0, <1>1, <1>l, <1>r, <2>1, <2>2
<1>2. ASSUME ~refused, ~lost, NEW c \in Caller, Device!Walk(c) PROVE Goal
  <2>1. UNCHANGED <<powerState, mode, queued, updating, at, call, wanted>>
    BY <1>2 DEF Device!Walk
  <2>2. PICK p \in todo[c] : p \in Client /\ Kinds(c, wanted[c], p)
    BY <1>2, StepKinds, WalkersAre DEF Device!Walk
  <2>3. CASE wanted[c] # "On"
    <3>1. call[c] \in {"post", "save"}
      BY <2>2 DEF Walks
    <3> QED
      BY <1>c, <2>1, <2>3, <3>1
  <2>4. CASE wanted[c] = "On" /\ Leaving
    BY <1>l, <2>1, <2>4
  <2>5. CASE wanted[c] = "On" /\ Rest
    <3>1. todo'["job"] = todo["job"] /\ doing'["job"] = doing["job"]
      BY <1>t, <2>2, WalkersAre DEF Kinds
    <3>2. doing[c] # {<<"remember", p>>}
      BY <2>2, <2>5, WalkersAre DEF Doing
    <3>3. remembered' \subseteq remembered
      BY <2>2, <3>2 DEF Kinds
    <3> QED
      BY <1>r, <2>1, <2>5, <3>1, <3>3
  <2> QED
    BY <1>0, <1>2, <2>1, <2>3, <2>4, <2>5
<1>3. ASSUME ~refused, ~lost, NEW c \in Caller, Device!Save(c) PROVE Goal
  <2>1. /\ UNCHANGED <<powerState, mode, queued, updating, at, remembered, wanted, todo, doing>>
        /\ call[c] = "save" /\ call' = [call EXCEPT ![c] = "submit"]
    BY <1>3 DEF Device!Save
  <2>2. \A d \in Caller : call[d] \in {"post", "save", "submit"} =>
                          call'[d] \in {"post", "save", "submit"}
    BY <1>t, <2>1
  <2> QED
    BY <1>0, <1>3, <1>l, <1>r, <2>1, <2>2
<1>4. ASSUME ~refused, ~lost, NEW c \in Caller, Device!Ask(c) PROVE Goal
  <2>1. /\ UNCHANGED <<powerState, mode, queued, updating, at, remembered, doing>>
        /\ \/ /\ powerState = wanted[c] /\ refused' = (call[c] = "post")
              /\ call' = [call EXCEPT ![c] = "idle"] /\ todo' = todo
              /\ wanted' = [wanted EXCEPT ![c] = "On"]
           \/ /\ call' = [call EXCEPT ![c] = "save"] /\ wanted' = wanted
              /\ \E S : todo' = [todo EXCEPT ![c] = S]
        /\ call[c] \in {"ask", "post"}
    BY <1>4, Zenon DEF Device!Ask, Device!Ends, Device!On
  <2>2. todo'["job"] = todo["job"]
    BY <1>t, <2>1, WalkersAre
  <2>3. \A d \in Caller : call[d] \in {"post", "save", "submit"} /\ wanted[d] # "On"
                           => Stays(d)
    BY <1>t, <2>1
  <2> QED
    BY <1>0, <1>4, <1>l, <1>r, <2>1, <2>2, <2>3
<1>5. ASSUME ~refused, ~lost, NEW c \in Caller, Device!Request(c) PROVE Goal
  <2>1. queued' # queued
    BY <1>5 DEF Device!Request
  <2>2. ~queued /\ queued' /\ mode' = wanted[c]
    BY <1>5, <2>1 DEF Device!Request, Device!Submit
  <2>3. /\ call' = [call EXCEPT ![c] = "idle"] /\ wanted' = [wanted EXCEPT ![c] = "On"]
        /\ UNCHANGED <<powerState, updating, at, remembered, todo, doing>>
    BY <1>5 DEF Device!Request, Device!Ends, Device!On
  <2>4. CASE wanted[c] # "On"
    BY <2>2, <2>4 DEF Goal, Leaving
  <2>5. CASE wanted[c] = "On"
    <3>1. \A d \in Caller : call[d] \in {"post", "save", "submit"} /\ wanted[d] # "On"
                             => Stays(d)
      BY <1>t, <2>3, <2>5
    <3> QED
      BY <1>0, <1>5, <1>l, <1>r, <2>2, <2>3, <3>1
  <2> QED
    BY <2>4, <2>5
<1>6. ASSUME ~refused, ~lost, NEW p \in Client,
             Device!Activated(p) \/ Device!Deactivated(p) \/ Device!Others(p)
      PROVE  Goal
  <2>1. /\ UNCHANGED <<powerState, mode, queued, updating, at, call, wanted, todo, doing>>
        /\ remembered' \subseteq remembered
    BY <1>6 DEF Device!Activated, Device!Deactivated, Device!Others
  <2>2. CASE Leaving
    BY <1>l, <2>1, <2>2
  <2>3. CASE Rest
    BY <1>r, <2>1, <2>3
  <2> QED
    BY <1>0, <1>6, <2>1, <2>2, <2>3
<1>7. ASSUME ~refused, ~lost, Device!Start PROVE Goal
  <2>1. /\ UNCHANGED <<powerState, remembered, call, wanted, todo, doing>>
        /\ queued /\ ~queued' /\ at = "idle"
    BY <1>7 DEF Device!Start
  <2>2. CASE mode # "On"
    <3>1. at' = "before" /\ updating' = mode
      BY <1>7, <2>1, <2>2 DEF Device!Start
    <3> QED
      BY <2>2, <3>1 DEF Goal, Leaving
  <2>3. CASE mode = "On"
    <3>1. UNCHANGED <<at, updating>>
      BY <1>7, <2>1, <2>3 DEF Device!Start
    <3>2. Leaving => \E c \in Caller : Stays(c)
      BY <2>1, <2>3 DEF Leaving
    <3> QED
      BY <1>0, <1>7, <1>c, <1>r, <2>1, <3>1, <3>2
  <2> QED
    BY <2>2, <2>3
<1>8. ASSUME Device!Change PROVE Goal
  <2>1. updating = "On"
    BY <1>8 DEF Device!Change
  <2> QED
    BY <1>8, <2>1 DEF Device!Change, Goal
<1>9. ASSUME Device!RevokeJob \/ Device!Return PROVE Goal
  BY <1>9 DEF Device!RevokeJob, Device!Return, Updated
<1>10. ASSUME Device!PowerChange PROVE Goal
  <2>1. /\ at' = "resuming" /\ remembered' = remembered /\ powerState' = powerState
        /\ at = "after" /\ doing' = doing
    BY <1>10 DEF Device!PowerChange
  <2>2. Device!Resumes
    BY <2>1 DEF Device!Resumes, Device!On, Updated
  <2>3. todo' = [todo EXCEPT !["job"] = Device!Known]
    BY <1>10, <2>2 DEF Device!PowerChange
  <2>4. todo'["job"] = Device!Known
    BY <1>t, <2>3, WalkersAre
  <2>5. \A p \in Client : <<"resume", p>> \notin doing["job"]
    BY <2>1, WalkersAre DEF Walks, Doing
  <2> QED
    BY <1>t, <2>1, <2>4, <2>5 DEF Goal, Ahead, Device!Known
<1>11. ASSUME ~refused, ~lost, Device!WalkBack PROVE Goal
  <2>1. UNCHANGED <<powerState, mode, queued, updating, at, call, wanted>>
    BY <1>11 DEF Device!WalkBack
  <2>2. PICK p \in todo["job"] : p \in Client /\ Kinds("job", "On", p)
    BY <1>11, StepKinds, WalkersAre DEF Device!WalkBack, Device!On
  <2>3. /\ doing["job"] # {<<"remember", p>>}
        /\ doing["job"] # {<<"suspend", p>>}
    BY <2>2, WalkersAre DEF Doing
  <2>4. CASE Leaving
    BY <1>l, <2>1, <2>4
  <2>5. CASE Rest
    <3>1. remembered' \subseteq remembered
      BY <2>2, <2>3 DEF Kinds
    <3>2. ASSUME remembered \subseteq Ahead PROVE remembered' \subseteq Ahead'
      <4>1. CASE /\ doing["job"] = {} /\ remembered' = remembered
                 /\ \/ todo' = todo /\ doing' = [doing EXCEPT !["job"] = {<<"forget", p>>}]
                    \/ /\ p \notin remembered /\ todo' = [todo EXCEPT !["job"] = @ \ {p}]
                       /\ doing' = [doing EXCEPT !["job"] = {}]
        <5>1. \A q : <<"resume", q>> \notin doing'["job"]
          BY <1>t, <4>1, WalkersAre, Pairs
        <5>2. \/ todo'["job"] = todo["job"]
              \/ todo'["job"] = todo["job"] \ {p} /\ p \notin remembered
          BY <1>t, <4>1, WalkersAre
        <5> QED
          BY <3>2, <4>1, <5>1, <5>2 DEF Ahead
      <4>2. CASE /\ remembered' = remembered \ {p} /\ todo' = todo
                 /\ doing' = [doing EXCEPT !["job"] = {<<"resume", p>>}]
        <5>1. \A q : <<"resume", q>> \in doing'["job"] => q = p
          BY <1>t, <4>2, WalkersAre, Pairs
        <5> QED
          BY <3>2, <4>2, <5>1 DEF Ahead
      <4>3. CASE /\ doing["job"] = {<<"resume", p>>} /\ remembered' = remembered
                 /\ todo' = [todo EXCEPT !["job"] = @ \ {p}]
                 /\ doing' = [doing EXCEPT !["job"] = {}]
        <5>1. p \notin remembered
          BY <3>2, <4>3 DEF Ahead
        <5>2. todo'["job"] = todo["job"] \ {p} /\ doing'["job"] = {}
          BY <1>t, <4>3, WalkersAre
        <5> QED
          BY <3>2, <4>3, <5>1, <5>2 DEF Ahead
      <4> QED
        BY <2>2, <2>3, <4>1, <4>2, <4>3 DEF Kinds
    <3> QED
      BY <2>1, <2>5, <3>1, <3>2 DEF Rest, Goal
  <2> QED
    BY <1>0, <1>11, <2>1, <2>4, <2>5
<1>12. ASSUME ~refused, ~lost, Device!Changed PROVE Goal
  <2>1. /\ UNCHANGED <<powerState, mode, queued, call, wanted, remembered>>
        /\ at = "resuming" /\ todo["job"] = {}
    BY <1>12 DEF Device!Changed
  <2>2. CASE Leaving
    BY <2>1, <2>2 DEF Leaving, Goal
  <2>3. CASE Rest
    BY <2>1, <2>3 DEF Rest, Goal, Ahead
  <2> QED
    BY <1>0, <1>12, <2>1, <2>2, <2>3
<1>13. ASSUME UNCHANGED powerVars PROVE Goal
  BY <1>0, <1>13, <1>l, <1>r DEF powerVars
<1>14. Goal
  <2> HIDE DEF Stays
  <2> QED
    BY <1>1, <1>2, <1>3, <1>4, <1>5, <1>6, <1>7, <1>8, <1>9, <1>10, <1>11, <1>12, <1>13
       DEF Device!Next
<1> QED
  BY <1>14 DEF Goal

LEMMA PowerInvariance == Spec => []PowerInv
<1>1. Init => PowerInv
  BY PowerInit DEF Init
<1>2. PowerInv /\ [Next]_vars => PowerInv'
  BY BoxSteps, StepPowerTypes, StepUpdated, StepSaved, StepWalks, StepDoing, StepFlagged,
     StepResuming DEF PowerInv
<1> QED
  BY <1>1, <1>2, PTL DEF Spec

\* Power: at rest, the state that SetState or PowerChange persisted last is
\* the one the device is in, however requests, their job and its callbacks met, unless
\* a request was refused after its first steps.
THEOREM PersistedIsCurrentHolds == Spec => []PersistedIsCurrent
<1>1. PowerInv => PersistedIsCurrent
  BY DEF PowerInv, Saved, PersistedIsCurrent, Device!PersistedIsCurrent, Device!Quiet
<1> QED
  BY <1>1, PowerInvariance, PTL

\* Power: a device that is on and at rest has asked every client to resume that a
\* SUSPEND of its own suspended and no other reached since, however the reading, the
\* setting and the clearing of the flags and the requests of calls and of the job were
\* interleaved, unless a flag was cleared between being set and the SUSPEND, a request
\* was refused after its first steps, or a walk met a change of the clients.
THEOREM NobodyForgottenHolds == Spec => []NobodyForgotten
<1>1. ASSUME PowerInv PROVE NobodyForgotten
  <2> SUFFICES ASSUME Device!Quiet, powerState = "On", ~refused, ~lost, NEW p \in owed
               PROVE  p \in overtaken
    BY DEF NobodyForgotten, Device!NobodyForgotten, Device!On
  <2>1. remembered = {}
    BY <1>1 DEF PowerInv, Resuming, Leaving, Device!Quiet
  <2>2. \A w \in Device!Walker : todo[w] = {}
    BY <1>1, WalkersAre DEF PowerInv, Walks, Device!Quiet
  <2>3. p \in Client
    BY <1>1 DEF PowerInv, PowerTypes, ClientTypes
  <2>4. \A w \in Device!Walker : <<"resume", p>> \notin doing[w]
    BY <1>1, <2>2, <2>3, WalkersAre DEF PowerInv, Doing
  <2> QED
    BY <1>1, <2>1, <2>4 DEF PowerInv, Flagged
<1> QED
  BY <1>1, PowerInvariance, PTL

-----------------------------------------------------------------------------
(* FileTransfer.                                                           *)

FileTypes ==
  /\ log \in Seq(0 .. LastPiece) /\ sendQueue \in Seq(1 .. LastPiece)
  /\ position \in Nat /\ reading \in Nat /\ pieces \in Nat /\ sentLine \in Nat
  /\ offset \in {"start", "text", "done"}
  /\ observing \in BOOLEAN /\ changed \in BOOLEAN /\ waking \in BOOLEAN /\ again \in BOOLEAN

\* The last line that was queued
Newest == IF sendQueue = <<>> THEN sentLine ELSE sendQueue[Len(sendQueue)]

\* The lines of the file are in the order in which they were written.
Written ==
  /\ Newest <= pieces
  /\ \A i \in DOMAIN log : log[i] <= pieces
  /\ \A i, j \in DOMAIN log : i < j /\ log[i] # 0 /\ log[j] # 0 => log[i] < log[j]

\* From there on the file has no line that was queued already.
NewFrom(first) == \A i \in DOMAIN log : i >= first /\ log[i] # 0 => log[i] > Newest

\* What is read next was not read before; a file that is no longer observed is not
\* read any more.
Forward ==
  /\ changed => observing
  /\ reading > 0 => observing /\ NewFrom(reading)
  /\ observing /\ reading = 0 => NewFrom(position + 1)

\* What is queued is in order and newer than all that was sent.
Rising ==
  /\ \A i, j \in DOMAIN sendQueue : i < j => sendQueue[i] < sendQueue[j]
  /\ sendQueue # <<>> /\ offset # "done" => Head(sendQueue) > sentLine

Ordered == Written /\ Forward /\ Rising

\* What is queued has the socket's attention.
Queue ==
  /\ sendQueue # <<>> => waking /\ (offset = "done" => Head(sendQueue) = sentLine)
  /\ offset = "done" => sendQueue # <<>>

\* The order is lost with the position of a file that has lines.
FileInv == FileTypes /\ Queue /\ (again \/ Ordered)

\* What the file and the queue hold after something was appended, or the first
\* element was dropped.
LEMMA Elements ==
  ASSUME NEW S, NEW s \in Seq(S)
  PROVE  /\ Len(s) \in Nat /\ DOMAIN s = 1 .. Len(s) /\ (s = <<>> <=> Len(s) = 0)
         /\ \A i \in DOMAIN s : s[i] \in S
         /\ s # <<>> => Head(s) = s[1]
         /\ \A x \in S : /\ Append(s, x) \in Seq(S) /\ Len(Append(s, x)) = Len(s) + 1
                         /\ Append(s, x)[Len(s) + 1] = x
                         /\ \A i \in DOMAIN s : Append(s, x)[i] = s[i]
         /\ s # <<>> => /\ Tail(s) \in Seq(S) /\ Len(Tail(s)) = Len(s) - 1
                        /\ \A i \in DOMAIN Tail(s) : Tail(s)[i] = s[i + 1]
<1>1. Len(s) \in Nat /\ DOMAIN s = 1 .. Len(s) /\ (s = <<>> <=> Len(s) = 0)
  OBVIOUS
<1>2. \A i \in DOMAIN s : s[i] \in S
  OBVIOUS
<1>3. s # <<>> => Head(s) = s[1]
  OBVIOUS
<1>4. ASSUME NEW x \in S
      PROVE  /\ Append(s, x) \in Seq(S) /\ Len(Append(s, x)) = Len(s) + 1
             /\ Append(s, x)[Len(s) + 1] = x
             /\ \A i \in DOMAIN s : Append(s, x)[i] = s[i]
  BY <1>1
<1>5. ASSUME s # <<>>
      PROVE  /\ Tail(s) \in Seq(S) /\ Len(Tail(s)) = Len(s) - 1
             /\ \A i \in DOMAIN Tail(s) : Tail(s)[i] = s[i + 1]
  BY <1>1, <1>5
<1> QED
  BY <1>1, <1>2, <1>3, <1>4, <1>5

LEMMA FileInit == Files!Init => FileInv
<1> SUFFICES ASSUME Files!Init PROVE FileInv
  OBVIOUS
<1>0. /\ pieces = Len(log) /\ position \in {0, Len(log)} /\ observing = TRUE
      /\ changed = FALSE /\ reading = 0 /\ sendQueue = <<>> /\ offset = "start"
      /\ waking = FALSE /\ sentLine = 0 /\ again = FALSE
  BY DEF Files!Init
<1>1. log = <<>> \/ log = <<1>>
  BY DEF Files!Init
<1>2. /\ log \in Seq(0 .. LastPiece) /\ Len(log) \in {0, 1}
      /\ DOMAIN log = 1 .. Len(log) /\ \A i \in DOMAIN log : i = 1 /\ log[i] = 1
  <2>1. 1 \in 0 .. LastPiece
    BY PieceAssumption
  <2>2. CASE log = <<>>
    <3>1. log \in Seq(0 .. LastPiece) /\ Len(log) = 0
      BY <2>2
    <3> QED
      BY <3>1, Elements
  <2>3. CASE log = <<1>>
    <3>1. log \in Seq(0 .. LastPiece)
      BY <2>1, <2>3
    <3>2. Len(log) = 1 /\ log[1] = 1
      BY <2>3
    <3>3. DOMAIN log = 1 .. Len(log)
      BY <3>1, Elements
    <3> QED
      BY <3>1, <3>2, <3>3
  <2> QED
    BY <1>1, <2>2, <2>3
<1>3. <<>> \in Seq(1 .. LastPiece)
  OBVIOUS
<1>4. FileTypes
  <2>1. log \in Seq(0 .. LastPiece) /\ sendQueue \in Seq(1 .. LastPiece)
    BY <1>0, <1>2, <1>3, Zenon
  <2>2. position \in Nat /\ reading \in Nat /\ pieces \in Nat /\ sentLine \in Nat
    BY <1>0, <1>2
  <2> QED
    BY <1>0, <2>1, <2>2 DEF FileTypes
<1>5. Newest = 0
  BY <1>0 DEF Newest
<1>6. Written
  <2>1. \A i \in DOMAIN log : i = 1 /\ log[i] <= pieces
    BY <1>0, <1>2
  <2> QED
    BY <1>0, <1>2, <1>5, <2>1 DEF Written
<1>7. Forward
  BY <1>0, <1>2, <1>5 DEF Forward, NewFrom
<1>8. Queue /\ Rising
  <2>1. DOMAIN sendQueue = {}
    BY <1>0
  <2> QED
    BY <1>0, <2>1 DEF Queue, Rising
<1> QED
  BY <1>4, <1>6, <1>7, <1>8 DEF FileInv, Ordered

\* The elements of the file and of the queue, and the last of the queue.
LEMMA FileFacts ==
  ASSUME FileTypes
  PROVE  /\ DOMAIN log = 1 .. Len(log) /\ Len(log) \in Nat
         /\ \A i \in DOMAIN log : log[i] \in Nat
         /\ DOMAIN sendQueue = 1 .. Len(sendQueue) /\ Len(sendQueue) \in Nat
         /\ \A i \in DOMAIN sendQueue : sendQueue[i] \in Nat
         /\ sendQueue = <<>> <=> Len(sendQueue) = 0
         /\ sendQueue # <<>> => Head(sendQueue) = sendQueue[1]
         /\ Newest \in Nat
<1>1. log \in Seq(0 .. LastPiece) /\ sendQueue \in Seq(1 .. LastPiece)
  BY DEF FileTypes
<1>2. /\ DOMAIN log = 1 .. Len(log) /\ Len(log) \in Nat
      /\ \A i \in DOMAIN log : log[i] \in 0 .. LastPiece
  BY <1>1, Elements, Zenon
<1>3. /\ DOMAIN sendQueue = 1 .. Len(sendQueue) /\ Len(sendQueue) \in Nat
      /\ \A i \in DOMAIN sendQueue : sendQueue[i] \in 1 .. LastPiece
      /\ sendQueue = <<>> <=> Len(sendQueue) = 0
      /\ sendQueue # <<>> => Head(sendQueue) = sendQueue[1]
  BY <1>1, Elements, Zenon
<1>4. \A i \in DOMAIN log : log[i] \in Nat
  BY <1>2
<1>5. \A i \in DOMAIN sendQueue : sendQueue[i] \in Nat
  BY <1>3
<1>6. Newest \in Nat
  <2>1. CASE sendQueue = <<>>
    BY <2>1 DEF Newest, FileTypes
  <2>2. CASE sendQueue # <<>>
    <3>1. Len(sendQueue) \in DOMAIN sendQueue
      BY <1>3, <2>2
    <3> QED
      BY <1>5, <2>2, <3>1 DEF Newest
  <2> QED
    BY <2>1, <2>2
<1> QED
  BY <1>2, <1>3, <1>4, <1>5, <1>6

\* The file grows, with lines that are newer than all, or is emptied.
LEMMA StepWrite == FileInv /\ Files!Write => FileInv'
<1> SUFFICES ASSUME FileInv, Files!Write PROVE FileInv'
  OBVIOUS
<1>0. FileTypes /\ Queue
  BY DEF FileInv
<1>1. /\ UNCHANGED <<position, observing, reading, sendQueue, offset, waking, sentLine, again>>
      /\ changed' = (changed \/ observing)
  BY DEF Files!Write, Files!channelVars
<1>2. \/ /\ pieces < LastPiece /\ pieces' = pieces + 1
         /\ \E piece \in {0, pieces + 1} : log' = Append(log, piece)
      \/ log' = <<>> /\ pieces' = pieces
  BY DEF Files!Write
<1>3. Newest' = Newest
  BY <1>1 DEF Newest
<1>4. Newest \in Nat
  BY <1>0, FileFacts
<1>5. /\ log' \in Seq(0 .. LastPiece) /\ pieces' \in Nat /\ pieces' >= pieces
      /\ \A i \in DOMAIN log' :
           \/ i \in DOMAIN log /\ log'[i] = log[i]
           \/ log'[i] = 0 /\ i = Len(log) + 1
           \/ log'[i] = pieces' /\ pieces' = pieces + 1 /\ i = Len(log) + 1
  <2>1. CASE log' = <<>> /\ pieces' = pieces
    <3>1. DOMAIN log' = {} /\ log' \in Seq(0 .. LastPiece)
      BY <2>1
    <3> QED
      BY <1>0, <2>1, <3>1 DEF FileTypes
  <2>2. ASSUME pieces < LastPiece, pieces' = pieces + 1,
               NEW piece \in {0, pieces + 1}, log' = Append(log, piece)
        PROVE  <1>5!1
    <3>1. piece \in 0 .. LastPiece /\ log \in Seq(0 .. LastPiece)
      BY <1>0, <2>2, PieceAssumption DEF FileTypes
    <3>2. /\ log' \in Seq(0 .. LastPiece) /\ Len(log') = Len(log) + 1
          /\ log'[Len(log) + 1] = piece /\ \A i \in DOMAIN log : log'[i] = log[i]
      BY <2>2, <3>1, Elements
    <3>3. DOMAIN log' = 1 .. (Len(log) + 1) /\ DOMAIN log = 1 .. Len(log) /\ Len(log) \in Nat
      BY <3>1, <3>2, Elements
    <3> QED
      BY <1>0, <2>2, <3>2, <3>3 DEF FileTypes
  <2> QED
    BY <1>2, <2>1, <2>2
<1>6. DOMAIN log = 1 .. Len(log) /\ Len(log) \in Nat
      /\ \A i \in DOMAIN log : log[i] \in Nat
  BY <1>0, FileFacts
<1>7. FileTypes'
  <2>1. changed' \in BOOLEAN
    BY <1>1
  <2> QED
    BY <1>0, <1>1, <1>5, <2>1 DEF FileTypes
<1>8. Queue'
  BY <1>0, <1>1 DEF Queue
<1>9. ASSUME ~again PROVE Ordered'
  <2>1. Written /\ Forward /\ Rising
    BY <1>9 DEF FileInv, Ordered
  <2>2. Written'
    <3>1. \A i \in DOMAIN log' : log'[i] <= pieces'
      BY <1>0, <2>1, <1>5, <1>6 DEF Written, FileTypes
    <3>2. \A i, j \in DOMAIN log' : i < j /\ log'[i] # 0 /\ log'[j] # 0 => log'[i] < log'[j]
      BY <1>0, <2>1, <1>5, <1>6 DEF Written, FileTypes
    <3> QED
      BY <1>0, <1>3, <1>4, <1>5, <2>1, <3>1, <3>2 DEF Written, FileTypes
  <2>3. \A first \in Nat : NewFrom(first) => NewFrom(first)'
    BY <1>0, <1>3, <1>4, <1>5, <2>1 DEF NewFrom, FileTypes, Written
  <2>4. Forward'
    <3>1. changed' => observing'
      BY <1>1, <2>1 DEF Forward
    <3>2. reading > 0 => observing' /\ NewFrom(reading)'
      BY <1>0, <1>1, <2>1, <2>3 DEF Forward, FileTypes
    <3>3. observing /\ reading = 0 => NewFrom(position + 1)'
      BY <1>0, <1>1, <2>1, <2>3 DEF Forward, FileTypes
    <3> QED
      BY <1>1, <3>1, <3>2, <3>3 DEF Forward, NewFrom
  <2>5. Rising'
    BY <1>1, <2>1 DEF Rising
  <2> QED
    BY <2>2, <2>4, <2>5 DEF Ordered
<1> QED
  BY <1>1, <1>7, <1>8, <1>9 DEF FileInv

\* A line is queued behind the others, which are older.
LEMMA StepNewLine == FileInv /\ Files!NewLine => FileInv'
<1> SUFFICES ASSUME FileInv, Files!NewLine PROVE FileInv'
  OBVIOUS
<1>0. FileTypes /\ Queue
  BY DEF FileInv
<1>1. /\ UNCHANGED <<log, pieces, position, observing, changed, offset, sentLine, again>>
      /\ sendQueue' = Append(sendQueue, log[reading])
      /\ waking' = (waking \/ Len(sendQueue') = 1) /\ reading' = reading + 1
      /\ reading > 0 /\ reading <= Len(log) /\ log[reading] # 0
  BY DEF Files!NewLine, Files!Readable
<1>2. /\ reading \in DOMAIN log /\ log[reading] \in 1 .. LastPiece
      /\ sendQueue \in Seq(1 .. LastPiece)
  <2>1. reading \in DOMAIN log
    BY <1>0, <1>1, FileFacts DEF FileTypes
  <2>2. log[reading] \in 0 .. LastPiece
    BY <1>0, <2>1, Elements DEF FileTypes
  <2> QED
    BY <1>0, <1>1, <2>1, <2>2, PieceAssumption DEF FileTypes
<1>4. /\ sendQueue' \in Seq(1 .. LastPiece) /\ Len(sendQueue') = Len(sendQueue) + 1
      /\ sendQueue'[Len(sendQueue) + 1] = log[reading]
      /\ \A i \in DOMAIN sendQueue : sendQueue'[i] = sendQueue[i]
  BY <1>1, <1>2, Elements
<1>5. Len(sendQueue') > 0 /\ sendQueue' # <<>>
  <2>1. Len(sendQueue') > 0
    BY <1>0, <1>4, FileFacts
  <2> QED
    BY <1>4, <2>1, Elements
<1>6. Newest' = log[reading]
  BY <1>4, <1>5 DEF Newest
<1>7. FileTypes'
  <2>1. waking' \in BOOLEAN
    BY <1>1
  <2> QED
    BY <1>0, <1>1, <1>4, <2>1 DEF FileTypes
<1>8. Queue'
  <2>1. waking'
    <3>1. CASE sendQueue = <<>>
      <4>1. Len(sendQueue') = 1
        BY <1>0, <1>4, <3>1, FileFacts
      <4> QED
        BY <1>1, <4>1
    <3>2. CASE sendQueue # <<>>
      BY <1>0, <1>1, <3>2 DEF Queue
    <3> QED
      BY <3>1, <3>2
  <2>2. ASSUME offset = "done" PROVE Head(sendQueue') = sentLine
    <3>1. sendQueue # <<>> /\ Head(sendQueue) = sentLine
      BY <1>0, <2>2 DEF Queue
    <3>2. sendQueue'[1] = sendQueue[1]
      BY <1>0, <1>4, <3>1, FileFacts
    <3>3. Head(sendQueue') = sendQueue'[1]
      BY <1>4, <1>5, Elements
    <3> QED
      BY <1>0, <3>1, <3>2, <3>3, FileFacts
  <2> QED
    BY <1>1, <1>5, <2>1, <2>2 DEF Queue
<1>9. ASSUME ~again PROVE Ordered'
  <2>1. Written /\ Forward /\ Rising
    BY <1>9 DEF FileInv, Ordered
  <2>2. log[reading] > Newest
    BY <1>0, <1>1, <1>2, <2>1 DEF Forward, NewFrom, FileTypes
  <2>3. Written'
    BY <1>1, <1>2, <1>6, <2>1 DEF Written
  <2>4. Forward'
    <3>1. NewFrom(reading)'
      <4>1. \A i \in DOMAIN log : i >= reading + 1 /\ log[i] # 0 => log[i] > log[reading]
        BY <1>0, <1>1, <1>2, <2>1, FileFacts DEF Written, FileTypes
      <4> QED
        BY <1>1, <1>6, <4>1 DEF NewFrom
    <3>2. reading' # 0 /\ observing' = observing /\ observing /\ (changed' => observing')
      BY <1>0, <1>1, <2>1 DEF Forward, FileTypes
    <3> QED
      BY <3>1, <3>2 DEF Forward
  <2>5. \A i, j \in DOMAIN sendQueue' : i < j => sendQueue'[i] < sendQueue'[j]
    <3>1. \A i, j \in 1 .. Len(sendQueue) : i < j => sendQueue[i] < sendQueue[j]
      BY <1>0, <2>1, FileFacts DEF Rising
    <3>2. \A i \in 1 .. Len(sendQueue) : sendQueue[i] <= Newest
      BY <1>0, <3>1, FileFacts DEF Newest
    <3>3. \A i \in 1 .. Len(sendQueue) : sendQueue[i] \in Nat /\ sendQueue'[i] = sendQueue[i]
      BY <1>0, <1>4, FileFacts
    <3>4. Newest \in Nat /\ Len(sendQueue) \in Nat /\ log[reading] \in Nat
      BY <1>0, <1>2, FileFacts
    <3>5. DOMAIN sendQueue' = 1 .. (Len(sendQueue) + 1)
      BY <1>4, Elements
    <3> QED
      BY <1>4, <2>2, <3>1, <3>2, <3>3, <3>4, <3>5
  <2>6. offset # "done" => Head(sendQueue') > sentLine
    <3>0. Head(sendQueue') = sendQueue'[1]
      BY <1>4, <1>5, Elements
    <3>1. CASE sendQueue = <<>>
      <4>1. sendQueue'[1] = log[reading] /\ Newest = sentLine
        BY <1>0, <1>4, <3>1, FileFacts DEF Newest
      <4> QED
        BY <2>2, <3>0, <4>1
    <3>2. CASE sendQueue # <<>>
      <4>1. sendQueue'[1] = sendQueue[1]
        BY <1>0, <1>4, <3>2, FileFacts
      <4> QED
        BY <1>0, <2>1, <3>0, <3>2, <4>1, FileFacts DEF Rising
    <3> QED
      BY <3>1, <3>2
  <2> QED
    BY <1>1, <2>3, <2>4, <2>5, <2>6 DEF Ordered, Rising
<1> QED
  BY <1>1, <1>7, <1>8, <1>9 DEF FileInv

\* What was sent to its end is discarded before the next line is begun.
LEMMA StepSendData == FileInv /\ Files!SendData => FileInv'
<1> SUFFICES ASSUME FileInv, Files!SendData PROVE FileInv'
  OBVIOUS
<1>0. FileTypes /\ Queue
  BY DEF FileInv
<1> DEFINE Rest == Files!Remaining
<1>1. /\ UNCHANGED <<log, pieces, position, observing, changed, reading, again>>
      /\ sendQueue' = Rest /\ waking' = (Rest # <<>>)
      /\ IF Rest = <<>> THEN offset' = "start" /\ sentLine' = sentLine
         ELSE \/ offset' = "text" /\ sentLine' = sentLine
              \/ offset' = "done" /\ sentLine' = Head(Rest)
  BY DEF Files!SendData
<1>2. Rest = IF offset = "done" THEN Tail(sendQueue) ELSE sendQueue
  BY DEF Files!Remaining
<1> HIDE DEF Rest
<1>3. sendQueue \in Seq(1 .. LastPiece)
  BY <1>0 DEF FileTypes
<1>4. Rest \in Seq(1 .. LastPiece)
  <2>1. offset = "done" => sendQueue # <<>>
    BY <1>0 DEF Queue
  <2> QED
    BY <1>2, <1>3, <2>1, Elements
<1>5. /\ DOMAIN Rest = 1 .. Len(Rest) /\ Len(Rest) \in Nat /\ (Rest = <<>> <=> Len(Rest) = 0)
      /\ Rest # <<>> => Head(Rest) = Rest[1] /\ 1 \in DOMAIN Rest
      /\ \A i \in DOMAIN Rest : Rest[i] \in 1 .. LastPiece
  <2>1. /\ DOMAIN Rest = 1 .. Len(Rest) /\ (Rest # <<>> => Head(Rest) = Rest[1])
        /\ \A i \in DOMAIN Rest : Rest[i] \in 1 .. LastPiece
        /\ Len(Rest) \in Nat /\ (Rest = <<>> <=> Len(Rest) = 0)
    BY <1>4, Elements, Zenon
  <2> QED
    BY <2>1
<1>6. FileTypes'
  <2>1. sentLine' \in Nat /\ waking' \in BOOLEAN /\ offset' \in {"start", "text", "done"}
    <3>1. Rest # <<>> => Head(Rest) \in Nat
      BY <1>5
    <3> QED
      BY <1>0, <1>1, <3>1 DEF FileTypes
  <2> QED
    BY <1>0, <1>1, <1>4, <2>1 DEF FileTypes
<1>7. Queue'
  BY <1>1 DEF Queue
\* The first of the lines that are left is newer than the last that was sent.
<1>8. ASSUME ~again
      PROVE  /\ \A i, j \in DOMAIN Rest : i < j => Rest[i] < Rest[j]
             /\ Rest # <<>> => Rest[1] > sentLine /\ Newest = Rest[Len(Rest)]
             /\ Rest = <<>> => Newest = sentLine
  <2>1. /\ \A i, j \in 1 .. Len(sendQueue) : i < j => sendQueue[i] < sendQueue[j]
        /\ sendQueue # <<>> =>
             IF offset = "done" THEN sendQueue[1] = sentLine ELSE sendQueue[1] > sentLine
    BY <1>0, <1>8, FileFacts DEF FileInv, Ordered, Rising, Queue
  <2>2. CASE offset # "done"
    BY <1>2, <1>5, <2>1, <2>2 DEF Newest
  <2>3. CASE offset = "done"
    <3>1. sendQueue # <<>> /\ Rest = Tail(sendQueue)
      BY <1>0, <1>2, <2>3 DEF Queue
    <3>2. /\ Len(Rest) = Len(sendQueue) - 1 /\ \A i \in DOMAIN Rest : Rest[i] = sendQueue[i + 1]
      BY <1>3, <3>1, Elements
    <3>3. \A i, j \in DOMAIN Rest : i < j => Rest[i] < Rest[j]
      BY <1>5, <2>1, <3>2
    <3>4. Newest = sendQueue[Len(sendQueue)]
      BY <3>1 DEF Newest
    <3>5. ASSUME Rest # <<>> PROVE Rest[1] > sentLine /\ Newest = Rest[Len(Rest)]
      <4>1. Len(Rest) > 0 /\ 1 \in DOMAIN Rest /\ Len(Rest) \in DOMAIN Rest
        BY <1>5, <3>5
      <4>2. Rest[1] = sendQueue[2] /\ Rest[Len(Rest)] = sendQueue[Len(sendQueue)]
        BY <1>5, <3>2, <4>1
      <4>3. sendQueue[1] = sentLine /\ sendQueue[1] < sendQueue[2]
        BY <1>5, <2>1, <2>3, <3>1, <3>2, <4>1
      <4>4. sendQueue[1] \in Nat /\ sendQueue[2] \in Nat
        BY <1>0, <1>5, <3>2, <4>1, FileFacts
      <4> QED
        BY <3>4, <4>2, <4>3, <4>4
    <3>6. ASSUME Rest = <<>> PROVE Newest = sentLine
      <4>1. Len(sendQueue) = 1
        BY <1>0, <1>5, <3>2, <3>6, FileFacts
      <4> QED
        BY <2>1, <2>3, <3>1, <3>4, <4>1
    <3> QED
      BY <3>3, <3>5, <3>6
  <2> QED
    BY <2>2, <2>3
<1>9. ASSUME ~again PROVE Ordered'
  <2>1. Written /\ Forward
    BY <1>9 DEF FileInv, Ordered
  <2>2. Newest' = Newest
    BY <1>1, <1>5, <1>8, <1>9 DEF Newest
  <2>3. Written'
    BY <1>1, <2>1, <2>2 DEF Written
  <2>4. Forward'
    BY <1>1, <2>1, <2>2 DEF Forward, NewFrom
  <2>5. Rising'
    BY <1>1, <1>5, <1>8, <1>9 DEF Rising
  <2> QED
    BY <2>3, <2>4, <2>5 DEF Ordered
<1> QED
  BY <1>1, <1>6, <1>7, <1>9 DEF FileInv

\* The end of the file, from which nothing is left to read, or its beginning, which is
\* new only when the file is empty.
LEMMA StepTake ==
  ASSUME FileInv, Files!TakePosition, UNCHANGED log
  PROVE  /\ position' \in Nat /\ again' \in BOOLEAN /\ (~again' => ~again)
         /\ ~again' => \A i \in DOMAIN log' : ~(i >= position' + 1)
<1>0. FileTypes
  BY DEF FileInv
<1>1. CASE position' = Len(log) /\ again' = again
  BY <1>0, <1>1, FileFacts DEF FileTypes
<1>2. CASE ~again /\ position' = 0 /\ again' = (log # <<>>)
  <2>1. ~again' => log' = <<>>
    BY <1>2
  <2>2. \A s : s = <<>> => DOMAIN s = {}
    OBVIOUS
  <2>3. position' \in Nat /\ again' \in BOOLEAN
    BY <1>2
  <2> QED
    BY <1>2, <2>1, <2>2, <2>3
<1> QED
  BY <1>1, <1>2 DEF Files!TakePosition, Files!CurrentPosition

LEMMA FileStep == FileInv /\ [Files!Next]_fileVars => FileInv'
<1> SUFFICES ASSUME FileInv, [Files!Next]_fileVars PROVE FileInv'
  OBVIOUS
<1>0. FileTypes /\ Queue /\ (~again => Written /\ Forward /\ Rising)
  BY DEF FileInv, Ordered
<1> USE DEF Files!channelVars
\* The queue is left alone, and so is the file.
<1>f. ASSUME UNCHANGED <<log, pieces, sendQueue, offset, waking, sentLine>>,
             FileTypes', ~again' => ~again /\ Forward'
      PROVE  FileInv'
  <2>1. Queue'
    BY <1>0, <1>f DEF Queue
  <2>2. ~again' => Written' /\ Rising'
    BY <1>0, <1>f DEF Written, Newest, Rising
  <2> QED
    BY <1>f, <2>1, <2>2 DEF FileInv, Ordered
<1>1. CASE Files!Dispatch
  <2>1. /\ UNCHANGED <<log, pieces, observing, sendQueue, offset, waking, sentLine>>
        /\ changed /\ changed' = FALSE /\ reading = 0
        /\ \/ reading' = position + 1 /\ position' = position /\ again' = again
           \/ Files!TakePosition /\ reading' = reading
    BY <1>1 DEF Files!Dispatch
  <2>2. Newest' = Newest
    BY <2>1 DEF Newest
  <2>3. CASE reading' = position + 1 /\ position' = position /\ again' = again
    <3>1. FileTypes'
      <4>1. reading' \in Nat
        <5>1. position \in Nat
          BY <1>0 DEF FileTypes
        <5> QED
          BY <2>3, <5>1
      <4>2. changed' \in BOOLEAN
        BY <2>1
      <4> QED
        BY <1>0, <2>1, <2>3, <4>1, <4>2 DEF FileTypes
    <3>2. ASSUME ~again PROVE Forward'
      <4>1. observing /\ \A i \in DOMAIN log : i >= position + 1 /\ log[i] # 0 => log[i] > Newest
        BY <1>0, <2>1, <3>2 DEF Forward, NewFrom
      <4> QED
        BY <1>0, <2>1, <2>2, <2>3, <4>1 DEF Forward, NewFrom, FileTypes
    <3> QED
      BY <1>f, <2>1, <2>3, <3>1, <3>2
  <2>4. CASE Files!TakePosition /\ reading' = reading
    <3>1. FileTypes'
      <4>1. changed' \in BOOLEAN
        BY <2>1
      <4> QED
        BY <1>0, <2>1, <2>4, <4>1, StepTake DEF FileTypes
    <3>2. ASSUME ~again' PROVE Forward'
      BY <2>1, <2>4, <3>2, StepTake DEF Forward, NewFrom
    <3> QED
      BY <1>f, <2>1, <2>4, <3>1, <3>2, StepTake
  <2> QED
    BY <2>1, <2>3, <2>4
<1>2. CASE Files!EndDispatch
  <2>1. /\ UNCHANGED <<log, pieces, observing, changed, sendQueue, offset, waking, sentLine>>
        /\ Files!TakePosition /\ reading' = 0
    BY <1>2 DEF Files!EndDispatch
  <2>2. FileTypes'
    BY <1>0, <2>1, StepTake DEF FileTypes
  <2>3. ASSUME ~again' PROVE Forward'
    BY <1>0, <2>1, <2>3, StepTake DEF Forward, NewFrom
  <2> QED
    BY <1>f, <2>1, <2>2, <2>3, StepTake
<1>3. CASE Files!Unregister
  <2>1. /\ UNCHANGED <<log, pieces, reading, sendQueue, offset, waking, sentLine, again>>
        /\ observing' = FALSE /\ changed' = FALSE /\ position' = 0 /\ reading = 0
    BY <1>3 DEF Files!Unregister
  <2>2. FileTypes'
    <3>1. position' \in Nat /\ observing' \in BOOLEAN /\ changed' \in BOOLEAN
      BY <2>1
    <3> QED
      BY <1>0, <2>1, <3>1 DEF FileTypes
  <2>3. Forward'
    BY <1>0, <2>1 DEF Forward
  <2> QED
    BY <1>f, <2>1, <2>2, <2>3
<1>4. CASE UNCHANGED fileVars
  BY <1>0, <1>4, <1>f DEF fileVars, FileTypes, Forward, NewFrom, Newest
<1> QED
  BY <1>1, <1>2, <1>3, <1>4, StepWrite, StepNewLine, StepSendData DEF Files!Next

LEMMA FileInvariance == Spec => []FileInv
<1>1. Init => FileInv
  BY FileInit DEF Init
<1>2. FileInv /\ [Next]_vars => FileInv'
  BY FileStep, BoxSteps
<1> QED
  BY <1>1, <1>2, PTL DEF Spec
-----------------------------------------------------------------------------
(* WebProxy.                                                               *)

ProxyTypes ==
  /\ head \in [Proxy!Direction -> 0 .. Size - 1]
  /\ tail \in [Proxy!Direction -> 0 .. Size - 1]
  /\ buffer \in [Proxy!Direction -> [0 .. Size - 1 -> Nat]]
  /\ written \in [Proxy!Direction -> Nat]
  /\ arrived \in [Proxy!Direction -> Nat]
  /\ requested \in [Proxy!Direction -> BOOLEAN]

\* How many bytes ago the byte at j was written, if the buffer holds it.
Age(d, j) == IF j < head[d] THEN head[d] - j ELSE head[d] + Size - j

Held(d) ==
  \A j \in 0 .. Size - 1 :
    Age(d, j) <= Proxy!Filled(d) => buffer[d][j] = written[d] + 1 - Age(d, j)

Counted(d) ==
  /\ arrived[d] <= written[d] - Proxy!Filled(d)
  /\ "full" \notin gap =>
       Proxy!Filled(d) = Proxy!Min({Size - 1, written[d] - arrived[d]})

Asked == ~Proxy!IsEmpty("channel") => requested["channel"]

ProxyInv ==
  ProxyTypes /\ (\A d \in Proxy!Direction : Held(d) /\ Counted(d)) /\ Asked

LEMMA Wrapped ==
  /\ \A x \in 0 .. Size - 1 : x % Size = x
  /\ \A x \in Size .. 2 * Size - 1 : x % Size = x - Size
  BY BufferAssumption

LEMMA Advance ==
  ASSUME NEW x \in 0 .. Size - 1, NEW y \in 0 .. Size, NEW z, z = x + y
  PROVE  /\ z % Size \in 0 .. Size - 1
         /\ z % Size = IF z < Size THEN z ELSE z - Size
<1>1. z \in 0 .. 2 * Size - 1 /\ Size \in Nat
  BY BufferAssumption
<1>2. z % Size = IF z < Size THEN z ELSE z - Size
  BY <1>1, Wrapped
<1> DEFINE m == z % Size
<1>3. m = IF z < Size THEN z ELSE z - Size
  BY <1>2
<1> HIDE DEF m
<1>4. m \in 0 .. Size - 1
  BY <1>1, <1>3
<1> QED
  BY <1>2, <1>4 DEF m

LEMMA LeastOfTwo == \A x, y \in Int : Proxy!Min({x, y}) = IF x <= y THEN x ELSE y
  BY DEF Proxy!Min

LEMMA ProxyInit == Proxy!Init => ProxyInv
<1> SUFFICES ASSUME Proxy!Init PROVE ProxyInv
  OBVIOUS
<1>1. ProxyTypes
  BY BufferAssumption DEF Proxy!Init, Proxy!Empty, ProxyTypes
<1>2. ASSUME NEW d \in Proxy!Direction PROVE Held(d) /\ Counted(d)
  <2>1. /\ head[d] = 0 /\ tail[d] = 0 /\ written[d] = 0 /\ arrived[d] = 0
        /\ Proxy!Filled(d) = 0
    BY <1>2, BufferAssumption DEF Proxy!Init, Proxy!Empty, Proxy!Filled
  <2>2. Proxy!Min({Size - 1, 0}) = 0
    BY BufferAssumption, LeastOfTwo
  <2> QED
    BY <2>1, <2>2, BufferAssumption DEF Held, Counted, Age
<1>3. Asked
  BY DEF Proxy!Init, Proxy!Empty, Asked, Proxy!IsEmpty, Proxy!Direction
<1> QED
  BY <1>1, <1>2, <1>3 DEF ProxyInv

\* What is known of a direction in one state.
LEMMA ProxyFacts ==
  ASSUME ProxyTypes, NEW d \in Proxy!Direction
  PROVE  /\ head[d] \in 0 .. Size - 1 /\ tail[d] \in 0 .. Size - 1
         /\ written[d] \in Nat /\ arrived[d] \in Nat
         /\ Proxy!Filled(d) \in 0 .. Size - 1
         /\ Proxy!Filled(d) = 0 <=> Proxy!IsEmpty(d)
  BY BufferAssumption, SMTT(30) DEF ProxyTypes, Proxy!Filled, Proxy!IsEmpty

\* A direction that a step leaves alone.
LEMMA OtherDirection ==
  ASSUME NEW d \in Proxy!Direction, Held(d), Counted(d), gap \subseteq gap',
         head'[d] = head[d], tail'[d] = tail[d], buffer'[d] = buffer[d],
         written'[d] = written[d], arrived'[d] = arrived[d]
  PROVE  Held(d)' /\ Counted(d)'
  BY DEF Held, Counted, Age, Proxy!Filled

\* Bytes that are written: the buffer grows by them, is full to the last of them and
\* counts as empty, or runs over and keeps what it can.
LEMMA StepProxyWrite ==
  ASSUME ProxyInv, NEW d \in Proxy!Direction, NEW n \in 1 .. Size - 1, Proxy!Write(d, n)
  PROVE  ProxyInv'
<1>0. ProxyTypes /\ Asked /\ \A e \in Proxy!Direction : Held(e) /\ Counted(e)
  BY DEF ProxyInv
<1> DEFINE h == head[d]
           t == tail[d]
           w == written[d]
           f == Proxy!Filled(d)
<1>1. /\ h \in 0 .. Size - 1 /\ t \in 0 .. Size - 1 /\ w \in Nat /\ arrived[d] \in Nat
      /\ f \in 0 .. Size - 1 /\ f = IF h >= t THEN h - t ELSE Size - (t - h)
  BY <1>0, ProxyFacts DEF Proxy!Filled
<1>2. /\ UNCHANGED arrived
      /\ head' = [head EXCEPT ![d] = (h + n) % Size]
      /\ tail' = [tail EXCEPT ![d] = Proxy!NewTail(d, n)]
      /\ buffer' = [buffer EXCEPT ![d] = Proxy!Stored(d, n)]
      /\ written' = [written EXCEPT ![d] = w + n]
      /\ requested' = [requested EXCEPT ![d] = requested[d] \/ Proxy!IsEmpty(d)]
      /\ gap' = gap \cup (IF Proxy!Free(d) = n THEN {"full"} ELSE {})
  BY DEF Proxy!Write
<1>3. /\ (h + n) % Size \in 0 .. Size - 1
      /\ (h + n) % Size = IF h + n < Size THEN h + n ELSE (h + n) - Size
  <2>1. n \in 0 .. Size
    BY BufferAssumption
  <2> QED
    BY <1>1, <2>1, Advance, Zenon
<1>4. /\ Proxy!NewTail(d, n) \in 0 .. Size - 1
      /\ Proxy!NewTail(d, n) =
           IF Size - f < n THEN IF h + n + 1 < Size THEN h + n + 1 ELSE (h + n + 1) - Size
           ELSE t
  <2>1. n + 1 \in 0 .. Size /\ h + n + 1 = h + (n + 1)
    BY <1>1, BufferAssumption
  <2>2. /\ (h + n + 1) % Size \in 0 .. Size - 1
        /\ (h + n + 1) % Size = IF h + n + 1 < Size THEN h + n + 1 ELSE (h + n + 1) - Size
    BY <1>1, <2>1, Advance, Zenon
  <2> QED
    BY <1>1, <2>2 DEF Proxy!NewTail, Proxy!Free
\* The byte at j is the one that the age of its place tells.
<1>5. /\ Proxy!Stored(d, n) \in [0 .. Size - 1 -> Nat]
      /\ \A j \in 0 .. Size - 1 :
           Proxy!Stored(d, n)[j] =
             LET past == IF j >= h THEN j - h ELSE j - h + Size
             IN  IF past < n THEN w + 1 + past ELSE buffer[d][j]
  <2>1. ASSUME NEW j \in 0 .. Size - 1
        PROVE  (Size + j - h) % Size = IF j >= h THEN j - h ELSE j - h + Size
    BY <1>1, Wrapped, BufferAssumption
  <2>2. ASSUME NEW j \in 0 .. Size - 1
        PROVE  (\E k \in 1 .. n : j = (h + k - 1) % Size)
                 <=> (IF j >= h THEN j - h ELSE j - h + Size) < n
    <3>1. \A k \in 1 .. n :
            (h + k - 1) % Size = IF h + k - 1 < Size THEN h + k - 1 ELSE h + k - 1 - Size
      BY <1>1, Wrapped, BufferAssumption
    <3>2. ASSUME (IF j >= h THEN j - h ELSE j - h + Size) < n
          PROVE  \E k \in 1 .. n : j = (h + k - 1) % Size
      <4> DEFINE k == (IF j >= h THEN j - h ELSE j - h + Size) + 1
      <4>1. k \in 1 .. n /\ j = IF h + k - 1 < Size THEN h + k - 1 ELSE h + k - 1 - Size
        BY <1>1, <3>2, BufferAssumption
      <4> QED
        BY <3>1, <4>1
    <3>3. ASSUME NEW k \in 1 .. n, j = (h + k - 1) % Size
          PROVE  (IF j >= h THEN j - h ELSE j - h + Size) < n
      BY <1>1, <3>1, <3>3, BufferAssumption
    <3> QED
      BY <3>2, <3>3
  <2>3. buffer[d] \in [0 .. Size - 1 -> Nat]
    BY <1>0 DEF ProxyTypes
  <2>4. \A j \in 0 .. Size - 1 :
          Proxy!Stored(d, n)[j] =
            LET past == IF j >= h THEN j - h ELSE j - h + Size
            IN  IF past < n THEN w + 1 + past ELSE buffer[d][j]
    BY <2>1, <2>2 DEF Proxy!Stored
  <2>5. \A j \in 0 .. Size - 1 : Proxy!Stored(d, n)[j] \in Nat
    <3> SUFFICES ASSUME NEW j \in 0 .. Size - 1 PROVE Proxy!Stored(d, n)[j] \in Nat
      OBVIOUS
    <3> DEFINE past == IF j >= h THEN j - h ELSE j - h + Size
    <3>1. past \in Nat /\ w + 1 + past \in Nat
      BY <1>1, BufferAssumption
    <3>2. buffer[d][j] \in Nat
      BY <2>3
    <3>3. Proxy!Stored(d, n)[j] = IF past < n THEN w + 1 + past ELSE buffer[d][j]
      BY <2>4, Zenon
    <3> HIDE DEF past
    <3> QED
      BY <3>1, <3>2, <3>3
  <2> QED
    BY <2>4, <2>5 DEF Proxy!Stored
<1>6. /\ head'[d] = IF h + n < Size THEN h + n ELSE (h + n) - Size
      /\ tail'[d] = IF Size - f < n
                    THEN IF h + n + 1 < Size THEN h + n + 1 ELSE (h + n + 1) - Size
                    ELSE t
      /\ buffer'[d] = Proxy!Stored(d, n) /\ written'[d] = w + n /\ arrived'[d] = arrived[d]
      /\ requested'[d] = (requested[d] \/ Proxy!IsEmpty(d))
  BY <1>0, <1>2, <1>3, <1>4 DEF ProxyTypes
<1>7. ProxyTypes'
  <2>1. requested' \in [Proxy!Direction -> BOOLEAN]
    BY <1>0, <1>2, Zenon DEF ProxyTypes, Proxy!IsEmpty
  <2>2. head' \in [Proxy!Direction -> 0 .. Size - 1]
    BY <1>0, <1>2, <1>3 DEF ProxyTypes
  <2>3. tail' \in [Proxy!Direction -> 0 .. Size - 1]
    BY <1>0, <1>2, <1>4 DEF ProxyTypes
  <2>4. buffer' \in [Proxy!Direction -> [0 .. Size - 1 -> Nat]]
    BY <1>0, <1>2, <1>5 DEF ProxyTypes
  <2>5. written' \in [Proxy!Direction -> Nat] /\ arrived' \in [Proxy!Direction -> Nat]
    <3>1. w + n \in Nat
      BY <1>1
    <3> QED
      BY <1>0, <1>2, <3>1 DEF ProxyTypes
  <2> QED
    BY <2>1, <2>2, <2>3, <2>4, <2>5 DEF ProxyTypes
<1>8. Proxy!Filled(d)' = IF Size - f < n THEN Size - 1 ELSE IF Size - f = n THEN 0 ELSE f + n
  BY <1>1, <1>6, BufferAssumption DEF Proxy!Filled
<1>9. Held(d)'
  <2> SUFFICES ASSUME NEW j \in 0 .. Size - 1, Age(d, j)' <= Proxy!Filled(d)'
               PROVE  buffer'[d][j] = written'[d] + 1 - Age(d, j)'
    BY DEF Held
  <2>1. Age(d, j)' = IF j < head'[d] THEN head'[d] - j ELSE head'[d] + Size - j
    BY DEF Age
  <2>2. Age(d, j) = IF j < h THEN h - j ELSE h + Size - j
    BY DEF Age
  <2>3. CASE (IF j >= h THEN j - h ELSE j - h + Size) < n
    <3>1. Age(d, j)' = n - (IF j >= h THEN j - h ELSE j - h + Size)
      BY <1>1, <1>6, <2>1, <2>3, BufferAssumption
    <3>2. buffer'[d][j] = w + 1 + (IF j >= h THEN j - h ELSE j - h + Size)
      BY <1>5, <1>6, <2>3
    <3> QED
      BY <1>1, <1>6, <3>1, <3>2, BufferAssumption
  <2>4. CASE ~((IF j >= h THEN j - h ELSE j - h + Size) < n)
    <3>1. Age(d, j)' = Age(d, j) + n /\ Age(d, j) \in Nat
      BY <1>1, <1>6, <2>1, <2>2, <2>4, BufferAssumption
    <3>2. Age(d, j) <= f
      BY <1>1, <1>8, <2>2, <3>1, BufferAssumption
    <3>3. buffer[d][j] = w + 1 - Age(d, j)
      BY <1>0, <3>2 DEF Held
    <3>4. buffer'[d][j] = buffer[d][j]
      BY <1>5, <1>6, <2>4
    <3> QED
      BY <1>1, <1>6, <3>1, <3>3, <3>4
  <2> QED
    BY <2>3, <2>4
<1>10. Counted(d)'
  <2>1. arrived[d] <= w - f
    BY <1>0 DEF Counted
  <2>2. arrived'[d] <= written'[d] - Proxy!Filled(d)'
    BY <1>1, <1>6, <1>8, <2>1, BufferAssumption
  <2>3. ASSUME "full" \notin gap'
        PROVE  Proxy!Filled(d)' = Proxy!Min({Size - 1, (w + n) - arrived[d]})
    <3>1. f = Proxy!Min({Size - 1, w - arrived[d]}) /\ Size - f # n
      BY <1>0, <1>2, <2>3 DEF Counted, Proxy!Free
    <3>2. f = IF Size - 1 <= w - arrived[d] THEN Size - 1 ELSE w - arrived[d]
      BY <1>1, <3>1, LeastOfTwo, BufferAssumption
    <3>3. Proxy!Min({Size - 1, (w + n) - arrived[d]}) =
            IF Size - 1 <= (w + n) - arrived[d] THEN Size - 1 ELSE (w + n) - arrived[d]
      BY <1>1, LeastOfTwo, BufferAssumption
    <3> QED
      BY <1>1, <1>8, <3>1, <3>2, <3>3, BufferAssumption
  <2>4. written'[d] - arrived'[d] = (w + n) - arrived[d]
    BY <1>6
  <2> QED
    BY <2>2, <2>3, <2>4 DEF Counted
<1>11. ASSUME NEW e \in Proxy!Direction, e # d PROVE Held(e)' /\ Counted(e)'
  <2>1. /\ head'[e] = head[e] /\ tail'[e] = tail[e] /\ buffer'[e] = buffer[e]
        /\ written'[e] = written[e] /\ arrived'[e] = arrived[e] /\ gap \subseteq gap'
    BY <1>0, <1>2, <1>11 DEF ProxyTypes
  <2> QED
    BY <1>0, <2>1, OtherDirection
<1>12. Asked'
  <2>1. CASE d = "channel"
    BY <1>0, <1>6, <2>1 DEF Asked
  <2>2. CASE d # "channel"
    BY <1>0, <1>2, <2>2 DEF Asked, Proxy!IsEmpty, Proxy!Direction, ProxyTypes
  <2> QED
    BY <2>1, <2>2
<1> QED
  BY <1>7, <1>9, <1>10, <1>11, <1>12 DEF ProxyInv

\* Bytes that are read: the last of them is as old as what is left, and one.
LEMMA StepProxyRead ==
  ASSUME ProxyInv, NEW d \in Proxy!Direction, Proxy!Read(d), UNCHANGED gap
  PROVE  ProxyInv'
<1>0. ProxyTypes /\ Asked /\ \A e \in Proxy!Direction : Held(e) /\ Counted(e)
  BY DEF ProxyInv
<1> DEFINE h == head[d]
           t == tail[d]
           w == written[d]
           f == Proxy!Filled(d)
           n == Proxy!Min({f, MaxSend})
<1>1. /\ h \in 0 .. Size - 1 /\ t \in 0 .. Size - 1 /\ w \in Nat /\ arrived[d] \in Nat
      /\ f \in 0 .. Size - 1 /\ f = IF h >= t THEN h - t ELSE Size - (t - h)
      /\ f = 0 <=> Proxy!IsEmpty(d)
  BY <1>0, ProxyFacts DEF Proxy!Filled
<1>2. n \in 0 .. f /\ (n = 0 => f = 0)
  <2>1. n = IF f <= MaxSend THEN f ELSE MaxSend
    BY <1>1, LeastOfTwo, BufferAssumption
  <2> QED
    BY <1>1, <2>1, BufferAssumption
<1>3. /\ UNCHANGED <<head, buffer, written>>
      /\ requested' = [requested EXCEPT ![d] = n > 0]
      /\ tail' = [tail EXCEPT ![d] = (t + n) % Size]
      /\ arrived' = [arrived EXCEPT ![d] =
           IF n = 0 THEN arrived[d] ELSE buffer[d][(t + n - 1) % Size]]
  BY DEF Proxy!Read
<1> HIDE DEF n
<1>4. /\ (t + n) % Size \in 0 .. Size - 1
      /\ (t + n) % Size = IF t + n < Size THEN t + n ELSE (t + n) - Size
  <2>1. n \in 0 .. Size
    BY <1>1, <1>2, BufferAssumption
  <2> QED
    BY <1>1, <2>1, Advance, Zenon
\* The byte that arrives last.
<1>5. n # 0 => buffer[d][(t + n - 1) % Size] = w - (f - n)
  <2> SUFFICES ASSUME n # 0 PROVE buffer[d][(t + n - 1) % Size] = w - (f - n)
    OBVIOUS
  <2>1. n - 1 \in 0 .. Size /\ t + n - 1 = t + (n - 1)
    BY <1>1, <1>2, BufferAssumption
  <2> DEFINE j == (t + n - 1) % Size
  <2>2. /\ j \in 0 .. Size - 1
        /\ j = IF t + n - 1 < Size THEN t + n - 1 ELSE (t + n - 1) - Size
    BY <1>1, <2>1, Advance
  <2> HIDE DEF j
  <2>3. Age(d, j) = f - n + 1
    BY <1>1, <1>2, <2>2, BufferAssumption DEF Age
  <2>4. buffer[d][j] = w + 1 - Age(d, j)
    <3>1. Age(d, j) <= f
      BY <1>1, <1>2, <2>3
    <3> QED
      BY <1>0, <2>2, <3>1 DEF Held
  <2>5. buffer[d][j] = w - (f - n)
    BY <1>1, <1>2, <2>3, <2>4
  <2> QED
    BY <2>5 DEF j
<1>6. /\ head'[d] = h /\ buffer'[d] = buffer[d] /\ written'[d] = w
      /\ tail'[d] = IF t + n < Size THEN t + n ELSE (t + n) - Size
      /\ arrived'[d] = IF n = 0 THEN arrived[d] ELSE w - (f - n)
      /\ requested'[d] = (n > 0)
  BY <1>0, <1>3, <1>4, <1>5 DEF ProxyTypes
<1>7. arrived[d] <= w - f
  BY <1>0 DEF Counted
<1>8. ProxyTypes'
  <2>1. tail' \in [Proxy!Direction -> 0 .. Size - 1]
    BY <1>0, <1>3, <1>4 DEF ProxyTypes
  <2>2. arrived' \in [Proxy!Direction -> Nat]
    <3>1. n # 0 => buffer[d][(t + n - 1) % Size] \in Nat
      <4>1. w - (f - n) \in Nat
        BY <1>1, <1>2, <1>7
      <4> QED
        BY <1>5, <4>1
    <3> QED
      BY <1>0, <1>3, <3>1 DEF ProxyTypes
  <2>3. requested' \in [Proxy!Direction -> BOOLEAN]
    <3>1. (n > 0) \in BOOLEAN
      OBVIOUS
    <3> QED
      BY <1>0, <1>3, <3>1, Zenon DEF ProxyTypes
  <2> QED
    BY <1>0, <1>3, <2>1, <2>2, <2>3 DEF ProxyTypes
<1>9. Proxy!Filled(d)' = f - n
  BY <1>1, <1>2, <1>6, BufferAssumption DEF Proxy!Filled
<1>10. Held(d)'
  <2> SUFFICES ASSUME NEW j \in 0 .. Size - 1, Age(d, j)' <= Proxy!Filled(d)'
               PROVE  buffer'[d][j] = written'[d] + 1 - Age(d, j)'
    BY DEF Held
  <2>1. Age(d, j)' = Age(d, j) /\ Age(d, j) \in Nat
    BY <1>1, <1>6, BufferAssumption DEF Age
  <2>2. Age(d, j) <= f
    BY <1>1, <1>2, <1>9, <2>1
  <2> QED
    BY <1>0, <1>6, <2>1, <2>2 DEF Held
<1>11. Counted(d)'
  <2>1. arrived'[d] <= written'[d] - Proxy!Filled(d)'
    BY <1>1, <1>2, <1>6, <1>7, <1>9
  <2>2. ASSUME "full" \notin gap'
        PROVE  Proxy!Filled(d)' = Proxy!Min({Size - 1, written'[d] - arrived'[d]})
    <3>1. f = Proxy!Min({Size - 1, w - arrived[d]})
      BY <1>0, <2>2 DEF Counted
    <3>2. f = IF Size - 1 <= w - arrived[d] THEN Size - 1 ELSE w - arrived[d]
      BY <1>1, <3>1, LeastOfTwo, BufferAssumption
    <3>3. arrived'[d] \in Nat /\ written'[d] \in Nat
      BY <1>8 DEF ProxyTypes
    <3>4. Proxy!Min({Size - 1, written'[d] - arrived'[d]}) =
            IF Size - 1 <= written'[d] - arrived'[d] THEN Size - 1
            ELSE written'[d] - arrived'[d]
      BY <3>3, LeastOfTwo, BufferAssumption
    <3> QED
      BY <1>1, <1>2, <1>6, <1>9, <3>2, <3>4, BufferAssumption
  <2> QED
    BY <2>1, <2>2 DEF Counted
<1>12. ASSUME NEW e \in Proxy!Direction, e # d PROVE Held(e)' /\ Counted(e)'
  <2>1. /\ head'[e] = head[e] /\ tail'[e] = tail[e] /\ buffer'[e] = buffer[e]
        /\ written'[e] = written[e] /\ arrived'[e] = arrived[e] /\ gap \subseteq gap'
    BY <1>0, <1>3, <1>12 DEF ProxyTypes
  <2> QED
    BY <1>0, <2>1, OtherDirection
\* The framework goes on until there is nothing to read.
<1>13. Asked'
  <2>1. CASE d = "channel"
    <3>1. Proxy!IsEmpty(d)' <=> Proxy!Filled(d)' = 0
      <4>1. head'[d] \in 0 .. Size - 1 /\ tail'[d] \in 0 .. Size - 1
        BY <1>8 DEF ProxyTypes
      <4> QED
        BY <4>1, BufferAssumption DEF Proxy!Filled, Proxy!IsEmpty
    <3>2. n = 0 => Proxy!IsEmpty(d)'
      BY <1>1, <1>2, <1>9, <3>1
    <3>3. ~(n = 0) => requested'[d]
      <4>1. ~(n = 0) => n > 0
        BY <1>1, <1>2
      <4> QED
        BY <1>6, <4>1, Zenon
    <3> QED
      BY <2>1, <3>2, <3>3 DEF Asked
  <2>2. CASE d # "channel"
    BY <1>0, <1>3, <2>2 DEF Asked, Proxy!IsEmpty, Proxy!Direction, ProxyTypes
  <2> QED
    BY <2>1, <2>2
<1> QED
  BY <1>8, <1>10, <1>11, <1>12, <1>13 DEF ProxyInv

LEMMA ProxyStep == ProxyInv /\ [Proxy!Next]_proxyVars => ProxyInv'
<1> SUFFICES ASSUME ProxyInv, [Proxy!Next]_proxyVars PROVE ProxyInv'
  OBVIOUS
<1>0. ProxyTypes /\ Asked /\ \A e \in Proxy!Direction : Held(e) /\ Counted(e)
  BY DEF ProxyInv
\* The buffers are left alone.
<1>f. ASSUME UNCHANGED <<head, tail, buffer, written, arrived>>, gap \subseteq gap',
             requested' \in [Proxy!Direction -> BOOLEAN],
             requested'["channel"] = requested["channel"]
      PROVE  ProxyInv'
  <2>1. ASSUME NEW e \in Proxy!Direction PROVE Held(e)' /\ Counted(e)'
    BY <1>0, <1>f, <2>1, OtherDirection
  <2>2. ProxyTypes'
    BY <1>0, <1>f DEF ProxyTypes
  <2>3. Asked'
    BY <1>0, <1>f DEF Asked, Proxy!IsEmpty
  <2> QED
    BY <2>1, <2>2, <2>3 DEF ProxyInv
<1>1. ASSUME NEW d \in Proxy!Direction, NEW n \in Proxy!Bytes(d), Proxy!Write(d, n)
      PROVE  ProxyInv'
  <2>1. n \in 1 .. Size - 1
    BY <1>1 DEF Proxy!Bytes
  <2> QED
    BY <1>1, <2>1, StepProxyWrite
<1>2. ASSUME UNCHANGED <<head, tail, buffer, written, arrived, requested>>,
             gap \subseteq gap'
      PROVE  ProxyInv'
  BY <1>0, <1>2, <1>f DEF ProxyTypes
<1>3. "channel" \in Proxy!Direction /\ "link" \in Proxy!Direction
  BY DEF Proxy!Direction
<1>4. CASE Proxy!ReceiveData
  BY <1>1, <1>2, <1>3, <1>4 DEF Proxy!ReceiveData, Proxy!bufferVars
<1>5. CASE Proxy!ChannelReceive
  BY <1>1, <1>3, <1>5 DEF Proxy!ChannelReceive
<1>6. CASE Proxy!ChannelSend \/ Proxy!SendData
  BY <1>3, <1>6, StepProxyRead DEF Proxy!ChannelSend, Proxy!SendData
<1>7. CASE Proxy!StateChange
  <2>1. PICK send \in BOOLEAN :
          requested' = [requested EXCEPT !["link"] =
                          (link' = "open" /\ (requested["link"] \/ send))]
    BY <1>7 DEF Proxy!StateChange
  <2>2. /\ requested' \in [Proxy!Direction -> BOOLEAN]
        /\ requested'["channel"] = requested["channel"]
    BY <1>0, <1>3, <2>1, Zenon DEF ProxyTypes
  <2> QED
    BY <1>7, <1>f, <2>2 DEF Proxy!StateChange, Proxy!bufferVars
<1>8. CASE Proxy!Attach \/ Proxy!Detach
  BY <1>2, <1>8 DEF Proxy!Attach, Proxy!Detach, Proxy!bufferVars
<1>9. CASE UNCHANGED proxyVars
  BY <1>2, <1>9 DEF proxyVars
<1> QED
  BY <1>4, <1>5, <1>6, <1>7, <1>8, <1>9 DEF Proxy!Next

LEMMA ProxyInvariance == Spec => []ProxyInv
<1>1. Init => ProxyInv
  BY ProxyInit DEF Init
<1>2. ProxyInv /\ [Next]_vars => ProxyInv'
  BY ProxyStep, BoxSteps
<1> QED
  BY <1>1, <1>2, PTL DEF Spec

\* The ages of the bytes in a buffer put them in the order of BytesInOrder.
LEMMA InOrder == ProxyInv => Proxy!BytesInOrder
<1> SUFFICES ASSUME ProxyInv PROVE Proxy!BytesInOrder
  OBVIOUS
<1>0. ProxyTypes /\ Asked /\ \A e \in Proxy!Direction : Held(e) /\ Counted(e)
  BY DEF ProxyInv
<1>1. ASSUME NEW d \in Proxy!Direction, NEW i \in 0 .. Proxy!Filled(d) - 1
      PROVE  buffer[d][(tail[d] + i) % Size] = written[d] - Proxy!Filled(d) + 1 + i
  <2> DEFINE f == Proxy!Filled(d)
             j == (tail[d] + i) % Size
  <2>1. /\ head[d] \in 0 .. Size - 1 /\ tail[d] \in 0 .. Size - 1 /\ written[d] \in Nat
        /\ f \in 0 .. Size - 1
        /\ f = IF head[d] >= tail[d] THEN head[d] - tail[d] ELSE Size - (tail[d] - head[d])
    BY <1>0, ProxyFacts DEF Proxy!Filled
  <2>2. i \in 0 .. Size
    BY <2>1, BufferAssumption
  <2>3. /\ j \in 0 .. Size - 1
        /\ j = IF tail[d] + i < Size THEN tail[d] + i ELSE (tail[d] + i) - Size
    BY <2>1, <2>2, Advance, Zenon
  <2> HIDE DEF j
  <2>4. Age(d, j) = f - i
    BY <2>1, <2>3, BufferAssumption DEF Age
  <2>5. buffer[d][j] = written[d] + 1 - Age(d, j)
    <3>1. Age(d, j) <= f
      BY <2>1, <2>4
    <3> QED
      BY <1>0, <2>3, <3>1 DEF Held
  <2>6. buffer[d][j] = written[d] - f + 1 + i
    BY <2>1, <2>4, <2>5
  <2> QED
    BY <2>6 DEF j
<1> QED
  BY <1>0, <1>1 DEF Proxy!BytesInOrder, Counted, Asked

\* FileTransfer sends its lines, up to the moment at which it loses its place in a
\* file that has lines, and WebProxy its bytes, in the order in which they were written
\* and nothing twice; and what waits has been announced.
THEOREM ArrivesInOrderHolds == Spec => []ArrivesInOrder
<1>1. FileInv /\ ProxyInv => ArrivesInOrder
  BY InOrder DEF ArrivesInOrder, FileInv, Queue, Ordered, Rising, Files!LinesInOrder
<1> QED
  BY <1>1, FileInvariance, ProxyInvariance, PTL
-----------------------------------------------------------------------------
(* The types of all the plugins.                                           *)

LEMMA TimeTypes == Time!TypeOK /\ [Time!Next]_syncVars => Time!TypeOK'
<1> SUFFICES ASSUME Time!TypeOK, [Time!Next]_syncVars PROVE Time!TypeOK'
  OBVIOUS
<1> USE CountAssumption DEF Time!TypeOK
<1>1. CASE Time!Start \/ Time!Reschedule
  BY <1>1 DEF Time!Start, Time!Reschedule, Time!Watchdog
<1>2. CASE Time!Dispatch
  <2>1. pointing' \in BOOLEAN /\ told' \in BOOLEAN
    <3>1. pointing' = (pointing \/ (Time!Busy /\ Servers > 0))
      BY <1>2 DEF Time!Dispatch
    <3>2. told' = (told /\ (syncState' # "FAILED" \/ syncState = "FAILED"))
      BY <1>2 DEF Time!Dispatch
    <3> QED
      BY <3>1, <3>2, Zenon
  <2>2. /\ syncState' \in {syncState, "INPROGRESS", "FAILED"}
        /\ job' \in {"waits", "update"} /\ clientLock' \in {clientLock, "job"}
        /\ UNCHANGED <<stamp, submitted, timer, timing, api, socket, pluginLock,
                       registered, clock>>
    BY <1>2 DEF Time!Dispatch
  <2>3. open' \in BOOLEAN
    <3>1. open' = TRUE \/ open' = FALSE \/ open' = open
      BY <1>2 DEF Time!Dispatch
    <3> QED
      BY <3>1
  <2>4. {pointing, open, submitted, timer, timing, registered, told}' \subseteq BOOLEAN
    BY <2>1, <2>2, <2>3
  <2>5. attempt' \in 0 .. Attempts
    <3>1. \/ attempt' = Time!AttemptsLeft \/ attempt' = attempt
          \/ attempt' = Time!AttemptsLeft - 1 /\ Time!AttemptsLeft > 0
      BY <1>2 DEF Time!Dispatch
    <3>2. Time!AttemptsLeft \in 0 .. Attempts
      BY DEF Time!AttemptsLeft
    <3> QED
      BY <3>1, <3>2
  <2> QED
    BY <2>2, <2>4, <2>5
<1>3. CASE Time!Update \/ Time!Notify
  BY <1>3 DEF Time!Update, Time!Notify, Time!Known
<1>4. CASE Time!Hear \/ Time!Socket
  BY <1>4 DEF Time!Hear, Time!Socket, Time!ReceiveData, Time!StateChange, Time!SocketRevokes
<1>5. CASE Time!Timer
  BY <1>5 DEF Time!Timer, Time!TimerStarts, Time!TimerDispatch, Time!Synchronize, Time!Accepts
<1>6. CASE Time!CallSynchronize \/ Time!Cancel \/ Time!CancelRevokes
  BY <1>6 DEF Time!CallSynchronize, Time!Cancel, Time!CancelRevokes, Time!Synchronize,
     Time!Accepts, Time!Unlock
<1>7. CASE Time!RevokeTimer \/ Time!SetTime \/ Time!Deinitialize
  BY <1>7 DEF Time!RevokeTimer, Time!SetTime, Time!Deinitialize, Time!Unlock
<1>8. CASE \E call_1 \in {"synchronize", "time"}, lock \in BOOLEAN : Time!Begin(call_1, lock)
  BY <1>8 DEF Time!Begin
<1>9. CASE UNCHANGED syncVars
  BY <1>9 DEF syncVars
<1> QED
  BY <1>1, <1>2, <1>3, <1>4, <1>5, <1>6, <1>7, <1>8, <1>9 DEF Time!Next, Time!Job, Time!Api

LEMMA FirmwareTypes ==
  Firmware!TypeOK /\ [Firmware!Next]_firmwareVars => Firmware!TypeOK'
<1> SUFFICES ASSUME Firmware!TypeOK, [Firmware!Next]_firmwareVars PROVE Firmware!TypeOK'
  OBVIOUS
<1> USE DEF Firmware!TypeOK, Firmware!jobVars, Firmware!engineVars, Firmware!installVars,
            Firmware!orderVars, Firmware!historyVars, Firmware!MaxWriting
<1>1. ASSUME NEW r \in Caller, Firmware!Check(r) \/ Firmware!Begin(r) \/ Firmware!Refuse(r)
      PROVE  Firmware!TypeOK'
  BY <1>1 DEF Firmware!Check, Firmware!Begin, Firmware!Refuse
<1>2. ASSUME NEW r \in Caller, NEW resume \in BOOLEAN, Firmware!Schedule(r, resume)
      PROVE  Firmware!TypeOK'
  <2>1. resuming' \in BOOLEAN /\ astray' \in BOOLEAN /\ late' \in BOOLEAN
    <3>1. /\ resuming' = (resume /\ image # "none") /\ astray' = Firmware!Underway
          /\ late' = FALSE
      BY <1>2 DEF Firmware!Schedule
    <3> QED
      BY <3>1, Zenon DEF Firmware!Underway
  <2>5. hash' \in BOOLEAN
    <3>1. hash \in BOOLEAN
      OBVIOUS
    <3> QED
      BY <1>2, <3>1 DEF Firmware!Schedule
  <2>2. /\ requests' = [requests EXCEPT ![r] = "idle"]
        /\ signalled' = FALSE /\ upgradeJob' = TRUE
        /\ UNCHANGED <<upgradeStatus, image, upgrade, ending, downloadStatus, installStatus,
                       engine, resumable, writing>>
    BY <1>2 DEF Firmware!Schedule
  <2>3. {signalled, resuming, hash, upgradeJob, resumable, late, astray}' \subseteq BOOLEAN
    BY <2>1, <2>2, <2>5
  <2>4. requests' \in [Caller -> {"idle", "checked", "started"}]
    BY <2>2
  <2> QED
    BY <2>2, <2>3, <2>4
<1>3. CASE Firmware!Start \/ Firmware!Resume
  BY <1>3 DEF Firmware!Start, Firmware!Resume, Firmware!Finish
<1>4. CASE Firmware!Collected
  BY <1>4 DEF Firmware!Collected, Firmware!Finish, Firmware!Wait, Firmware!AfterWait
<1>5. CASE Firmware!Download
  BY <1>5 DEF Firmware!Download, Firmware!Finish
<1>6. CASE Firmware!DownloadStarted \/ Firmware!InstallInitiated
  BY <1>6 DEF Firmware!DownloadStarted, Firmware!InstallInitiated, Firmware!Report
<1>7. CASE Firmware!DownloadEnded
  BY <1>7 DEF Firmware!DownloadEnded, Firmware!Finish, Firmware!Report, Firmware!Wait,
     Firmware!AfterWait, Firmware!Downloaded
<1>8. CASE Firmware!ResetStatus \/ Firmware!RemoveDownloadedFile \/ Firmware!Close
  BY <1>8 DEF Firmware!ResetStatus, Firmware!RemoveDownloadedFile, Firmware!Close
<1>9. CASE Firmware!Install
  BY <1>9 DEF Firmware!Install, Firmware!Finish
<1>10. CASE Firmware!InstallEnded
  BY <1>10 DEF Firmware!InstallEnded, Firmware!Finish, Firmware!Report, Firmware!Wait,
     Firmware!AfterWait
<1>11. CASE Firmware!InfoCollected \/ Firmware!Transferred
  BY <1>11 DEF Firmware!InfoCollected, Firmware!Transferred, Firmware!Complete
<1>12. CASE Firmware!NotifyInstallStatus
  <2>1. late' \in BOOLEAN
    <3>1. late' = (late \/ Firmware!Downloading)
      BY <1>12 DEF Firmware!NotifyInstallStatus
    <3> QED
      BY <3>1, Zenon
  <2>2. /\ writing' \in 0 .. 2 /\ signalled' = TRUE /\ installStatus' \in {"COMPLETED", "ABORTED"}
        /\ UNCHANGED <<upgradeStatus, resuming, hash, image, requests, upgradeJob, upgrade,
                       ending, engine, resumable, downloadStatus, astray>>
    BY <1>12 DEF Firmware!NotifyInstallStatus
  <2>3. {signalled, resuming, hash, upgradeJob, resumable, late, astray}' \subseteq BOOLEAN
    BY <2>1, <2>2
  <2> QED
    BY <2>2, <2>3
<1>13. CASE UNCHANGED firmwareVars
  BY <1>13 DEF firmwareVars
<1> QED
  BY <1>1, <1>2, <1>3, <1>4, <1>5, <1>6, <1>7, <1>8, <1>9, <1>10, <1>11, <1>12, <1>13
     DEF Firmware!Next, Firmware!Upgrade

\* The ids of processes are taken from the count of those that were started.
Numbered ==
  /\ started \in 0 .. Processes
  /\ process \in [Callsign -> 0 .. started]
  /\ watched \in [Callsign -> [id : 0 .. started, exit : Nat]]
  /\ alive \subseteq 1 .. started
  /\ time \in Nat /\ dispatching \in 0 .. time

LEMMA MonitorTypesStep == Numbered /\ [Monitor!Next]_monitorVars => Numbered'
<1> SUFFICES ASSUME Numbered, [Monitor!Next]_monitorVars PROVE Numbered'
  OBVIOUS
<1> USE CountAssumption DEF Numbered
<1>1. ASSUME NEW c \in Callsign, Monitor!Activated(c) PROVE Numbered'
  <2>1. /\ started' = started + 1 /\ started < Processes
        /\ process' = [process EXCEPT ![c] = started + 1]
        /\ alive' = alive \cup {started + 1}
        /\ UNCHANGED <<time, dispatching>>
    BY <1>1 DEF Monitor!Activated
  <2>2. started' \in 0 .. Processes /\ alive' \subseteq 1 .. started'
    <3>1. started \in Nat /\ started' \in 0 .. Processes
      BY <2>1
    <3>2. alive \subseteq 1 .. started
      OBVIOUS
    <3> HIDE DEF Numbered
    <3>3. ASSUME NEW p \in alive' PROVE p \in 1 .. started + 1
      BY <2>1, <3>1, <3>2, <3>3
    <3> QED
      BY <2>1, <3>1, <3>3
  <2>3. process' \in [Callsign -> 0 .. started']
    BY <2>1
  <2>4. watched' \in [Callsign -> [id : 0 .. started', exit : Nat]]
    <3>1. /\ watched \in [Callsign -> [id : 0 .. started', exit : Nat]]
          /\ [id |-> started', exit |-> 0] \in [id : 0 .. started', exit : Nat]
      BY <2>1
    <3>2. watched' \in {watched, [watched EXCEPT ![c] = [id |-> started', exit |-> 0]]}
      BY <1>1 DEF Monitor!Activated, Monitor!Added
    <3> QED
      BY <3>1, <3>2
  <2> QED
    BY <2>1, <2>2, <2>3, <2>4
<1>2. ASSUME NEW c \in Callsign, Monitor!Deactivated(c) PROVE Numbered'
  <2>1. /\ process' = [process EXCEPT ![c] = 0]
        /\ UNCHANGED <<time, started, alive, dispatching>>
    BY <1>2 DEF Monitor!Deactivated
  <2>2. watched' \in {watched, [watched EXCEPT ![c].exit = time + ExitTimeout]}
    BY <1>2 DEF Monitor!Deactivated
  <2>3. watched' \in [Callsign -> [id : 0 .. started, exit : Nat]]
    <3>1. time + ExitTimeout \in Nat
      OBVIOUS
    <3> QED
      BY <2>2, <3>1
  <2>4. process' \in [Callsign -> 0 .. started]
    <3>1. 0 \in 0 .. started
      OBVIOUS
    <3> QED
      BY <2>1, <3>1
  <2> QED
    BY <2>1, <2>3, <2>4
<1>3. CASE Monitor!Dispatch
  <2>1. /\ alive' \subseteq alive /\ dispatching' = 0
        /\ UNCHANGED <<time, started, process>>
    BY <1>3 DEF Monitor!Dispatch
  <2>2. watched' \in [Callsign -> [id : 0 .. started, exit : Nat]]
    <3>1. Monitor!NoEntry \in [id : 0 .. started, exit : Nat]
      BY DEF Monitor!NoEntry
    <3>2. PICK overdue \in SUBSET Callsign :
            watched' = [c \in Callsign |-> IF c \in overdue THEN Monitor!NoEntry ELSE watched[c]]
      BY <1>3 DEF Monitor!Dispatch
    <3> QED
      BY <3>1, <3>2
  <2> QED
    BY <2>1, <2>2
<1>4. CASE Monitor!DispatchStarts
  BY <1>4 DEF Monitor!DispatchStarts
<1>5. ASSUME NEW p, Monitor!Exit(p) PROVE Numbered'
  BY <1>5 DEF Monitor!Exit
<1>6. CASE Monitor!Tick
  BY <1>6 DEF Monitor!Tick
<1>7. CASE UNCHANGED monitorVars
  BY <1>7 DEF monitorVars
<1> QED
  BY <1>1, <1>2, <1>3, <1>4, <1>5, <1>6, <1>7 DEF Monitor!Next

\* The flags are set, cleared or kept.
Flags == watch \in BOOLEAN /\ command \in BOOLEAN

LEMMA FlagsStep == Flags /\ [Wifi!Next]_autoVars => Flags'
<1> SUFFICES ASSUME Flags, [Wifi!Next]_autoVars PROVE Flags'
  OBVIOUS
<1> USE DEF Wifi!listVars, Wifi!requestVars, Wifi!userVars
<1>1. \/ watch' = watch \/ watch' = TRUE \/ watch' = FALSE
      \/ watch' = (watch \/ target # "IDLE")
      \/ watch' = (watch \/ Wifi!Again)
  <2>1. CASE Wifi!Supplicant
    BY <2>1 DEF Wifi!Supplicant, Wifi!Respond, Wifi!Connected, Wifi!SubmitDisconnect,
       Wifi!Event, Wifi!Notify, Wifi!Failed, Wifi!Completed, Wifi!Scanned,
       Wifi!Disconnected, Wifi!RevokeJob, Wifi!Moved
  <2>2. CASE Wifi!Job
    BY <2>2 DEF Wifi!Job, Wifi!Start, Wifi!Dispatch, Wifi!List, Wifi!Drop, Wifi!Dropping,
       Wifi!Dropped, Wifi!Connect, Wifi!Scan, Wifi!Reschedule
  <2>3. CASE Wifi!User
    BY <2>3 DEF Wifi!User, Wifi!UserRevokes, Wifi!UserRevokesJob, Wifi!UserMoved,
       Wifi!UserDrops, Wifi!UserDropping, Wifi!UserConnects, Wifi!UserAnswered,
       Wifi!Answered, Wifi!SetPreferred, Wifi!UpdateStatus, Wifi!SubmitJob
  <2>4. CASE UNCHANGED autoVars
    BY <2>4 DEF autoVars
  <2> QED
    BY <2>1, <2>2, <2>3, <2>4 DEF Wifi!Next
<1>2. \/ command' = command \/ command' = TRUE \/ command' = FALSE
  <2>1. CASE Wifi!Supplicant
    BY <2>1 DEF Wifi!Supplicant, Wifi!Respond, Wifi!Connected, Wifi!SubmitDisconnect,
       Wifi!Event, Wifi!Notify, Wifi!Failed, Wifi!Completed, Wifi!Scanned,
       Wifi!Disconnected, Wifi!RevokeJob, Wifi!Moved, Wifi!Deliver
  <2>2. CASE Wifi!Job
    BY <2>2 DEF Wifi!Job, Wifi!Start, Wifi!Dispatch, Wifi!List, Wifi!Drop, Wifi!Dropping,
       Wifi!Forget, Wifi!Connect, Wifi!Scan, Wifi!Revoke, Wifi!Invoke
  <2>3. CASE Wifi!User
    BY <2>3 DEF Wifi!User, Wifi!UserRevokes, Wifi!UserRevokesJob, Wifi!UserMoved,
       Wifi!UserDrops, Wifi!UserDropping, Wifi!UserConnects, Wifi!UserAnswered,
       Wifi!Answered, Wifi!SetPreferred, Wifi!UpdateStatus, Wifi!SubmitJob, Wifi!Revoke,
       Wifi!Forget, Wifi!Invoke
  <2>4. CASE UNCHANGED autoVars
    BY <2>4 DEF autoVars
  <2> QED
    BY <2>1, <2>2, <2>3, <2>4 DEF Wifi!Next
<1> QED
  BY <1>1, <1>2, Zenon DEF Flags

\* What MoveState is to set is a state of AutoConnect.
WifiTypes ==
  /\ autoState \in {"IDLE", "SCANNING", "SCANNED", "CONNECTING", "RETRY"}
  /\ attempts \in 0 .. Retries
  /\ networks \in -1 .. Networks
  /\ dispatch \in {"idle", "waiting", "list", "drop", "dropping", "connect", "scan"}
  /\ callback \in {"none", "auto", "user"}
  /\ connection \in {"SELECT", "RECONNECT", "AUTHORIZE", "WAITING", "ERROR"}
  /\ failure \in {"unknown", "failed"}
  /\ input \in {"idle", "failed", "lost", "report", "completed", "scanned",
                "disconnected", "move", "moved"}
  /\ user \in {"idle", "off", "move", "moved", "drop", "dropping", "connect", "waiting",
               "answered", "prefer", "update", "submit"}
  /\ answer \in {"none", "ok", "unknown", "failed"}
  /\ (input \in {"move", "moved"} =>
                    target \in {"IDLE", "SCANNING", "SCANNED", "CONNECTING"})

LEMMA WifiTypesStep == WifiTypes /\ [Wifi!Next]_autoVars => WifiTypes'
<1> SUFFICES ASSUME WifiTypes, [Wifi!Next]_autoVars PROVE WifiTypes'
  OBVIOUS
<1> USE CountAssumption DEF WifiTypes, Wifi!listVars, Wifi!requestVars,
        Wifi!userVars
<1>1. CASE Wifi!Respond
  <2>1. connection' \in {"SELECT", "RECONNECT", "AUTHORIZE", "WAITING", "ERROR"}
    <3> DEFINE steps == {<<"SELECT", "RECONNECT", TRUE>>, <<"RECONNECT", "AUTHORIZE", TRUE>>,
                         <<"AUTHORIZE", "WAITING", FALSE>>}
    <3>1. \A step \in steps : step[2] \in {"RECONNECT", "AUTHORIZE", "WAITING"}
      <4>1. /\ <<"SELECT", "RECONNECT", TRUE>>[2] = "RECONNECT"
            /\ <<"RECONNECT", "AUTHORIZE", TRUE>>[2] = "AUTHORIZE"
            /\ <<"AUTHORIZE", "WAITING", FALSE>>[2] = "WAITING"
        OBVIOUS
      <4> QED
        BY <4>1, Zenon
    <3>2. connection' = connection \/ \E step \in steps : connection' = step[2]
      BY <1>1, Zenon DEF Wifi!Respond
    <3> HIDE DEF steps
    <3> QED
      BY <3>1, <3>2
  <2>2. /\ UNCHANGED <<autoState, attempts, networks, dispatch, failure, user>>
        /\ input = "idle"
        /\ \/ UNCHANGED <<callback, input, target, answer>>
           \/ \E result \in {"failed", failure} : Wifi!Deliver(result)
    BY <1>1 DEF Wifi!Respond
  <2> QED
    BY <2>1, <2>2 DEF Wifi!Deliver
<1>2. CASE Wifi!Connected \/ Wifi!SubmitDisconnect \/ Wifi!Event \/ Wifi!Notify
  BY <1>2 DEF Wifi!Connected, Wifi!Deliver, Wifi!SubmitDisconnect, Wifi!Event, Wifi!Notify
<1>3. CASE \E result \in {"unknown", "failed"} : Wifi!Failed(result)
  BY <1>3 DEF Wifi!Failed
<1>4. CASE networks >= 0 /\ Wifi!Completed
  BY <1>4 DEF Wifi!Completed, Wifi!Move
<1>5. CASE Wifi!Scanned \/ Wifi!Disconnected \/ Wifi!RevokeJob
  BY <1>5 DEF Wifi!Scanned, Wifi!Disconnected, Wifi!RevokeJob, Wifi!Move
<1>6. CASE Wifi!Moved
  BY <1>6 DEF Wifi!Moved
<1>7. CASE Wifi!Start \/ Wifi!Scan
  BY <1>7 DEF Wifi!Start, Wifi!Scan, Wifi!Reschedule, Wifi!Again
<1>8. CASE Wifi!Dispatch
  BY <1>8 DEF Wifi!Dispatch, Wifi!Reschedule, Wifi!Again, Wifi!Counted
<1>9. CASE Wifi!List
  BY <1>9 DEF Wifi!List, Wifi!Reschedule, Wifi!Again
<1>10. CASE Wifi!Drop \/ Wifi!Dropping
  BY <1>10 DEF Wifi!Drop, Wifi!Dropping, Wifi!Revoke, Wifi!Forget, Wifi!Dropped,
     Wifi!Reschedule, Wifi!Again
<1>11. CASE Wifi!Connect
  BY <1>11 DEF Wifi!Connect, Wifi!Invoke, Wifi!Reschedule, Wifi!Again
<1>12. CASE Wifi!UserRevokes \/ Wifi!UserRevokesJob \/ Wifi!UserMoved
  BY <1>12 DEF Wifi!UserRevokes, Wifi!UserRevokesJob, Wifi!UserMoved, Wifi!Left
<1>13. CASE Wifi!UserDrops \/ Wifi!UserDropping \/ Wifi!UserAnswered \/ Wifi!Answered
  BY <1>13 DEF Wifi!UserDrops, Wifi!UserDropping, Wifi!UserAnswered, Wifi!Answered,
     Wifi!Revoke, Wifi!Forget
<1>14. CASE Wifi!UserConnects
  BY <1>14 DEF Wifi!UserConnects, Wifi!Invoke
<1>15. CASE Wifi!SetPreferred \/ Wifi!UpdateStatus \/ Wifi!SubmitJob
  BY <1>15 DEF Wifi!SetPreferred, Wifi!UpdateStatus, Wifi!SubmitJob
<1>16. CASE UNCHANGED autoVars
  BY <1>16 DEF autoVars
<1> QED
  BY <1>1, <1>2, <1>3, <1>4, <1>5, <1>6, <1>7, <1>8, <1>9, <1>10, <1>11, <1>12, <1>13,
     <1>14, <1>15, <1>16 DEF Wifi!Next, Wifi!Supplicant, Wifi!Job, Wifi!User

\* Where the power, and the change of it, are.
PowerWhere ==
  /\ {powerState, mode, updating, persisted} \subseteq Device!States
  /\ at \in {"idle", "before", "awake", "revoked", "after", "resuming"}

PowerFlags ==
  trigger \in BOOLEAN /\ queued \in BOOLEAN /\ refused \in BOOLEAN /\ lost \in BOOLEAN

LEMMA PowerTypesStep ==
  PowerTypes /\ PowerWhere /\ PowerFlags /\ [Device!Next]_powerVars
    => PowerWhere' /\ PowerFlags'
<1> SUFFICES ASSUME PowerTypes, PowerWhere, PowerFlags, [Device!Next]_powerVars
             PROVE  PowerWhere' /\ PowerFlags'
  OBVIOUS
<1> USE DEF Device!jobVars, Device!clientVars, Device!walkVars, Device!stopVars
<1>0. trigger' = trigger
  BY DEF Device!Next, powerVars
<1>f. ASSUME UNCHANGED <<powerState, mode, updating, persisted, at>> PROVE PowerWhere'
  BY <1>f DEF PowerWhere
<1>b. ASSUME queued' = queued \/ queued' = TRUE \/ queued' = FALSE,
             \/ refused' = refused \/ (\E c \in Caller : refused' = (call[c] = "post"))
             \/ refused' = (refused \/ queued' = queued),
             lost' = lost \/ lost' = Device!Walking
      PROVE  PowerFlags'
  BY <1>0, <1>b, Zenon DEF PowerFlags, Device!Walking
<1>s. "On" \in Device!States
  BY DEF Device!States, Device!On
<1>1. ASSUME NEW c \in Caller,
             Device!Call(c) \/ Device!Walk(c) \/ Device!Ask(c)
      PROVE  PowerWhere' /\ PowerFlags'
  <2>1. /\ UNCHANGED <<powerState, mode, updating, persisted, at, queued, lost>>
        /\ refused' = refused \/ refused' = (call[c] = "post")
    BY <1>1 DEF Device!Call, Device!Walk, Device!Ask
  <2> QED
    BY <1>f, <1>b, <2>1
<1>2. ASSUME NEW c \in Caller, Device!Save(c) PROVE PowerWhere' /\ PowerFlags'
  <2>1. /\ UNCHANGED <<powerState, mode, updating, at, queued, lost, refused>>
        /\ persisted' = wanted[c]
    BY <1>2 DEF Device!Save
  <2>2. wanted[c] \in Device!States
    BY DEF PowerTypes, CallTypes
  <2> QED
    BY <1>b, <2>1, <2>2 DEF PowerWhere
<1>3. ASSUME NEW c \in Caller, Device!Request(c) PROVE PowerWhere' /\ PowerFlags'
  <2>1. /\ UNCHANGED <<powerState, updating, at, persisted, lost>>
        /\ mode' = wanted[c] \/ mode' = mode
        /\ queued' = TRUE \/ queued' = queued
        /\ refused' = (refused \/ queued' = queued)
    BY <1>3 DEF Device!Request, Device!Submit
  <2>2. wanted[c] \in Device!States
    BY DEF PowerTypes, CallTypes
  <2> QED
    BY <1>b, <2>1, <2>2 DEF PowerWhere
<1>4. ASSUME Device!Start \/ Device!Change \/ Device!RevokeJob PROVE PowerWhere' /\ PowerFlags'
  <2>1. /\ UNCHANGED <<mode, persisted, lost, refused>>
        /\ updating' = mode \/ updating' = updating
        /\ powerState' = updating \/ powerState' = powerState
        /\ at' \in {at, "before", "awake", "revoked", "after"}
        /\ queued' = FALSE \/ queued' = queued
    BY <1>4 DEF Device!Start, Device!Change, Device!RevokeJob
  <2> QED
    BY <1>b, <2>1 DEF PowerWhere
<1>5. ASSUME Device!Return \/ Device!PowerChange \/ Device!WalkBack \/ Device!Changed
      PROVE  PowerWhere' /\ PowerFlags'
  <2>1. /\ UNCHANGED <<powerState, lost, refused>>
        /\ mode' = "On" \/ mode' = mode
        /\ updating' = "On" \/ updating' = updating
        /\ persisted' = updating \/ persisted' = persisted
        /\ at' \in {at, "after", "resuming", "idle"}
        /\ queued' = TRUE \/ queued' = queued
    BY <1>5 DEF Device!Return, Device!Submit, Device!PowerChange, Device!WalkBack,
       Device!Changed, Device!Kept, Device!On
  <2> QED
    BY <1>b, <1>s, <2>1 DEF PowerWhere
<1>6. ASSUME NEW p \in Client, Device!Activated(p) \/ Device!Deactivated(p) \/ Device!Others(p)
      PROVE  PowerWhere' /\ PowerFlags'
  <2>1. /\ UNCHANGED <<powerState, mode, updating, persisted, at, queued, refused>>
        /\ lost' = lost \/ lost' = Device!Walking
    BY <1>6 DEF Device!Activated, Device!Deactivated, Device!Others
  <2> QED
    BY <1>f, <1>b, <2>1
<1>7. CASE UNCHANGED powerVars
  BY <1>7, <1>f, <1>b DEF powerVars
<1> QED
  BY <1>1, <1>2, <1>3, <1>4, <1>5, <1>6, <1>7 DEF Device!Next

\* How far the bytes have come, and where the channel and the link are.
ProxyWhere ==
  /\ \A d \in Proxy!Direction : written[d] <= LastByte
  /\ channel \in {"none", "attached", "detached"}
  /\ link \in {"closed", "opening", "open", "closing"}
  /\ gap \subseteq {"full", "crash"}

LEMMA ProxyTypesStep ==
  ProxyInv /\ ProxyWhere /\ [Proxy!Next]_proxyVars => ProxyWhere'
<1> SUFFICES ASSUME ProxyInv, ProxyWhere, [Proxy!Next]_proxyVars PROVE ProxyWhere'
  OBVIOUS
<1>0. ProxyTypes
  BY DEF ProxyInv
<1> USE DEF ProxyWhere
<1>1. ASSUME NEW d \in Proxy!Direction, NEW n \in Proxy!Bytes(d), Proxy!Write(d, n)
      PROVE  /\ \A e \in Proxy!Direction : written'[e] <= LastByte
             /\ gap' \subseteq {"full", "crash"}
  BY <1>0, <1>1 DEF Proxy!Bytes, Proxy!Write, ProxyTypes
<1>2. "channel" \in Proxy!Direction /\ "link" \in Proxy!Direction
  BY DEF Proxy!Direction
<1>3. CASE Proxy!ReceiveData
  BY <1>1, <1>2, <1>3 DEF Proxy!ReceiveData, Proxy!bufferVars
<1>4. CASE Proxy!ChannelReceive
  BY <1>1, <1>2, <1>4 DEF Proxy!ChannelReceive
<1>5. CASE Proxy!ChannelSend \/ Proxy!SendData
  BY <1>5 DEF Proxy!ChannelSend, Proxy!SendData, Proxy!Read
<1>6. CASE Proxy!StateChange \/ Proxy!Attach \/ Proxy!Detach
  BY <1>6 DEF Proxy!StateChange, Proxy!Attach, Proxy!Detach, Proxy!bufferVars
<1>7. CASE UNCHANGED proxyVars
  BY <1>7 DEF proxyVars
<1> QED
  BY <1>3, <1>4, <1>5, <1>6, <1>7 DEF Proxy!Next

BoxTypes ==
  /\ Time!TypeOK
  /\ Firmware!TypeOK
  /\ Numbered
  /\ PowerTypes /\ PowerWhere /\ PowerFlags
  /\ WifiTypes /\ Flags
  /\ FileInv
  /\ ProxyInv /\ ProxyWhere

LEMMA BoxTypesInit == Init => BoxTypes
<1> SUFFICES ASSUME Init PROVE BoxTypes
  OBVIOUS
<1> USE CountAssumption DEF Init
<1>1. Time!TypeOK
  <2>1. {pointing, open, submitted, timer, timing, registered, told} \subseteq BOOLEAN
    BY DEF Time!Init
  <2>2. attempt \in 0 .. Attempts
    BY DEF Time!Init
  <2> QED
    BY <2>1, <2>2 DEF Time!Init, Time!TypeOK
<1>2. Firmware!TypeOK
  <2>1. {signalled, resuming, hash, upgradeJob, resumable, late, astray} \subseteq BOOLEAN
    BY DEF Firmware!Init
  <2>2. requests \in [Caller -> {"idle", "checked", "started"}] /\ writing \in 0 .. 2
    BY DEF Firmware!Init
  <2> QED
    BY <2>1, <2>2 DEF Firmware!Init, Firmware!TypeOK, Firmware!MaxWriting
<1>3. Numbered
  BY DEF Monitor!Init, Monitor!NoEntry, Numbered
<1>4. PowerTypes /\ PowerWhere /\ PowerFlags
  <2>1. PowerTypes
    BY PowerInit DEF PowerInv
  <2>2. PowerWhere
    BY DEF Device!Init, PowerWhere, Device!States, Device!On
  <2>3. /\ trigger \in BOOLEAN /\ lost = FALSE
        /\ queued = (trigger /\ persisted # "On") /\ refused = (~trigger /\ persisted # "On")
    BY DEF Device!Init, Device!On
  <2>4. PowerFlags
    BY <2>3, Zenon DEF PowerFlags
  <2> QED
    BY <2>1, <2>2, <2>4
<1>5. WifiTypes /\ Flags
  <2>1. Flags
    BY DEF Wifi!Init, Flags
  <2>2. attempts \in 0 .. Retries /\ networks \in -1 .. Networks
    BY DEF Wifi!Init
  <2>3. WifiTypes
    BY <2>2 DEF Wifi!Init, WifiTypes
  <2> QED
    BY <2>1, <2>3
<1>6. FileInv /\ ProxyInv /\ ProxyWhere
  <2>1. ProxyWhere
    BY DEF Proxy!Init, Proxy!Empty, ProxyWhere
  <2> QED
    BY <2>1, FileInit, ProxyInit
<1> QED
  BY <1>1, <1>2, <1>3, <1>4, <1>5, <1>6 DEF BoxTypes

LEMMA BoxTypesMean == BoxTypes => TypeOK
<1> SUFFICES ASSUME BoxTypes PROVE TypeOK
  OBVIOUS
<1> USE DEF BoxTypes
<1>1. Monitor!TypeOK
  BY DEF Numbered, Monitor!TypeOK
<1>2. Device!TypeOK
  <2>1. {trigger, queued, refused, lost} \subseteq BOOLEAN
    BY DEF PowerFlags
  <2>2. {owed, overtaken} \subseteq SUBSET Client
    BY DEF PowerTypes, ClientTypes
  <2> QED
    BY <2>1, <2>2 DEF PowerTypes, CallTypes, ClientTypes, PowerWhere, Device!TypeOK
<1>3. Wifi!TypeOK
  <2>1. {watch, command} \subseteq BOOLEAN
    BY DEF Flags
  <2> QED
    BY <2>1 DEF WifiTypes, Wifi!TypeOK
<1>4. Files!TypeOK
  <2>1. {observing, changed, waking, again} \subseteq BOOLEAN
    BY DEF FileInv, FileTypes
  <2> QED
    BY <2>1 DEF FileInv, FileTypes, Files!TypeOK
<1>5. Proxy!TypeOK
  <2>1. ASSUME NEW d \in Proxy!Direction
        PROVE  /\ {head[d], tail[d]} \subseteq 0 .. Size - 1
               /\ {written[d], arrived[d]} \subseteq 0 .. LastByte
    <3>1. arrived[d] <= written[d] - Proxy!Filled(d) /\ ProxyTypes
      BY DEF ProxyInv, Counted
    <3>2. /\ head[d] \in 0 .. Size - 1 /\ tail[d] \in 0 .. Size - 1
          /\ written[d] \in Nat /\ arrived[d] \in Nat /\ Proxy!Filled(d) \in 0 .. Size - 1
      BY <3>1, ProxyFacts
    <3>3. written[d] <= LastByte
      BY DEF ProxyWhere
    <3> QED
      BY <3>1, <3>2, <3>3, CountAssumption, BufferAssumption
  <2>2. \A d \in Proxy!Direction : requested[d] \in BOOLEAN
    BY DEF ProxyInv, ProxyTypes
  <2> QED
    BY <2>1, <2>2 DEF ProxyWhere, Proxy!TypeOK
<1> QED
  BY <1>1, <1>2, <1>3, <1>4, <1>5 DEF TypeOK

\* Every variable of each of the plugins keeps its type, for any number of
\* servers, attempts, processes, callers, clients and networks, and any buffer.
THEOREM TypeCorrect == Spec => []TypeOK
<1>1. BoxTypes /\ [Next]_vars => BoxTypes'
  BY BoxSteps, TimeTypes, FirmwareTypes, MonitorTypesStep, StepPowerTypes, PowerTypesStep,
     WifiTypesStep, FlagsStep, FileStep, ProxyStep, ProxyTypesStep, Zenon DEF BoxTypes
<1> QED
  BY <1>1, BoxTypesInit, BoxTypesMean, PTL DEF Spec
=============================================================================
