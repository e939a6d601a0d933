---------------------------- MODULE MCSequencer ----------------------------
(* Instances of Sequencer for TLC.                                         *)
EXTENDS Sequencer

Step(kind, label, success) ==
  [kind |-> kind, label |-> label, success |-> success, failure |-> NoLabel]

\* Lists that jump back and forth and to themselves, name a label in vain, wait for a plugin,
\* hold nothing, or only what is not known
SomeCommands ==
  {Step("control", "a", "b"), Step("control", "b", "a"), Step("control", "b", "c"),
   Step("control", "b", "b"), Step("observer", "b", NoLabel),
   Step("unknown", "a", NoLabel)}
SomeLists ==
  {<< >>,
   <<Step("unknown", "a", NoLabel)>>,
   <<Step("control", "b", "c")>>,
   <<Step("control", "a", "b"), Step("observer", "b", NoLabel)>>,
   <<Step("control", "a", "b"), Step("control", "b", "b"),
     Step("control", "b", "b")>>,
   <<Step("control", "a", "b"), Step("unknown", "a", NoLabel),
     Step("control", "b", "a")>>}

\* Lists that always come to their end, of commands that end by themselves
EndingCommands == {Step("control", "a", "b"), Step("control", "b", NoLabel)}
EndingLists ==
  {<< >>, <<Step("control", "a", "b")>>,
   <<Step("control", "b", NoLabel), Step("control", "a", "b"),
     Step("control", "b", NoLabel)>>}

\* A list that waits for a plugin
WaitingCommands == {Step("observer", "a", NoLabel)}
WaitingLists    == {<<Step("observer", "a", NoLabel)>>}
=============================================================================
