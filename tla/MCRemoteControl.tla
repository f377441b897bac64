--------------------------- MODULE MCRemoteControl ---------------------------
(* An instance of RemoteControl for TLC.                                     *)
EXTENDS RemoteControl

CONSTANT c1

TransactionKinds == {"start", "stop"}

Texts == {"no text", "digits", "tag", "Hard", "Soft"}

Command(action, payload) ==
    [valid |-> TRUE, action |-> action, cp |-> c1, payload |-> payload]

\* The remote stop of the first id, and a command that may end the process.
Commands ==
    {Command("remote.stop.transaction",
             [transactionId |-> [form |-> "number", n |-> 0, word |-> "no text"]]),
     Command("get.configuration", [field \in {} |-> 0])}

\* Bound: a behaviour ends with its commands, answered or forgotten, and has no
\* restart before the notifier received anything.
Interesting ==
    /\ restarts > 0 => published \cup lost # {}
    /\ taken > 0 => \E n \in 1 .. Len(requests) :
                      n > taken \/ task[n].pc \notin {"none", "respond", "done"}

=============================================================================
