------------------------ MODULE CommandBridgeInvariants ------------------------
(* Inductive invariants of CommandBridge, behind the theorems of             *)
(* CommandBridgeProofs and CounterProofs.                                    *)
EXTENDS CommandBridge

\* Where a task is before its message is sent, and where it uses a counter.
Preparing == {"load", "store", "read", "send"}
Numbering == {"load", "store", "read", "undoLoad", "undoStore"}

\* A task begins when its request is dispatched.
Dispatched ==
    \A n \in Numbers : task[n].pc # "none" =>
        n <= taken /\ requests[n].action \in Registered

\* A request has no reply before it is taken, nor while it is served.
Unreplied ==
    \A n \in Numbers : replies[n] # << >> => n <= taken /\ n # serving

\* A task that goes on although its request is no longer served timed out.
Abandoned ==
    \A n \in Numbers : task[n].pc \notin {"none", "done"} /\ serving # n
                         => replies[n] = <<TimedOut>>

\* A message is sent by the step that leaves "send", for a checked payload, and
\* numbered with the counter of its action.
SentWhenChecked ==
    \A n \in Numbers :
      /\ n > taken \/ task[n].pc \in {"check"} \cup Preparing => messages[n] = << >>
      /\ task[n].pc = "sent" => messages[n] # << >>
      /\ task[n].pc \in Preparing =>
           Refusal(requests[n].action, requests[n].payload) = "none"
      /\ task[n].pc \in Numbering => requests[n].action \in Numbered

\* What a task will respond is its request's own.
ResponsesAreOwn ==
    \A n \in Numbers : task[n].pc \in {"undoLoad", "undoStore", "respond"}
                         => RepliedOwn(n, task[n].response)

\* No task but the one served and those that timed out goes on, each with what is
\* its request's own.  This is so from the start of the process on, whatever became
\* of the requests of earlier runs: see RemoteControl.
TasksInv == /\ Dispatched /\ Unreplied /\ Abandoned /\ SentWhenChecked
            /\ ResponsesAreOwn

\* Every request is replied once it was taken and is not served any more.
Served ==
    \A n \in 1 .. taken : n # serving => replies[n] # << >>

\* The requests are replied in order, and no reply changes any more.
BridgeInv == TasksInv /\ Served

-----------------------------------------------------------------------------
(* For IdsDistinct and ReservationReported.                                  *)

\* Where the counter of a task's action is above the ids of all other tasks.
Above == {"read", "send", "undoLoad", "undoStore"}

CounterRead(a) ==
    \A n \in 1 .. Len(requests) : requests[n].action = a =>
      /\ task[n].pc \in {"store", "send", "undoStore"} => task[n].seen = ids[a]
      /\ task[n].pc = "sent" => messages[n][1].id = ids[a]

OutstandingOf(n, a) == requests[n].action = a /\ Outstanding(n)

OutstandingBelow(a) ==
    \A n \in 1 .. Len(requests) : OutstandingOf(n, a) =>
      /\ messages[n][1].id <= ids[a]
      /\ \A m \in 1 .. Len(requests) : requests[m].action = a /\ task[m].pc \in Above
                              => messages[n][1].id < ids[a]
      /\ \A m \in 1 .. Len(requests) : OutstandingOf(m, a) /\ m # n
                              => messages[m][1].id # messages[n][1].id

Unanswered ==
    \A n \in Numbers :
      task[n].pc \in {"none", "check", "sent"} \cup Preparing => task[n].answer = "none"

\* While no command of an action has timed out, its counter is the task's that is
\* served: what was read of it has not changed, and every id that is outstanding
\* is below it, but for the task's own.
CounterInv ==
    /\ Unanswered
    /\ \A a \in Numbered : NoTimeOut(a) => CounterRead(a) /\ OutstandingBelow(a)
    /\ ReservationReported

=============================================================================
