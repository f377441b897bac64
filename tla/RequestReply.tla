----------------------------- MODULE RequestReply -----------------------------
(***************************************************************************)
(* What the NATS side promises its clients: requests are answered one      *)
(* after the other, in the order they came, each of them at most once.     *)
(***************************************************************************)
EXTENDS Integers, Sequences

CONSTANTS MaxRequests,   \* bound: requests made
          Responses      \* what a request can be answered

VARIABLES asked,    \* how many requests have been made
          replies   \* the responses given to each request

rrVars == <<asked, replies>>

Init == /\ asked = 0
        /\ replies = [n \in 1 .. MaxRequests |-> << >>]

Ask == /\ asked < MaxRequests
       /\ asked' = asked + 1
       /\ UNCHANGED replies

Reply(n) == /\ n <= asked
            /\ replies[n] = << >>
            /\ \A m \in 1 .. n - 1 : replies[m] # << >>
            /\ \E x \in Responses : replies' = [replies EXCEPT ![n] = <<x>>]
            /\ UNCHANGED asked

Next == Ask \/ \E n \in 1 .. MaxRequests : Reply(n)

Spec == Init /\ [][Next]_rrVars

=============================================================================
