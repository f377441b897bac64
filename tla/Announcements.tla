----------------------------- MODULE Announcements -----------------------------
(***************************************************************************)
(* What the notifier promises its subscribers, whatever restarts of the    *)
(* process and failures of NATS do: each request is announced once at      *)
(* most, a stop is announced after the start that it ends, the starts that *)
(* one run of the process announces have different ids, and what one       *)
(* connection reports is announced in the order it was sent.               *)
(***************************************************************************)
EXTENDS Integers

CONSTANTS Events,    \* what may be announced, of which charge point and request
          InOrder    \* do charge points wait for their answers?

VARIABLES
    held,        \* the announcement that is about to be made, if any
    published,   \* the announcements that were made
    lost,        \* those that nobody will get
    recent,      \* those heard since the process was last started
    raced        \* "yes" once ids may be given twice

announceVars == <<held, published, lost, recent, raced>>

Init == /\ held = {} /\ published = {} /\ lost = {} /\ recent = {}
        /\ raced = "no"

-----------------------------------------------------------------------------
Earlier == published \cup lost

IsNew(m) == \A p \in Earlier : p.cp # m.cp \/ p.n # m.n

HasStarted(m) == \E s \in Earlier : s.topic = "start" /\ s.cp = m.cp /\ s.id = m.id

HasFreshId(m) == \A s \in recent : s.topic = "start" => s.id # m.id

IsLast(m) == \A p \in Earlier : p.cp = m.cp /\ p.link = m.link => p.n < m.n

Hear(m) ==
    /\ held = {} /\ m \in Events
    /\ IsNew(m)
    /\ m.topic = "stop" => HasStarted(m)
    /\ m.topic = "start" /\ raced = "no" => HasFreshId(m)
    /\ InOrder => IsLast(m)
    /\ held' = {m}
    /\ recent' = recent \cup {m}
    /\ UNCHANGED <<published, lost, raced>>

Deliver ==
    /\ held # {}
    /\ published' = published \cup held
    /\ held' = {}
    /\ UNCHANGED <<lost, recent, raced>>

Lose ==
    /\ held # {}
    /\ lost' = lost \cup held
    /\ held' = {}
    /\ UNCHANGED <<published, recent, raced>>

Restart ==
    /\ lost' = lost \cup held
    /\ held' = {}
    /\ recent' = {}
    /\ UNCHANGED <<published, raced>>

\* Two StartTransaction handlers are at the counter of the ids at once.
Overlap ==
    /\ raced' = "yes"
    /\ UNCHANGED <<held, published, lost, recent>>

\* What is heard is what is held next: Events need not be finite.
Next == \/ \E m \in held' : Hear(m)
        \/ Deliver \/ Lose \/ Restart \/ Overlap

Spec == Init /\ [][Next]_announceVars

=============================================================================
