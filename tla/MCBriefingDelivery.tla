-------------------------- MODULE MCBriefingDelivery --------------------------
(***************************************************************************)
(* Two small instances of BriefingDelivery in one run of TLC.  In the      *)
(* first, two jobs overlap, for one recipient, on two events (on SQLite on *)
(* one).  In the second there is a job at a time, with a market session,   *)
(* two recipients and a retry, on one event.                               *)
(***************************************************************************)
EXTENDS BriefingDelivery, TLC

CONSTANTS j1, j2, b1, b2, e1, e2, change

MCJobs == {j1, j2}
MCIds == {b1, b2}
MCEvents == {e1, e2}
MCFacts == {change}

\* What is reported of the second event is a correction.
MCNotices == {<<e2, change>>}

VARIABLE regime      \* the instance a behaviour belongs to

Overlapping == INSTANCE BriefingDelivery WITH Sessions <- {}, MaxRetries <- 1

OneByOne == INSTANCE BriefingDelivery WITH Notices <- {}, OneWriters <- {FALSE}

MCInit ==
    \/ regime = "overlapping" /\ Overlapping!Init
    \/ regime = "one by one" /\ OneByOne!Init

OneRecipient == \A j \in Jobs : job'[j].at = "claim" => job'[j].to = AnyRecipient

OneJob == Cardinality({j \in Jobs : job'[j] # Idle}) <= 1

OneEvent == \A j \in Jobs : \A u \in job'[j].sync : u[1] = e1

MCNext ==
    /\ UNCHANGED regime
    /\ \/ regime = "overlapping" /\ Overlapping!Next /\ OneRecipient /\ (oneWriter => OneEvent)
       \/ regime = "one by one" /\ OneByOne!Next /\ OneJob /\ OneEvent

MCSpec == MCInit /\ [][MCNext]_<<vars, regime>>

\* Jobs and ids are interchangeable.
Symmetry == Permutations(MCJobs) \cup Permutations(MCIds)
=============================================================================
