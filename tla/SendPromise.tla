---------------------------- MODULE SendPromise -----------------------------
(***************************************************************************)
(* What a press of the Send button promises: the send is queued, taken up  *)
(* and settled, never the other way round; its message goes to the mail    *)
(* provider at most once; and it is recorded as delivered only when the    *)
(* provider took it.  A settled send is history and never changes again.   *)
(***************************************************************************)
EXTENDS Naturals

CONSTANT Sends  \* the sends there may ever be

VARIABLES
  phase,     \* phase[i]: where send i is
  handed,    \* handed[i]: how often its message went to the provider
  accepted   \* the sends whose message the provider took

vars == <<phase, handed, accepted>>

Phases == {"none", "queued", "sending", "delivered", "failed"}

PromiseType ==
  /\ phase \in [Sends -> Phases]
  /\ handed \in [Sends -> Nat]
  /\ accepted \subseteq Sends

Init ==
  /\ phase = [i \in Sends |-> "none"]
  /\ handed = [i \in Sends |-> 0]
  /\ accepted = {}

Moves(i, from, to) ==
  phase[i] = from /\ phase' = [phase EXCEPT ![i] = to]

Queue(i) == Moves(i, "none", "queued") /\ UNCHANGED <<handed, accepted>>

Take(i) == Moves(i, "queued", "sending") /\ UNCHANGED <<handed, accepted>>

Hand(i) ==
  /\ phase[i] = "sending" /\ handed[i] = 0
  /\ handed' = [handed EXCEPT ![i] = 1]
  /\ UNCHANGED <<phase, accepted>>

\* The provider answers to no one: it may take a message long after the send
\* was given up on.
Accept(i) ==
  /\ handed[i] = 1
  /\ accepted' = accepted \cup {i}
  /\ UNCHANGED <<phase, handed>>

Deliver(i) ==
  /\ i \in accepted
  /\ Moves(i, "sending", "delivered")
  /\ UNCHANGED <<handed, accepted>>

\* One send fails, or a restart fails all that were under way.
Fail(is) ==
  /\ \A i \in is : phase[i] = "sending"
  /\ phase' = [i \in Sends |-> IF i \in is THEN "failed" ELSE phase[i]]
  /\ UNCHANGED <<handed, accepted>>

Next ==
  \/ \E i \in Sends : Queue(i) \/ Take(i) \/ Hand(i) \/ Accept(i) \/ Deliver(i)
  \/ \E is \in SUBSET Sends : Fail(is)

Spec == Init /\ [][Next]_vars
=============================================================================
