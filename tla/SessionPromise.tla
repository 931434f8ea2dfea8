--------------------------- MODULE SessionPromise ----------------------------
(***************************************************************************)
(* What a session of the signaling server promises to the browser and to   *)
(* the threads that share its conductor, without the threads: it goes      *)
(* through its life once, it speaks to the browser only while it runs, it  *)
(* answers at most once, and its candidates follow the answer.             *)
(***************************************************************************)
EXTENDS Sequences

CONSTANT Session

VARIABLES life,   \* "none", "starting", "running" or "ended"
          sent    \* what was sent to the browser

vars == <<life, sent>>

Init ==
  /\ life = [s \in Session |-> "none"]
  /\ sent = [s \in Session |-> <<>>]

Become(s, before, after) ==
  /\ life[s] \in before
  /\ life' = [life EXCEPT ![s] = after]
  /\ UNCHANGED sent

Create(s) == Become(s, {"none"}, "starting")
Run(s)    == Become(s, {"starting"}, "running")
End(s)    == Become(s, {"starting", "running"}, "ended")

Answer(s) ==
  /\ life[s] = "running" /\ sent[s] = <<>>
  /\ sent' = [sent EXCEPT ![s] = <<"answer">>]
  /\ UNCHANGED life

Candidate(s) ==
  /\ life[s] = "running" /\ sent[s] # <<>>
  /\ sent' = [sent EXCEPT ![s] = Append(@, "candidate")]
  /\ UNCHANGED life

Next == \E s \in Session :
          Create(s) \/ Run(s) \/ End(s) \/ Answer(s) \/ Candidate(s)

Spec == Init /\ [][Next]_vars
=============================================================================
