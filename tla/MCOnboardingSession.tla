------------------------ MODULE MCOnboardingSession ------------------------
(* Two scans of a host; a patch that creates a project, an ignore request,   *)
(* two confirmations, a session with a suggestion and a question, two      *)
(* messages and two configurations, of which a behaviour begins a few.       *)
EXTENDS OnboardingSession, TLC

CONSTANTS d1, d2, p1, i1, c1, c2, s1, a1, x1, m1, m2, u1, u2

Suggestions == [p \in Proposal |-> s1]
Questions == [x \in Question |-> s1]
Interchangeable == Permutations(Confirm) \cup Permutations(Message) \cup Permutations(Put)
=============================================================================
