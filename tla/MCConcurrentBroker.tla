------------------------- MODULE MCConcurrentBroker -------------------------
(***************************************************************************)
(* Threads on the broker of MCBroker.  They run the same code on calls     *)
(* drawn from the same set, so permuting them changes nothing.             *)
(***************************************************************************)
EXTENDS ConcurrentBroker, MCBroker, TLC

CONSTANTS t1, t2

MCThread == {t1, t2}

\* An observation, a mutation that the policy blocks, one effect that is not
\* declared, and a declared but unregistered declassification, which leaves the
\* automaton where it is: one effect per branch of submit.
MixedEffects ==
    { [Obs EXCEPT !.target = "crm"], Send(HIGH), Undeclared, Decl("declassify_mask") }

\* One effect that moves the automaton and one that leaves it where it is.
StepEffects == { [Obs EXCEPT !.target = "crm"], Decl("declassify_bucket") }

ThreadSymmetry == Permutations(MCThread)
=============================================================================
