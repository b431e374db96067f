-------------------------- MODULE MCCommandQueue --------------------------
(* Small instances of CommandQueue. *)
EXTENDS CommandQueue, TLC

\* The first two rows carry one verb for one bot.
MCKeyOf2 == [r \in Rows |-> "bot.verb"]
MCKeyOf3 == [r \in Rows |-> IF r = 2 THEN NoKey ELSE "bot.verb"]
MCAnswers == {"delivered", "verifying"}
MCReadBacks == {"applied", "unchanged"}
MCApplied == {"applied"}

Interchangeable == Permutations(Servers) \cup Permutations(Tokens)

=============================================================================
