------------------------------ MODULE MCSessions ------------------------------
EXTENDS SessionRegistry, TLC
CONSTANTS s1, s2, acc1, acc2, id1, id2, id3, req1, req2, t1, t2, head, tail1, tail2

Symmetric == Permutations(Objects) \cup Permutations(Accounts)
                \cup Permutations(Ids) \cup Permutations(Requests) \cup Permutations(Tasks)
                \cup Permutations(Heads) \cup Permutations(Tails)

(* An object that nobody refers to is garbage, whatever is in it. *)
WithoutGarbage ==
    <<control, registry, [s \in Objects |-> IF Referred(s) THEN session[s] ELSE Fresh],
      task, starts, closer, {s \in lost : Open(s)}, {s \in late : Open(s)}>>
==============================================================================
