------------------------------ MODULE MCSocial ------------------------------
EXTENDS Social, TLC

CONSTANTS a, b, c1, c2

MCUsers == {a, b}
MCCalls == {c1, c2}
\* Every request between two accounts, and those the code refuses.
MCRequests == {r \in Call : IF r.kind = "list" THEN r.user = r.target
                                               ELSE r.user # r.target \/ r.kind \in {"follow", "block"}}
MCSymmetry == Permutations(MCUsers) \cup Permutations(MCCalls)
=============================================================================
