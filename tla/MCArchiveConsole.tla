-------------------------- MODULE MCArchiveConsole --------------------------
(* Two requests at a time on one item: enough for two redemptions of one      *)
(* ticket, two assignments of one account, and every order of verifications   *)
(* and changes of what they read.  The three groups of handlers write nothing *)
(* another group reads, so a behaviour takes its steps from one group only;   *)
(* nor do two verifications, so they run one at a time.                       *)
EXTENDS ArchiveConsole, TLC

CONSTANTS r1, r2, i1, m1, m2, a1, o1, o2

VARIABLE group

MCRequests == {r1, r2}
MCVerifiers == {r1}
MCItems == {i1}
MCAdmins == {m1, m2}
MCAccounts == {a1}
MCOffices == {o1, o2}
MCDeep == BOOLEAN

Symmetry == Permutations(MCAdmins) \cup Permutations(MCOffices)

MCInit == Init /\ group \in {"verify", "access", "members"}

MCNext ==
    /\ \/ group = "verify" /\ VerifyNext
       \/ group = "access" /\ AccessNext
       \/ group = "members" /\ MemberNext
    /\ UNCHANGED group

MCSpec == MCInit /\ [][MCNext]_<<vars, group>>
=============================================================================
