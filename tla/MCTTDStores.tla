----------------------------- MODULE MCTTDStores -----------------------------
(* Two accounts that contend for two e-mails, with one device between them. *)
EXTENDS TTDStores, TLC

CONSTANTS a1, a2, e1, e2, d1, n1, c1, c2, r1, k1

MCAccountIds == {a1, a2}
MCEmails == {e1, e2}
MCDeviceIds == {d1}
MCEnrollmentIds == {n1}
MCCertificateIds == {c1, c2}
MCPublicIds == {r1}
MCKeys == {k1}

Symmetry == Permutations(MCAccountIds) \cup Permutations(MCEmails) \cup Permutations(MCCertificateIds)
=============================================================================
