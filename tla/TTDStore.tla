------------------------------ MODULE TTDStore ------------------------------
(***************************************************************************)
(* The vocabulary of the TTD server's Store interface (internal/api/api.go,*)
(* internal/store/store.go): its rows, the errors its methods return, and  *)
(* what a method gives back, the new state with an error.                  *)
(*                                                                         *)
(* A row is reduced to its keys, its references, the fields that methods   *)
(* change, and created_at (at).  Tables are functions from ids to rows.    *)
(***************************************************************************)
EXTENDS Integers, Sequences, FiniteSets

Put(table, id, row) == [x \in DOMAIN table \cup {id} |-> IF x = id THEN row ELSE table[x]]
Del(table, id) == [x \in DOMAIN table \ {id} |-> table[x]]

Empty == [x \in {} |-> x]

RowsIn(table) == {table[x] : x \in DOMAIN table}

\* A method returned nil, or an error and left everything as it was.
Ok(s) == [state |-> s, err |-> "nil"]
Fails(s, e) == [state |-> s, err |-> e]

\* The defaults that both stores fill in for an account.
WithDefaults(a) ==
    [a EXCEPT !.role = IF @ = "" THEN "user" ELSE @, !.status = IF @ = "" THEN "active" ELSE @]

\* ORDER BY not_before DESC LIMIT 1 and its loop in Go: with equal times, any of them.
Newest(certs) == {c \in certs : \A d \in certs : d.notBefore <= c.notBefore}
=============================================================================
