------------------------------ MODULE MCWebQr ------------------------------
(* WebQr for TLC. *)
EXTENDS WebQr, TLC

(* Bounds: a code is asked for in the first unit of time (later ones are the *)
(* same run shifted), and a history is about one of the two ways in.        *)
OneStory ==
    \A c \in Codes : record[c] # NoRec =>
        /\ record[c].ts = 1
        /\ \A u \in Users : fails[u] = 0
        /\ \A t \in Tickets : ticket[t] # NoRec => ticket[t].via = "qr"

Symmetry == Permutations(Codes) \cup Permutations(Tickets)
            \cup Permutations(Users) \cup Permutations(Requests)
=============================================================================
