------------------------------ MODULE MCShamir ------------------------------
(* Split and Combine on small sizes with all selections of parts, and at the *)
(* limits of the sizes with all parts.                                       *)
EXTENDS Shamir

\* div is linear in its first argument: the powers of 2 stand for all of them.
MCDividends == {0, 83, 255} \cup {2^i : i \in 0..7}

MCSecrets == {<<>>, <<0>>, <<83>>, <<255, 1>>}

MCSizes == {<<1, 2>>, <<2, 1>>, <<2, 2>>, <<3, 2>>, <<3, 3>>, <<4, 3>>,
            <<255, 254>>, <<255, 255>>, <<255, 256>>, <<256, 2>>, <<256, 256>>}

\* 7 and 255 are coprime.
MCPerms == {[i \in 1..255 |-> (7 * i + s) % 255] : s \in {0, 241, 254}}

MCRandoms == {<<0>>, <<1, 202>>, <<255, 0, 128>>}
=============================================================================
