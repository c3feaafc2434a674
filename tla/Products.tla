------------------------------ MODULE Products ------------------------------
(***************************************************************************)
(* What the spatial tables promise their readers: a catalogue of derived    *)
(* products, one per input, that grows by one complete product at a time    *)
(* and in which no product ever changes.                                    *)
(***************************************************************************)

CONSTANTS
    Inputs,             \* what a product is made from: a fingerprint
    Contents(_)         \* Contents(i): what the product of i may consist of

VARIABLE products       \* input -> what a reader gets

Init == products = <<>>

Derive(i) ==
    /\ i \in Inputs \ DOMAIN products
    /\ \E c \in Contents(i) :
           products' = [k \in DOMAIN products \cup {i} |-> IF k = i THEN c ELSE products[k]]

Next == \E i \in Inputs : Derive(i)

Spec == Init /\ [][Next]_products
=============================================================================
