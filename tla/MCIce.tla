------------------------------- MODULE MCIce --------------------------------
(* Ice with two browsers that lay out their requests differently. *)
EXTENDS Ice

CONSTANTS c1, c2

(* Addresses 5 and 9, and the cookie 6. *)
MCAddress == (c1 :> {0, 2}) @@ (c2 :> {0, 3})
MCMagic == {1, 2}
MCShape ==
    (c1 :> <<Attr("USERNAME", 9, 0), Attr("PRIORITY", 4, 0)>>) @@
    (c2 :> <<Attr("SOFTWARE", 3, 0), Attr("USE-CANDIDATE", 0, 0), Attr("USERNAME", 9, 0)>>)
=============================================================================
