--------------------------- MODULE MCSingBoxAdmin ---------------------------
(* Starts: an entry "a" bound to tunnel "x" as the program binds it; one   *)
(* bound by an older version; a second, unbound inbound in each.           *)
EXTENDS SingBoxAdmin

At(n) == [tun |-> n, port |-> 1]

Bound  == [inb |-> <<"a", "b">>, obs |-> [o \in {Ps("a")} |-> At("x")],
           rules |-> <<[inb |-> "a", user |-> NoUser, ob |-> Ps("a")]>>]
Legacy == [inb |-> <<"a", "b">>, obs |-> [o \in {Wg("x")} |-> At("x")],
           rules |-> <<[inb |-> "a", user |-> NoUser, ob |-> Wg("x")]>>]

MCStarts == {Bound, Legacy}
MCBound  == {Bound}
=============================================================================
