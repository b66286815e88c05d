----------------------------- MODULE MCTransportIn -----------------------------
(* Streams for TLC. *)
EXTENDS TransportIn

WayOf(enc, etm, full, integ, tag) ==
    [enc |-> enc, etm |-> etm, full |-> full, integ |-> integ, laad |-> integ,
     block |-> 8, tag |-> tag]

Clr == WayOf(FALSE, FALSE, FALSE, FALSE, 0)
ClrFull == WayOf(FALSE, FALSE, TRUE, FALSE, 0)  \* the next cipher is known
Mac == WayOf(TRUE, FALSE, FALSE, FALSE, 5)
Etm == WayOf(TRUE, TRUE, FALSE, FALSE, 5)
Gcm == WayOf(TRUE, FALSE, FALSE, TRUE, 8)
Poly == WayOf(TRUE, FALSE, TRUE, FALSE, 3)

Packets(w, sizes) == [k \in DOMAIN sizes |-> [way |-> w, size |-> sizes[k]]]

\* An unprotected packet, then protected ones of two lengths; and the
\* shortest and a longer one.
MCUses ==
    UNION { {Packets(Clr, <<3>>) \o Packets(w, <<1, 9>>),
             Packets(w, <<12, 1>>), Packets(w, <<20, 7>>)} : w \in {Mac, Etm, Gcm, Poly} }
    \cup {Packets(ClrFull, <<10, 1>>) \o Packets(Poly, <<1>>), Packets(Clr, <<1, 12>>)}

\* The server's cipher has an integrated MAC, the client's has not.
MixedUses == {Packets([Gcm EXCEPT !.laad = FALSE], <<1, 9>>)}
================================================================================
