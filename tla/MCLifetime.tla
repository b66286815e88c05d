------------------------------ MODULE MCLifetime ------------------------------
(* Instances of Lifetime for TLC.  The wrappers other than the session are *)
(* interchangeable.                                                        *)
EXTENDS Lifetime, TLC

CONSTANTS s, o1, o2, o3

Symmetry == Permutations(Obj \ {Sess})

UseOf(blocking, kinds, ops) ==
    [blocking |-> blocking, kinds |-> kinds, ops |-> ops]

\* Orderly uses, with and without the collector, and one of everything.
AllUses ==
    {UseOf(TRUE, {"channel", "sftp", "handle", "listener"}, {}),
     UseOf(TRUE, {"channel", "sftp", "listener"}, {"gc"}),
     UseOf(FALSE, {"channel", "sftp", "pkey", "listener"}, {"gc"}),
     UseOf(FALSE, WrapperKinds, OpKinds)}

\* Handles that the collector finds together with their SFTP object.
GcHandleUses == {UseOf(TRUE, {"sftp", "handle"}, {"gc"})}

\* SFTP sessions of a connection that the server ends.
SftpUses == {UseOf(TRUE, {"sftp"}, {})}
===============================================================================
