----------------------------- MODULE MCKnownHosts -----------------------------
(* Instances of KnownHosts for TLC. *)
EXTENDS KnownHosts, TLC

CONSTANTS a1, a2, a3, h, i2, k, l

\* Any memory is as good as any other.
Symmetry == Permutations(Addr)

Arg(form, name, type, key, enc, len) ==
    [form |-> form, name |-> name, type |-> type, key |-> key, enc |-> enc, len |-> len]

\* Lines of ordinary length, of the greatest that fits a buffer, and longer.
MCArgs ==
    { Arg("plain", <<h, -1>>, "rsa", <<0, k>>, "raw", 3),
      Arg("plain", <<h, 22>>, "rsa", <<0, l>>, "raw", FileBuf - 1),
      Arg("sha1", <<h, -1>>, "ed25519", <<1, k>>, "base64", FileBuf),
      Arg("plain", <<h, -1>>, "unknown", <<1, l>>, "base64", 3),
      Arg("custom", <<h, -1>>, "rsa", <<1, l>>, "raw", 3),
      Arg("plain", <<h, -1>>, "none", <<1, l>>, "base64", 3) }

Line(kind, names, type, key, len) ==
    [kind |-> kind, form |-> "plain", names |-> names, type |-> type, key |-> key,
     len |-> len]
One == Line("hosts", <<<<h, 22>>>>, "rsa", <<1, k>>, 3)
Two == Line("hosts", <<<<h, -1>>, <<h, 22>>>>, "unknown", <<1, l>>, 3)
Short == Line("hosts", <<<<i2, -1>>>>, "rsa", <<1, k>>, 3)
Comment == Line("skip", <<>>, "rsa", <<1, k>>, 3)
Bad == Line("bad", <<>>, "rsa", <<1, k>>, 3)
\* Of the longest line that is read whole, and of the next longer one.
Brim == Line("hosts", <<<<h, -1>>>>, "rsa", <<1, l>>, FileBuf)
Long == Line("hosts", <<<<h, -1>>>>, "rsa", <<1, l>>, FileBuf + 1)

MCLines == {Two, Bad}
MCFiles == {<<>>, <<Comment, Two>>, <<One, Short>>, <<One, Bad>>, <<Brim, One>>, <<Long, One>>}

MCQueries ==
    [host : {h, i2}, port : {-1}, form : {"plain"}, key : {<<1, k>>}, enc : {"base64"},
     type : {"none"}]
    \cup
    [host : {h}, port : {22}, form : {"plain", "custom"}, key : {<<0, k>>, <<1, l>>},
     enc : {"raw"}, type : {"rsa", "none"}]
    \cup
    [host : {h}, port : {-1}, form : {"plain", "sha1"}, key : {<<1, l>>}, enc : {"base64"},
     type : {"unknown", "none"}]
===============================================================================
