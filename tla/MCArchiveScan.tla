--------------------------- MODULE MCArchiveScan ----------------------------
(* Instances of ArchiveScan for TLC.                                       *)
EXTENDS ArchiveScan

CONSTANTS z, a, b, c

Plain(size) ==
  [kind |-> "plain", size |-> size, form |-> "regular", name |-> "plain", members |-> << >>]
Archive(kind, form, members) ==
  [kind |-> kind, size |-> 1, form |-> form, name |-> "archive",
   members |-> IF kind = "plain" THEN << >> ELSE members]

(* z holds a and b, and b, an archive itself, holds c ...                  *)
Nested ==
  {(z :> Archive(k1, "regular", <<a, b>>)) @@ (b :> Archive(k2, f, <<c>>))
     @@ (a :> [Plain(1) EXCEPT !.form = g]) @@ (c :> Plain(n)) :
       k1 \in ArchiveKinds, k2 \in Kinds, f \in {"regular", "unsupported"},
       g \in Forms, n \in {0, 2}}

(* ... in another order, with nothing in z, and with z inside itself.      *)
Odd ==
  {(z :> Archive(k, "regular", m)) @@ (b :> Archive("tar_archive", "regular", <<c>>))
     @@ (a :> Plain(0)) @@ (c :> Plain(1)) :
       k \in Kinds, m \in {<< >>, <<b, a>>, <<a, z>>, <<z>>}}

(* An archive that is too deep to be opened.                               *)
Deep ==
  {(z :> Archive(k, "regular", <<b>>)) @@ (b :> Archive("zip_archive", "regular", <<c>>))
     @@ (c :> Archive("tar_archive", "regular", <<a>>)) @@ (a :> Plain(1)) :
       k \in ArchiveKinds}

(* Two members of one name: a is never opened, and b twice.                *)
Doubles ==
  {(z :> Archive(k1, "regular", <<a, b>>)) @@ (b :> Archive(k2, f, <<c>>))
     @@ (a :> [Plain(1) EXCEPT !.name = "archive"]) @@ (c :> Plain(0)) :
       k1 \in ArchiveKinds, k2 \in {"plain", "zip_archive"}, f \in Forms}

PasswordsAreInZips(t) ==
  \A n \in Nodes : t[n].kind # "zip_archive" =>
    \A k \in DOMAIN t[n].members : t[t[n].members[k]].form # "password"

TestTrees == {t \in Nested \cup Odd \cup Deep \cup Doubles : PasswordsAreInZips(t)}

TestModes == {<<"ask", FALSE>>, <<"move", FALSE>>}
=============================================================================
