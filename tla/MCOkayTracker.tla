--------------------------- MODULE MCOkayTracker ---------------------------
(* Forests of N shares, numbered from the first share of a chain, in which   *)
(* at most one share is not an ordinary one.                                *)
EXTENDS OkayTracker

From(links) == [h \in Hash |-> links[h]]

(* One chain; two branches that fork at the first share; two forks; a long  *)
(* branch and a short one.                                                  *)
Forests == {From(<<0, 1, 2, 3, 4, 5>>), From(<<0, 1, 1, 2, 3, 3>>),
            From(<<0, 1, 2, 2, 4, 4>>), From(<<0, 1, 1, 2, 3, 4>>)}

OneKind(kinds) == {[h \in Hash |-> IF h = x THEN k ELSE "ok"] : x \in Hash, k \in kinds}

AnyKind == OneKind({"ok", "invalid", "excessive", "heavy", "block"})
=============================================================================
