---------------------------- MODULE MCAuthoring ----------------------------
(***************************************************************************)
(* Two titles: "go", whose suffixed slug is taken too at the start, so an  *)
(* attempt collides until a rename or a deletion frees one of them, and    *)
(* "emoji", which has no letters and gets a random slug.                   *)
(***************************************************************************)
EXTENDS Authoring

CONSTANTS ann, bob, root, r1, r2, r3

MCTitles == {"go", "emoji"}
MCSlugs == {"go", "go-x", "post-x", "longer"}
MCSlugify == [t \in MCTitles |-> IF t = "go" THEN {"go"} ELSE {"post-x"}]
MCWithSuffix == [s \in MCSlugs |-> CASE s = "go" -> {"go-x"}
                                     [] OTHER -> {"longer"}]
MCUsers == {ann, bob, root}
MCAdmins == {root}

Row(state, author, title, slug, status) ==
    [state |-> state, author |-> author, title |-> title, slug |-> slug,
     status |-> status,
     published |-> IF status = "published" THEN "seed" ELSE "null"]

\* A published post with the wanted slug, a draft, and room for new posts.
MCSeed == [p \in Posts |->
             CASE p = 1 -> Row("live", ann, "go", "go", "published")
               [] p = 2 -> Row("live", ann, "go", "go-x", "draft")
               [] OTHER -> Row("absent", None, None, None, "draft")]

\* An update that meets another update or a deletion, and a creation.
Work == [r \in Requests |-> CASE r = r1 -> {"update"}
                              [] r = r2 -> {"update", "delete"}
                              [] OTHER  -> {"create"}]
Actors == [r \in Requests |-> CASE r = r1 -> ann [] r = r2 -> root [] OTHER -> bob]
=============================================================================
