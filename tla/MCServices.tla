----------------------------- MODULE MCServices -----------------------------
(* The services on small instances; README.md explains the bounds.         *)
EXTENDS Services, MCCalendar

(* The browser: two links and two buttons that differ by target or by      *)
(* permission only, and a text box; three layouts of a page.               *)
Element(kind, label, href, allowed) ==
  [kind |-> kind, label |-> label, href |-> href, placeholder |-> {},
   shape |-> <<kind, "", "">>, allowed |-> allowed]
Read == Element("link", {"read", "more"}, "/a", TRUE)
Also == Element("link", {"read", "more"}, "/b", TRUE)
Save == Element("button", {"draft"}, "", TRUE)
Gone == Element("button", {"draft"}, "", FALSE)
Note == [Element("textbox", {"note"}, "", TRUE) EXCEPT !.placeholder = {"type"}]
MCCatalog == {Read, Also, Save, Gone, Note}
MCDoms == {<<Read, Save>>, <<Also, Gone>>, <<Note, Read>>}

MCKindOf(k) == IF k = "t" THEN "relation" ELSE "decision"

(* Texts as the widths of their lines: two chunks, a chunk of one wide     *)
(* line, a secret, nothing, and a file that is too large.                  *)
MCBelow(r) == IF r = "all" THEN {1, 2} ELSE {1}
MCTexts == {<<1, 2, 1>>, <<2, 5, 1, 1>>, <<3>>, <<>>, <<9>>}
MCSecret(t) == t = <<3>>
MCTooLarge(t) == t = <<9>>

MCByApi == <<1, 2>>
MCByName == <<2>>

=============================================================================
