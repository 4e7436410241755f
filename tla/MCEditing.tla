----------------------------- MODULE MCEditing -----------------------------
(***************************************************************************)
(* Editing on small instances.  Each run gives commands the keys of some   *)
(* of the lists, so that the others stay empty: three bindings and their   *)
(* order, one binding with all its entries, the coverage block.            *)
(***************************************************************************)
EXTENDS Editing, TLC

RankMC == "ENTITY-A" :> 1 @@ "ENTITY-B" :> 2 @@ "ENTITY-C" :> 3
            @@ "API" :> 4 @@ "ENTITY" :> 5 @@ "INV" :> 6
            @@ "x" :> 7 @@ "y" :> 8

Stub(id) == Binding(id, "u", None, <<>>, None, None)

FromInit == {EmptyMap}

(* Written by hand in another order, with a comment at the top.            *)
ByHand == {EmptyMap,
           [EmptyMap EXCEPT !.header = "c",
              !.bindings = <<Stub("ENTITY-B"), Stub("ENTITY-A")>>]}

OneStub == {[EmptyMap EXCEPT !.bindings = <<Stub("ENTITY-A")>>]}

Body(locators, fields, assertedBy) ==
    [value |-> "u", comment |-> None, locators |-> locators, fields |-> fields,
     asserted_by |-> assertedBy]

P(c) == Entry("p", "u", c)
Q == Entry("q", "u", None)

(* A new stub, one with a comment, and one with trailing whitespace in it. *)
StubBodies == {Body(<<>>, None, None), [Body(<<>>, None, None) EXCEPT !.comment = "c"],
               [Body(<<>>, None, None) EXCEPT !.comment = "c "]}

(* All three lists, in an order of their own; a duplicate locator; present *)
(* but empty blocks; a duplicate assertion; an unclean comment inside.     *)
EntryBodies ==
    LET x == Entry("x", "u", "c")
        y == Entry("y", "u", None)
    IN  {Body(<<Q, P("c")>>, <<Entry("g", "v", "c")>>, <<y, x>>),
         Body(<<P("c"), P(None)>>, None, None), Body(<<P("c ")>>, None, None),
         Body(<<>>, <<>>, None), Body(<<>>, None, <<>>), Body(<<>>, None, <<x, x>>)}
=============================================================================
