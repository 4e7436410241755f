------------------------------ MODULE MCLayout ------------------------------
(***************************************************************************)
(* Layout on small files: one in the form the tool writes, one written by  *)
(* hand over a marker line, with an entry on two lines and a flow-style    *)
(* line shared by the coverage block and its only kind, and one whose      *)
(* second binding is an alias of the locators of the first.                *)
(***************************************************************************)
EXTENDS Layout

RankMC == "ENTITY-A" :> 1 @@ "ENTITY-B" :> 2 @@ "API" :> 3 @@ "INV" :> 4

(* What a line of a comment can be: text, text and a space, nothing, only  *)
(* spaces, only the space of the leader.                                   *)
TrimMC == "c" :> "c" @@ "d" :> "d" @@ "c " :> "c" @@ "" :> "" @@ "  " :> "" @@ " " :> ""

SmallComments == UNION {[1..n -> Range(TrimMC)] : n \in 1..4}
UnwritableMC == {c \in SmallComments : c[1] = "" \/ c[Len(c)] = ""}
UncleanMC == {<<"c ">>}
TextsMC == {<<"d">>, <<"d", "", "c">>, <<"c ">>}

Bound(id, locators, fields) == Binding(id, "u", None, locators, fields, None)
P == Entry("p", "u", None)
F == Entry("f", "u", None)
A == Anchor("binding", "ENTITY-A", None)
AP == Anchor("locator", "ENTITY-A", "p")
B == Anchor("binding", "ENTITY-B", None)
BP == Anchor("locator", "ENTITY-B", "p")
Coverage == Anchor("coverage", None, None)
Kind == Anchor("curated", None, "API")

OneEach ==
    [EmptyMap EXCEPT !.bindings = <<Bound("ENTITY-A", <<P>>, <<F>>)>>,
                     !.coverage = [EmptyCoverage EXCEPT !.curated = <<Entry("API", "u", None)>>]]

(* In the wrong order, so that format moves the bindings.                  *)
TwoBindings ==
    [EmptyMap EXCEPT !.bindings = <<Bound("ENTITY-B", <<P>>, None), Bound("ENTITY-A", <<>>, None)>>,
                     !.coverage = [EmptyCoverage EXCEPT !.fully_bound = <<"INV">>,
                                     !.curated = <<Entry("API", "u", None)>>]]

TwoFile ==
    <<KeyLine, BlankLine, KeyLine, BlankLine, AnchorLine(B), KeyLine, AnchorLine(BP), BlankLine,
      AnchorLine(A), KeyLine, BlankLine, AnchorLine(Coverage), KeyLine, KeyLine, AnchorLine(Kind)>>

Flow ==
    [EmptyMap EXCEPT !.bindings = <<Bound("ENTITY-A", <<P>>, None)>>,
                     !.coverage = [EmptyCoverage EXCEPT !.curated = <<Entry("API", "u", None)>>]]

FlowFile ==
    <<Marker, KeyLine, KeyLine, AnchorLine(A), KeyLine,
      TextLine(<<AP>>, <<>>), TextLine(<<>>, <<AP>>), TextLine(<<Coverage, Kind>>, <<Coverage, Kind>>)>>

Shared == [EmptyMap EXCEPT !.bindings =
             <<Bound("ENTITY-A", <<P>>, None), Bound("ENTITY-B", <<P>>, None)>>]

(* `locators: &l` with its one entry, then `locators: *l`.                 *)
AliasFile ==
    <<KeyLine, KeyLine, AnchorLine(A), KeyLine,
      Line("text", {AP}, <<AP, BP>>, <<AP, BP>>, None), AnchorLine(B), KeyLine>>

AsWritten(m) == [map |-> m, file |-> Emit(m)]
Canonical == {AsWritten(OneEach)}
Files == {AsWritten(OneEach), [map |-> TwoBindings, file |-> TwoFile],
          [map |-> Flow, file |-> FlowFile]}
Aliased == {[map |-> Shared, file |-> AliasFile]}
=============================================================================
