------------------------------- MODULE MCTasks -------------------------------
(* Tasks on a small graph with every kind of task. *)
EXTENDS Tasks, TLC

CONSTANTS allOfNone, source1, source2, made, anyOf, innerBind, outerBind, mapped, allOf,
          val1, val2

AProgram ==
  <<allOfNone, source1, source2, made, anyOf, innerBind, outerBind, mapped, allOf>>

Kinds ==
  (allOfNone :> "all") @@ (source1 :> "source") @@ (source2 :> "source")
    @@ (made :> "create") @@ (anyOf :> "any") @@ (innerBind :> "bind")
    @@ (outerBind :> "bind") @@ (mapped :> "map") @@ (allOf :> "all")

\* mapped and allOf wait for outerBind, which may track innerBind, which may track
\* anyOf; or outerBind tracks source1, with which its callbacks are registered while
\* allOf awaits it.
AllArgs ==
  (allOfNone :> <<>>) @@ (source1 :> <<>>) @@ (source2 :> <<>>) @@ (made :> <<>>)
    @@ (anyOf :> <<source1, source2>>) @@ (innerBind :> <<made>>)
    @@ (outerBind :> <<source2>>) @@ (mapped :> <<outerBind>>)
    @@ (allOf :> <<outerBind, source1>>)

TwoValues == {val1, val2}

Types ==
  [t \in ToSet(AProgram) |->
     IF t = allOf THEN [1 .. 2 -> TwoValues] ELSE IF t = allOfNone THEN {<<>>} ELSE TwoValues]

Swap == (val1 :> val2) @@ (val2 :> val1)

Maps == (mapped :> Swap)

Bindings ==
  (innerBind :> ((val1 :> anyOf) @@ (val2 :> source1)))
    @@ (outerBind :> ((val1 :> innerBind) @@ (val2 :> source1)))
=============================================================================
