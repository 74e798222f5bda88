--------------------------- MODULE MCRefResolver ---------------------------
(* RefResolver on three fragments of one document. *)
EXTENDS RefResolver

CONSTANTS a, ra, rb, rc

\* What "spec", ra and rb refer to; rc leads to ra, and nothing leads to rc.
Text(spec, ofRa, ofRb) ==
    [r \in {ra, rb, rc, "spec"} |->
        IF r = "spec" THEN spec
        ELSE IF r = ra THEN ofRa ELSE IF r = rb THEN ofRb ELSE <<ra>>]

SameUrl == [r \in {ra, rb, rc} |-> a]

\* One fragment leads to the other, and in one case back in a circle.
ChainOrCircle == {
    Text(<<ra>>, <<rb, "local">>, << >>),
    Text(<<ra>>, <<rb>>, <<ra>>)}

\* Beside references that go away, one with a description beside it.
WithSibling == {Text(<<"sibling", ra>>, <<rb, "local">>, << >>)}
=============================================================================
