SPECIFICATION StatSpec
CONSTANT W = 5
INVARIANTS SampleInv ShownIsTrue ShownIsAFraction
