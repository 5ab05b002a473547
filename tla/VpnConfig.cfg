SPECIFICATION Spec
CONSTANT MaxLines = 9
INVARIANTS ParsesAsMeant PinsOnlyHosts
CONSTRAINT OneOdd
