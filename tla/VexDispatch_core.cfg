\* Every opcode of every branch, in maps 1 to 3, with every prefix and operand form.
SPECIFICATION Spec
CONSTANT Instructions <- MCInstructions
INVARIANTS TypeOK OwnUnlessShadowed RipMovesByTheLength RipRelativeFromTheEnd
PROPERTY HalvesFollowTheDestination
