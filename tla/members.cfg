\* Every way to bind a variable, every way to select through it.
\* The walk of a file ends: deadlock is not checked.
SPECIFICATION Spec
CHECK_DEADLOCK FALSE
CONSTANT Files <- SomeFiles
INVARIANT TypeOK
INVARIANT UsesExact
