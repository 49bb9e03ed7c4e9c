\* Selections that the walk of a file does not see.
SPECIFICATION Spec
CHECK_DEADLOCK FALSE
CONSTANT Files <- HiddenFiles
INVARIANT FindsEachSelection
