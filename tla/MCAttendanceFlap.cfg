SPECIFICATION Spec
CONSTANT Settings <- MCFlap
PROPERTY FlapVoteStays
CHECK_DEADLOCK FALSE
