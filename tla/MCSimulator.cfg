SPECIFICATION SimSpec
INVARIANTS LedgerExact NeverUnderestimates OraclesOptimal GeneratedIsAccepted
PROPERTIES GroupIsAtomic
CHECK_DEADLOCK FALSE
