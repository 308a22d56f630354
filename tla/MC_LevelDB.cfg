\* SkipList, BlockBuilder, Hash and log::Reader, one unit per behaviour (see MC_LevelDB).
SPECIFICATION Spec
INVARIANTS TypeOK Structure NoOverread SearchCorrect DecodesBack RestartPoints HashMatchesReference ReadsBack NoReportsFromStart NoSplice
PROPERTIES SearchTerminates
\* Hash returns after its switch, and the client stops calling ReadRecord
\* once it returns false: a behaviour running either ends there.
CHECK_DEADLOCK FALSE
