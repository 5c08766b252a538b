SPECIFICATION LiveSpec
CONSTANT Handlers = {"c1", "c2"}
INVARIANT TypeOK
INVARIANT NoDeadlock
INVARIANT StatusIsSnapshot
PROPERTY NoOvertaking
PROPERTY EveryoneFinishes
