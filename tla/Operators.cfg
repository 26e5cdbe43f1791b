SPECIFICATION SumSpec
CHECK_DEADLOCK FALSE
INVARIANTS
  RearrangersCorrect JoinsCorrect AggregatesCorrect PacketsIntact PipelinesSound  ExpressionsExact
  PluginsExact
PROPERTIES
  OperatorsFinish
