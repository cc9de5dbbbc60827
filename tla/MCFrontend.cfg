CONSTANTS
  Compilations = {1, 2}
  Sources <- MCSources
  Stem <- MCStem
  FieldMinFlags <- MCFlags
  MaxDepth = 6
  NoGraph = NoGraph
SPECIFICATION Spec
INVARIANTS MeansSource FailsOnlyWithoutReturn ConstantsStayApart EveryFieldNumbered OwnResult
PROPERTY ImplementsPcFile
