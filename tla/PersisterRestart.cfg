SPECIFICATION Spec
CONSTANT MaxTerm = 2
PROPERTY RestartRestores
