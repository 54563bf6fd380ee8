SPECIFICATION Spec
CONSTANTS
  Projects <- MCProjects
PROPERTIES
  ImplementsMacroExpansion
CHECK_DEADLOCK FALSE
