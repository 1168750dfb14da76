CONSTANTS
  Classes <- TheClasses
  Interfaces <- TheInterfaces
  NoClass = "none"
  Programs <- AllPrograms
SPECIFICATION Spec
INVARIANTS
  MethodCallsDispatch
  InterfacesReached
  Compiles
