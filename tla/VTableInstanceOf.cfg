CONSTANTS
  Classes <- TheClasses
  Interfaces <- TheInterfaces
  NoClass = "none"
  Programs <- Implementing
SPECIFICATION Spec
INVARIANTS
  InstanceOfFirst
