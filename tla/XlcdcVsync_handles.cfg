SPECIFICATION Spec
CONSTANTS
  Clients = {c1, c2, c3}
  MaxCbs = 3
  Usages = {{}}
  None = None
  Isr = Isr
INVARIANT HandleNamesItsCallback
