SPECIFICATION Spec
CONSTANTS
  Threads = {t1, t2}
  stmt = stmt
  ret = ret
  str = str
  Classes = {stmt, ret, str}
  Root = object
  Parent <- TreeParent
  Static <- TreeStatic
  Dynamic = 3
  None = None
INVARIANTS
  TypeOK
  IsFromAgrees
  NoWaitCycle
PROPERTIES
  InfoStable
  MutexReleased
