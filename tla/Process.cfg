\* Three listeners: one fails first, one fails while it drains, one is clean.
SPECIFICATION ProcessSpec
CONSTANTS
  l1 = l1
  l2 = l2
  l3 = l3
  Listeners = {l1, l2, l3}
  ArgLists <- CommandLines
  Servers <- ServerOrder
INVARIANTS ProcessIsAllOrNothing ReloadPathAgrees
PROPERTIES StopEndsProcess ServeAllImplementsContract
