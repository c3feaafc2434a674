\* The main thread and two others deliver two events, again and again, while
\* handlers fail and exit and the main thread may be interrupted.
SPECIFICATION Spec
CONSTANTS
    Threads = {main, t1, t2}
    Main = {main}
    Events = {e1, e2}
    NoEvent = NoEvent
    NoThread = NoThread
    MaxDeliveries = 5
    MaxExits = 2
SYMMETRY Alike
INVARIANTS
    OneAtWork
    HandledOnce
    DuplicatesAreAccounted
    InProgressIsHeld
